----------------------------- MODULE FileStore -----------------------------
(***************************************************************************)
(* What the file system of Pintos promises its clients: a flat directory   *)
(* of files of fixed length that keep what was written to them.  A file    *)
(* exists while it is named or open.  Creation and removal are atomic, a   *)
(* write is atomic sector by sector, and losing the machine at any moment  *)
(* loses nothing but the files that were open without a name.              *)
(***************************************************************************)
EXTENDS Integers, Sequences, FiniteSets

CONSTANTS
  Name,        \* file names
  Length,      \* lengths a file can have
  Byte,        \* what clients write; a new file holds zeros
  SectorSize   \* bytes that are written at once

VARIABLES
  dir,         \* the file each name in use stands for
  content,     \* the bytes of each existing file
  open         \* the files some client has open

Exists(d, o) == {d[n] : n \in DOMAIN d} \cup o

Init == dir = <<>> /\ content = <<>> /\ open = {}

Create(n, f, len) ==
  /\ n \notin DOMAIN dir
  /\ f \notin DOMAIN content
  /\ dir' = [x \in DOMAIN dir \cup {n} |-> IF x = n THEN f ELSE dir[x]]
  /\ content' = [x \in DOMAIN content \cup {f} |->
                   IF x = f THEN [i \in 1..len |-> 0] ELSE content[x]]
  /\ UNCHANGED open

\* Some files are opened or closed, or their name goes: the others stay.
Keep(d, o) ==
  /\ dir' = d
  /\ open' = o
  /\ content' = [f \in Exists(d, o) |-> content[f]]

Unlink(n) ==
  /\ n \in DOMAIN dir
  /\ Keep([x \in DOMAIN dir \ {n} |-> dir[x]], open)

OpenFile(n) == n \in DOMAIN dir /\ Keep(dir, open \cup {dir[n]})

CloseFile(f) == Keep(dir, open \ {f})

Halt == Keep(dir, {})

\* Clients' bytes replace some of the bytes of one sector of an open file.
Write(f) ==
  /\ UNCHANGED <<dir, open>>
  /\ DOMAIN content' = DOMAIN content
  /\ \A g \in DOMAIN content \ {f} : content'[g] = content[g]
  /\ LET old == content[f]
         new == content'[f]
         changed == {i \in DOMAIN old : new[i] # old[i]}
     IN  /\ DOMAIN new = DOMAIN old
         /\ \A i \in changed : new[i] \in Byte
         /\ \A i, j \in changed : (i - 1) \div SectorSize = (j - 1) \div SectorSize

Next ==
  \/ \E n \in Name : n \in DOMAIN dir' /\ \E len \in Length : Create(n, dir'[n], len)
  \/ \E n \in DOMAIN dir : Unlink(n) \/ OpenFile(n)
  \/ Halt
  \/ \E f \in open : CloseFile(f) \/ Write(f)

Spec == Init /\ [][Next]_<<dir, content, open>>
=============================================================================
