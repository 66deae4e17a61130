------------------------------ MODULE FileSys ------------------------------
(***************************************************************************)
(* The file system of Pintos: the free map (filesys/free-map.c), inodes    *)
(* (inode.c), the root directory (directory.c), open files (file.c) and    *)
(* the calls that combine them (filesys.c), on a disk that survives a loss *)
(* of power at any moment.                                                 *)
(*                                                                         *)
(* A sector is a sequence of SectorSize cells.  A cell is the unit in      *)
(* which a file is read and written: a byte of a client's file, an entry   *)
(* of the root directory, or an element of the bitmap in the free map      *)
(* file.  An inode fills its sector.                                       *)
(*                                                                         *)
(* One client uses the file system at a time.  A call is therefore one     *)
(* action: it computes the memory the call leaves behind and the block     *)
(* writes it issues, in order.  The writes then reach the disk one at a    *)
(* time, and the machine can be lost between any two of them.              *)
(*                                                                         *)
(* The C functions are operators on a record m of the state they read and  *)
(* change:                                                                 *)
(*   disk, log   the disk as the call sees it, and the writes that made it *)
(*   map         free_map: the sectors marked as used                      *)
(*   inodes      open_inodes: the struct inode of each open sector         *)
(*   mapfile     free_map_file is not NULL                                 *)
(*   fail        the number of the allocation that fails, counted down     *)
(*   panic       "no", or why the kernel stopped                           *)
(***************************************************************************)
EXTENDS Integers, Sequences, SequencesExt, FiniteSets, FiniteSetsExt

CONSTANTS
  SectorCount,   \* block_size (fs_device)
  SectorSize,    \* cells in a sector
  BitsPerCell,   \* sectors one cell of the free map file stands for
  EntryCount,    \* entries of the root directory; the code has 16
  ValidName,     \* names that fit a directory entry
  BadName,       \* names that are empty or too long
  Length,        \* initial sizes clients ask for
  Data,          \* buffers clients write
  Handle,        \* struct file objects clients hold
  Position,      \* positions clients seek to
  Failing,       \* places whose memory allocation can fail
  MaxFail,       \* bound: which allocation of a call can fail; 0 is none
  MaxBoots,      \* bound: how often the machine starts
  MaxCalls       \* bound: how many calls clients make

Sector == 0 .. SectorCount - 1
FREE_MAP_SECTOR == 0
ROOT_DIR_SECTOR == 1

VARIABLES
  disk,        \* the contents of each sector
  formatted,   \* do_format has completed on this disk
  mode,        \* "off", "on", or the panic that stopped the kernel
  free_map,    \* the sectors marked in the free map in memory
  inodes,      \* open_inodes
  files,       \* the open struct files, by handle
  pending,     \* block writes the current call has still to issue
  boots,       \* how often the machine was started
  calls        \* how many calls clients made

memory == <<free_map, inodes, files>>
vars == <<disk, formatted, mode, memory, pending, boots, calls>>

Zero == <<"zero">>
ZeroSector == [i \in 1..SectorSize |-> Zero]
InodeDisk(start, length) ==
  [ZeroSector EXCEPT ![1] = <<"inode", start, length>>]
Entry(name, sector, in_use) == <<"entry", name, sector, in_use>>

Extent(s, n) == s .. s + n - 1

bytes_to_sectors(size) == (size + SectorSize - 1) \div SectorSize

-----------------------------------------------------------------------------
(* Memory allocation.  The fail-th allocation of a call, among those at    *)
(* the places in Failing, returns a null pointer.                          *)

Fails(m, place) == place \in Failing /\ m.fail = 1
Asked(m, place) == IF place \in Failing THEN [m EXCEPT !.fail = @ - 1] ELSE m

Panic(m, why) == IF m.panic = "no" THEN [m EXCEPT !.panic = why] ELSE m

\* block_write, with check_sector.  A kernel that has stopped writes nothing.
BlockWrite(m, s, c) ==
  IF m.panic # "no" THEN m
  ELSE IF s \notin Sector THEN Panic(m, "assert")
  ELSE [m EXCEPT !.disk[s] = c, !.log = Append(@, <<s, c>>)]

-----------------------------------------------------------------------------
(* inode_read_at and inode_write_at.                                       *)

\* The sectors of a file, in order, that hold its n cells from ofs on.
Chunks(ofs, n) ==
  IF n = 0 THEN <<>>
  ELSE [k \in 1 .. (ofs + n - 1) \div SectorSize - ofs \div SectorSize + 1 |->
          ofs \div SectorSize + k - 1]

IsWhole(k, ofs, n) == ofs <= k * SectorSize /\ (k + 1) * SectorSize <= ofs + n

\* Mutant: a transfer does not stop at the end of the file.
Transfer_NoEnd(m, s, size, ofs, place) ==
  [m |-> m, chunks |-> Chunks(ofs, size), n |-> size]

\* How far the loop gets: to the end of the file, or to the first chunk that
\* is not a whole sector if the bounce buffer for it cannot be allocated.
Transfer(m, s, size, ofs, place) ==
  LET left   == Max({0, Min({size, m.inodes[s].length - ofs})})
      chunks == Chunks(ofs, left)
      bounce == SelectInSeq(chunks, LAMBDA k : ~IsWhole(k, ofs, left))
      short  == bounce # 0 /\ Fails(m, place)
  IN  [m |-> IF bounce = 0 THEN m ELSE Asked(m, place),
       chunks |-> IF short THEN SubSeq(chunks, 1, bounce - 1) ELSE chunks,
       n |-> IF ~short THEN left
             ELSE IF bounce = 1 THEN 0
             ELSE chunks[bounce] * SectorSize - ofs]

\* byte_to_sector, and the cell there.
CellAt(m, s, pos) ==
  m.disk[m.inodes[s].start + pos \div SectorSize][(pos % SectorSize) + 1]

inode_read_at(m, s, size, ofs, place) ==
  LET Read(t) == [m |-> t.m, buffer |-> [i \in 1..t.n |-> CellAt(m, s, ofs + i - 1)]]
  IN  Read(Transfer(m, s, size, ofs, place))

inode_write_at(m, s, buffer, ofs, place) ==
  LET Filled(x, k, n) ==
        [j \in 1..SectorSize |->
           LET i == k * SectorSize + j - ofs
           IN  IF i \in 1..n THEN buffer[i] ELSE x.disk[x.inodes[s].start + k][j]]
      Write(t) ==
        [m |-> FoldLeft(LAMBDA x, k : BlockWrite(x, x.inodes[s].start + k, Filled(x, k, t.n)),
                        t.m, t.chunks),
         n |-> t.n]
  IN  IF m.inodes[s].deny > 0 THEN [m |-> m, n |-> 0]
      ELSE Write(Transfer(m, s, Len(buffer), ofs, place))

-----------------------------------------------------------------------------
(* The free map.                                                           *)

\* bitmap_file_size and the elements of the bitmap.
MapCells == (SectorCount + BitsPerCell - 1) \div BitsPerCell
MapBuffer(map) ==
  [c \in 1..MapCells |-> <<"word", {s \in map : s \div BitsPerCell = c - 1}>>]
Bits(cell) == IF cell[1] = "word" THEN cell[2] ELSE {}

bitmap_write(m) ==
  LET Written(w) == [m |-> w.m, ok |-> w.n = MapCells]
  IN  Written(inode_write_at(m, FREE_MAP_SECTOR, MapBuffer(m.map), 0, "map"))

\* bitmap_scan_and_flip takes the first run of cnt free sectors.  A free map
\* that cannot be written is put back.
free_map_allocate(m, cnt) ==
  LET runs == {s \in 0 .. SectorCount - cnt : Extent(s, cnt) \cap m.map = {}}
      Saved(w, s) ==
        IF w.ok THEN [m |-> w.m, ok |-> TRUE, sector |-> s]
        ELSE [m |-> [w.m EXCEPT !.map = @ \ Extent(s, cnt)], ok |-> FALSE, sector |-> 0]
      Flipped(x, s) ==
        IF ~x.mapfile THEN [m |-> x, ok |-> TRUE, sector |-> s]
        ELSE Saved(bitmap_write(x), s)
      Take(s) == Flipped([m EXCEPT !.map = @ \cup Extent(s, cnt)], s)
  IN  IF runs = {} THEN [m |-> m, ok |-> FALSE, sector |-> 0] ELSE Take(Min(runs))

\* The result of bitmap_write is ignored.
free_map_release(m, s, cnt) ==
  IF ~(Extent(s, cnt) \subseteq m.map) THEN Panic(m, "assert")
  ELSE bitmap_write([m EXCEPT !.map = @ \ Extent(s, cnt)]).m

-----------------------------------------------------------------------------
(* Inodes.                                                                 *)

\* Mutant: the data sectors keep what an earlier file left there.
inode_create_NotZeroed(m, s, length) ==
  LET Write(a) ==
        IF ~a.ok THEN [m |-> a.m, ok |-> FALSE]
        ELSE [m |-> BlockWrite(a.m, s, InodeDisk(a.sector, length)), ok |-> TRUE]
  IN  IF Fails(m, "disk_inode") THEN [m |-> Asked(m, "disk_inode"), ok |-> FALSE]
      ELSE Write(free_map_allocate(Asked(m, "disk_inode"), bytes_to_sectors(length)))

inode_create(m, s, length) ==
  LET sectors == bytes_to_sectors(length)
      Write(a) ==
        IF ~a.ok THEN [m |-> a.m, ok |-> FALSE]
        ELSE [m |-> FoldLeft(LAMBDA x, i : BlockWrite(x, a.sector + i - 1, ZeroSector),
                             BlockWrite(a.m, s, InodeDisk(a.sector, length)),
                             [i \in 1..sectors |-> i]),
              ok |-> TRUE]
  IN  IF Fails(m, "disk_inode") THEN [m |-> Asked(m, "disk_inode"), ok |-> FALSE]
      ELSE Write(free_map_allocate(Asked(m, "disk_inode"), sectors))

inode_reopen(m, s) == [m EXCEPT !.inodes[s].open_cnt = @ + 1]

\* An inode that is open already is shared; otherwise it is read from disk.
inode_open(m, s) ==
  IF s \in DOMAIN m.inodes THEN [m |-> inode_reopen(m, s), ok |-> TRUE]
  ELSE IF Fails(m, "inode") THEN [m |-> Asked(m, "inode"), ok |-> FALSE]
  ELSE [m |-> [Asked(m, "inode") EXCEPT !.inodes =
                 [x \in DOMAIN @ \cup {s} |->
                    IF x # s THEN @[x]
                    ELSE [open_cnt |-> 1, removed |-> FALSE, deny |-> 0,
                          start |-> m.disk[s][1][2], length |-> m.disk[s][1][3]]]],
        ok |-> TRUE]

\* Mutant: only the inode's own sector is released.
inode_close_KeepsData(m, s) ==
  LET i == m.inodes[s]
      shut == [m EXCEPT !.inodes = [x \in DOMAIN @ \ {s} |-> @[x]]]
  IN  IF i.open_cnt > 1 THEN [m EXCEPT !.inodes[s].open_cnt = @ - 1]
      ELSE IF ~i.removed THEN shut
      ELSE free_map_release(shut, s, 1)

inode_close(m, s) ==
  LET i == m.inodes[s]
      shut == [m EXCEPT !.inodes = [x \in DOMAIN @ \ {s} |-> @[x]]]
  IN  IF i.open_cnt > 1 THEN [m EXCEPT !.inodes[s].open_cnt = @ - 1]
      ELSE IF ~i.removed THEN shut
      ELSE free_map_release(free_map_release(shut, s, 1),
                            i.start, bytes_to_sectors(i.length))

inode_remove(m, s) == [m EXCEPT !.inodes[s].removed = TRUE]

inode_deny_write(m, s) ==
  LET d == [m EXCEPT !.inodes[s].deny = @ + 1]
  IN  IF d.inodes[s].deny <= d.inodes[s].open_cnt THEN d ELSE Panic(m, "assert")

inode_allow_write(m, s) ==
  IF m.inodes[s].deny \in 1 .. m.inodes[s].open_cnt
    THEN [m EXCEPT !.inodes[s].deny = @ - 1]
    ELSE Panic(m, "assert")

-----------------------------------------------------------------------------
(* The root directory and struct file.                                     *)

\* dir_open_root: the inode first, then the struct dir.
dir_open_root(m) ==
  LET Dir(o) ==
        IF o.ok /\ ~Fails(o.m, "dir") THEN [m |-> Asked(o.m, "dir"), ok |-> TRUE]
        ELSE [m |-> IF o.ok THEN inode_close(Asked(o.m, "dir"), ROOT_DIR_SECTOR)
                    ELSE Asked(o.m, "dir"),
              ok |-> FALSE]
  IN  Dir(inode_open(m, ROOT_DIR_SECTOR))

\* For a directory that is open; for a null pointer dir_close does nothing.
dir_close(m) == inode_close(m, ROOT_DIR_SECTOR)

InUse(cell) == cell[1] = "entry" /\ cell[4]

DirCells(m) == [i \in 1..EntryCount |-> CellAt(m, ROOT_DIR_SECTOR, i - 1)]

\* The loop that reads entry after entry until the one it looks for, the
\* hit-th of DirCells(m) or none if hit is 0, until the directory ends, or
\* until a read comes back short.  Every read needs a bounce buffer.
Scan(m, hit) ==
  LET Ends(reads) ==
        IF "dir_read" \in Failing /\ m.fail \in 1..reads
          THEN [m |-> [m EXCEPT !.fail = 0], found |-> FALSE, ofs |-> m.fail - 1]
          ELSE [m |-> IF "dir_read" \in Failing THEN [m EXCEPT !.fail = @ - reads] ELSE m,
                found |-> hit # 0, ofs |-> IF hit = 0 THEN reads ELSE hit - 1]
  IN  Ends(IF hit = 0 THEN EntryCount ELSE hit)

lookup(m, name) == Scan(m, SelectInSeq(DirCells(m), LAMBDA c : InUse(c) /\ c[2] = name))

\* The sector in the entry that lookup found.
EntrySector(l) == CellAt(l.m, ROOT_DIR_SECTOR, l.ofs)[3]

WriteEntry(m, e, ofs) == inode_write_at(m, ROOT_DIR_SECTOR, <<e>>, ofs, "dir_write")

dir_add(m, name, s) ==
  LET Written(w) == [m |-> w.m, ok |-> w.n = 1]
      Fill(slot) == Written(WriteEntry(slot.m, Entry(name, s, TRUE), slot.ofs))
      Add(l) == IF l.found THEN [m |-> l.m, ok |-> FALSE]
                ELSE Fill(Scan(l.m, SelectInSeq(DirCells(l.m), LAMBDA c : ~InUse(c))))
  IN  IF name \in BadName THEN [m |-> m, ok |-> FALSE] ELSE Add(lookup(m, name))

\* Mutant: the inode is closed, and its sectors released, before the entry
\* is erased.
dir_remove_Order(m, name) ==
  LET Written(w) == [m |-> w.m, ok |-> w.n = 1]
      Erase(o, s, ofs) ==
        IF ~o.ok THEN [m |-> o.m, ok |-> FALSE]
        ELSE Written(WriteEntry(inode_close(inode_remove(o.m, s), s),
                                Entry(name, s, FALSE), ofs))
      Open(x, s, ofs) == Erase(inode_open(x, s), s, ofs)
      Unlink(l) == IF ~l.found THEN [m |-> l.m, ok |-> FALSE]
                   ELSE Open(l.m, EntrySector(l), l.ofs)
  IN  Unlink(lookup(m, name))

dir_remove(m, name) ==
  LET Close(w, s) ==
        [m |-> inode_close(IF w.n = 1 THEN inode_remove(w.m, s) ELSE w.m, s), ok |-> w.n = 1]
      Erase(o, s, ofs) ==
        IF ~o.ok THEN [m |-> o.m, ok |-> FALSE]
        ELSE Close(WriteEntry(o.m, Entry(name, s, FALSE), ofs), s)
      Open(x, s, ofs) == Erase(inode_open(x, s), s, ofs)
      Unlink(l) == IF ~l.found THEN [m |-> l.m, ok |-> FALSE]
                   ELSE Open(l.m, EntrySector(l), l.ofs)
  IN  Unlink(lookup(m, name))

\* file_open for the inode of sector s, or for a null pointer.
file_open(m, ok, s) ==
  LET a == Asked(m, "file")
  IN  IF ok /\ ~Fails(m, "file") THEN [m |-> a, ok |-> TRUE, sector |-> s]
      ELSE [m |-> IF ok THEN inode_close(a, s) ELSE a, ok |-> FALSE, sector |-> s]

-----------------------------------------------------------------------------
(* The calls of filesys.c.                                                 *)

\* A creation that fails gives back the inode's sector, whatever else
\* inode_create had allocated.
filesys_create(m, name, size) ==
  LET Finish(r, s) == IF r.ok THEN r.m ELSE free_map_release(r.m, s, 1)
      Add(c, s) == IF c.ok THEN dir_add(c.m, name, s) ELSE c
      Create(a) == IF ~a.ok THEN a.m
                   ELSE Finish(Add(inode_create(a.m, a.sector, size), a.sector), a.sector)
      In(d) == IF ~d.ok THEN d.m
               ELSE dir_close(Create(free_map_allocate(d.m, 1)))
  IN  In(dir_open_root(m))

filesys_open(m, name) ==
  LET Open(o, s) == [m |-> dir_close(o.m), ok |-> o.ok, sector |-> s]
      Look(l) == IF l.found THEN Open(inode_open(l.m, EntrySector(l)), EntrySector(l))
                 ELSE Open([m |-> l.m, ok |-> FALSE], 0)
      In(d) == IF d.ok THEN Look(lookup(d.m, name))
               ELSE [m |-> d.m, ok |-> FALSE, sector |-> 0]
      File(i) == file_open(i.m, i.ok, i.sector)
  IN  File(In(dir_open_root(m)))

filesys_remove(m, name) ==
  LET In(d) == IF d.ok THEN dir_close(dir_remove(d.m, name).m) ELSE d.m
  IN  In(dir_open_root(m))

\* free_map_open: the kernel stops if the free map cannot be read.
free_map_open(m) ==
  LET Map(b) ==
        IF Len(b.buffer) # MapCells THEN Panic(b.m, "alloc")
        ELSE [b.m EXCEPT !.map = UNION {Bits(b.buffer[i]) : i \in 1..MapCells},
                         !.mapfile = TRUE]
      Read(f) == IF ~f.ok THEN Panic(f.m, "alloc")
                 ELSE Map(inode_read_at(f.m, FREE_MAP_SECTOR, MapCells, 0, "map"))
      File(o) == file_open(o.m, o.ok, FREE_MAP_SECTOR)
  IN  Read(File(inode_open(m, FREE_MAP_SECTOR)))

\* do_format, with free_map_create, dir_create and free_map_close.
do_format(m) ==
  LET Root(d) == IF ~d.ok THEN Panic(d.m, "alloc") ELSE inode_close(d.m, FREE_MAP_SECTOR)
      Saved(w) == IF ~w.ok THEN Panic(w.m, "alloc")
                  ELSE Root(inode_create(w.m, ROOT_DIR_SECTOR, EntryCount))
      Write(f) == IF ~f.ok THEN Panic(f.m, "alloc")
                  ELSE Saved(bitmap_write([f.m EXCEPT !.mapfile = TRUE]))
      File(o) == file_open(o.m, o.ok, FREE_MAP_SECTOR)
      Map(c) == IF ~c.ok THEN Panic(c.m, "alloc")
                ELSE Write(File(inode_open(c.m, FREE_MAP_SECTOR)))
  IN  Map(inode_create(m, FREE_MAP_SECTOR, MapCells))

filesys_init(m, format) ==
  LET Open(f) == IF f.panic # "no" THEN f ELSE free_map_open(f)
  IN  Open(IF format THEN do_format(m) ELSE m)

-----------------------------------------------------------------------------
(* The machine and its client.                                             *)

Init ==
  /\ disk = [s \in Sector |-> ZeroSector]
  /\ formatted = "no"
  /\ mode = "off"
  /\ free_map = {} /\ inodes = <<>> /\ files = <<>>
  /\ pending = <<>>
  /\ boots = 0 /\ calls = 0

\* The state a call starts from.
Before(f) ==
  [disk |-> disk, log |-> <<>>, map |-> free_map, inodes |-> inodes,
   mapfile |-> TRUE, fail |-> f, panic |-> "no"]

\* The state it leaves behind.
After(m) ==
  /\ mode' = IF m.panic = "no" THEN "on" ELSE m.panic
  /\ free_map' = IF m.panic = "no" THEN m.map ELSE free_map
  /\ inodes' = IF m.panic = "no" THEN m.inodes ELSE inodes
  /\ pending' = m.log
  /\ UNCHANGED disk

Ready == mode = "on" /\ pending = <<>>

Call(m) ==
  /\ Ready /\ calls < MaxCalls
  /\ After(m)
  /\ calls' = calls + 1
  /\ UNCHANGED <<formatted, boots>>

\* filesys_init at boot.  A disk is formatted when it has to be.
Boot(f) ==
  /\ mode = "off" /\ boots < MaxBoots
  /\ After(filesys_init([Before(f) EXCEPT !.map = {FREE_MAP_SECTOR, ROOT_DIR_SECTOR},
                                         !.mapfile = FALSE],
                        formatted = "no"))
  /\ formatted' = IF formatted = "no" THEN "writing" ELSE formatted
  /\ boots' = boots + 1
  /\ UNCHANGED <<files, calls>>

\* The disk performs the next block write.
IssueWrite ==
  /\ pending # <<>>
  /\ disk' = [disk EXCEPT ![Head(pending)[1]] = Head(pending)[2]]
  /\ pending' = Tail(pending)
  /\ formatted' = IF Len(pending) = 1 /\ mode = "on" THEN "yes" ELSE formatted
  /\ UNCHANGED <<mode, memory, boots, calls>>

\* Only what is on the disk survives.
PowerOff ==
  /\ mode' = "off"
  /\ formatted' = IF formatted = "writing" THEN "no" ELSE formatted
  /\ free_map' = {} /\ inodes' = <<>> /\ files' = <<>>
  /\ pending' = <<>>
  /\ UNCHANGED <<disk, boots, calls>>

Crash == mode # "off" /\ PowerOff

\* filesys_done closes the free map file, which writes nothing.
Shutdown == Ready /\ PowerOff

CreateFile(name, size, f) ==
  /\ Call(filesys_create(Before(f), name, size))
  /\ UNCHANGED files

RemoveFile(name, f) ==
  /\ Call(filesys_remove(Before(f), name))
  /\ UNCHANGED files

NewFile(h, s) ==
  files' = [x \in DOMAIN files \cup {h} |->
              IF x = h THEN [sector |-> s, pos |-> 0, deny_write |-> FALSE] ELSE files[x]]

\* filesys_open, or file_reopen of the file g, into a handle not in use.
OpenFile(h, name, f) ==
  LET r == filesys_open(Before(f), name)
  IN  /\ h \notin DOMAIN files
      /\ Call(r.m)
      /\ IF r.ok THEN NewFile(h, r.sector) ELSE UNCHANGED files

file_reopen(h, g, f) ==
  LET s == files[g].sector
      r == file_open(inode_reopen(Before(f), s), TRUE, s)
  IN  /\ h \notin DOMAIN files
      /\ Call(r.m)
      /\ IF r.ok THEN NewFile(h, s) ELSE UNCHANGED files

\* Mutant: closing a file does not lift its own denial of writes.
file_close_KeepsDeny(h) ==
  /\ Call(inode_close(Before(0), files[h].sector))
  /\ files' = [x \in DOMAIN files \ {h} |-> files[x]]

\* file_close, with file_allow_write.
file_close(h) ==
  LET s == files[h].sector
      m == IF files[h].deny_write THEN inode_allow_write(Before(0), s) ELSE Before(0)
  IN  /\ Call(inode_close(m, s))
      /\ files' = [x \in DOMAIN files \ {h} |-> files[x]]

file_deny_write(h) ==
  /\ ~files[h].deny_write
  /\ Call(inode_deny_write(Before(0), files[h].sector))
  /\ files' = [files EXCEPT ![h].deny_write = TRUE]

file_allow_write(h) ==
  /\ files[h].deny_write
  /\ Call(inode_allow_write(Before(0), files[h].sector))
  /\ files' = [files EXCEPT ![h].deny_write = FALSE]

Bytes(data) == [i \in DOMAIN data |-> <<"byte", data[i]>>]

file_read(h, size, f) ==
  LET r == inode_read_at(Before(f), files[h].sector, size, files[h].pos, "data")
  IN  /\ Call(r.m)
      /\ files' = [files EXCEPT ![h].pos = @ + Len(r.buffer)]

file_write(h, data, f) ==
  LET w == inode_write_at(Before(f), files[h].sector, Bytes(data), files[h].pos, "data")
  IN  /\ Call(w.m)
      /\ files' = [files EXCEPT ![h].pos = @ + w.n]

file_write_at(h, data, ofs, f) ==
  /\ Call(inode_write_at(Before(f), files[h].sector, Bytes(data), ofs, "data").m)
  /\ UNCHANGED files

file_seek(h, new_pos) ==
  /\ Call(Before(0))
  /\ files' = [files EXCEPT ![h].pos = new_pos]

Next ==
  \/ IssueWrite
  \/ Crash
  \/ Shutdown
  \/ \E f \in 0..MaxFail :
       \/ Boot(f)
       \/ \E n \in ValidName \cup BadName :
            \/ \E size \in Length : CreateFile(n, size, f)
            \/ RemoveFile(n, f)
            \/ \E h \in Handle : OpenFile(h, n, f)
       \/ \E g \in DOMAIN files :
            \/ \E h \in Handle : file_reopen(h, g, f)
            \/ \E d \in Data :
                 \/ file_read(g, Len(d), f)
                 \/ file_write(g, d, f)
                 \/ \E p \in Position : file_write_at(g, d, p, f)
  \/ \E h \in DOMAIN files :
       \/ file_close(h)
       \/ file_deny_write(h)
       \/ file_allow_write(h)
       \/ \E p \in Position : file_seek(h, p)

Spec == Init /\ [][Next]_vars

-----------------------------------------------------------------------------
(* What the disk holds.                                                    *)

\* The first cell of sector s of the disk d, which holds the inode if there is one.
OnDisk(d, s) == d[s][1]
IsInode(d, s) == OnDisk(d, s)[1] = "inode"

\* The sectors of the file whose inode is in sector s.
SectorsOf(d, s) ==
  IF IsInode(d, s)
    THEN {s} \cup Extent(OnDisk(d, s)[2], bytes_to_sectors(OnDisk(d, s)[3]))
    ELSE {s}

RootEntries(d) ==
  IF formatted # "yes" THEN {}
  ELSE {c \in {d[OnDisk(d, ROOT_DIR_SECTOR)[2] + (i \div SectorSize)][(i % SectorSize) + 1] :
                i \in 0 .. EntryCount - 1} : InUse(c)}

Named(d) == {c[3] : c \in RootEntries(d)}
OpenFiles == {files[h].sector : h \in DOMAIN files}
System == {FREE_MAP_SECTOR, ROOT_DIR_SECTOR}

\* The free map file as it is on the disk.
DiskMap ==
  LET start == OnDisk(disk, FREE_MAP_SECTOR)[2]
  IN  UNION {Bits(disk[start + (i \div SectorSize)][(i % SectorSize) + 1]) :
             i \in 0 .. MapCells - 1}

ByteOf(cell) == IF cell[1] = "byte" THEN cell[2] ELSE 0

\* The bytes of the file whose inode is in sector s.
Content(s) ==
  IF ~IsInode(disk, s) THEN <<>>
  ELSE [i \in 1..OnDisk(disk, s)[3] |->
          ByteOf(disk[OnDisk(disk, s)[2] + ((i - 1) \div SectorSize)][((i - 1) % SectorSize) + 1])]

-----------------------------------------------------------------------------
(* Properties.                                                             *)

\* Whenever the machine is lost, the disk alone is consistent: the files
\* named in the root directory, the directory and the free map have no
\* sector in common, and the free map on disk marks them all.  This is the
\* order of the block writes in filesys_create, inode_create, dir_remove and
\* inode_close, across every crash between two of them and every allocation
\* that fails.
DiskConsistent ==
  formatted = "yes" =>
    /\ \A s \in Named(disk) \cup System : SectorsOf(disk, s) \subseteq DiskMap
    /\ \A s, t \in Named(disk) \cup System : s # t => SectorsOf(disk, s) \cap SectorsOf(disk, t) = {}

\* While the kernel runs, no sector of a file that is open or named, whether
\* or not its name was removed since, can be handed out by
\* free_map_allocate, and the counters of a struct inode count its openers
\* and those that deny writes.  No assertion fails: bitmap_all in
\* free_map_release, the two counts in inode_deny_write and inode_allow_write,
\* and check_sector.
OpenFilesKept ==
  /\ mode # "assert"
  /\ Ready =>
       /\ \A s \in Named(disk) \cup OpenFiles \cup System :
            SectorsOf(disk, s) \subseteq free_map
       /\ DOMAIN inodes = OpenFiles \cup {FREE_MAP_SECTOR}
       /\ \A s \in OpenFiles :
            LET openers == {h \in DOMAIN files : files[h].sector = s}
            IN  /\ inodes[s].open_cnt = Cardinality(openers)
                /\ inodes[s].deny = Cardinality({h \in openers : files[h].deny_write})
                /\ inodes[s].removed <=> s \notin Named(disk)

\* The disk once the writes under way are done, and the sectors marked in
\* memory that nothing will then ever release.
Settled == FoldLeft(LAMBDA d, w : [d EXCEPT ![w[1]] = w[2]], disk, pending)
LeakedOn(d) ==
  free_map \ UNION {SectorsOf(d, s) : s \in Named(d) \cup OpenFiles \cup System}
Leaked == LeakedOn(Settled)

\* While the kernel runs, sectors are lost in one way only: by the call that
\* has just allocated and cleared them, a filesys_create that fails after
\* inode_create because the name is taken or invalid or the entry cannot be
\* written.  Nothing is lost when the free map cannot be written, whose
\* failure free_map_release ignores, nor when an open file is removed.
LeaksOnlyFromFailedCreate ==
  [][ Ready /\ mode' = "on" =>
        \A s \in Leaked' \ Leaked : <<s, ZeroSector>> \in Range(pending') ]_vars

\* file_read returns the bytes of the file from the position on, up to its
\* end, for the sizes and positions around every sector boundary, although
\* it reads whole sectors and pieces of sectors by different paths.
ReadsWhatIsThere ==
  Ready =>
    \A h \in DOMAIN files, size \in 0 .. Max(Length) + 1, p \in Position :
      LET c == Content(files[h].sector)
          r == inode_read_at(Before(0), files[h].sector, size, p, "data").buffer
      IN  [i \in DOMAIN r |-> ByteOf(r[i])] = SubSeq(c, p + 1, Min({Len(c), p + size}))

\* dir_add takes a free slot or the end of the directory: a creation leaves
\* every file that has a name its name.  The code relies on inode_read_at
\* returning a short read at the end of the file only; a bounce buffer that
\* cannot be allocated ends the search for a free slot at a slot in use.
AddTakesFreeSlot ==
  [][ (\E n \in ValidName, size \in Length, f \in 0..MaxFail : CreateFile(n, size, f)) =>
        Named(disk) \subseteq Named(Settled)' ]_vars

Store == INSTANCE FileStore WITH
  Name <- ValidName,
  Byte <- UNION {Range(d) : d \in Data},
  dir <- [n \in {c[2] : c \in RootEntries(disk)} |->
            (CHOOSE c \in RootEntries(disk) : c[2] = n)[3]],
  content <- [s \in Named(disk) \cup OpenFiles |-> Content(s)],
  open <- OpenFiles

\* The disk, read through its directory, and the open files behave as the
\* FileStore: creation and removal happen at the single write of a directory
\* entry, a new file is all zeros even if its sectors held another file, a
\* file that is removed while open keeps its contents until the last close,
\* and a crash changes no file that has a name.
ImplementsFileStore == Store!Spec

=============================================================================
