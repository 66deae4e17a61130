------------------------------ MODULE Segments ------------------------------
(***************************************************************************)
(* userprog/process.c: the check of an ELF program header and the placing  *)
(* of its segment in user pages.  Addresses and sizes wrap at AddrSpace    *)
(* (2^32 in the code), user space ends at PhysBase.  Byte i of the file is *)
(* represented by i + 1 and a zeroed byte by 0, so that what is mapped     *)
(* tells where it came from.                                               *)
(***************************************************************************)
EXTENDS Integers, FiniteSets

CONSTANTS PageSize, AddrSpace, PhysBase

is_user_vaddr(a) == a < PhysBase
Wrap(x) == x % AddrSpace
RoundUp(x) == ((x + PageSize - 1) \div PageSize) * PageSize
PageOf(a) == (a \div PageSize) * PageSize

\* Mutant: a segment that wraps around is not refused.
validate_segment_Wraps(p, file_length) ==
  /\ p.offset % PageSize = p.vaddr % PageSize
  /\ p.offset <= file_length
  /\ p.memsz >= p.filesz
  /\ p.memsz # 0
  /\ is_user_vaddr(p.vaddr)
  /\ is_user_vaddr(Wrap(p.vaddr + p.memsz))
  /\ p.vaddr >= PageSize

validate_segment(p, file_length) ==
  /\ p.offset % PageSize = p.vaddr % PageSize
  /\ p.offset <= file_length
  /\ p.memsz >= p.filesz
  /\ p.memsz # 0
  /\ is_user_vaddr(p.vaddr)
  /\ is_user_vaddr(Wrap(p.vaddr + p.memsz))
  /\ Wrap(p.vaddr + p.memsz) >= p.vaddr
  /\ p.vaddr >= PageSize

\* What load computes from a valid header.
Placement(p) ==
  LET page_offset == p.vaddr % PageSize
      read_bytes == IF p.filesz > 0 THEN Wrap(page_offset + p.filesz) ELSE 0
  IN  [file_page |-> PageOf(p.offset), mem_page |-> PageOf(p.vaddr),
       read_bytes |-> read_bytes,
       zero_bytes |-> Wrap(Wrap(RoundUp(Wrap(page_offset + p.memsz))) - read_bytes)]

\* A mapping of user pages to their bytes, or Failed on a short read.
Failed == [u \in {-1} |-> <<>>]
RECURSIVE LoadPages(_, _, _, _, _, _)
LoadPages(ofs, upage, read, zero, file_length, map) ==
  LET page_read == IF read < PageSize THEN read ELSE PageSize
      page_zero == PageSize - page_read
      page == [i \in 0..(PageSize - 1) |-> IF i < page_read THEN ofs + i + 1 ELSE 0]
  IN  IF read = 0 /\ zero = 0 THEN map
      ELSE IF ofs + page_read > file_length /\ page_read > 0 THEN Failed
      ELSE LoadPages(ofs + page_read, Wrap(upage + PageSize), read - page_read,
                     Wrap(zero - page_zero), file_length,
                     [u \in DOMAIN map \cup {upage} |->
                        IF u = upage THEN page ELSE map[u]])
load_segment(pl, file_length) ==
  LoadPages(pl.file_page, pl.mem_page, pl.read_bytes, pl.zero_bytes, file_length,
            [u \in {} |-> <<>>])

\* The assertions of load_segment.
Aligned(pl) ==
  /\ Wrap(pl.read_bytes + pl.zero_bytes) % PageSize = 0
  /\ pl.mem_page % PageSize = 0
  /\ pl.file_page % PageSize = 0

\* A segment that passes the checks is loaded into user pages only, never page
\* 0, and all of it is there: its first filesz bytes come from the file at its
\* offset and the others up to memsz are zero; the assertions of load_segment
\* hold and only a file that is too short makes it fail.
SegmentOK(p, file_length) ==
  validate_segment(p, file_length) =>
    LET pl == Placement(p)
        map == load_segment(pl, file_length)
        Byte(a) == map[PageOf(a)][a % PageSize]
    IN  /\ Aligned(pl)
        /\ IF map = Failed THEN p.offset + p.filesz > file_length
           ELSE /\ \A u \in DOMAIN map : u >= PageSize /\ u + PageSize <= PhysBase
                /\ \A i \in 0..(p.memsz - 1) :
                      /\ PageOf(p.vaddr + i) \in DOMAIN map
                      /\ Byte(p.vaddr + i) = IF i < p.filesz THEN p.offset + i + 1 ELSE 0
=============================================================================
