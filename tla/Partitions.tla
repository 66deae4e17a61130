----------------------------- MODULE Partitions -----------------------------
(***************************************************************************)
(* devices/partition.c on devices/block.c: the partitions found on a disk  *)
(* are registered as block devices of their own, whose sectors are those   *)
(* of the disk at an offset.  Sector numbers wrap at SectorSpace (2^32 in  *)
(* the code).  A table is a sequence of entries [type, offset, size].      *)
(***************************************************************************)
EXTENDS Integers, FiniteSets, SequencesExt

CONSTANTS DiskSize, SectorSpace, MaxDepth

Extended == {"extended"}
BlockType == [kernel |-> "kernel", filesys |-> "filesys", scratch |-> "scratch",
              swap |-> "swap", other |-> "foreign"]
SectorSum(a, b) == (a + b) % SectorSpace

block_register(blocks, b) == Append(blocks, b)

\* Mutant: a partition whose end wraps around is accepted.
found_partition_Wraps(blocks, type, start, size, part_nr) ==
  IF start >= DiskSize \/ SectorSum(start, size) > DiskSize THEN blocks
  ELSE block_register(blocks, [nr |-> part_nr, type |-> BlockType[type],
                               start |-> start, size |-> size])

found_partition(blocks, type, start, size, part_nr) ==
  IF \/ start >= DiskSize
     \/ SectorSum(start, size) < start
     \/ SectorSum(start, size) > DiskSize
    THEN blocks
    ELSE block_register(blocks, [nr |-> part_nr, type |-> BlockType[type],
                                 start |-> start, size |-> size])

\* One table.  r has the blocks registered so far, the partition number and
\* whether the recursion went deeper than MaxDepth, the room on a kernel stack.
\* The table that is read is always the one in sector 0.
RECURSIVE read_partition_table(_, _, _, _, _)
read_partition_table(disk, sector, primary, r, depth) ==
  LET Entry(q, e) ==
        IF e.size = 0 \/ e.type = "none" THEN q
        ELSE IF e.type \in Extended
          THEN IF sector = 0
                 THEN read_partition_table(disk, e.offset, e.offset, q, depth + 1)
                 ELSE read_partition_table(disk, SectorSum(e.offset, primary), primary,
                                           q, depth + 1)
        ELSE [q EXCEPT !.part_nr = @ + 1,
                       !.blocks = found_partition(@, e.type, SectorSum(e.offset, sector),
                                                  e.size, q.part_nr + 1)]
  IN  IF sector >= DiskSize THEN r
      ELSE IF depth > MaxDepth THEN [r EXCEPT !.overflow = TRUE]
      ELSE IF ~disk[0].signed THEN r
      ELSE FoldLeft(Entry, r, disk[0].entries)

partition_scan(disk) ==
  read_partition_table(disk, 0, 0, [blocks |-> <<>>, part_nr |-> 0, overflow |-> FALSE], 1)

\* A sector of partition p as a sector of the disk; block_read and block_write
\* panic outside the partition and outside the disk.
check_sector(size, sector) == sector < size
partition_read(p, sector) == SectorSum(p.start, sector)

-----------------------------------------------------------------------------
\* The partitions that the primary table describes.
Described(disk) ==
  IF ~disk[0].signed THEN {}
  ELSE {<<e.offset, e.size>> : e \in {x \in Range(disk[0].entries) :
                                       x.size # 0 /\ x.type # "none"}}

Plain(disk) == \A e \in Range(disk[0].entries) : e.type \notin Extended

\* On a disk with primary partitions only, exactly those that lie on the disk
\* are registered, under different numbers, and every sector of one is a sector
\* of the disk.  (A nested table is looked for in sector 0, see above.)
ScanOK(disk) ==
  LET r == partition_scan(disk)
      Fits(x) == x[1] < DiskSize /\ x[1] + x[2] <= DiskSize
  IN  Plain(disk) =>
        /\ {<<b.start, b.size>> : b \in Range(r.blocks)} =
             {x \in Described(disk) : Fits(x)}
        /\ \A i, j \in DOMAIN r.blocks : r.blocks[i].nr = r.blocks[j].nr => i = j
        /\ \A b \in Range(r.blocks) : \A s \in 0..(b.size - 1) :
              check_sector(DiskSize, partition_read(b, s))
=============================================================================
