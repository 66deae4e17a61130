------------------------------ MODULE Archive ------------------------------
(***************************************************************************)
(* lib/ustar.c, the headers of tar archives, and the copying of files from *)
(* and to an archive on the scratch disk in filesys/fsutil.c.  A header is *)
(* a record of byte sequences, one per field of struct ustar_header; the   *)
(* name, size and owner fields are shorter than the real ones.  Characters *)
(* are their codes.                                                        *)
(***************************************************************************)
EXTENDS Integers, FiniteSets, SequencesExt

CONSTANTS NameSize, SizeSize, MaxInt, BlockSize, ScratchSize

Slash == 47
Dot == 46
Zero == 48
Space == 32
Pad(s, n) == [i \in 1..n |-> IF i <= Len(s) THEN s[i] ELSE 0]
Cut(s, n) == SubSeq(s, 1, IF Len(s) < n THEN Len(s) ELSE n)
ustar_magic == <<117, 115, 116, 97, 114>>

\* snprintf (field, n, "%0<n-1>o", v): n-1 octal digits, or the first n-1 of more.
RECURSIVE Octal(_)
Octal(v) == (IF v < 8 THEN <<>> ELSE Octal(v \div 8)) \o <<Zero + (v % 8)>>
OctalField(v, n) ==
  LET d == Octal(v)
  IN  Pad(Cut([i \in 1..(n - 1 - Len(d)) |-> Zero] \o d, n - 1), n)

calculate_chksum(h) ==
  LET Sum(s) == FoldLeft(LAMBDA x, y : x + y, 0, s)
  IN  FoldSet(LAMBDA f, n : n + (IF f = "chksum" THEN Space * Len(h[f]) ELSE Sum(h[f])),
              0, DOMAIN h)

Prefix(s, p) == Len(p) <= Len(s) /\ SubSeq(s, 1, Len(p)) = p
AfterSlash(s) ==
  SubSeq(s, 1 + (CHOOSE i \in DOMAIN s : s[i] = Slash /\ \A j \in 1..(i - 1) : s[j] # Slash),
         Len(s))
Antisocial(s) ==
  Prefix(s, <<Slash>>) \/ Prefix(s, <<Dot, Slash>>) \/ Prefix(s, <<Dot, Dot, Slash>>)

\* Mutant: one prefix is dropped, not all of them.
strip_antisocial_prefixes_Once(s) ==
  LET t == IF Antisocial(s) THEN AfterSlash(s) ELSE s
  IN  IF t = <<>> \/ t = <<Dot, Dot>> THEN <<Dot>> ELSE t

RECURSIVE Stripped(_)
Stripped(s) == IF Antisocial(s) THEN Stripped(AfterSlash(s)) ELSE s
strip_antisocial_prefixes(s) ==
  LET t == Stripped(s)
  IN  IF t = <<>> \/ t = <<Dot, Dot>> THEN <<Dot>> ELSE t

USTAR_REGULAR == 48
USTAR_DIRECTORY == 53
USTAR_EOF == -1
Failed == [failed |-> TRUE]

\* The fields that stay zero are one field, rest.
ustar_make_header(file_name, type, size) ==
  LET name == strip_antisocial_prefixes(file_name)
      h == [name |-> Pad(name, NameSize),
            mode |-> OctalField(IF type = USTAR_REGULAR THEN 420 ELSE 493, 8),
            uid |-> OctalField(0, 8), gid |-> OctalField(0, 8),
            size |-> OctalField(size, SizeSize), mtime |-> OctalField(1136102400, 12),
            chksum |-> Pad(<<>>, 8), typeflag |-> <<type>>, magic |-> Pad(ustar_magic, 6),
            version |-> <<Zero, Zero>>, prefix |-> <<0>>, rest |-> <<0, 0>>]
  IN  IF Len(name) > NameSize - 1 THEN Failed
      ELSE [h EXCEPT !.chksum = OctalField(calculate_chksum(h), 8)]

\* A value, or -1 for a field that is empty, not terminated or not octal.
RECURSIVE ParseOctal(_, _, _)
ParseOctal(s, ofs, v) ==
  IF ofs > Len(s) THEN -1
  ELSE IF s[ofs] \in Zero..(Zero + 7) THEN ParseOctal(s, ofs + 1, (s[ofs] - Zero) + v * 8)
  ELSE IF s[ofs] \in {Space, 0} /\ ofs > 1 THEN v ELSE -1
parse_octal_field(s) == ParseOctal(s, 1, 0)

is_all_zeros(h) == \A f \in DOMAIN h : \A i \in DOMAIN h[f] : h[f][i] = 0

NameIn(h) == Cut(h.name, (CHOOSE i \in DOMAIN h.name :
                            h.name[i] = 0 /\ \A j \in 1..(i - 1) : h.name[j] # 0) - 1)

ustar_parse_header(h) ==
  LET chksum == parse_octal_field(h.chksum)
      size == IF h.typeflag[1] = USTAR_REGULAR THEN parse_octal_field(h.size) ELSE 0
  IN  IF is_all_zeros(h) THEN [name |-> <<>>, type |-> USTAR_EOF, size |-> 0]
      ELSE IF \/ h.magic # Pad(ustar_magic, 6)
              \/ h.version # <<Zero, Zero>>
              \/ chksum = -1
              \/ chksum # calculate_chksum(h)
              \/ h.name[NameSize] # 0 \/ h.prefix[1] # 0
              \/ h.typeflag[1] \notin {USTAR_REGULAR, USTAR_DIRECTORY}
              \/ size = -1 \/ size > MaxInt
      THEN Failed
      ELSE [name |-> strip_antisocial_prefixes(NameIn(h)), type |-> h.typeflag[1],
            size |-> size]

-----------------------------------------------------------------------------
\* The scratch disk: each sector holds a header or data.
ZeroSector == <<"data", [i \in 1..BlockSize |-> 0]>>
Write(d, sector, x) == [d EXCEPT !.disk[sector] = x]
Full(d) == d.pos >= ScratchSize

\* The copy of fsutil_append, sector by sector; it panics when the disk is full.
RECURSIVE CopyOut(_, _)
CopyOut(d, content) ==
  IF content = <<>> \/ d.panic THEN d
  ELSE IF Full(d) THEN [d EXCEPT !.panic = TRUE]
  ELSE CopyOut([Write(d, d.pos, <<"data", Pad(Cut(content, BlockSize), BlockSize)>>)
                  EXCEPT !.pos = @ + 1],
               SubSeq(content, BlockSize + 1, Len(content)))

\* Both writes of the end marker go to the same sector, and pos stays on it.  The
\* second is taken from one byte further on: after is the byte behind the buffer.
fsutil_append(d, file, after) ==
  LET h == ustar_make_header(file.name, USTAR_REGULAR, Len(file.content))
  IN  IF d.panic \/ Full(d) \/ h = Failed THEN [d EXCEPT !.panic = TRUE]
      ELSE LET e == CopyOut([Write(d, d.pos, <<"header", h>>) EXCEPT !.pos = @ + 1],
                            file.content)
           IN  IF e.panic \/ Full(e) THEN [e EXCEPT !.panic = TRUE]
               ELSE Write(e, e.pos, <<"data", [ZeroSector[2] EXCEPT ![BlockSize] = after]>>)

\* A sector of data is parsed as a header as well.
HeaderIn(x) ==
  IF x[1] = "header" THEN ustar_parse_header(x[2])
  ELSE IF x = ZeroSector THEN [name |-> <<>>, type |-> USTAR_EOF, size |-> 0]
  ELSE Failed

\* The loop of fsutil_extract from a sector on: the files created, in order, and
\* whether it ended in a panic (a bad header, the end of the disk, a second file
\* of the same name).
RECURSIVE ExtractFrom(_, _, _)
ExtractFrom(disk, sector, files) ==
  LET panic == [files |-> files, panic |-> TRUE]
      h == HeaderIn(disk[sector])
      n == (h.size + BlockSize - 1) \div BlockSize
      bytes == FoldLeft(LAMBDA s, i : s \o disk[sector + i][2], <<>>, [i \in 1..n |-> i])
  IN  IF sector >= ScratchSize THEN panic
      ELSE IF h = Failed THEN panic
      ELSE IF h.type = USTAR_EOF THEN [files |-> files, panic |-> FALSE]
      ELSE IF h.type = USTAR_DIRECTORY THEN ExtractFrom(disk, sector + 1, files)
      ELSE IF \/ \E f \in Range(files) : f.name = h.name
              \/ sector + n >= ScratchSize THEN panic
      ELSE ExtractFrom(disk, sector + n + 1,
                       Append(files, [name |-> h.name, content |-> Cut(bytes, h.size)]))

\* The archive is erased in the end; sector is 0 after every boot.
fsutil_extract(disk) ==
  LET r == ExtractFrom(disk, 0, <<>>)
  IN  [files |-> r.files, panic |-> r.panic,
       disk |-> IF r.panic THEN disk ELSE [disk EXCEPT ![0] = ZeroSector, ![1] = ZeroSector]]

-----------------------------------------------------------------------------
\* A header that was made parses to the same type, size and stripped name; no
\* name that leads out of the directory survives; and a header with a byte
\* changed is refused, or means the same.
HeaderOK(name, type, size) ==
  LET h == ustar_make_header(name, type, size)
      n == strip_antisocial_prefixes(name)
      meaning == [name |-> n, type |-> type,
                  size |-> IF type = USTAR_REGULAR THEN size ELSE 0]
  IN  /\ ~Antisocial(n) /\ n # <<>> /\ n # <<Dot, Dot>>
      /\ h # Failed =>
           /\ ustar_parse_header(h) = meaning
           /\ \A f \in DOMAIN h : \A i \in DOMAIN h[f] : \A x \in {0, Space, Zero, 49} :
                 ustar_parse_header([h EXCEPT ![f][i] = x]) \in {Failed, meaning}
      /\ h = Failed <=> Len(n) >= NameSize

\* Files appended to a scratch disk that held something else come back, all of
\* them and byte by byte, when the archive is extracted, unless the append
\* panicked for want of space.  The extraction then ends well, and the next boot
\* extracts nothing more, if the byte behind the buffer of the last append
\* happened to be zero.
ArchiveOK(files, after, junk) ==
  LET d == FoldLeft(LAMBDA x, f : fsutil_append(x, f, after),
                    [disk |-> [s \in 0..(ScratchSize - 1) |-> junk], pos |-> 0,
                     panic |-> FALSE], files)
      r == fsutil_extract(d.disk)
      again == fsutil_extract(r.disk)
      distinct == \A i, j \in DOMAIN files : files[i].name = files[j].name => i = j
  IN  ~d.panic /\ files # <<>> /\ distinct =>
        /\ r.files = files
        /\ after = 0 => ~r.panic /\ again = [r EXCEPT !.files = <<>>]
=============================================================================
