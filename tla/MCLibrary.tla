----------------------------- MODULE MCLibrary -----------------------------
(***************************************************************************)
(* The parts of the system that are data structures, drivers of one user   *)
(* or pure functions, checked side by side: part says which of them a      *)
(* behaviour is about.  The functions are called once, with an input.      *)
(***************************************************************************)
EXTENDS Lists, HashTable, Console, Keyboard

VARIABLES part, input

B4 == INSTANCE Bitmaps WITH ElemBits <- 4
N == INSTANCE Stdlib WITH WordBits <- 4
S == INSTANCE Strings
P == INSTANCE Printf WITH
       PerLine <- 4, Kilo <- 4,
       Bits <- [CHAR |-> 4, SHORT |-> 6, INT |-> 9, LONG |-> 9, PTRDIFFT |-> 9,
                SIZET |-> 9, LONGLONG |-> 12, INTMAX |-> 12]
V == INSTANCE Vga WITH RowCnt <- 2, ColCnt <- 4, TabStop <- 2
A == INSTANCE Archive WITH NameSize <- 4, SizeSize <- 4, MaxInt <- 300,
                           BlockSize <- 2, ScratchSize <- 6
E == INSTANCE Segments WITH PageSize <- 2, AddrSpace <- 16, PhysBase <- 12
D == INSTANCE Partitions WITH DiskSize <- 5, SectorSpace <- 8, MaxDepth <- 4

T == INSTANCE Clocks WITH TIMER_FREQ <- 3, FirstBit <- 3, Thousand <- 2, UintBits <- 9
F == INSTANCE FixedPoint WITH FIX_P <- 3, FIX_Q <- 3
R == INSTANCE MemoryMap WITH FreeStart <- 2, BitsPerPage <- 4, HeaderBits <- 3,
                             ElemBits <- 2, EntriesPerTable <- 3, KernelText <- {3, 4}
Disks == <<[name |-> "hda1", type |-> "kernel"], [name |-> "hda2", type |-> "filesys"],
           [name |-> "hdb", type |-> "filesys"]>>
RmLs(words) == words[1].name = "rm" /\ words[2].name = "ls"
K == INSTANCE CommandLine WITH Device <- Disks, Fails <- RmLs

\* Values of the constants.
ThreeElems == {"a", "b", "c"}
TwoLists == {"L", "D"}
Keys == {[a |-> 1, b |-> 2, c |-> 1], [a |-> 1, b |-> 2, c |-> 3]}
Hashes == <<0, 4, 1, 6, 3>>

Str(n, chars) == UNION {[1..k -> chars] : k \in 0..n}

\* The inputs of the functions.
ScalarCalls ==
  [f : {"bitmap"}, n : 1..6, start : 0..6, cnt : 0..4] \cup
  [f : {"sort"}, array : Str(5, 1..4)] \cup
  [f : {"divide"}, n : 0..255] \cup
  [f : {"atoi"}, value : -128..127] \cup
  [f : {"fixed"}, x : -32..31] \cup
  [f : {"memory"}, ram : 2..14, limit : 0..7]
ClockCalls ==
  [f : {"calibrate"}, perTick : 8..255] \cup
  [f : {"sleep"}, num : 0..40, denom : {2, 4, 8}] \cup
  [f : {"pit"}, frequency : {19, 20, 50, 100, 440, 999, 1000, 20000}] \cup
  [f : {"rtc"}, day : {d \in {1, 28, 29, 31} \X {1, 2, 3, 12} \X {0, 4, 36, 70, 99} :
                         d[1] <= T!DaysIn(d[2], d[3])},
                time : {0, 59} \X {5, 59} \X {0, 23}]
Option(name, value) == [dash |-> TRUE, name |-> name, value |-> value]
Options == {Option("-filesys", "hdb"), Option("-filesys", "hdx"), Option("-rs", "1")} \cup
           {Option(name, "NULL") : name \in {"-q", "-r", "-h", "-bad", "-rs"}}
Words == {[dash |-> FALSE, name |-> name] : name \in {"ls", "run", "rm", "prog"}}
CommandCalls ==
  [f : {"command"}, options : Str(2, Options), words : Str(3, Words)] \cup
  [f : {"command"}, options : Str(1, Options), words : Str(2, Options \cup Words)]
StringCalls ==
  [f : {"tokens"}, str : Str(5, {1, 2, 3})] \cup
  [f : {"copy"}, dst : 1..6, src : 1..6] \cup
  [f : {"bounded"}, old : Str(3, {1}), src : Str(4, {2}), size : 0..7] \cup
  [f : {"search"}, a : Str(4, {1, 2}), b : Str(3, {1, 2})]
Conversion ==
  [flags : SUBSET {"-", "+", " ", "#", "0"}, width : {-6, 0, 6}, precision : {-1, 0, 3},
   type : {"CHAR", "SHORT", "INT"}, conv : {"d", "u", "o", "x", "X"}]
TextCalls ==
  [f : {"printf"}, s : Conversion] \cup
  [f : {"string"}, text : Str(3, {"p", "q"}), width : 0..4, precision : -1..4] \cup
  [f : {"dump"}, ofs : 0..70, len : 0..9] \cup
  [f : {"screen"}, text : Str(5, {"a", "newline", "tab", "backspace", "return", "formfeed"})]
DiskCalls ==
  [f : {"header"}, name : Str(4, {46, 47, 97})] \cup
  [f : {"archive"}, files : Str(2, [name : {<<97>>, <<98>>}, content : Str(3, {1})])] \cup
  [f : {"segment"}, vaddr : 0..15, filesz : 0..15, memsz : 0..15] \cup
  [f : {"partitions"}, type : {"none", "filesys", "swap"}, offset : 0..7, size : {0, 1, 2, 7}]

vars == <<lists, hashVars, consoleVars, kbdVars, part, input>>

Init ==
  /\ InitLists /\ hash_init /\ InitConsole /\ InitKeyboard
  /\ part \in {"lists", "hash", "console", "keyboard",
              "scalars", "clocks", "commands", "strings", "texts", "disks"}
  /\ part # "lists" => lists = Memory(CHOOSE k \in KeyMaps : TRUE)
  /\ input = [f |-> "none"]

LibraryCall ==
  \/ part = "scalars" /\ \E c \in ScalarCalls : input' = c
  \/ part = "clocks" /\ \E c \in ClockCalls : input' = c
  \/ part = "commands" /\ \E c \in CommandCalls : input' = c
  \/ part = "strings" /\ \E c \in StringCalls : input' = c
  \/ part = "texts" /\ \E c \in TextCalls : input' = c
  \/ part = "disks" /\ \E c \in DiskCalls : input' = c

Next ==
  /\ UNCHANGED part
  /\ \/ part = "lists" /\ NextLists /\ UNCHANGED <<hashVars, consoleVars, kbdVars, input>>
     \/ part = "hash" /\ NextHash /\ UNCHANGED <<lists, consoleVars, kbdVars, input>>
     \/ part = "console" /\ NextConsole /\ UNCHANGED <<lists, hashVars, kbdVars, input>>
     \/ part = "keyboard" /\ NextKeyboard /\ UNCHANGED <<lists, hashVars, consoleVars, input>>
     \/ /\ input.f = "none" /\ LibraryCall
        /\ UNCHANGED <<lists, hashVars, consoleVars, kbdVars>>

\* A thread that can go on with a call does.  A lock need not be fair: threads
\* print finitely often, so that it is free for good in the end.
Fairness ==
  \A t \in Printer :
    /\ WF_consoleVars(part = "console" /\ acquire_console(t))
    /\ WF_consoleVars(part = "console" /\ release_console(t))

Spec == Init /\ [][Next]_vars /\ Fairness

-----------------------------------------------------------------------------
\* bitmap.c, stdlib.c and arithmetic.c compute what they say for every input:
\* bit ranges across words, a heap sort and the search in its result, 64-bit
\* division from 32-bit steps whose quotient estimate is one too large or does
\* not fit, and atoi up to the most negative number.  list_sort, which merges
\* runs in place, is stable for longer lists too.  Fixed-point numbers lose less
\* than a unit.  palloc.c divides memory at boot without overlap.  timer.c, pit.c
\* and rtc.c: the delay loop is calibrated, sleeps are not too long, and a clock
\* read while it changes shows one of two moments.
NumbersComputed ==
  CASE input.f = "bitmap" ->
         input.start + input.cnt <= input.n =>
           \A Bit \in SUBSET (0..(input.n - 1)) : \A value \in BOOLEAN :
             B4!RangeOK(input.n, Bit, input.start, input.cnt, value)
    [] input.f = "sort" -> N!SortOK(input.array) /\ SortsStably(input.array)
    [] input.f = "divide" -> \A d \in 1..255 : N!DivisionOK(input.n, d)
    [] input.f = "atoi" -> \A spaces \in 0..1 : N!AtoiOK(input.value, spaces)
    [] input.f = "fixed" -> \A y \in -32..31 : F!ArithmeticOK(input.x, y)
    [] input.f = "memory" -> R!LayoutOK(input.ram, input.limit)
    [] input.f = "calibrate" -> T!CalibrationOK(input.perTick)
    [] input.f = "sleep" -> \A perTick \in {9, 20} : T!SleepOK(input.num, input.denom, perTick)
    [] input.f = "pit" -> T!FrequencyOK(input.frequency)
    [] input.f = "rtc" -> \A changes \in 1..8 : T!ReadingOK(input.time \o input.day, changes)
    [] OTHER -> TRUE

\* string.c: tokens, with delimiters that change from call to call, are the
\* words between them; overlapping blocks are moved whole; the bounded copies
\* end in a null byte, stay in their buffer and return the length they tried;
\* the searches agree with each other.  stdio.c and vga.c: a conversion prints
\* the field the C standard describes, a dump every byte at its address, and the
\* screen shows the end of the text.  init.c does what the command line says, up
\* to the first thing that is wrong with it.
TextHandled ==
  CASE input.f = "tokens" ->
         \A ds \in {<<<<1>>>>, <<<<1, 2>>, <<3>>>>, <<<<>>, <<3>>>>} :
           S!TokensOK(input.str, ds)
    [] input.f = "copy" ->
         \A size \in 0..(7 - S!Max({input.dst, input.src})) :
           S!CopiesOK(<<1, 2, 3, 4, 5, 6>>, input.dst, input.src, size)
    [] input.f = "bounded" -> S!BoundedOK(input.old, input.src, input.size, 7)
    [] input.f = "search" -> S!SearchOK(input.a, input.b)
    [] input.f = "printf" ->
         \A v \in {0, 7, -8, 40, -300} :
           \A how \in {<<TRUE, 0>>, <<FALSE, 3>>, <<TRUE, 12>>, <<FALSE, 12>>} :
             P!PrintfOK(input.s, v, how[1], how[2])
    [] input.f = "string" ->
         \A left \in BOOLEAN :
           P!StringConversionOK(input.text, input.width, input.precision, left)
    [] input.f = "dump" -> P!DumpOK(input.ofs, [i \in 1..input.len |-> i])
    [] input.f = "screen" -> V!ScreenOK(input.text)
    [] input.f = "command" -> K!CommandLineOK(input.options \o input.words)
    [] OTHER -> TRUE

\* What is read from a disk is what was put there or is refused: headers and
\* files of an archive (ustar.c, fsutil.c), the segments of a program
\* (process.c), the partitions of a disk (partition.c).
DiskFormatsRead ==
  CASE input.f = "header" ->
         \A type \in {48, 53} : A!HeaderOK(input.name, type, 5)
    [] input.f = "archive" ->
         \A after \in {0, 9} :
           A!ArchiveOK(input.files, after, <<"data", [i \in 1..2 |-> 9]>>)
    [] input.f = "segment" ->
         \A ofs \in 0..5 : \A len \in {0, 3, 6} :
           E!SegmentOK([offset |-> ofs, vaddr |-> input.vaddr,
                        filesz |-> input.filesz, memsz |-> input.memsz], len)
    [] input.f = "partitions" ->
         \A second \in [type : {"none", "filesys"}, offset : {1, 4}, size : {1, 3}] :
           D!ScanOK([x \in 0..4 |->
             [signed |-> x = 0,
              entries |-> <<[type |-> input.type, offset |-> input.offset,
                             size |-> input.size], second>>]])
    [] OTHER -> TRUE
=============================================================================
