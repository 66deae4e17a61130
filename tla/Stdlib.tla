------------------------------- MODULE Stdlib -------------------------------
(***************************************************************************)
(* lib/stdlib.c: heap sort, binary search and atoi; lib/arithmetic.c: the  *)
(* division of double words by means of a single-word divide instruction.  *)
(* A word has WordBits bits, a double word twice as many.                  *)
(***************************************************************************)
EXTENDS Integers, FiniteSets, SequencesExt

CONSTANT WordBits

do_swap(a, i, j) == [a EXCEPT ![i] = a[j], ![j] = a[i]]

\* Mutant: the right child is compared with I, not with the larger of the two.
RECURSIVE heapify_Right(_, _, _)
heapify_Right(a, i, cnt) ==
  LET left == 2 * i
      right == 2 * i + 1
      l == IF left <= cnt /\ a[left] > a[i] THEN left ELSE i
      max == IF right <= cnt /\ a[right] > a[i] THEN right ELSE l
  IN  IF max = i THEN a ELSE heapify_Right(do_swap(a, i, max), max, cnt)

RECURSIVE heapify(_, _, _)
heapify(a, i, cnt) ==
  LET left == 2 * i
      right == 2 * i + 1
      l == IF left <= cnt /\ a[left] > a[i] THEN left ELSE i
      max == IF right <= cnt /\ a[right] > a[l] THEN right ELSE l
  IN  IF max = i THEN a ELSE heapify(do_swap(a, i, max), max, cnt)

Down(from, to) == [k \in 1..(from - to + 1) |-> from - k + 1]

sort(a) ==
  LET cnt == Len(a)
      heap == FoldLeft(LAMBDA b, i : heapify(b, i, cnt), a, Down(cnt \div 2, 1))
  IN  FoldLeft(LAMBDA b, i : heapify(do_swap(b, 1, i), 1, i - 1), heap, Down(cnt, 2))

\* The index of a match in a[first..last-1], or 0.
RECURSIVE binary_search(_, _, _, _)
binary_search(key, a, first, last) ==
  LET middle == first + ((last - first) \div 2)
  IN  IF first >= last THEN 0
      ELSE IF key < a[middle] THEN binary_search(key, a, first, middle)
      ELSE IF key > a[middle] THEN binary_search(key, a, middle + 1, last)
      ELSE middle

\* sort returns a sorted permutation of its array, and a binary search of the
\* sorted array finds a key exactly when it is there.
SortOK(a) ==
  LET s == sort(a)
      Count(t, v) == Cardinality({i \in DOMAIN t : t[i] = v})
  IN  /\ \A i \in 1..(Len(s) - 1) : s[i] <= s[i + 1]
      /\ \A v \in Range(a) \cup Range(s) : Count(a, v) = Count(s, v)
      /\ \A key \in 0..5 :
           LET i == binary_search(key, s, 1, Len(s) + 1)
           IN  IF i = 0 THEN key \notin Range(s) ELSE s[i] = key

-----------------------------------------------------------------------------
B == 2 ^ WordBits
Signed(x, m) == IF x % m < m \div 2 THEN x % m ELSE (x % m) - m

\* The instruction traps when the quotient does not fit in a word.
Trap == -1
divl(n, d) == IF n \div d < B THEN n \div d ELSE Trap

\* The leading zeros are counted by halves: WordBits/2, WordBits/4, ..., 1.
RECURSIVE NlzBy(_, _)
NlzBy(x, half) ==
  LET small == x <= (2 ^ (WordBits - half)) - 1
      n == IF small THEN half ELSE 0
  IN  IF half = 1 THEN n
      ELSE n + NlzBy(IF small THEN x * 2 ^ half ELSE x, half \div 2)
nlz(x) == NlzBy(x, WordBits \div 2)

\* Mutant: the quotient of the normalised division is taken as it is.
udiv64_Estimate(n, d) ==
  IF d \div B = 0
    THEN LET q == divl(B * ((n \div B) % d) + (n % B), d)
         IN  IF q = Trap THEN Trap ELSE q + B * ((n \div B) \div d)
  ELSE IF n < d THEN 0
  ELSE LET s == nlz(d \div B)
           e == divl(n \div 2, ((d * 2 ^ s) % (B * B)) \div B)
       IN  IF e = Trap THEN Trap ELSE e \div 2 ^ (WordBits - 1 - s)

udiv64(n, d) ==
  IF d \div B = 0
    THEN LET q == divl(B * ((n \div B) % d) + (n % B), d)
         IN  IF q = Trap THEN Trap ELSE q + B * ((n \div B) \div d)
  ELSE IF n < d THEN 0
  ELSE LET s == nlz(d \div B)
           e == divl(n \div 2, ((d * 2 ^ s) % (B * B)) \div B)
           q == e \div 2 ^ (WordBits - 1 - s)
       IN  IF e = Trap THEN Trap
           ELSE IF (n - (q - 1) * d) % (B * B) < d THEN q - 1 ELSE q

\* The remainder is returned in a single word.
umod64(n, d) == (n - d * udiv64(n, d)) % B

sdiv64(n, d) ==
  LET Abs(x) == IF x >= 0 THEN x ELSE -x
      q == udiv64(Abs(n), Abs(d))
  IN  Signed(IF (n < 0) = (d < 0) THEN q ELSE -q, B * B)
smod64(n, d) == Signed(n - d * sdiv64(n, d), B)

\* The division of double words never traps and gives the quotient, signed
\* (truncated towards zero) and unsigned; the remainder is right whenever it
\* fits in the single word that umod64 and smod64 return.
DivisionOK(n, d) ==
  LET sn == Signed(n, B * B)
      sd == Signed(d, B * B)
      r == sn - sd * sdiv64(sn, sd)
  IN  /\ udiv64(n, d) = n \div d
      /\ n % d < B => umod64(n, d) = n % d
      /\ ~(sn = -((B * B) \div 2) /\ sd = -1) =>
           /\ (r > 0 => sn > 0) /\ (r < 0 => sn < 0)
           /\ (IF r < 0 THEN -r ELSE r) < (IF sd < 0 THEN -sd ELSE sd)
           /\ r \in (-(B \div 2))..((B \div 2) - 1) => smod64(sn, sd) = r

-----------------------------------------------------------------------------
\* The digits are subtracted from a negative value; an int is a double word.
\* When a value leaves its range the result is undefined in C.
Overflow == 1000
RECURSIVE Digits(_, _)
Digits(s, value) ==
  IF s = <<>> \/ Head(s)[1] # "digit" THEN value
  ELSE LET v == value * 10 - Head(s)[2]
       IN  IF v < -((B * B) \div 2) THEN Overflow ELSE Digits(Tail(s), v)

RECURSIVE atoi(_)
atoi(s) ==
  IF s # <<>> /\ Head(s)[1] = "space" THEN atoi(Tail(s))
  ELSE LET negative == s # <<>> /\ Head(s)[1] = "minus"
           signed == s # <<>> /\ Head(s)[1] \in {"plus", "minus"}
           value == Digits(IF signed THEN Tail(s) ELSE s, 0)
       IN  IF negative \/ value = Overflow THEN value ELSE -value

\* The decimal text of v, with leading spaces and a sign.
RECURSIVE Decimal(_)
Decimal(v) == (IF v < 10 THEN <<>> ELSE Decimal(v \div 10)) \o <<<<"digit", v % 10>>>>
Text(v, spaces) ==
  [i \in 1..spaces |-> <<"space", 0>>] \o
  (IF v < 0 THEN <<<<"minus", 0>>>> \o Decimal(-v) ELSE Decimal(v)) \o <<<<"other", 0>>>>

\* atoi reads back every int, the most negative one included, without an
\* intermediate value that an int cannot hold.
AtoiOK(v, spaces) == atoi(Text(v, spaces)) = v
=============================================================================
