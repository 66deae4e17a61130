------------------------------ MODULE Bitmaps ------------------------------
(***************************************************************************)
(* lib/kernel/bitmap.c over words of ElemBits bits.  A bitmap b is a bit   *)
(* count and a function from word numbers to words, words being numbers.   *)
(***************************************************************************)
EXTENDS Integers, FiniteSets, FiniteSetsExt, SequencesExt

CONSTANT ElemBits

BITMAP_ERROR == -1

elem_idx(i) == i \div ElemBits
bit_mask(i) == 2 ^ (i % ElemBits)
elem_cnt(n) == (n + ElemBits - 1) \div ElemBits
last_mask(b) ==
  LET last_bits == b.bit_cnt % ElemBits
  IN  IF last_bits # 0 THEN (2 ^ last_bits) - 1 ELSE (2 ^ ElemBits) - 1

bitmap_test(b, i) == (b.bits[elem_idx(i)] \div bit_mask(i)) % 2 = 1

\* The OR, AND and XOR instructions with a mask of a single bit.
bitmap_mark(b, i) ==
  IF bitmap_test(b, i) THEN b ELSE [b EXCEPT !.bits[elem_idx(i)] = @ + bit_mask(i)]
bitmap_reset(b, i) ==
  IF bitmap_test(b, i) THEN [b EXCEPT !.bits[elem_idx(i)] = @ - bit_mask(i)] ELSE b
bitmap_flip(b, i) ==
  IF bitmap_test(b, i) THEN bitmap_reset(b, i) ELSE bitmap_mark(b, i)
bitmap_set(b, i, value) ==
  IF value THEN bitmap_mark(b, i) ELSE bitmap_reset(b, i)

Indices(start, cnt) == [i \in 1..cnt |-> start + i - 1]

bitmap_set_multiple(b, start, cnt, value) ==
  FoldLeft(LAMBDA c, i : bitmap_set(c, i, value), b, Indices(start, cnt))
bitmap_set_all(b, value) == bitmap_set_multiple(b, 0, b.bit_cnt, value)

bitmap_create(n) ==
  bitmap_set_all([bit_cnt |-> n, bits |-> [w \in 0..(elem_cnt(n) - 1) |-> 0]], FALSE)

bitmap_count(b, start, cnt, value) ==
  Len(SelectSeq(Indices(start, cnt), LAMBDA i : bitmap_test(b, i) = value))
bitmap_contains(b, start, cnt, value) ==
  \E i \in Range(Indices(start, cnt)) : bitmap_test(b, i) = value
bitmap_any(b, start, cnt) == bitmap_contains(b, start, cnt, TRUE)
bitmap_none(b, start, cnt) == ~bitmap_contains(b, start, cnt, TRUE)
bitmap_all(b, start, cnt) == ~bitmap_contains(b, start, cnt, FALSE)

\* Mutant: the last place where the group could begin is not looked at.
bitmap_scan_Last(b, start, cnt, value) ==
  LET fits == {i \in start..(b.bit_cnt - cnt - 1) : ~bitmap_contains(b, i, cnt, ~value)}
  IN  IF cnt <= b.bit_cnt /\ fits # {} THEN Min(fits) ELSE BITMAP_ERROR

bitmap_scan(b, start, cnt, value) ==
  LET fits == {i \in start..(b.bit_cnt - cnt) : ~bitmap_contains(b, i, cnt, ~value)}
  IN  IF cnt <= b.bit_cnt /\ fits # {} THEN Min(fits) ELSE BITMAP_ERROR

bitmap_scan_and_flip(b, start, cnt, value) ==
  LET idx == bitmap_scan(b, start, cnt, value)
  IN  [idx |-> idx,
       map |-> IF idx = BITMAP_ERROR THEN b
               ELSE bitmap_set_multiple(b, idx, cnt, ~value)]

\* bitmap_read clears the unused bits of the last word it reads.
bitmap_read(b, words) ==
  IF b.bit_cnt = 0 THEN b
  ELSE LET last == elem_cnt(b.bit_cnt) - 1
       IN  [b EXCEPT !.bits = [words EXCEPT ![last] = @ % (last_mask(b) + 1)]]

-----------------------------------------------------------------------------
\* The bitmap of n bits whose set bits are S, and the bits of a bitmap.
Of(n, S) ==
  FoldSet(LAMBDA i, b : bitmap_flip(b, i), bitmap_create(n), S)
Ones(b) == {i \in 0..(b.bit_cnt - 1) : bitmap_test(b, i)}

\* Every operation on a range does to the set of ones what its comment says:
\* a range that crosses words changes those bits only, counts and tests agree
\* with the set, and a scan finds the first group of equal bits at or after its
\* start, whole, and flips it.  Reading a file with stray bits past the end of
\* the map gives the same set.
RangeOK(n, S, start, cnt, value) ==
  LET b == Of(n, S)
      R == start..(start + cnt - 1)
      Same(T) == IF value THEN T \subseteq S ELSE T \cap S = {}
      f == bitmap_scan_and_flip(b, start, cnt, value)
      G == f.idx..(f.idx + cnt - 1)
  IN  /\ Ones(b) = S
      /\ start + cnt <= n =>
           /\ Ones(bitmap_set_multiple(b, start, cnt, value)) =
                IF value THEN S \cup R ELSE S \ R
           /\ bitmap_count(b, start, cnt, value) =
                Cardinality(IF value THEN S \cap R ELSE R \ S)
           /\ bitmap_any(b, start, cnt) <=> S \cap R # {}
           /\ bitmap_none(b, start, cnt) <=> S \cap R = {}
           /\ bitmap_all(b, start, cnt) <=> R \subseteq S
      /\ IF f.idx = BITMAP_ERROR
           THEN /\ f.map = b
                /\ \A i \in start..(n - cnt) : ~Same(i..(i + cnt - 1))
           ELSE /\ f.idx >= start /\ G \subseteq 0..(n - 1) /\ Same(G)
                /\ \A i \in start..(f.idx - 1) : ~Same(i..(i + cnt - 1))
                /\ Ones(f.map) = IF value THEN S \ G ELSE S \cup G
      /\ LET full == [w \in DOMAIN b.bits |->
                        IF w = elem_cnt(n) - 1
                          THEN b.bits[w] + (2 ^ ElemBits) - 1 - last_mask(b)
                          ELSE b.bits[w]]
         IN  bitmap_read(bitmap_create(n), full) = b
=============================================================================
