----------------------------- MODULE HashTable -----------------------------
(***************************************************************************)
(* lib/kernel/hash.c: a table of buckets, each a list of elements, that is *)
(* resized after every call that changes it.  Lists are sequences here;    *)
(* their pointers are the subject of module Lists.  An element is a pair   *)
(* <<key, copy>>: elements with the same key are equal to less.  The least *)
(* number of buckets and the ideal load are constants, so that a few       *)
(* elements are enough to make the table grow and shrink.                  *)
(***************************************************************************)
EXTENDS Integers, FiniteSets, SequencesExt

CONSTANTS HashKey, Copy, HashOf, MinBuckets, BestPerBucket

VARIABLES table, \* struct hash: elem_cnt and the buckets
          stored \* what the callers expect to find: key -> element

hashVars == <<table, stored>>
HashElem == HashKey \X Copy
NoElem == <<>>

Empty(n) == [i \in 0..(n - 1) |-> <<>>]
bucket_cnt(h) == Cardinality(DOMAIN h.buckets)
hash_size(h) == h.elem_cnt
hash_empty(h) == h.elem_cnt = 0

find_bucket(h, e) == HashOf[e[1]] % bucket_cnt(h)
find_elem(h, b, e) ==
  LET same == SelectSeq(h.buckets[b], LAMBDA x : x[1] = e[1])
  IN  IF same = <<>> THEN NoElem ELSE same[1]

insert_elem(h, b, e) ==
  [h EXCEPT !.elem_cnt = @ + 1, !.buckets[b] = <<e>> \o @]
remove_elem(h, e) ==
  [elem_cnt |-> h.elem_cnt - 1,
   buckets |-> [i \in DOMAIN h.buckets |-> SelectSeq(h.buckets[i], LAMBDA x : x # e)]]

\* x & (x - 1): the lowest 1-bit is the largest power of 2 that divides x.
turn_off_least_1bit(x) ==
  x - (CHOOSE p \in {2 ^ i : i \in 0..x} : x % p = 0 /\ (x \div p) % 2 = 1)
is_power_of_2(x) == x # 0 /\ turn_off_least_1bit(x) = 0

RECURSIVE RoundDown(_)
RoundDown(x) == IF is_power_of_2(x) THEN x ELSE RoundDown(turn_off_least_1bit(x))

\* The move of the elements to the new buckets, old bucket by old bucket.
AllElems(h) ==
  FoldLeft(LAMBDA s, i : s \o h.buckets[i - 1], <<>>, [i \in 1..bucket_cnt(h) |-> i])
Moved(h, n) ==
  FoldLeft(LAMBDA g, e : [g EXCEPT !.buckets[find_bucket(g, e)] = <<e>> \o @],
           [h EXCEPT !.buckets = Empty(n)], AllElems(h))

\* Mutant: an element goes to the bucket it has in the old table.
rehash_OldIndex(h, memory) ==
  LET best == h.elem_cnt \div BestPerBucket
      n == RoundDown(IF best < MinBuckets THEN MinBuckets ELSE best)
  IN  IF n = bucket_cnt(h) \/ ~memory THEN h
      ELSE FoldLeft(LAMBDA g, e : [g EXCEPT !.buckets[find_bucket(h, e) % n] = <<e>> \o @],
                    [h EXCEPT !.buckets = Empty(n)], AllElems(h))

\* When malloc fails the old buckets stay in use.
rehash(h, memory) ==
  LET best == h.elem_cnt \div BestPerBucket
      n == RoundDown(IF best < MinBuckets THEN MinBuckets ELSE best)
  IN  IF n = bucket_cnt(h) \/ ~memory THEN h ELSE Moved(h, n)

hash_find(h, e) == find_elem(h, find_bucket(h, e), e)

-----------------------------------------------------------------------------
hash_init ==
  /\ table = [elem_cnt |-> 0, buckets |-> Empty(MinBuckets)]
  /\ stored = [k \in {} |-> NoElem]

Known(e) == e[1] \in DOMAIN stored
Put(e) == [k \in DOMAIN stored \cup {e[1]} |-> IF k = e[1] THEN e ELSE stored[k]]
Without(e) == [k \in DOMAIN stored \ {e[1]} |-> stored[k]]

\* An element is not inserted again while it is in the table.
hash_insert(new, memory) ==
  LET b == find_bucket(table, new)
      old == find_elem(table, b, new)
  IN  /\ new \notin Range(AllElems(table))
      /\ table' = rehash(IF old = NoElem THEN insert_elem(table, b, new) ELSE table,
                         memory)
      /\ stored' = IF Known(new) THEN stored ELSE Put(new)

hash_replace(new, memory) ==
  LET b == find_bucket(table, new)
      old == find_elem(table, b, new)
      rest == IF old = NoElem THEN table ELSE remove_elem(table, old)
  IN  /\ new \notin Range(AllElems(table))
      /\ table' = rehash(insert_elem(rest, b, new), memory)
      /\ stored' = Put(new)

hash_delete(e, memory) ==
  LET found == hash_find(table, e)
  IN  /\ found # NoElem
      /\ table' = rehash(remove_elem(table, found), memory)
      /\ stored' = Without(e)

\* hash_clear empties the buckets and keeps their number.
hash_clear ==
  /\ table' = [elem_cnt |-> 0, buckets |-> Empty(bucket_cnt(table))]
  /\ stored' = [k \in {} |-> NoElem]

NextHash ==
  \/ \E e \in HashElem, memory \in BOOLEAN :
        hash_insert(e, memory) \/ hash_replace(e, memory) \/ hash_delete(e, memory)
  \/ hash_clear

-----------------------------------------------------------------------------
\* An iterator is a bucket and a position in it, 0 being the list head.
hash_first == [bucket |-> 0, pos |-> 0]

RECURSIVE SkipEnds(_, _)
SkipEnds(h, i) ==
  IF i.bucket = bucket_cnt(h) \/ i.pos <= Len(h.buckets[i.bucket]) THEN i
  ELSE SkipEnds(h, [bucket |-> i.bucket + 1, pos |-> 1])
hash_next(h, i) == SkipEnds(h, [i EXCEPT !.pos = @ + 1])

\* The elements `while (hash_next (&i))' visits.
RECURSIVE Visited(_, _)
Visited(h, i) ==
  LET n == hash_next(h, i)
  IN  IF n.bucket = bucket_cnt(h) THEN <<>>
      ELSE <<h.buckets[n.bucket][n.pos]>> \o Visited(h, n)

\* After any sequence of insertions, replacements, deletions and clearings,
\* each of which may grow or shrink the table or fail to for want of memory,
\* a lookup finds exactly the element its callers left there, elem_cnt is
\* right, the number of buckets is a power of 2 and an iteration visits every
\* element once.
HashIsMap ==
  /\ \A e \in HashElem :
        hash_find(table, e) = IF Known(e) THEN stored[e[1]] ELSE NoElem
  /\ hash_size(table) = Cardinality(DOMAIN stored)
  /\ hash_empty(table) <=> stored = <<>>
  /\ is_power_of_2(bucket_cnt(table))
  /\ Visited(table, hash_first) = AllElems(table)
  /\ Len(AllElems(table)) = Cardinality(DOMAIN stored)
=============================================================================
