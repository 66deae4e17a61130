------------------------------- MODULE Lists -------------------------------
(***************************************************************************)
(* lib/kernel/list.c: doubly linked lists through embedded list elements.  *)
(* A memory m gives the prev and next pointers of every element and of the *)
(* head and tail of every list; m.ok turns FALSE when an ASSERT fails.  An *)
(* element keeps its stale pointers when it leaves a list, as in the code. *)
(* The element's keys, by which less compares them, are part of the memory.*)
(***************************************************************************)
EXTENDS Integers, FiniteSets, SequencesExt

CONSTANTS Elem, List, KeyMaps

VARIABLE lists

NULL == "NULL"
HeadOf(l) == l \o ".head"
TailOf(l) == l \o ".tail"
Slot == 1..(Cardinality(Elem) + 1)

is_head(m, e) == e # NULL /\ m.prev[e] = NULL /\ m.next[e] # NULL
is_interior(m, e) == e # NULL /\ m.prev[e] # NULL /\ m.next[e] # NULL
is_tail(m, e) == e # NULL /\ m.prev[e] # NULL /\ m.next[e] = NULL

Check(m, c) == [m EXCEPT !.ok = @ /\ c]

list_init(m, l) ==
  [m EXCEPT !.prev[HeadOf(l)] = NULL, !.next[HeadOf(l)] = TailOf(l),
            !.prev[TailOf(l)] = HeadOf(l), !.next[TailOf(l)] = NULL]

list_begin(m, l) == m.next[HeadOf(l)]
list_rbegin(m, l) == m.prev[TailOf(l)]
list_empty(m, l) == list_begin(m, l) = TailOf(l)

\* list_next and list_prev, whose assertions are those of NextOK and PrevOK.
NextOK(m, e) == is_head(m, e) \/ is_interior(m, e)
PrevOK(m, e) == is_interior(m, e) \/ is_tail(m, e)

list_insert(m, before, elem) ==
  LET p == m.prev[before]
  IN  IF PrevOK(m, before)
        THEN [m EXCEPT !.prev[elem] = p, !.next[elem] = before,
                       !.next[p] = elem, !.prev[before] = elem]
        ELSE Check(m, FALSE)

\* The four assignments that take FIRST..LAST out come before the four that
\* put them in, so that BEFORE may be LAST's successor.
list_splice(m, before, first, last) ==
  IF first = last THEN Check(m, PrevOK(m, before))
  ELSE LET z == m.prev[last]
           out == [m EXCEPT !.next[m.prev[first]] = m.next[z],
                            !.prev[m.next[z]] = m.prev[first]]
           p == out.prev[before]
       IN  IF PrevOK(m, before) /\ PrevOK(m, last)
                /\ is_interior(m, first) /\ is_interior(m, z)
             THEN [out EXCEPT !.prev[first] = p, !.next[z] = before,
                              !.next[p] = first, !.prev[before] = z]
             ELSE Check(m, FALSE)

list_push_front(m, l, e) == list_insert(m, list_begin(m, l), e)
list_push_back(m, l, e) == list_insert(m, TailOf(l), e)

list_remove(m, e) ==
  IF is_interior(m, e)
    THEN [m EXCEPT !.next[m.prev[e]] = m.next[e], !.prev[m.next[e]] = m.prev[e]]
    ELSE Check(m, FALSE)

list_front(m, l) == m.next[HeadOf(l)]
list_back(m, l) == m.prev[TailOf(l)]
list_pop_front(m, l) == list_remove(Check(m, ~list_empty(m, l)), list_front(m, l))
list_pop_back(m, l) == list_remove(Check(m, ~list_empty(m, l)), list_back(m, l))

\* The elements from e up to the node end, following next; and following prev.
RECURSIVE Walk(_, _, _), WalkBack(_, _, _)
Walk(m, e, end) ==
  IF e = end THEN <<>> ELSE <<e>> \o Walk(m, m.next[e], end)
WalkBack(m, e, end) ==
  IF e = end THEN <<>> ELSE <<e>> \o WalkBack(m, m.prev[e], end)

\* The loop of every function that goes over a list.
Items(m, l) == Walk(m, list_begin(m, l), TailOf(l))
list_size(m, l) == Len(Items(m, l))

\* The loop of list_reverse steps with e->prev, the old next it has swapped.
RECURSIVE SwapAll(_, _, _)
SwapAll(m, e, end) ==
  IF e = end THEN m
  ELSE LET s == [m EXCEPT !.prev[e] = m.next[e], !.next[e] = m.prev[e]]
       IN  SwapAll(s, s.prev[e], end)

list_reverse(m, l) ==
  IF list_empty(m, l) THEN m
  ELSE LET s == SwapAll(m, list_begin(m, l), TailOf(l))
           h == HeadOf(l)
           t == TailOf(l)
           ends == [s EXCEPT !.next[h] = s.prev[t], !.prev[t] = s.next[h]]
           f == ends.next[h]
           b == ends.prev[t]
       IN  [ends EXCEPT !.prev[f] = ends.next[b], !.next[b] = ends.prev[f]]

less(m, a, b) == m.key[a] < m.key[b]

is_sorted(m, a, b) ==
  LET w == Walk(m, a, b)
  IN  \A i \in 1..(Len(w) - 1) : ~less(m, w[i + 1], w[i])

RECURSIVE find_end_of_run(_, _, _)
find_end_of_run(m, a, b) ==
  LET n == m.next[a]
  IN  IF n # b /\ ~less(m, n, m.prev[n]) THEN find_end_of_run(m, n, b) ELSE n

\* The loop of inplace_merge.
RECURSIVE Merge(_, _, _, _)
Merge(m, a0, a1b0, b1) ==
  IF a0 = a1b0 \/ a1b0 = b1 THEN m
  ELSE IF ~less(m, a1b0, a0) THEN Merge(m, m.next[a0], a1b0, b1)
  ELSE LET n == m.next[a1b0]
       IN  Merge(list_splice(m, a0, m.prev[n], n), a0, n, b1)

inplace_merge(m, a0, a1b0, b1) ==
  Merge(Check(m, is_sorted(m, a0, a1b0) /\ is_sorted(m, a1b0, b1)), a0, a1b0, b1)

\* One pass of list_sort: merge runs two by two from a0 on, count the results.
RECURSIVE SortPass(_, _, _, _)
SortPass(m, l, a0, cnt) ==
  LET end == TailOf(l)
  IN  IF a0 = end THEN [mem |-> m, cnt |-> cnt]
      ELSE LET a1b0 == find_end_of_run(m, a0, end)
           IN  IF a1b0 = end THEN [mem |-> m, cnt |-> cnt + 1]
               ELSE LET b1 == find_end_of_run(m, a1b0, end)
                    IN  SortPass(inplace_merge(m, a0, a1b0, b1), l, b1, cnt + 1)

RECURSIVE SortPasses(_, _)
SortPasses(m, l) ==
  LET p == SortPass(m, l, list_begin(m, l), 0)
  IN  IF p.cnt > 1 THEN SortPasses(p.mem, l) ELSE p.mem

list_sort(m, l) ==
  LET s == SortPasses(m, l)
  IN  Check(s, is_sorted(s, list_begin(s, l), TailOf(l)))

\* Mutant: an element is put before its equals.
list_insert_ordered_Early(m, l, elem) ==
  LET after == SelectSeq(Items(m, l), LAMBDA e : ~less(m, e, elem))
  IN  list_insert(m, IF after = <<>> THEN TailOf(l) ELSE after[1], elem)

list_insert_ordered(m, l, elem) ==
  LET after == SelectSeq(Items(m, l), LAMBDA e : less(m, elem, e))
  IN  list_insert(m, IF after = <<>> THEN TailOf(l) ELSE after[1], elem)

\* list_unique's loop; the duplicates go to the back of list d.
RECURSIVE UniqueFrom(_, _, _, _)
UniqueFrom(m, l, d, elem) ==
  LET next == m.next[elem]
  IN  IF next = TailOf(l) THEN m
      ELSE IF ~less(m, elem, next) /\ ~less(m, next, elem)
      THEN UniqueFrom(list_push_back(list_remove(m, next), d, next), l, d, elem)
      ELSE UniqueFrom(m, l, d, next)

list_unique(m, l, d) ==
  IF list_empty(m, l) THEN m ELSE UniqueFrom(m, l, d, list_begin(m, l))

list_max(m, l) ==
  FoldLeft(LAMBDA best, e : IF less(m, best, e) THEN e ELSE best,
           list_begin(m, l), Items(m, l))
list_min(m, l) ==
  FoldLeft(LAMBDA best, e : IF less(m, e, best) THEN e ELSE best,
           list_begin(m, l), Items(m, l))

-----------------------------------------------------------------------------
Memory(keys) ==
  LET nodes == DOMAIN keys \cup UNION {{HeadOf(l), TailOf(l)} : l \in List}
      zero == [prev |-> [n \in nodes |-> NULL], next |-> [n \in nodes |-> NULL],
               key |-> keys, ok |-> TRUE]
  IN  FoldSet(LAMBDA l, m : list_init(m, l), zero, List)

InitLists == \E keys \in KeyMaps : lists = Memory(keys)

\* The lists as their callers think of them.
Seqs(m) == [l \in List |-> Items(m, l)]
Listed(m) == UNION {Range(Items(m, l)) : l \in List}

\* The calls a caller may make: it inserts elements that are on no list, in
\* order only into a sorted list, removes what is there, and splices i..j-1 of
\* list l before the k-th node of list d, which is not one of them.
InsertCalls(m) ==
  {"push_front", "push_back"} \X List \X (Elem \ Listed(m)) \cup
  {"insert_ordered"} \X {l \in List : is_sorted(m, list_begin(m, l), TailOf(l))}
                     \X (Elem \ Listed(m))
RemoveCalls(m) ==
  {"pop_front", "pop_back"} \X {l \in List : ~list_empty(m, l)} \cup
  {c \in {"remove"} \X List \X Elem : c[3] \in Range(Items(m, c[2]))}
WholeCalls(m) ==
  {"reverse", "sort"} \X List \cup
  {c \in {"unique"} \X List \X List : c[2] # c[3]}
SpliceCalls(m) ==
  {c \in {"splice"} \X List \X List \X Slot \X Slot \X Slot :
     /\ c[4] <= c[5] /\ c[5] <= list_size(m, c[2]) + 1
     /\ c[6] <= list_size(m, c[3]) + 1
     /\ c[2] = c[3] => c[6] < c[4] \/ c[6] >= c[5]}
ListCalls(m) == InsertCalls(m) \cup RemoveCalls(m) \cup WholeCalls(m) \cup SpliceCalls(m)

NodeAt(m, l, i) == Append(Items(m, l), TailOf(l))[i]

ListDo(m, c) ==
  LET l == c[2]
  IN  CASE c[1] = "push_front" -> list_push_front(m, l, c[3])
        [] c[1] = "push_back" -> list_push_back(m, l, c[3])
        [] c[1] = "insert_ordered" -> list_insert_ordered(m, l, c[3])
        [] c[1] = "pop_front" -> list_pop_front(m, l)
        [] c[1] = "pop_back" -> list_pop_back(m, l)
        [] c[1] = "remove" -> list_remove(m, c[3])
        [] c[1] = "reverse" -> list_reverse(m, l)
        [] c[1] = "sort" -> list_sort(m, l)
        [] c[1] = "unique" -> list_unique(m, l, c[3])
        [] c[1] = "splice" -> list_splice(m, NodeAt(m, c[3], c[6]),
                                          NodeAt(m, l, c[4]), NodeAt(m, l, c[5]))

NextLists ==
  \E c \in ListCalls(lists) : lists' = ListDo(lists, c)

-----------------------------------------------------------------------------
\* What each call means for the sequences the lists stand for.  The sort is
\* stable; the first elements of runs of equal keys stay in a unique list.
ByKey(k, s) ==
  SortSeq(s, LAMBDA a, b : \/ k[a] < k[b]
                           \/ k[a] = k[b] /\ \E i, j \in DOMAIN s :
                                              i < j /\ s[i] = a /\ s[j] = b)
FirstOfRuns(k, s) == {i \in DOMAIN s : i = 1 \/ k[s[i]] # k[s[i - 1]]}
Pick(s, I) == FoldLeftDomain(LAMBDA t, i : IF i \in I THEN Append(t, s[i]) ELSE t,
                             <<>>, s)

Meaning(k, q, c) ==
  LET l == c[2]
      s == q[l]
      Put(t) == [q EXCEPT ![l] = t]
  IN  CASE c[1] = "push_front" -> Put(<<c[3]>> \o s)
        [] c[1] = "push_back" -> Put(s \o <<c[3]>>)
        [] c[1] = "insert_ordered" -> Put(ByKey(k, s \o <<c[3]>>))
        [] c[1] = "pop_front" -> Put(Tail(s))
        [] c[1] = "pop_back" -> Put(Front(s))
        [] c[1] = "remove" -> Put(SelectSeq(s, LAMBDA e : e # c[3]))
        [] c[1] = "reverse" -> Put(Reverse(s))
        [] c[1] = "sort" -> Put(ByKey(k, s))
        [] c[1] = "unique" ->
             [q EXCEPT ![l] = Pick(s, FirstOfRuns(k, s)),
                       ![c[3]] = @ \o Pick(s, DOMAIN s \ FirstOfRuns(k, s))]
        [] c[1] = "splice" /\ l # c[3] ->
             [q EXCEPT ![l] = SubSeq(s, 1, c[4] - 1) \o SubSeq(s, c[5], Len(s)),
                       ![c[3]] = SubSeq(@, 1, c[6] - 1) \o SubSeq(s, c[4], c[5] - 1)
                                   \o SubSeq(@, c[6], Len(@))]
        [] c[1] = "splice" /\ l = c[3] ->
             LET mid == SubSeq(s, c[4], c[5] - 1)
             IN  Put(IF c[6] <= c[4]
                       THEN SubSeq(s, 1, c[6] - 1) \o mid \o SubSeq(s, c[6], c[4] - 1)
                              \o SubSeq(s, c[5], Len(s))
                       ELSE SubSeq(s, 1, c[4] - 1) \o SubSeq(s, c[5], c[6] - 1) \o mid
                              \o SubSeq(s, c[6], Len(s)))

\* The backward pointers always tell the same story as the forward ones, an
\* element is on one list at most, max and min return the first extremum, and
\* no ASSERT of list.c fails.
WellLinked ==
  /\ lists.ok
  /\ \A l \in List :
       LET s == Items(lists, l)
           Best(e, R(_, _)) == \A i \in DOMAIN s :
                 /\ ~R(lists.key[s[i]], lists.key[e])
                 /\ lists.key[s[i]] = lists.key[e] => \E j \in 1..i : s[j] = e
       IN  /\ WalkBack(lists, list_rbegin(lists, l), HeadOf(l)) = Reverse(s)
           /\ s # <<>> => /\ Best(list_max(lists, l), LAMBDA x, y : x > y)
                          /\ Best(list_min(lists, l), LAMBDA x, y : x < y)
  /\ \A l, d \in List :
       l # d => Range(Items(lists, l)) \cap Range(Items(lists, d)) = {}

\* Each operation of list.c, in any sequence of legal calls on several lists,
\* does to the linked elements what its comment says of sequences: the sort is
\* stable, unique keeps the first of each run, splice moves a range; an element
\* that was removed can be inserted anywhere again.  Backward pointers agree
\* with forward ones, and no ASSERT of list.c fails.
ListsAreSequences ==
  /\ WellLinked
  /\ \A c \in ListCalls(lists) : Seqs(ListDo(lists, c)) = Meaning(lists.key, Seqs(lists), c)

\* list_sort leaves longer lists, with several passes over several runs, in
\* nondecreasing order and equal elements in the order they had.
Longer(keys) ==
  FoldLeft(LAMBDA m, i : list_push_back(m, "L", ToString(i)),
           Memory([e \in {ToString(i) : i \in DOMAIN keys} |->
                     keys[CHOOSE i \in DOMAIN keys : e = ToString(i)]]),
           [i \in DOMAIN keys |-> i])
SortsStably(keys) ==
  LET m == Longer(keys)
      r == list_sort(m, "L")
  IN  r.ok /\ Items(r, "L") = ByKey(m.key, Items(m, "L"))
=============================================================================
