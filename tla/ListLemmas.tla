----------------------------- MODULE ListLemmas -----------------------------
(***************************************************************************)
(* What the list operations of lib/kernel/list.c, as they are modelled on  *)
(* sequences, do to the set of elements on a list and to the fact that no  *)
(* element is on it twice.                                                 *)
(***************************************************************************)
EXTENDS Integers, Sequences, Functions, TLAPS

\* Lists are equal when their elements are.
LEMMA SameSeq ==
  ASSUME NEW S, NEW s \in Seq(S), NEW u \in Seq(S),
         Len(s) = Len(u), \A k \in 1..Len(s) : s[k] = u[k]
  PROVE  s = u
  OBVIOUS

\* The empty list of list_init has no elements.
LEMMA EmptyRange == Range(<<>>) = {} /\ IsInjective(<<>>)
  <1>1. DOMAIN <<>> = {}
    OBVIOUS
  <1> QED BY <1>1 DEF Range, IsInjective

\* An element is on a list when it is at some position of it.
LEMMA InRange ==
  ASSUME NEW S, NEW s \in Seq(S), NEW x
  PROVE  x \in Range(s) <=> \E i \in 1..Len(s) : s[i] = x
  BY DEF Range

\* list_push_back adds the element, and keeps the elements distinct when the
\* new one is not on the list.
LEMMA AppendRange ==
  ASSUME NEW S, NEW s \in Seq(S), NEW e \in S
  PROVE  /\ Append(s, e) \in Seq(S)
         /\ Range(Append(s, e)) = Range(s) \cup {e}
         /\ IsInjective(s) /\ e \notin Range(s) => IsInjective(Append(s, e))
  <1>1. Append(s, e) \in Seq(S)
    OBVIOUS
  <1>2. ASSUME NEW x, x \in Range(Append(s, e))
        PROVE  x \in Range(s) \cup {e}
    <2>1. PICK i \in 1..Len(Append(s, e)) : Append(s, e)[i] = x
      BY <1>1, <1>2, InRange
    <2>2. CASE i = Len(s) + 1
      BY <2>1, <2>2
    <2>3. CASE i # Len(s) + 1
      <3>1. i \in 1..Len(s) /\ s[i] = x
        BY <2>1, <2>3
      <3> QED BY <3>1, InRange
    <2> QED BY <2>2, <2>3
  <1>3. ASSUME NEW x \in Range(s) \cup {e}
        PROVE  x \in Range(Append(s, e))
    <2>1. CASE x = e
      <3>1. /\ Len(s) + 1 \in 1..Len(Append(s, e))
            /\ Append(s, e)[Len(s) + 1] = x
        BY <2>1
      <3> QED BY <3>1, <1>1, InRange
    <2>2. CASE x \in Range(s)
      <3>1. PICK i \in 1..Len(s) : s[i] = x
        BY <2>2, InRange
      <3>2. i \in 1..Len(Append(s, e)) /\ Append(s, e)[i] = x
        BY <3>1
      <3> QED BY <3>2, <1>1, InRange
    <2> QED BY <2>1, <2>2
  <1>4. IsInjective(s) /\ e \notin Range(s) => IsInjective(Append(s, e))
    BY InRange DEF IsInjective
  <1> QED BY <1>1, <1>2, <1>3, <1>4

\* list_pop_front removes exactly the front element.
LEMMA TailRange ==
  ASSUME NEW S, NEW s \in Seq(S), s # <<>>, IsInjective(s)
  PROVE  /\ Range(Tail(s)) = Range(s) \ {Head(s)}
         /\ IsInjective(Tail(s))
         /\ Head(s) \in Range(s)
         /\ Head(s) \in S
         /\ Tail(s) \in Seq(S)
  <1>1. /\ Tail(s) \in Seq(S)
        /\ Len(s) >= 1
        /\ Head(s) = s[1]
        /\ Len(Tail(s)) = Len(s) - 1
    OBVIOUS
  <1>2. \A i \in 1..Len(s) - 1 : Tail(s)[i] = s[i + 1]
    OBVIOUS
  <1>3. ASSUME NEW x, x \in Range(Tail(s))
        PROVE  x \in Range(s) \ {Head(s)}
    <2>1. PICK i \in 1..Len(Tail(s)) : Tail(s)[i] = x
      BY <1>1, <1>3, InRange
    <2>2. i + 1 \in 1..Len(s) /\ s[i + 1] = x
      BY <1>1, <1>2, <2>1
    <2>3. x # s[1]
      BY <2>1, <2>2, <1>1 DEF IsInjective
    <2> QED BY <2>2, <2>3, <1>1, InRange
  <1>4. ASSUME NEW x \in Range(s) \ {Head(s)}
        PROVE  x \in Range(Tail(s))
    <2>1. PICK i \in 1..Len(s) : s[i] = x
      BY <1>4, InRange
    <2>2. i - 1 \in 1..Len(s) - 1 /\ Tail(s)[i - 1] = x
      BY <1>1, <1>2, <2>1, <1>4
    <2> QED BY <2>2, <1>1, InRange
  <1>5. IsInjective(Tail(s))
    BY <1>1, <1>2 DEF IsInjective
  <1>6. Head(s) \in Range(s)
    BY <1>1, InRange
  <1> QED BY <1>1, <1>3, <1>4, <1>5, <1>6

\* Cutting a list in two splits its elements.
LEMMA SplitRange ==
  ASSUME NEW S, NEW s \in Seq(S), NEW k \in 0..Len(s), IsInjective(s)
  PROVE  LET p == SubSeq(s, 1, k)
             q == SubSeq(s, k + 1, Len(s))
         IN /\ p \in Seq(S) /\ q \in Seq(S)
            /\ IsInjective(p) /\ IsInjective(q)
            /\ Range(p) \cup Range(q) = Range(s)
            /\ Range(p) \cap Range(q) = {}
            /\ \A x : x \in Range(p) <=> \E i \in 1..k : s[i] = x
            /\ \A x : x \in Range(q) <=> \E i \in k + 1..Len(s) : s[i] = x
  <1> DEFINE p == SubSeq(s, 1, k)
             q == SubSeq(s, k + 1, Len(s))
  <1>1. /\ p \in Seq(S) /\ Len(p) = k
        /\ \A i \in 1..k : p[i] = s[i]
    OBVIOUS
  <1>2. /\ q \in Seq(S) /\ Len(q) = Len(s) - k
        /\ \A i \in 1..Len(s) - k : q[i] = s[i + k]
    OBVIOUS
  <1>3. \A x : x \in Range(p) <=> \E i \in 1..k : s[i] = x
    <2> HIDE DEF p
    <2> QED BY <1>1, InRange
  <1>4. ASSUME NEW x
        PROVE  x \in Range(q) <=> \E i \in k + 1..Len(s) : s[i] = x
    <2> HIDE DEF q
    <2>1. x \in Range(q) <=> \E i \in 1..Len(s) - k : q[i] = x
      BY <1>2, InRange
    <2>2. ASSUME NEW i \in 1..Len(s) - k, q[i] = x
          PROVE  i + k \in k + 1..Len(s) /\ s[i + k] = x
      BY <1>2, <2>2
    <2>3. ASSUME NEW i \in k + 1..Len(s), s[i] = x
          PROVE  i - k \in 1..Len(s) - k /\ q[i - k] = x
      BY <1>2, <2>3
    <2> QED BY <2>1, <2>2, <2>3
  <1>5. IsInjective(p)
    <2> HIDE DEF p
    <2> QED BY <1>1 DEF IsInjective
  <1>6. IsInjective(q)
    <2> HIDE DEF q
    <2>1. SUFFICES ASSUME NEW i \in 1..Len(q), NEW j \in 1..Len(q), q[i] = q[j]
                   PROVE  i = j
      BY <1>2 DEF IsInjective
    <2>2. s[i + k] = s[j + k] /\ i + k \in 1..Len(s) /\ j + k \in 1..Len(s)
      BY <1>2, <2>1
    <2>3. i + k = j + k
      BY <2>2 DEF IsInjective
    <2> QED BY <2>3, <1>2
  <1> HIDE DEF p, q
  <1>7. Range(p) \cup Range(q) = Range(s)
    <2>1. ASSUME NEW x \in Range(s)
          PROVE  x \in Range(p) \cup Range(q)
      <3>1. PICK i \in 1..Len(s) : s[i] = x
        BY InRange
      <3>2. i \in 1..k \/ i \in k + 1..Len(s)
        OBVIOUS
      <3> QED BY <3>1, <3>2, <1>3, <1>4
    <2>2. ASSUME NEW x \in Range(p) \cup Range(q)
          PROVE  x \in Range(s)
      <3>1. PICK i \in 1..Len(s) : s[i] = x
        BY <1>3, <1>4
      <3> QED BY <3>1, InRange
    <2> QED BY <2>1, <2>2
  <1>8. Range(p) \cap Range(q) = {}
    BY <1>3, <1>4 DEF IsInjective
  <1> QED BY <1>1, <1>2, <1>3, <1>4, <1>5, <1>6, <1>7, <1>8 DEF p, q

\* Appending one list to another joins their elements.
LEMMA ConcatRange ==
  ASSUME NEW S, NEW s \in Seq(S), NEW u \in Seq(S)
  PROVE  /\ s \o u \in Seq(S)
         /\ Range(s \o u) = Range(s) \cup Range(u)
         /\ /\ IsInjective(s) /\ IsInjective(u)
            /\ Range(s) \cap Range(u) = {}
            => IsInjective(s \o u)
  <1> DEFINE w == s \o u
  <1>1. /\ w \in Seq(S) /\ Len(w) = Len(s) + Len(u)
        /\ \A i \in 1..Len(s) : w[i] = s[i]
        /\ \A i \in 1..Len(u) : w[i + Len(s)] = u[i]
        /\ \A i \in Len(s) + 1..Len(s) + Len(u) : w[i] = u[i - Len(s)]
    OBVIOUS
  <1> HIDE DEF w
  <1>2. ASSUME NEW x, x \in Range(w)
        PROVE  x \in Range(s) \cup Range(u)
    <2>1. PICK i \in 1..Len(w) : w[i] = x
      BY <1>1, <1>2, InRange
    <2>2. CASE i \in 1..Len(s)
      BY <1>1, <2>1, <2>2, InRange
    <2>3. CASE i \in Len(s) + 1..Len(s) + Len(u)
      <3>1. i - Len(s) \in 1..Len(u) /\ u[i - Len(s)] = x
        BY <1>1, <2>1, <2>3
      <3> QED BY <3>1, InRange
    <2> QED BY <1>1, <2>2, <2>3
  <1>3. ASSUME NEW x \in Range(s)
        PROVE  x \in Range(w)
    <2>1. PICK i \in 1..Len(s) : s[i] = x
      BY InRange
    <2>2. i \in 1..Len(w) /\ w[i] = x
      BY <1>1, <2>1
    <2> QED BY <1>1, <2>2, InRange
  <1>4. ASSUME NEW x \in Range(u)
        PROVE  x \in Range(w)
    <2>1. PICK i \in 1..Len(u) : u[i] = x
      BY InRange
    <2>2. i + Len(s) \in 1..Len(w) /\ w[i + Len(s)] = x
      BY <1>1, <2>1
    <2> QED BY <1>1, <2>2, InRange
  <1>5. ASSUME IsInjective(s), IsInjective(u), Range(s) \cap Range(u) = {}
        PROVE  IsInjective(w)
    <2>1. SUFFICES ASSUME NEW i \in 1..Len(w), NEW j \in 1..Len(w), w[i] = w[j]
                   PROVE  i = j
      BY <1>1 DEF IsInjective
    <2>2. ASSUME NEW m \in 1..Len(s), NEW n \in Len(s) + 1..Len(s) + Len(u)
          PROVE  w[m] # w[n]
      <3>1. w[m] \in Range(s)
        BY <1>1, InRange
      <3>2. n - Len(s) \in 1..Len(u) /\ w[n] = u[n - Len(s)]
        BY <1>1
      <3>3. w[n] \in Range(u)
        BY <3>2, InRange
      <3> QED BY <3>1, <3>3, <1>5
    <2>3. CASE i \in 1..Len(s) /\ j \in 1..Len(s)
      <3>1. s[i] = s[j]
        BY <1>1, <2>1, <2>3
      <3>2. \A m, n \in 1..Len(s) : s[m] = s[n] => m = n
        BY <1>5 DEF IsInjective
      <3> QED BY <2>3, <3>1, <3>2
    <2>4. CASE i \notin 1..Len(s) /\ j \notin 1..Len(s)
      <3>1. /\ i - Len(s) \in 1..Len(u) /\ w[i] = u[i - Len(s)]
            /\ j - Len(s) \in 1..Len(u) /\ w[j] = u[j - Len(s)]
        BY <2>4, <1>1
      <3>2. \A m, n \in 1..Len(u) : u[m] = u[n] => m = n
        BY <1>5 DEF IsInjective
      <3>3. i - Len(s) = j - Len(s)
        BY <3>1, <3>2, <2>1
      <3> QED BY <3>3, <1>1
    <2>5. i \notin 1..Len(s) => i \in Len(s) + 1..Len(s) + Len(u)
      BY <1>1
    <2>6. j \notin 1..Len(s) => j \in Len(s) + 1..Len(s) + Len(u)
      BY <1>1
    <2> QED BY <2>1, <2>2, <2>3, <2>4, <2>5, <2>6
  <1> QED BY <1>1, <1>2, <1>3, <1>4, <1>5 DEF w

\* list_insert_ordered adds the element at one place, after the k elements that
\* it does not precede.
LEMMA InsertRange ==
  ASSUME NEW S, NEW s \in Seq(S), NEW k \in 0..Len(s), NEW e \in S
  PROVE  LET w == [i \in 1..Len(s) + 1 |->
                     IF i <= k THEN s[i] ELSE IF i = k + 1 THEN e ELSE s[i - 1]]
         IN /\ w \in Seq(S)
            /\ Range(w) = Range(s) \cup {e}
            /\ IsInjective(s) /\ e \notin Range(s) => IsInjective(w)
  <1> DEFINE w == [i \in 1..Len(s) + 1 |->
                     IF i <= k THEN s[i] ELSE IF i = k + 1 THEN e ELSE s[i - 1]]
  <1>1. w \in Seq(S) /\ Len(w) = Len(s) + 1
    <2>1. \A i \in 1..Len(s) + 1 : w[i] \in S
      OBVIOUS
    <2> QED BY <2>1
  <1>2. /\ \A i \in 1..k : w[i] = s[i]
        /\ w[k + 1] = e
        /\ \A i \in k + 2..Len(s) + 1 : w[i] = s[i - 1]
    OBVIOUS
  <1> HIDE DEF w
  <1>3. ASSUME NEW x, x \in Range(w)
        PROVE  x \in Range(s) \cup {e}
    <2>1. PICK i \in 1..Len(w) : w[i] = x
      BY <1>1, <1>3, InRange
    <2>2. CASE i \in 1..k
      BY <2>1, <2>2, <1>1, <1>2, InRange
    <2>3. CASE i = k + 1
      BY <2>1, <2>3, <1>2
    <2>4. CASE i \in k + 2..Len(s) + 1
      <3>1. i - 1 \in 1..Len(s) /\ s[i - 1] = x
        BY <2>1, <2>4, <1>2
      <3> QED BY <3>1, InRange
    <2> QED BY <2>2, <2>3, <2>4, <1>1
  <1>4. ASSUME NEW x \in Range(s)
        PROVE  x \in Range(w)
    <2>1. PICK i \in 1..Len(s) : s[i] = x
      BY InRange
    <2>2. CASE i <= k
      <3>1. i \in 1..Len(w) /\ w[i] = x
        BY <2>1, <2>2, <1>1, <1>2
      <3> QED BY <3>1, <1>1, InRange
    <2>3. CASE i > k
      <3>1. i + 1 \in k + 2..Len(s) + 1
        BY <2>3
      <3>2. w[i + 1] = s[(i + 1) - 1] /\ (i + 1) - 1 = i
        BY <3>1, <1>2
      <3>3. i + 1 \in 1..Len(w) /\ w[i + 1] = x
        BY <2>1, <3>2, <1>1
      <3> QED BY <3>3, <1>1, InRange
    <2> QED BY <2>2, <2>3
  <1>5. e \in Range(w)
    <2>1. k + 1 \in 1..Len(w) /\ w[k + 1] = e
      BY <1>1, <1>2
    <2> QED BY <2>1, <1>1, InRange
  <1>6. ASSUME IsInjective(s), e \notin Range(s)
        PROVE  IsInjective(w)
    <2> DEFINE old(i) == IF i <= k THEN i ELSE i - 1
    <2>1. ASSUME NEW i \in 1..Len(w), i # k + 1
          PROVE  old(i) \in 1..Len(s) /\ w[i] = s[old(i)]
      BY <2>1, <1>1, <1>2
    <2>2. \A i \in 1..Len(w) : i # k + 1 => w[i] # e
      BY <2>1, <1>6, InRange
    <2>3. ASSUME NEW i \in 1..Len(w), NEW j \in 1..Len(w),
                 i # k + 1, j # k + 1, w[i] = w[j]
          PROVE  i = j
      <3>1. \A p, q \in 1..Len(s) : s[p] = s[q] => p = q
        BY <1>6 DEF IsInjective
      <3>2. old(i) \in 1..Len(s) /\ w[i] = s[old(i)]
        BY <2>1, <2>3
      <3>3. old(j) \in 1..Len(s) /\ w[j] = s[old(j)]
        BY <2>1, <2>3
      <3>4. old(i) = old(j)
        <4> HIDE DEF old, w
        <4> QED BY <3>1, <3>2, <3>3, <2>3
      <3>5. i \in Int /\ j \in Int /\ k \in Int
        BY <1>1
      <3> QED BY <3>4, <3>5, <2>3
    <2>4. \A i, j \in 1..Len(w) : w[i] = w[j] => i = j
      BY <2>2, <2>3, <1>2
    <2> QED BY <2>4, <1>1 DEF IsInjective
  <1> QED BY <1>1, <1>3, <1>4, <1>5, <1>6 DEF w
=============================================================================
