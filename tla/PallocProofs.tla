---------------------------- MODULE PallocProofs ----------------------------
(***************************************************************************)
(* Proofs about Palloc, for any number of threads and pages.               *)
(*                                                                         *)
(* The inductive invariant states NoPageTwice page by page and adds what   *)
(* the loops of bitmap_scan and bitmap_set_multiple have established so    *)
(* far: only the holder of the pool's lock marks pages, so what a scan has *)
(* found free stays free, whoever frees pages meanwhile.                   *)
(***************************************************************************)
EXTENDS Palloc, TLAPS

Label == {"idle", "acquire", "scan", "mark", "fail", "clear"}

TypeOK ==
  /\ used_map \subseteq Page
  /\ pc \in [Thread -> Label]
  /\ start \in [Thread -> Nat]
  /\ cnt \in [Thread -> Nat]
  /\ i \in [Thread -> Nat]
  /\ owned \subseteq Group
  /\ avail \in [Thread -> SUBSET Page]

\* pool->lock is held around the scan and the marking.
LockOK == \A t \in Thread : pc[t] \in {"scan", "mark", "fail"} => holder = t

\* How far the loop of each thread is.
Bounds(t) ==
  /\ pc[t] \in {"acquire", "scan", "mark", "fail", "clear"} => cnt[t] \in 1..MaxCnt
  /\ pc[t] \in {"scan", "mark", "clear"} => i[t] <= cnt[t]
  /\ pc[t] = "clear" => i[t] < cnt[t]
  /\ pc[t] \in {"mark", "clear"} => start[t] + cnt[t] <= PageCnt

BoundsOK == \A t \in Thread : Bounds(t)

\* The page p is one that thread t has found free and has yet to mark; one that it
\* has marked, or has yet to clear; one of group g.
FoundFree(t, p) ==
  \/ pc[t] = "scan" /\ start[t] <= p /\ p < start[t] + i[t]
  \/ pc[t] = "mark" /\ start[t] + i[t] <= p /\ p < start[t] + cnt[t]

Transit(t, p) ==
  \/ pc[t] = "mark" /\ start[t] <= p /\ p < start[t] + i[t]
  \/ pc[t] = "clear" /\ start[t] + i[t] <= p /\ p < start[t] + cnt[t]

InGroup(g, p) == g[1] <= p /\ p < g[1] + g[2]

\* What has been found free is still free.
FoundOK == \A t \in Thread, p \in Page : FoundFree(t, p) => p \notin used_map

\* A page is marked for a reason, and for one only.
UsedOK ==
  \A p \in Page : p \in used_map <=> \/ \E g \in owned : InGroup(g, p)
                                     \/ \E t \in Thread : Transit(t, p)

OneUser ==
  \A p \in Page :
    /\ \A g, h \in owned : InGroup(g, p) /\ InGroup(h, p) => g = h
    /\ \A t \in Thread : Transit(t, p) =>
         /\ \A g \in owned : ~InGroup(g, p)
         /\ \A u \in Thread : Transit(u, p) => u = t

\* Before the place a scan has reached there is no group that was free throughout.
ScannedOK ==
  /\ \A t \in Thread : avail[t] \cap used_map = {}
  /\ \A t \in Thread, s \in Page :
       /\ pc[t] \in {"scan", "fail"}
       /\ s + cnt[t] <= PageCnt
       /\ s < start[t] \/ pc[t] = "fail"
       => ~(Pages(s, cnt[t]) \subseteq avail[t])

IndInv ==
  /\ TypeOK
  /\ LockOK
  /\ BoundsOK
  /\ FoundOK
  /\ UsedOK
  /\ OneUser
  /\ ScannedOK

-----------------------------------------------------------------------------
\* The members of a group of pages.
LEMMA PagesMember ==
  ASSUME NEW s \in Int, NEW n \in Int, NEW p
  PROVE  p \in Pages(s, n) <=> p \in Int /\ s <= p /\ p < s + n
  BY DEF Pages

\* A group in use lies in the pool and is not empty.
LEMMA GroupType ==
  ASSUME NEW g \in Group
  PROVE  /\ g[1] \in Nat /\ g[2] \in Nat /\ g[2] >= 1 /\ g[1] + g[2] <= PageCnt
         /\ g[1] \in Page /\ g = <<g[1], g[2]>>
  BY PallocAssumption DEF Group, Page

\* palloc_init_pool's empty bitmap satisfies the invariant.
LEMMA InitInv == Init => IndInv
  <1> SUFFICES ASSUME Init PROVE IndInv
    BY Zenon
  <1>1. TypeOK
    BY Zenon DEF Init, TypeOK, Label
  <1>2. LockOK /\ BoundsOK /\ FoundOK
    BY Zenon DEF Init, LockOK, BoundsOK, Bounds, FoundOK, FoundFree
  <1>3. UsedOK /\ OneUser /\ ScannedOK
    BY Zenon DEF Init, UsedOK, OneUser, Transit, ScannedOK
  <1> QED BY <1>1, <1>2, <1>3, Zenon DEF IndInv

\* Only thread t moves.
Moves(t) ==
  \A u \in Thread \ {t} : /\ pc'[u] = pc[u] /\ start'[u] = start[u]
                          /\ cnt'[u] = cnt[u] /\ i'[u] = i[u]

\* A step of t leaves what is known of the other threads as it was.
LEMMA Others ==
  ASSUME NEW t \in Thread, Moves(t), NEW u \in Thread \ {t}, Bounds(u)
  PROVE  /\ Bounds(u)'
         /\ \A p \in Page : FoundFree(u, p)' <=> FoundFree(u, p)
         /\ \A p \in Page : Transit(u, p)' <=> Transit(u, p)
  BY Zenon DEF Moves, Bounds, FoundFree, Transit

\* A step that neither marks nor clears pages nor hands groups over.
LEMMA QuietStep ==
  ASSUME IndInv, NEW t \in Thread, Moves(t), UNCHANGED <<used_map, owned>>,
         pc[t] \notin {"mark", "clear"},
         pc'[t] # "clear" /\ (pc'[t] = "mark" => i'[t] = 0),
         i'[t] \in Nat, start'[t] \in Nat,
         \A p \in Page : FoundFree(t, p)' => p \notin used_map
  PROVE  FoundOK' /\ UsedOK' /\ OneUser'
  <1>1. \A u \in Thread, p \in Page : Transit(u, p)' <=> Transit(u, p)
    <2>1. \A p \in Page : ~Transit(t, p) /\ ~Transit(t, p)'
      BY DEF Transit, Page
    <2> QED BY <2>1, Others, Zenon DEF IndInv, BoundsOK
  <1>2. \A u \in Thread \ {t}, p \in Page : FoundFree(u, p)' <=> FoundFree(u, p)
    BY Others, Zenon DEF IndInv, BoundsOK
  <1>3. FoundOK'
    BY <1>2, Zenon DEF IndInv, FoundOK
  <1>4. UsedOK' /\ OneUser'
    BY <1>1, Zenon DEF IndInv, UsedOK, OneUser
  <1> QED BY <1>3, <1>4, Zenon

\* palloc_get_multiple begins.
LEMMA GetInv ==
  ASSUME IndInv, NEW t \in Thread, NEW n \in 1..MaxCnt, palloc_get_multiple(t, n)
  PROVE  IndInv'
  <1> USE PallocAssumption
  <1>1. /\ UNCHANGED <<used_map, holder, start, i, owned, avail>>
        /\ pc[t] = "idle" /\ pc' = [pc EXCEPT ![t] = "acquire"]
        /\ cnt' = [cnt EXCEPT ![t] = n]
    BY Zenon DEF palloc_get_multiple, Goto
  <1>2. Moves(t) /\ pc'[t] = "acquire" /\ cnt'[t] = n
    BY <1>1, Zenon DEF IndInv, TypeOK, Moves
  <1>3. TypeOK'
    BY <1>1 DEF IndInv, TypeOK, Label
  <1>4. LockOK'
    BY <1>1, <1>2, Zenon DEF IndInv, LockOK, Moves
  <1>5. BoundsOK'
    <2>1. Bounds(t)'
      BY <1>2, Zenon DEF Bounds
    <2> QED BY <1>2, <2>1, Others, Zenon DEF IndInv, BoundsOK
  <1>6. FoundOK' /\ UsedOK' /\ OneUser'
    <2>1. \A p \in Page : ~FoundFree(t, p)'
      BY <1>2, Zenon DEF FoundFree
    <2>2. i'[t] \in Nat /\ start'[t] \in Nat
      BY <1>1, Zenon DEF IndInv, TypeOK
    <2>3. /\ UNCHANGED <<used_map, owned>>
          /\ pc[t] \notin {"mark", "clear"} /\ pc'[t] \notin {"mark", "clear"}
      BY <1>1, <1>2, Zenon
    <2>4. \A p \in Page : FoundFree(t, p)' => p \notin used_map
      BY <2>1, Zenon
    <2> QED BY <1>2, <2>2, <2>3, <2>4, QuietStep, Zenon
  <1>7. ScannedOK'
    BY <1>1, <1>2, Zenon DEF IndInv, ScannedOK, Moves
  <1> QED BY <1>3, <1>4, <1>5, <1>6, <1>7, Zenon DEF IndInv

\* The scan begins, with the lock.
LEMMA LockAcquireInv ==
  ASSUME IndInv, NEW t \in Thread, lock_acquire(t)
  PROVE  IndInv'
  <1> USE PallocAssumption
  <1>1. /\ UNCHANGED <<used_map, cnt, owned>>
        /\ pc[t] = "acquire" /\ holder = NULL /\ holder' = t
        /\ pc' = [pc EXCEPT ![t] = "scan"]
        /\ start' = [start EXCEPT ![t] = 0] /\ i' = [i EXCEPT ![t] = 0]
        /\ avail' = [avail EXCEPT ![t] = Page \ used_map]
    BY Zenon DEF lock_acquire, Locked, Goto
  <1>2. /\ Moves(t) /\ pc'[t] = "scan" /\ start'[t] = 0 /\ i'[t] = 0
        /\ avail'[t] = Page \ used_map
        /\ \A u \in Thread \ {t} : avail'[u] = avail[u]
    BY <1>1, Zenon DEF IndInv, TypeOK, Moves
  <1>3. TypeOK'
    BY <1>1, Zenon DEF IndInv, TypeOK, Label
  <1>4. LockOK'
    BY <1>1, <1>2, Zenon DEF IndInv, LockOK, Moves
  <1>5. BoundsOK'
    <2>1. Bounds(t)'
      BY <1>1, <1>2 DEF Bounds, IndInv, BoundsOK
    <2> QED BY <1>2, <2>1, Others, Zenon DEF IndInv, BoundsOK
  <1>6. FoundOK' /\ UsedOK' /\ OneUser'
    <2>1. \A p \in Page : ~FoundFree(t, p)'
      BY <1>2 DEF FoundFree, Page
    <2> QED BY <1>1, <1>2, <2>1, QuietStep
  <1>7. ScannedOK'
    <2>1. \A u \in Thread : avail'[u] \cap used_map' = {}
      BY <1>1, <1>2, Zenon DEF IndInv, ScannedOK
    <2>2. ~ \E s \in Page : s < start'[t] \/ pc'[t] = "fail"
      BY <1>2 DEF Page
    <2> QED BY <1>1, <1>2, <2>1, <2>2, Zenon DEF IndInv, ScannedOK, Moves
  <1> QED BY <1>3, <1>4, <1>5, <1>6, <1>7, Zenon DEF IndInv

\* One test of bitmap_scan: the group at start is found, fails or is still
\* possible, or no place is left for a group.
LEMMA ScanInv ==
  ASSUME IndInv, NEW t \in Thread, bitmap_scan(t)
  PROVE  IndInv'
  <1> USE PallocAssumption
  <1>1. UNCHANGED <<used_map, holder, cnt, owned, avail>> /\ pc[t] = "scan"
    BY Zenon DEF bitmap_scan
  <1>2. /\ TypeOK /\ Bounds(t) /\ pc[t] \in Label /\ holder = t
        /\ start[t] \in Nat /\ i[t] \in Nat /\ cnt[t] \in 1..MaxCnt /\ i[t] <= cnt[t]
    BY <1>1, Zenon DEF IndInv, TypeOK, BoundsOK, Bounds, LockOK
  <1>3. /\ TypeOK' /\ Moves(t) /\ start'[t] \in Nat /\ i'[t] \in Nat
        /\ \/ start[t] > PageCnt - cnt[t] /\ pc'[t] = "fail" /\ start'[t] = start[t]
           \/ /\ start[t] <= PageCnt - cnt[t] /\ i[t] = cnt[t]
              /\ pc'[t] = "mark" /\ i'[t] = 0 /\ start'[t] = start[t]
           \/ /\ i[t] < cnt[t] /\ start[t] + i[t] \in used_map
              /\ pc'[t] = "scan" /\ start'[t] = start[t] + 1 /\ i'[t] = 0
           \/ /\ i[t] < cnt[t] /\ start[t] + i[t] \notin used_map
              /\ pc'[t] = "scan" /\ start'[t] = start[t] /\ i'[t] = i[t] + 1
    <2>1. CASE PastEnd(t) /\ Goto(t, "fail") /\ UNCHANGED <<start, i>>
      BY <1>1, <1>2, <2>1, Zenon DEF PastEnd, Goto, TypeOK, Label, Moves
    <2>2. CASE /\ ~PastEnd(t) /\ i[t] = cnt[t] /\ Goto(t, "mark")
               /\ i' = [i EXCEPT ![t] = 0] /\ UNCHANGED start
      BY <1>1, <1>2, <2>2 DEF PastEnd, Goto, TypeOK, Label, Moves
    <2>3. CASE /\ i[t] < cnt[t] /\ start[t] + i[t] \in used_map
               /\ Rescan(t) /\ UNCHANGED pc
      BY <1>1, <1>2, <2>3 DEF Rescan, TypeOK, Label, Moves
    <2>4. CASE /\ i[t] < cnt[t] /\ start[t] + i[t] \notin used_map
               /\ i' = [i EXCEPT ![t] = @ + 1] /\ UNCHANGED <<pc, start>>
      BY <1>1, <1>2, <2>4 DEF TypeOK, Label, Moves
    <2> QED BY <2>1, <2>2, <2>3, <2>4, Zenon DEF bitmap_scan
  <1>4. LockOK'
    BY <1>1, <1>2, <1>3, Zenon DEF IndInv, LockOK, Moves
  <1>5. BoundsOK'
    <2>1. Bounds(t)'
      BY <1>1, <1>2, <1>3 DEF Bounds
    <2> QED BY <1>3, <2>1, Others, Zenon DEF IndInv, BoundsOK
  <1>6. FoundOK' /\ UsedOK' /\ OneUser'
    <2>1. \A p \in Page : FoundFree(t, p) => p \notin used_map
      BY Zenon DEF IndInv, FoundOK
    <2>2. \A p \in Page : FoundFree(t, p)' => FoundFree(t, p) \/ p \notin used_map
      BY <1>1, <1>2, <1>3 DEF FoundFree, Page
    <2>3. \A p \in Page : FoundFree(t, p)' => p \notin used_map
      BY <2>1, <2>2, Zenon
    <2>4. pc[t] \notin {"mark", "clear"}
      BY <1>1, Zenon
    <2>5. pc'[t] # "clear" /\ (pc'[t] = "mark" => i'[t] = 0)
      BY <1>3, Zenon
    <2> QED BY <1>1, <1>3, <2>3, <2>4, <2>5, QuietStep, Zenon
  <1>7. ScannedOK'
    <2>1. avail[t] \cap used_map = {}
      BY Zenon DEF IndInv, ScannedOK
    <2>2. \A s \in Page :
            pc'[t] \in {"scan", "fail"} /\ s + cnt[t] <= PageCnt
            /\ (s < start'[t] \/ pc'[t] = "fail")
            => s < start[t] \/ (s = start[t] /\ i[t] < cnt[t] /\ start[t] + i[t] \in used_map)
      BY <1>2, <1>3 DEF Page
    <2>3. \A s \in Page : s + cnt[t] <= PageCnt /\ s < start[t]
                          => ~(Pages(s, cnt[t]) \subseteq avail[t])
      BY <1>1, Zenon DEF IndInv, ScannedOK
    <2>4. i[t] < cnt[t] /\ start[t] + i[t] \in used_map
          => ~(Pages(start[t], cnt[t]) \subseteq avail[t])
      BY <1>2, <2>1, PagesMember
    <2>5. \A s \in Page :
            pc'[t] \in {"scan", "fail"} /\ s + cnt[t] <= PageCnt
            /\ (s < start'[t] \/ pc'[t] = "fail")
            => ~(Pages(s, cnt[t]) \subseteq avail[t])
      BY <2>2, <2>3, <2>4, Zenon
    <2> QED BY <1>1, <1>3, <2>5, Zenon DEF IndInv, ScannedOK, Moves
  <1> QED BY <1>3, <1>4, <1>5, <1>6, <1>7, Zenon DEF IndInv

\* Of the pages in use and in transit, the step of thread t that marks or clears
\* bit q changes the state of that page only.
LEMMA BitStep ==
  ASSUME IndInv, NEW t \in Thread, Moves(t), NEW q \in Page, UNCHANGED owned,
         \A p \in Page \ {q} : /\ p \in used_map' <=> p \in used_map
                               /\ Transit(t, p)' <=> Transit(t, p),
         q \in used_map' <=> Transit(t, q)',
         q \in used_map <=> Transit(t, q)
  PROVE  UsedOK' /\ OneUser'
  <1>1. \A u \in Thread \ {t}, p \in Page : Transit(u, p)' <=> Transit(u, p)
    BY Others, Zenon DEF IndInv, BoundsOK
  <1>2. \A g \in owned : ~InGroup(g, q)
    BY Zenon DEF IndInv, UsedOK, OneUser
  <1>3. \A u \in Thread \ {t} : ~Transit(u, q)
    BY Zenon DEF IndInv, UsedOK, OneUser
  <1>4. ASSUME NEW p \in Page
        PROVE  /\ p \in used_map' <=> \/ \E g \in owned' : InGroup(g, p)
                                      \/ \E u \in Thread : Transit(u, p)'
               /\ \A g, h \in owned' : InGroup(g, p) /\ InGroup(h, p) => g = h
               /\ \A u \in Thread : Transit(u, p)' =>
                    /\ \A g \in owned' : ~InGroup(g, p)
                    /\ \A v \in Thread : Transit(v, p)' => v = u
    <2>1. CASE p = q
      BY <1>1, <1>2, <1>3, <2>1, Zenon
    <2>2. CASE p # q
      <3>1. /\ p \in used_map' <=> p \in used_map
            /\ \A u \in Thread : Transit(u, p)' <=> Transit(u, p)
        BY <1>1, <2>2, Zenon
      <3> QED BY <3>1, Zenon DEF IndInv, UsedOK, OneUser
    <2> QED BY <2>1, <2>2, Zenon
  <1> QED BY <1>4, Zenon DEF UsedOK, OneUser, InGroup

\* bitmap_mark sets the next bit of the group, which was found free.
LEMMA MarkInv ==
  ASSUME IndInv, NEW t \in Thread, bitmap_mark(t)
  PROVE  IndInv'
  <1> USE PallocAssumption
  <1>1. /\ UNCHANGED <<holder, pc, start, cnt, owned>> /\ pc[t] = "mark" /\ i[t] < cnt[t]
        /\ used_map' = used_map \cup {start[t] + i[t]}
        /\ avail' = [u \in Thread |-> avail[u] \ used_map']
        /\ i' = [i EXCEPT ![t] = @ + 1]
    BY Zenon DEF bitmap_mark, SetUsed
  <1>2. /\ TypeOK /\ holder = t /\ start[t] \in Nat /\ i[t] \in Nat /\ cnt[t] \in 1..MaxCnt
        /\ i[t] + 1 <= cnt[t] /\ start[t] + cnt[t] <= PageCnt
    BY <1>1 DEF IndInv, TypeOK, BoundsOK, Bounds, LockOK
  <1>3. Moves(t) /\ i'[t] = i[t] + 1 /\ start'[t] = start[t] /\ cnt'[t] = cnt[t] /\ pc'[t] = "mark"
    BY <1>1, <1>2, Zenon DEF TypeOK, Moves
  <1>4. PICK q \in Page : q = start[t] + i[t]
    BY <1>2 DEF Page
  <1>5. TypeOK'
    <2>1. used_map' \subseteq Page
      BY <1>1, <1>2, <1>4, Zenon DEF TypeOK
    <2>2. i' \in [Thread -> Nat]
      BY <1>1, <1>2 DEF TypeOK
    <2>3. avail' \in [Thread -> SUBSET Page]
      BY <1>1, <1>2, Zenon DEF TypeOK
    <2> QED BY <1>1, <1>2, <2>1, <2>2, <2>3, Zenon DEF TypeOK
  <1>6. LockOK'
    BY <1>1, Zenon DEF IndInv, LockOK
  <1>7. BoundsOK'
    <2>1. Bounds(t)'
      BY <1>2, <1>3, Zenon DEF Bounds
    <2> QED BY <1>3, <2>1, Others, Zenon DEF IndInv, BoundsOK
  <1>8. q \notin used_map
    <2>1. FoundFree(t, q)
      BY <1>1, <1>2, <1>4 DEF FoundFree
    <2> QED BY <2>1, Zenon DEF IndInv, FoundOK
  <1>9. FoundOK'
    <2>1. \A p \in Page : FoundFree(t, p)' => FoundFree(t, p) /\ p # q
      BY <1>1, <1>2, <1>3, <1>4 DEF FoundFree, Page
    <2>2. \A u \in Thread \ {t}, p \in Page : ~FoundFree(u, p)
      BY <1>2, Zenon DEF IndInv, LockOK, FoundFree
    <2>3. \A u \in Thread \ {t}, p \in Page : ~FoundFree(u, p)'
      BY <1>3, <2>2, Others, Zenon DEF IndInv, BoundsOK
    <2> QED BY <1>1, <1>4, <2>1, <2>3, Zenon DEF IndInv, FoundOK
  <1>10. UsedOK' /\ OneUser'
    <2>1. \A p \in Page \ {q} : Transit(t, p)' <=> Transit(t, p)
      BY <1>1, <1>2, <1>3, <1>4 DEF Transit, Page
    <2>2. Transit(t, q)' /\ ~Transit(t, q)
      BY <1>1, <1>2, <1>3, <1>4 DEF Transit, Page
    <2> QED BY <1>1, <1>3, <1>4, <1>8, <2>1, <2>2, BitStep, Zenon
  <1>11. ScannedOK'
    BY <1>1, <1>2, Zenon DEF IndInv, ScannedOK, TypeOK
  <1> QED BY <1>5, <1>6, <1>7, <1>9, <1>10, <1>11, Zenon DEF IndInv

\* palloc_free_multiple clears the next bit of the group it was given.
LEMMA ResetInv ==
  ASSUME IndInv, NEW t \in Thread, bitmap_reset(t)
  PROVE  IndInv'
  <1> USE PallocAssumption
  <1>1. /\ UNCHANGED <<holder, owned>> /\ pc[t] = "clear" /\ i[t] < cnt[t]
        /\ used_map' = used_map \ {start[t] + i[t]}
        /\ avail' = [u \in Thread |-> avail[u] \ used_map']
    BY Zenon DEF bitmap_reset, SetUsed
  <1>2. /\ TypeOK /\ start[t] \in Nat /\ i[t] \in Nat /\ cnt[t] \in 1..MaxCnt
        /\ i[t] + 1 <= cnt[t] /\ start[t] + cnt[t] <= PageCnt
    BY <1>1 DEF IndInv, TypeOK, BoundsOK, Bounds
  <1>3. /\ Moves(t)
        /\ \/ pc'[t] = "idle" /\ i[t] + 1 = cnt[t]
           \/ /\ pc'[t] = "clear" /\ i'[t] = i[t] + 1 /\ start'[t] = start[t]
              /\ cnt'[t] = cnt[t] /\ i[t] + 1 < cnt[t]
        /\ pc' \in [Thread -> Label] /\ start' \in [Thread -> Nat]
        /\ cnt' \in [Thread -> Nat] /\ i' \in [Thread -> Nat]
    <2>1. CASE i[t] = cnt[t] - 1 /\ Return(t)
      BY <1>2, <2>1 DEF TypeOK, Moves, Return, Goto, Label
    <2>2. CASE /\ i[t] # cnt[t] - 1 /\ i' = [i EXCEPT ![t] = @ + 1]
               /\ UNCHANGED <<pc, start, cnt>>
      BY <1>1, <1>2, <2>2 DEF TypeOK, Moves
    <2> QED BY <2>1, <2>2, Zenon DEF bitmap_reset
  <1>4. PICK q \in Page : q = start[t] + i[t]
    BY <1>2 DEF Page
  <1>5. TypeOK'
    BY <1>1, <1>2, <1>3, Zenon DEF TypeOK
  <1>6. LockOK'
    BY <1>1, <1>3, Zenon DEF IndInv, LockOK, Moves
  <1>7. BoundsOK'
    <2>1. Bounds(t)'
      BY <1>2, <1>3, Zenon DEF Bounds
    <2> QED BY <1>3, <2>1, Others, Zenon DEF IndInv, BoundsOK
  <1>8. FoundOK'
    <2>1. \A p \in Page : ~FoundFree(t, p)'
      BY <1>3, Zenon DEF FoundFree
    <2>2. \A u \in Thread \ {t}, p \in Page : FoundFree(u, p)' <=> FoundFree(u, p)
      BY <1>3, Others, Zenon DEF IndInv, BoundsOK
    <2> QED BY <1>1, <2>1, <2>2, Zenon DEF IndInv, FoundOK
  <1>9. UsedOK' /\ OneUser'
    <2>1. \A p \in Page \ {q} : Transit(t, p)' <=> Transit(t, p)
      BY <1>1, <1>2, <1>3, <1>4 DEF Transit, Page
    <2>2. ~Transit(t, q)' /\ Transit(t, q)
      BY <1>1, <1>2, <1>3, <1>4 DEF Transit, Page
    <2>3. q \in used_map
      BY <2>2, Zenon DEF IndInv, UsedOK
    <2> QED BY <1>1, <1>3, <1>4, <2>1, <2>2, <2>3, BitStep, Zenon
  <1>10. ScannedOK'
    BY <1>1, <1>3, Zenon DEF IndInv, ScannedOK, TypeOK, Moves
  <1> QED BY <1>5, <1>6, <1>7, <1>8, <1>9, <1>10, Zenon DEF IndInv

\* lock_release ends palloc_get_multiple: the group marked becomes the caller's,
\* or the call has failed.
LEMMA ReleaseInv ==
  ASSUME IndInv, NEW t \in Thread, lock_release(t)
  PROVE  IndInv'
  <1> USE PallocAssumption
  <1>1. /\ UNCHANGED used_map /\ holder' = NULL
        /\ pc' = [pc EXCEPT ![t] = "idle"] /\ start' = [start EXCEPT ![t] = 0]
        /\ cnt' = [cnt EXCEPT ![t] = 0] /\ i' = [i EXCEPT ![t] = 0]
        /\ avail' = [avail EXCEPT ![t] = {}]
        /\ pc[t] \in {"mark", "fail"}
    BY Zenon DEF lock_release, Return, Goto
  <1>2. /\ Moves(t) /\ pc'[t] = "idle" /\ avail'[t] = {} /\ TypeOK /\ holder = t
        /\ \A u \in Thread \ {t} : avail'[u] = avail[u]
        /\ start[t] \in Nat /\ cnt[t] \in 1..MaxCnt /\ i[t] \in Nat
    BY <1>1, Zenon DEF IndInv, TypeOK, Moves, LockOK, BoundsOK, Bounds
  <1>3. owned' \subseteq Group
    <2>1. CASE pc[t] = "mark" /\ owned' = owned \cup {<<start[t], cnt[t]>>}
      <3>1. start[t] + cnt[t] <= PageCnt
        BY <2>1, Zenon DEF IndInv, BoundsOK, Bounds
      <3>2. <<start[t], cnt[t]>> \in Group
        BY <1>2, <3>1 DEF Group, Page
      <3> QED BY <1>2, <2>1, <3>2, Zenon DEF TypeOK
    <2>2. CASE owned' = owned
      BY <1>2, <2>2, Zenon DEF TypeOK
    <2> QED BY <2>1, <2>2, Zenon DEF lock_release
  <1>4. TypeOK'
    <2>1. pc' \in [Thread -> Label] /\ avail' \in [Thread -> SUBSET Page]
      BY <1>1, <1>2, Zenon DEF TypeOK, Label
    <2>2. start' \in [Thread -> Nat] /\ cnt' \in [Thread -> Nat] /\ i' \in [Thread -> Nat]
      BY <1>1, <1>2, Zenon DEF TypeOK
    <2> QED BY <1>1, <1>2, <1>3, <2>1, <2>2, Zenon DEF TypeOK
  <1>5. LockOK'
    BY <1>2, Zenon DEF IndInv, LockOK, Moves
  <1>6. BoundsOK'
    <2>1. Bounds(t)'
      BY <1>2, Zenon DEF Bounds
    <2> QED BY <1>2, <2>1, Others, Zenon DEF IndInv, BoundsOK
  <1>7. \A p \in Page : ~FoundFree(t, p)' /\ ~Transit(t, p)'
    BY <1>2, Zenon DEF FoundFree, Transit
  <1>8. \A u \in Thread \ {t}, p \in Page : /\ FoundFree(u, p)' <=> FoundFree(u, p)
                                            /\ Transit(u, p)' <=> Transit(u, p)
    BY <1>2, Others, Zenon DEF IndInv, BoundsOK
  <1>9. FoundOK'
    BY <1>1, <1>7, <1>8, Zenon DEF IndInv, FoundOK
  <1>10. UsedOK' /\ OneUser'
    <2>1. CASE /\ pc[t] = "mark" /\ i[t] = cnt[t]
               /\ owned' = owned \cup {<<start[t], cnt[t]>>}
      <3>1. PICK f : f = <<start[t], cnt[t]>>
        BY Zenon
      <3>2. \A p \in Page : InGroup(f, p) <=> Transit(t, p)
        BY <1>2, <2>1, <3>1, Zenon DEF InGroup, Transit, Page
      <3>3. ASSUME NEW p \in Page
            PROVE  /\ p \in used_map <=> \/ \E g \in owned' : InGroup(g, p)
                                         \/ \E u \in Thread : Transit(u, p)'
                   /\ \A g, h \in owned' : InGroup(g, p) /\ InGroup(h, p) => g = h
                   /\ \A u \in Thread : Transit(u, p)' =>
                        /\ \A g \in owned' : ~InGroup(g, p)
                        /\ \A v \in Thread : Transit(v, p)' => v = u
        <4>1. /\ p \in used_map <=> \/ \E g \in owned : InGroup(g, p)
                                    \/ \E u \in Thread : Transit(u, p)
              /\ \A g, h \in owned : InGroup(g, p) /\ InGroup(h, p) => g = h
              /\ \A u \in Thread : Transit(u, p) =>
                   /\ \A g \in owned : ~InGroup(g, p)
                   /\ \A v \in Thread : Transit(v, p) => v = u
          BY Zenon DEF IndInv, UsedOK, OneUser
        <4>2. \A g \in owned' : g \in owned \/ g = f
          BY <2>1, <3>1, Zenon
        <4>3. f \in owned' /\ \A g \in owned : g \in owned'
          BY <2>1, <3>1, Zenon
        <4> QED BY <1>7, <1>8, <3>2, <4>1, <4>2, <4>3, Zenon
      <3> QED BY <1>1, <3>3, Zenon DEF UsedOK, OneUser, InGroup
    <2>2. CASE pc[t] = "fail" /\ owned' = owned
      <3>1. \A p \in Page : ~Transit(t, p)
        BY <2>2, Zenon DEF Transit
      <3>2. \A u \in Thread, p \in Page : Transit(u, p)' <=> Transit(u, p)
        BY <1>7, <1>8, <3>1, Zenon
      <3> QED BY <1>1, <2>2, <3>2, Zenon DEF IndInv, UsedOK, OneUser
    <2> QED BY <2>1, <2>2, Zenon DEF lock_release
  <1>11. ScannedOK'
    BY <1>1, <1>2, Zenon DEF IndInv, ScannedOK, Moves
  <1> QED BY <1>4, <1>5, <1>6, <1>9, <1>10, <1>11, Zenon DEF IndInv

\* palloc_free_multiple takes a group back from its user.
LEMMA FreeInv ==
  ASSUME IndInv, NEW t \in Thread, NEW g \in Group, palloc_free_multiple(t, g)
  PROVE  IndInv'
  <1> USE PallocAssumption
  <1>1. /\ UNCHANGED <<used_map, holder, avail>> /\ pc[t] = "idle"
        /\ g \in owned /\ owned' = owned \ {g}
        /\ start' = [start EXCEPT ![t] = g[1]] /\ cnt' = [cnt EXCEPT ![t] = g[2]]
        /\ i' = [i EXCEPT ![t] = 0] /\ pc' = [pc EXCEPT ![t] = "clear"]
    BY Zenon DEF palloc_free_multiple, Goto
  <1>2. /\ g[1] \in Nat /\ g[2] \in 1..MaxCnt /\ g[1] + g[2] <= PageCnt
    BY DEF Group, Page
  <1>3. /\ Moves(t) /\ pc'[t] = "clear" /\ TypeOK /\ i'[t] = 0
        /\ start'[t] = g[1] /\ cnt'[t] = g[2]
    BY <1>1, Zenon DEF IndInv, TypeOK, Moves
  <1>4. TypeOK'
    <2>1. pc' \in [Thread -> Label] /\ start' \in [Thread -> Nat]
      BY <1>1, <1>2, <1>3, Zenon DEF TypeOK, Label
    <2>2. cnt' \in [Thread -> Nat] /\ i' \in [Thread -> Nat]
      BY <1>1, <1>2, <1>3 DEF TypeOK
    <2> QED BY <1>1, <1>3, <2>1, <2>2, Zenon DEF TypeOK
  <1>5. LockOK'
    BY <1>1, <1>3, Zenon DEF IndInv, LockOK, Moves
  <1>6. BoundsOK'
    <2>1. Bounds(t)'
      BY <1>2, <1>3 DEF Bounds
    <2> QED BY <1>3, <2>1, Others, Zenon DEF IndInv, BoundsOK
  <1>7. \A p \in Page : ~FoundFree(t, p)' /\ ~Transit(t, p)
    BY <1>1, <1>3, Zenon DEF FoundFree, Transit
  <1>8. \A u \in Thread \ {t}, p \in Page : /\ FoundFree(u, p)' <=> FoundFree(u, p)
                                            /\ Transit(u, p)' <=> Transit(u, p)
    BY <1>3, Others, Zenon DEF IndInv, BoundsOK
  <1>9. FoundOK'
    BY <1>1, <1>7, <1>8, Zenon DEF IndInv, FoundOK
  <1>10. UsedOK' /\ OneUser'
    <2>1. \A p \in Page : Transit(t, p)' <=> InGroup(g, p)
      BY <1>2, <1>3 DEF InGroup, Transit, Page
    <2>2. ASSUME NEW p \in Page
          PROVE  /\ p \in used_map <=> \/ \E f \in owned' : InGroup(f, p)
                                       \/ \E u \in Thread : Transit(u, p)'
                 /\ \A f, h \in owned' : InGroup(f, p) /\ InGroup(h, p) => f = h
                 /\ \A u \in Thread : Transit(u, p)' =>
                      /\ \A f \in owned' : ~InGroup(f, p)
                      /\ \A v \in Thread : Transit(v, p)' => v = u
      <3>1. /\ p \in used_map <=> \/ \E f \in owned : InGroup(f, p)
                                  \/ \E u \in Thread : Transit(u, p)
            /\ \A f, h \in owned : InGroup(f, p) /\ InGroup(h, p) => f = h
            /\ \A u \in Thread : Transit(u, p) =>
                 /\ \A f \in owned : ~InGroup(f, p)
                 /\ \A v \in Thread : Transit(v, p) => v = u
        BY Zenon DEF IndInv, UsedOK, OneUser
      <3>2. \A f : f \in owned' <=> f \in owned /\ f # g
        BY <1>1, Zenon
      <3> QED BY <1>1, <1>7, <1>8, <2>1, <3>1, <3>2, Zenon
    <2> QED BY <1>1, <2>2, Zenon DEF UsedOK, OneUser, InGroup
  <1>11. ScannedOK'
    BY <1>1, <1>3, Zenon DEF IndInv, ScannedOK, Moves
  <1> QED BY <1>4, <1>5, <1>6, <1>9, <1>10, <1>11, Zenon DEF IndInv

\* Every step preserves the invariant.
LEMMA NextInv == IndInv /\ [Next]_vars => IndInv'
  <1> SUFFICES ASSUME IndInv, [Next]_vars PROVE IndInv'
    BY Zenon
  <1>1. CASE UNCHANGED vars
    BY <1>1 DEF vars, IndInv, TypeOK, LockOK, BoundsOK, Bounds, FoundOK, FoundFree,
                UsedOK, OneUser, Transit, InGroup, ScannedOK
  <1>2. CASE Next
    <2>1. PICK t \in Thread : \/ Step(t)
                              \/ \E n \in 1..MaxCnt : palloc_get_multiple(t, n)
                              \/ \E g \in Group : palloc_free_multiple(t, g)
      BY <1>2, Zenon DEF Next
    <2> QED BY <2>1, GetInv, LockAcquireInv, ScanInv, MarkInv, ReleaseInv, FreeInv,
               ResetInv, Zenon DEF Step
  <1> QED BY <1>1, <1>2, Zenon

\* The invariant holds in every state.
THEOREM Invariance == Spec => []IndInv
  BY InitInv, NextInv, PTL DEF Spec

-----------------------------------------------------------------------------
\* The sets of NoPageTwice, page by page.
LEMMA InTransitMember ==
  ASSUME IndInv, NEW t \in Thread
  PROVE  /\ InTransit(t) \subseteq Page
         /\ \A p \in Page : p \in InTransit(t) <=> Transit(t, p)
  <1> USE PallocAssumption
  <1>1. start[t] \in Nat /\ i[t] \in Nat /\ cnt[t] \in Nat /\ Bounds(t)
    BY Zenon DEF IndInv, TypeOK, BoundsOK
  <1>2. CASE pc[t] = "mark"
    <2>1. InTransit(t) = Pages(start[t], i[t])
      BY <1>2, Zenon DEF InTransit
    <2>2. i[t] <= cnt[t] /\ start[t] + cnt[t] <= PageCnt
      BY <1>1, <1>2, Zenon DEF Bounds
    <2>3. \A p : p \in InTransit(t) <=> p \in Int /\ start[t] <= p /\ p < start[t] + i[t]
      BY <1>1, <2>1, PagesMember
    <2> QED BY <1>1, <1>2, <2>2, <2>3 DEF Transit, Page
  <1>3. CASE pc[t] = "clear"
    <2>1. InTransit(t) = Pages(start[t] + i[t], cnt[t] - i[t])
      BY <1>3, Zenon DEF InTransit
    <2>2. i[t] <= cnt[t] /\ start[t] + cnt[t] <= PageCnt
      BY <1>1, <1>3, Zenon DEF Bounds
    <2>3. \A p : p \in InTransit(t) <=>
                   p \in Int /\ start[t] + i[t] <= p /\ p < start[t] + i[t] + (cnt[t] - i[t])
      BY <1>1, <2>1, PagesMember
    <2> QED BY <1>1, <1>3, <2>2, <2>3 DEF Transit, Page
  <1>4. CASE pc[t] \notin {"mark", "clear"}
    <2>1. InTransit(t) = {}
      BY <1>4, Zenon DEF InTransit
    <2> QED BY <1>4, <2>1, Zenon DEF Transit
  <1> QED BY <1>2, <1>3, <1>4, Zenon

\* The pages of a group are those between its first and its last.
LEMMA InGroupMember ==
  ASSUME NEW g \in Group
  PROVE  /\ Pages(g[1], g[2]) \subseteq Page
         /\ \A p \in Page : p \in Pages(g[1], g[2]) <=> InGroup(g, p)
  <1> USE PallocAssumption
  <1>1. \A p : p \in Pages(g[1], g[2]) <=> p \in Int /\ g[1] <= p /\ p < g[1] + g[2]
    BY GroupType, PagesMember
  <1> QED BY <1>1, GroupType DEF InGroup, Page

\* palloc_get_multiple hands no page to two callers and none leaks, whichever
\* threads free pages while it scans and marks the bitmap, for any number of
\* threads and pages.
THEOREM PagesExclusive == Spec => []NoPageTwice
  <1>1. IndInv => NoPageTwice
    <2> SUFFICES ASSUME IndInv PROVE NoPageTwice
      BY Zenon
    <2> USE PallocAssumption
    <2>1. owned \subseteq Group /\ used_map \subseteq Page
      BY Zenon DEF IndInv, TypeOK
    <2>2. used_map = UNION ({Pages(g[1], g[2]) : g \in owned} \cup
                            {InTransit(t) : t \in Thread})
      <3>1. ASSUME NEW p \in used_map
            PROVE  \/ \E g \in owned : p \in Pages(g[1], g[2])
                   \/ \E t \in Thread : p \in InTransit(t)
        BY <2>1, InGroupMember, InTransitMember, Zenon DEF IndInv, UsedOK
      <3>2. ASSUME NEW g \in owned, NEW p \in Pages(g[1], g[2]) PROVE p \in used_map
        BY <2>1, InGroupMember, Zenon DEF IndInv, UsedOK
      <3>3. ASSUME NEW t \in Thread, NEW p \in InTransit(t) PROVE p \in used_map
        BY InTransitMember, Zenon DEF IndInv, UsedOK
      <3> QED BY <3>1, <3>2, <3>3, Zenon
    <2>3. ASSUME NEW g \in owned, NEW h \in owned
          PROVE  g = h \/ Pages(g[1], g[2]) \cap Pages(h[1], h[2]) = {}
      BY <2>1, InGroupMember, Zenon DEF IndInv, OneUser
    <2>4. ASSUME NEW t \in Thread, pc[t] = "mark"
          PROVE  Pages(start[t] + i[t], cnt[t] - i[t]) \cap used_map = {}
      <3>1. start[t] \in Nat /\ i[t] \in Nat /\ cnt[t] \in Nat
        BY Zenon DEF IndInv, TypeOK
      <3>2. \A p : p \in Pages(start[t] + i[t], cnt[t] - i[t]) =>
                     start[t] + i[t] <= p /\ p < start[t] + i[t] + (cnt[t] - i[t])
        BY <3>1, PagesMember
      <3>3. \A p \in Page : p \in Pages(start[t] + i[t], cnt[t] - i[t]) => FoundFree(t, p)
        BY <2>4, <3>1, <3>2 DEF FoundFree, Page
      <3> QED BY <2>1, <3>3, Zenon DEF IndInv, FoundOK
    <2>5. ASSUME NEW t \in Thread, NEW g \in owned
          PROVE  Pages(g[1], g[2]) \cap InTransit(t) = {}
      BY <2>1, InGroupMember, InTransitMember DEF IndInv, OneUser
    <2>6. ASSUME NEW t \in Thread, NEW u \in Thread \ {t}
          PROVE  InTransit(t) \cap InTransit(u) = {}
      BY InTransitMember DEF IndInv, OneUser
    <2> QED BY <2>1, <2>2, <2>3, <2>4, <2>5, <2>6, Zenon DEF NoPageTwice
  <1> QED BY <1>1, Invariance, PTL

\* palloc_get_multiple returns a null pointer only if no group of the size asked
\* for was free throughout its scan, for any pool and any size.
THEOREM FailureJustified == Spec => []FailsOnlyWhenFull
  <1>1. IndInv => FailsOnlyWhenFull
    BY Zenon DEF IndInv, ScannedOK, FailsOnlyWhenFull
  <1> QED BY <1>1, Invariance, PTL

=============================================================================
