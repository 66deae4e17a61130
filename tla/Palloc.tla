------------------------------- MODULE Palloc -------------------------------
(***************************************************************************)
(* A pool of the page allocator, threads/palloc.c, with the operations of  *)
(* lib/kernel/bitmap.c that it uses.                                       *)
(*                                                                         *)
(* palloc_get_multiple scans and marks the bitmap under the pool's lock;   *)
(* palloc_free_multiple clears bits without it.  Testing, setting and      *)
(* clearing one bit are atomic, and any thread may run between two of      *)
(* them.  The lock is that of Synch.  The two pools share nothing, so one  *)
(* is enough.                                                              *)
(***************************************************************************)
EXTENDS Integers, FiniteSets

CONSTANTS
  Thread,
  PageCnt,   \* bitmap_size (pool->used_map)
  MaxCnt,    \* bound: the most pages asked for at once
  NULL

ASSUME PallocAssumption ==
  /\ PageCnt \in Nat /\ MaxCnt \in Nat
  /\ NULL \notin Thread

VARIABLES
  used_map,  \* the pages marked in pool->used_map
  holder,    \* pool->lock
  pc,        \* where each thread is
  start,     \* the first page of the group scanned, marked or cleared
  cnt,       \* page_cnt
  i,         \* the loop counter of bitmap_contains and bitmap_set_multiple
  owned,     \* history: the groups <<start, cnt>> in the callers' hands
  avail      \* history: the pages free throughout each thread's scan

vars == <<used_map, holder, pc, start, cnt, i, owned, avail>>

Page == 0..PageCnt - 1
Pages(s, n) == s..s + n - 1
Group == {g \in Page \X (1..MaxCnt) : g[1] + g[2] <= PageCnt}

Goto(t, label) == pc' = [pc EXCEPT ![t] = label]

\* The call returns and its locals die.
Return(t) ==
  /\ Goto(t, "idle")
  /\ start' = [start EXCEPT ![t] = 0]
  /\ cnt' = [cnt EXCEPT ![t] = 0]
  /\ i' = [i EXCEPT ![t] = 0]

\* Marks or clears pages; a page marked is no longer free throughout any scan.
SetUsed(pages) ==
  /\ used_map' = pages
  /\ avail' = [t \in Thread |-> avail[t] \ pages]

-----------------------------------------------------------------------------
palloc_get_multiple(t, n) ==
  /\ pc[t] = "idle"
  /\ Goto(t, "acquire")
  /\ cnt' = [cnt EXCEPT ![t] = n]
  /\ UNCHANGED <<used_map, holder, start, i, owned, avail>>

Locked(t) ==
  /\ holder' = t
  /\ Goto(t, "scan")
  /\ start' = [start EXCEPT ![t] = 0]
  /\ i' = [i EXCEPT ![t] = 0]
  /\ avail' = [avail EXCEPT ![t] = Page \ used_map]
  /\ UNCHANGED <<used_map, cnt, owned>>

lock_acquire_Unlocked(t) == pc[t] = "acquire" /\ Locked(t)

lock_acquire(t) == pc[t] = "acquire" /\ holder = NULL /\ Locked(t)

\* The last group that fits starts at PageCnt - cnt.
PastEnd_OffByOne(t) == start[t] >= PageCnt - cnt[t]

PastEnd(t) == start[t] > PageCnt - cnt[t]

Rescan(t) ==
  /\ start' = [start EXCEPT ![t] = @ + 1]
  /\ i' = [i EXCEPT ![t] = 0]

bitmap_scan(t) ==
  /\ pc[t] = "scan"
  /\ \/ /\ PastEnd(t)
        /\ Goto(t, "fail")
        /\ UNCHANGED <<start, i>>
     \/ /\ ~PastEnd(t)
        /\ \/ /\ i[t] = cnt[t]
              /\ Goto(t, "mark")
              /\ i' = [i EXCEPT ![t] = 0]
              /\ UNCHANGED start
           \/ /\ i[t] < cnt[t] /\ start[t] + i[t] \in used_map
              /\ Rescan(t)
              /\ UNCHANGED pc
           \/ /\ i[t] < cnt[t] /\ start[t] + i[t] \notin used_map
              /\ i' = [i EXCEPT ![t] = @ + 1]
              /\ UNCHANGED <<pc, start>>
  /\ UNCHANGED <<used_map, holder, cnt, owned, avail>>

\* bitmap_set_multiple, called by bitmap_scan_and_flip.
bitmap_mark(t) ==
  /\ pc[t] = "mark" /\ i[t] < cnt[t]
  /\ SetUsed(used_map \cup {start[t] + i[t]})
  /\ i' = [i EXCEPT ![t] = @ + 1]
  /\ UNCHANGED <<holder, pc, start, cnt, owned>>

lock_release(t) ==
  /\ \/ /\ pc[t] = "mark" /\ i[t] = cnt[t]
        /\ owned' = owned \cup {<<start[t], cnt[t]>>}
     \/ /\ pc[t] = "fail"
        /\ UNCHANGED owned
  /\ holder' = NULL
  /\ Return(t)
  /\ avail' = [avail EXCEPT ![t] = {}]
  /\ UNCHANGED used_map

palloc_free_multiple(t, g) ==
  /\ pc[t] = "idle"
  /\ g \in owned
  /\ owned' = owned \ {g}
  /\ start' = [start EXCEPT ![t] = g[1]]
  /\ cnt' = [cnt EXCEPT ![t] = g[2]]
  /\ i' = [i EXCEPT ![t] = 0]
  /\ Goto(t, "clear")
  /\ UNCHANGED <<used_map, holder, avail>>

\* bitmap_set_multiple, called by palloc_free_multiple.
bitmap_reset(t) ==
  /\ pc[t] = "clear"
  /\ i[t] < cnt[t]
  /\ SetUsed(used_map \ {start[t] + i[t]})
  /\ IF i[t] = cnt[t] - 1
     THEN Return(t)
     ELSE i' = [i EXCEPT ![t] = @ + 1] /\ UNCHANGED <<pc, start, cnt>>
  /\ UNCHANGED <<holder, owned>>

-----------------------------------------------------------------------------
Init ==
  /\ used_map = {} /\ holder = NULL
  /\ pc = [t \in Thread |-> "idle"]
  /\ start = [t \in Thread |-> 0]
  /\ cnt = [t \in Thread |-> 0]
  /\ i = [t \in Thread |-> 0]
  /\ owned = {}
  /\ avail = [t \in Thread |-> {}]

Step(t) ==
  \/ lock_acquire(t) \/ bitmap_scan(t) \/ bitmap_mark(t) \/ lock_release(t)
  \/ bitmap_reset(t)

Next ==
  \E t \in Thread :
    \/ Step(t)
    \/ \E n \in 1..MaxCnt : palloc_get_multiple(t, n)
    \/ \E g \in Group : palloc_free_multiple(t, g)

\* Threads that can run do.
Fairness == \A t \in Thread : WF_vars(Step(t))

Spec == Init /\ [][Next]_vars /\ Fairness

-----------------------------------------------------------------------------
(***************************************************************************)
(* Properties.                                                             *)
(***************************************************************************)
\* The pages thread t has marked so far, or has still to clear.
InTransit(t) ==
  CASE pc[t] = "mark" -> Pages(start[t], i[t])
    [] pc[t] = "clear" -> Pages(start[t] + i[t], cnt[t] - i[t])
    [] OTHER -> {}

\* palloc_get_multiple hands no page to two callers, although pages are freed
\* while it scans: a group that a thread is about to mark is free but for what it
\* has marked itself, and the groups in use lie in the pool and are disjoint.
\* Exactly the pages in use are marked, so none leaks, and the bits that
\* palloc_free_multiple clears are set, as it asserts.
NoPageTwice ==
  /\ used_map = UNION ({Pages(g[1], g[2]) : g \in owned} \cup
                       {InTransit(t) : t \in Thread})
  /\ owned \subseteq Group
  /\ \A g, h \in owned : g = h \/ Pages(g[1], g[2]) \cap Pages(h[1], h[2]) = {}
  /\ \A t \in Thread :
       /\ pc[t] = "mark" =>
            Pages(start[t] + i[t], cnt[t] - i[t]) \cap used_map = {}
       /\ \A g \in owned : Pages(g[1], g[2]) \cap InTransit(t) = {}
       /\ \A u \in Thread \ {t} : InTransit(t) \cap InTransit(u) = {}

\* palloc_get_multiple fails only if no group large enough was free throughout
\* its scan.
FailsOnlyWhenFull ==
  \A t \in Thread :
    pc[t] = "fail" =>
      \A s \in Page : s + cnt[t] <= PageCnt => ~(Pages(s, cnt[t]) \subseteq avail[t])

=============================================================================
