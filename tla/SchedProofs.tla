----------------------------- MODULE SchedProofs -----------------------------
(***************************************************************************)
(* More proofs about Threads, for any number of threads and semaphores:    *)
(* the kernel's semaphores implement those of Semaphores, no wakeup is     *)
(* lost, and no sleeper wakes late.                                        *)
(*                                                                         *)
(* They need two facts beyond the invariant of ThreadsProofs: a thread     *)
(* that is not on all_list is at no label, and already_slept is sorted.    *)
(***************************************************************************)
EXTENDS ThreadsProofs, FiniteSetTheorems

Gone == \A t \in Thread \ all_list : pc[t] = "none"

Sorted ==
  \A i, j \in 1..Len(already_slept) :
    i < j => time_ticks[already_slept[i]] <= time_ticks[already_slept[j]]

FullInv == IndInv /\ Gone /\ Sorted

\* The running thread is on all_list, and on none of the lists of blocked threads.
LEMMA CurrentFacts ==
  ASSUME IndInv
  PROVE  /\ current \in Thread /\ current \in all_list /\ status[current] = "RUNNING"
         /\ current \notin Range(already_slept)
         /\ \A s \in Sema : current \notin Range(waiters[s])
  <1>1. current \in Thread /\ status[current] = "RUNNING"
    BY Zenon DEF IndInv, TypeOK, OneRunning
  <1> QED BY <1>1, Zenon DEF IndInv, AllListOK, QueuesMatchStatus, SleepListOK, WaitersOK

\* Only the running thread's label and argument change, except when a thread is
\* created.
LEMMA OnlyCurrentMoves ==
  ASSUME IndInv, [Next]_vars, ~thread_start, \A t \in Thread : ~thread_create(t)
  PROVE  \A u \in Thread \ {current} : pc'[u] = pc[u] /\ arg'[u] = arg[u]
  <1>1. current \in Thread /\ pc \in [Thread -> Label] /\ DOMAIN arg = Thread
    BY Zenon DEF IndInv, TypeOK
  <1>2. ASSUME NEW label, NEW a, Goto(current, label, a)
        PROVE  \A u \in Thread \ {current} : pc'[u] = pc[u] /\ arg'[u] = arg[u]
    BY <1>1, <1>2, Zenon DEF Goto
  <1>3. ASSUME EndHlt
        PROVE  \A u \in Thread \ {current} : pc'[u] = pc[u] /\ arg'[u] = arg[u]
    BY <1>1, <1>3, Zenon DEF EndHlt
  <1>4. CASE UNCHANGED <<pc, arg>>
    BY <1>4, Zenon
  <1>5. ASSUME NEW s, SemaDown(s, "run")
        PROVE  \A u \in Thread \ {current} : pc'[u] = pc[u] /\ arg'[u] = arg[u]
    BY <1>2, <1>5, Zenon DEF SemaDown
  <1>6. CASE KernelStep
    <2>1. CASE main_wait \/ sema_down_again
      BY <1>5, <2>1, Zenon DEF main_wait, sema_down_again
    <2>2. CASE idle_begin \/ idle_up \/ idle_block
      BY <1>2, <2>2, Zenon DEF idle_begin, idle_up, idle_block
    <2>3. CASE thread_create_unblock \/ thread_sleep_return
      BY <1>2, <2>3, Zenon DEF thread_create_unblock, thread_sleep_return, Return
    <2>4. CASE timer_sleep_loop
      BY <1>2, <1>4, <2>4, Zenon DEF timer_sleep_loop, Return
    <2> QED BY <1>6, <2>1, <2>2, <2>3, <2>4, Zenon DEF KernelStep
  <1>7. CASE ClientCall
    <2>1. CASE thread_yield
      BY <1>4, <2>1, Zenon DEF thread_yield
    <2>2. CASE thread_exit
      BY <1>2, <2>2, Zenon DEF thread_exit
    <2>3. CASE \E n \in SleepTicks : timer_sleep(n) \/ thread_sleep(n)
      BY <1>2, <2>3, Zenon DEF timer_sleep, thread_sleep
    <2>4. ASSUME NEW s \in ClientSema,
                 \/ \E v \in 0..MaxValue : sema_init(s, v)
                 \/ sema_try_down(s) \/ sema_up(s)
          PROVE  UNCHANGED <<pc, arg>>
      BY <2>4, Zenon DEF sema_init, sema_try_down, sema_up
    <2>5. CASE \E s \in ClientSema : sema_down(s)
      BY <1>5, <2>5, Zenon DEF sema_down
    <2> QED BY <1>4, <1>7, <2>1, <2>2, <2>3, <2>4, <2>5, ZenonT(30) DEF ClientCall
  <1>8. CASE Interrupt
    BY <1>3, <1>8, Zenon DEF Interrupt, timer_interrupt, device_interrupt
  <1>9. CASE UNCHANGED vars
    BY <1>4, <1>9, Zenon DEF vars
  <1> QED BY <1>6, <1>7, <1>8, <1>9, ZenonT(30) DEF Next

\* A thread is at no label once thread_exit has taken it off all_list.
LEMMA GoneInv ==
  ASSUME IndInv, Gone, [Next]_vars
  PROVE  Gone'
  <1>1. current \in Thread /\ current \in all_list /\ pc \in [Thread -> Label]
    BY CurrentFacts, Zenon DEF IndInv, TypeOK
  <1>2. CASE thread_start
    BY <1>1, <1>2, ThreadAssumption, Zenon DEF thread_start, Gone, IndInv, Roles
  <1>3. ASSUME NEW t \in Thread, thread_create(t) PROVE Gone'
    <2>1. /\ all_list' = all_list \cup {t}
          /\ \A u \in Thread \ {t, current} : pc'[u] = pc[u]
      BY <1>1, <1>3, Zenon DEF thread_create
    <2> QED BY <1>1, <2>1, Zenon DEF Gone
  <1>4. CASE ~thread_start /\ \A t \in Thread : ~thread_create(t)
    <2>1. \A u \in Thread \ {current} : pc'[u] = pc[u]
      BY <1>4, OnlyCurrentMoves, Zenon
    <2>2. CASE thread_exit
      <3>1. all_list' = all_list \ {current} /\ pc'[current] = "none"
        BY <1>1, <2>2, Zenon DEF thread_exit, Goto
      <3> QED BY <2>1, <3>1, Zenon DEF Gone
    <2>3. CASE ~thread_exit
      <3>1. all_list' = all_list
        <4>1. CASE KernelStep
          BY <1>4, <4>1, Zenon DEF KernelStep, main_wait, idle_begin, idle_up, idle_block,
             thread_create_unblock, sema_down_again, timer_sleep_loop, thread_sleep_return
        <4>2. CASE ClientCall
          BY <1>4, <2>3, <4>2, Zenon DEF ClientCall, thread_yield, sema_init, sema_down,
             sema_try_down, sema_up, timer_sleep, thread_sleep
        <4>3. CASE Interrupt
          BY <4>3, Zenon DEF Interrupt, timer_interrupt, device_interrupt
        <4> QED BY <4>1, <4>2, <4>3, Zenon DEF Next, vars
      <3> QED BY <1>1, <2>1, <3>1, Zenon DEF Gone
    <2> QED BY <2>2, <2>3, Zenon
  <1> QED BY <1>2, <1>3, <1>4, Zenon

-----------------------------------------------------------------------------
\* What one step may do to the sleepers' list, as WakeOnTime states it.
WakesOnTime ==
  /\ \A t \in Range(already_slept) \ Range(already_slept') : time_ticks[t] <= ticks'
  /\ ticks' # ticks => \A t \in Range(already_slept') : time_ticks[t] > ticks'

\* The timer interrupt takes the sleepers that are due off the sorted list, and
\* leaves none of them on it.
LEMMA TimerWakes ==
  ASSUME IndInv, Sorted, timer_interrupt
  PROVE  Sorted' /\ WakesOnTime
  <1>1. /\ already_slept \in Seq(Thread) /\ IsInjective(already_slept)
        /\ time_ticks \in [Thread -> Int] /\ ticks \in Nat /\ MaxTicks \in Nat
    BY BoundAssumption, Zenon DEF IndInv, TypeOK, QueuesMatchStatus, SleepListOK
  <1>2. PICK k \in 0..Len(already_slept) :
          /\ LeadingDue(already_slept, k, ticks')
          /\ already_slept' = SubSeq(already_slept, k + 1, Len(already_slept))
    BY Zenon DEF timer_interrupt
  <1>3. time_ticks' = time_ticks /\ ticks' \in Nat
    BY <1>1 DEF timer_interrupt
  <1>4. /\ Len(already_slept) \in Nat
        /\ Len(already_slept') = Len(already_slept) - k
        /\ already_slept' \in Seq(Thread)
        /\ \A i \in 1..Len(already_slept') : already_slept'[i] = already_slept[i + k]
    BY <1>1, <1>2
  <1>5. \A i \in 1..Len(already_slept) : time_ticks[already_slept[i]] \in Int
    BY <1>1
  <1>6. Sorted'
    <2> SUFFICES ASSUME NEW i \in 1..Len(already_slept'), NEW j \in 1..Len(already_slept'), i < j
                 PROVE  time_ticks[already_slept'[i]] <= time_ticks[already_slept'[j]]
      BY <1>3, Zenon DEF Sorted
    <2>1. \A x \in 1..Len(already_slept') : x \in Int /\ x + k \in 1..Len(already_slept)
      <3> SUFFICES ASSUME NEW x \in 1..Len(already_slept')
                   PROVE  x \in Int /\ x + k \in 1..Len(already_slept)
        BY Zenon
      <3>1. x \in Int /\ 1 <= x /\ x <= Len(already_slept) - k
        BY <1>4
      <3> QED BY ONLY <1>4, <3>1, k \in 0..Len(already_slept)
    <2>2. i + k < j + k
      BY <2>1
    <2> QED BY <1>4, <2>1, <2>2, Zenon DEF Sorted
  <1>7. ASSUME NEW t \in Range(already_slept) \ Range(already_slept')
        PROVE  time_ticks[t] <= ticks'
    <2>1. PICK i \in 1..Len(already_slept) : already_slept[i] = t
      BY <1>1, InRange, Zenon
    <2>2. ASSUME i > k PROVE FALSE
      <3>1. i - k \in 1..Len(already_slept') /\ already_slept'[i - k] = t
        BY <1>2, <1>4, <2>1, <2>2
      <3> QED BY <1>4, <3>1, InRange, Zenon
    <2>3. i \in 1..k
      BY <2>2
    <2> QED BY <1>2, <2>1, <2>3, Zenon DEF LeadingDue
  <1>8. ASSUME NEW t \in Range(already_slept')
        PROVE  time_ticks[t] > ticks'
    <2>1. PICK i \in 1..Len(already_slept') : already_slept'[i] = t
      BY <1>4, InRange, Zenon
    <2>2. i + k \in 1..Len(already_slept) /\ already_slept[i + k] = t /\ k + 1 <= i + k
      BY <1>2, <1>4, <2>1
    <2>3. k + 1 \in 1..Len(already_slept) /\ k < Len(already_slept)
      BY <1>2, <2>2
    <2>4. time_ticks[already_slept[k + 1]] > ticks'
      BY <1>2, <2>3, Zenon DEF LeadingDue
    <2>5. time_ticks[already_slept[k + 1]] <= time_ticks[t]
      BY <1>5, <2>1, <2>2, <2>3 DEF Sorted
    <2> QED BY <1>3, <1>5, <2>2, <2>3, <2>4, <2>5, SMTT(30)
  <1> QED BY <1>6, <1>7, <1>8, Zenon DEF WakesOnTime

\* thread_sleep inserts the current thread where it keeps the list sorted.
LEMMA SleepSorted ==
  ASSUME IndInv, Sorted, NEW n \in SleepTicks, thread_sleep(n)
  PROVE  Sorted' /\ WakesOnTime
  <1>1. /\ already_slept \in Seq(Thread) /\ current \in Thread
        /\ time_ticks \in [Thread -> Int] /\ ticks + n \in Int /\ ticks' = ticks
        /\ current \notin Range(already_slept)
    BY BoundAssumption, CurrentFacts DEF IndInv, TypeOK, thread_sleep
  <1>2. PICK k \in 0..Len(already_slept) :
          /\ LeadingDue(already_slept, k, ticks + n)
          /\ already_slept' = InsertAfter(already_slept, k, current)
    BY Zenon DEF thread_sleep
  <1>3. /\ time_ticks'[current] = ticks + n
        /\ \A t \in Thread \ {current} : time_ticks'[t] = time_ticks[t]
    BY <1>1, Zenon DEF thread_sleep
  <1>4. /\ already_slept' = [i \in 1..Len(already_slept) + 1 |->
             IF i <= k THEN already_slept[i]
             ELSE IF i = k + 1 THEN current ELSE already_slept[i - 1]]
        /\ already_slept' \in Seq(Thread)
        /\ Range(already_slept') = Range(already_slept) \cup {current}
    <2> DEFINE w == [i \in 1..Len(already_slept) + 1 |->
                       IF i <= k THEN already_slept[i]
                       ELSE IF i = k + 1 THEN current ELSE already_slept[i - 1]]
    <2>1. already_slept' = w
      BY <1>2, Zenon DEF InsertAfter
    <2>2. w \in Seq(Thread) /\ Range(w) = Range(already_slept) \cup {current}
      BY ONLY <1>1, k \in 0..Len(already_slept), InsertRange, SMTT(30)
    <2> QED BY <2>1, <2>2, Zenon
  <1>5. Len(already_slept) \in Nat /\ Len(already_slept') = Len(already_slept) + 1
    BY <1>1, <1>4
  <1>6. \A i \in 1..Len(already_slept) :
          /\ already_slept[i] \in Thread \ {current}
          /\ time_ticks'[already_slept[i]] = time_ticks[already_slept[i]]
          /\ time_ticks[already_slept[i]] \in Int
    BY <1>1, <1>3, InRange
  <1>7. ASSUME NEW i \in 1..Len(already_slept) + 1
        PROVE  /\ i <= k => already_slept'[i] = already_slept[i] /\ i \in 1..Len(already_slept)
               /\ i = k + 1 => already_slept'[i] = current
               /\ i > k + 1 => /\ already_slept'[i] = already_slept[i - 1]
                               /\ i - 1 \in 1..Len(already_slept) /\ k + 1 \in 1..Len(already_slept)
    BY <1>2, <1>4, <1>5
  <1>8. \A i \in 1..Len(already_slept) :
          /\ i <= k => time_ticks[already_slept[i]] <= ticks + n
          /\ i > k => time_ticks[already_slept[i]] > ticks + n
    <2>1. ASSUME NEW i \in 1..Len(already_slept), i > k
          PROVE  time_ticks[already_slept[i]] > ticks + n
      <3>1. k + 1 \in 1..Len(already_slept) /\ k < Len(already_slept) /\ k + 1 <= i
        BY <1>2, <1>5, <2>1
      <3>2. time_ticks[already_slept[k + 1]] > ticks + n
        BY <1>2, <3>1, Zenon DEF LeadingDue
      <3>3. k + 1 < i => time_ticks[already_slept[k + 1]] <= time_ticks[already_slept[i]]
        BY <3>1, Zenon DEF Sorted
      <3> QED BY <1>1, <1>6, <3>1, <3>2, <3>3, SMTT(30)
    <2>2. \A i \in 1..Len(already_slept) :
            i <= k => time_ticks[already_slept[i]] <= ticks + n
      BY <1>2, <1>5 DEF LeadingDue
    <2> QED BY <2>1, <2>2, ZenonT(30)
  <1>9. ASSUME NEW i \in 1..Len(already_slept'), NEW j \in 1..Len(already_slept'), i < j
        PROVE  time_ticks'[already_slept'[i]] <= time_ticks'[already_slept'[j]]
    <2>0. i \in 1..Len(already_slept) + 1 /\ j \in 1..Len(already_slept) + 1
      BY <1>5, Zenon
    <2>1. CASE j <= k
      <3>1. /\ already_slept'[i] = already_slept[i] /\ already_slept'[j] = already_slept[j]
            /\ i \in 1..Len(already_slept) /\ j \in 1..Len(already_slept)
        BY <1>7, <1>9, <2>0, <2>1, SMTT(30)
      <3> QED BY <1>6, <1>9, <3>1, ZenonT(30) DEF Sorted
    <2>2. CASE j = k + 1
      <3>1. /\ already_slept'[i] = already_slept[i] /\ already_slept'[j] = current
            /\ i \in 1..Len(already_slept) /\ i <= k
        BY <1>7, <1>9, <2>0, <2>2, SMTT(30)
      <3> QED BY <1>3, <1>6, <1>8, <3>1, SMTT(30)
    <2>3. CASE j > k + 1
      <3>1. already_slept'[j] = already_slept[j - 1] /\ j - 1 \in 1..Len(already_slept) /\ j - 1 > k
        BY <1>2, <1>7, <2>0, <2>3, SMTT(30)
      <3>2. CASE i <= k
        <4>1. already_slept'[i] = already_slept[i] /\ i \in 1..Len(already_slept) /\ i < j - 1
          BY <1>7, <2>0, <2>3, <3>2, SMTT(30)
        <4> QED BY <1>6, <3>1, <4>1, ZenonT(30) DEF Sorted
      <3>3. CASE i = k + 1
        <4>1. already_slept'[i] = current
          BY <1>7, <2>0, <3>3, ZenonT(30)
        <4> QED BY <1>1, <1>3, <1>6, <1>8, <3>1, <4>1, SMTT(30)
      <3>4. CASE i > k + 1
        <4>1. /\ already_slept'[i] = already_slept[i - 1] /\ i - 1 \in 1..Len(already_slept)
              /\ i - 1 < j - 1
          BY <1>7, <1>9, <2>0, <3>4, SMTT(30)
        <4> QED BY <1>6, <3>1, <4>1, ZenonT(30) DEF Sorted
      <3> QED BY <1>2, <3>2, <3>3, <3>4, SMTT(30)
    <2> QED BY <1>2, <2>1, <2>2, <2>3, SMTT(30)
  <1> QED BY <1>1, <1>4, <1>9, ZenonT(30) DEF Sorted, WakesOnTime

\* No other step changes the list, the clock or a sleeper's time.
LEMMA SortedInv ==
  ASSUME IndInv, Sorted, [Next]_vars
  PROVE  Sorted' /\ WakesOnTime
  <1>1. ASSUME UNCHANGED <<already_slept, ticks>>,
               \A t \in Range(already_slept) : time_ticks'[t] = time_ticks[t]
        PROVE  Sorted' /\ WakesOnTime
    <2>1. already_slept \in Seq(Thread)
      BY Zenon DEF IndInv, TypeOK
    <2>2. \A i \in 1..Len(already_slept) :
            time_ticks'[already_slept[i]] = time_ticks[already_slept[i]]
      BY <1>1, <2>1, InRange, ZenonT(30)
    <2> QED BY <1>1, <2>2, Zenon DEF Sorted, WakesOnTime
  <1>2. CASE UNCHANGED clock
    BY <1>1, <1>2, Zenon DEF clock
  <1>3. ASSUME NEW t \in Thread, thread_create(t) PROVE Sorted' /\ WakesOnTime
    <2>1. UNCHANGED <<already_slept, ticks>> /\ time_ticks' = [time_ticks EXCEPT ![t] = 0]
      BY <1>3, Zenon DEF thread_create
    <2>2. t \notin Range(already_slept)
      BY <1>3, Zenon DEF thread_create, IndInv, QueuesMatchStatus, SleepListOK
    <2>3. \A u \in Range(already_slept) : u \in Thread
      <3>1. already_slept \in Seq(Thread)
        BY Zenon DEF IndInv, TypeOK
      <3> QED BY <3>1 DEF Range
    <2> QED BY <1>1, <2>1, <2>2, <2>3, ZenonT(30) DEF IndInv, TypeOK
  <1>4. CASE KernelStep
    <2>1. UNCHANGED clock
      BY <1>4, Zenon DEF KernelStep, thread_start, main_wait, idle_begin, idle_up, idle_block,
         thread_create_unblock, sema_down_again, timer_sleep_loop, thread_sleep_return
    <2> QED BY <1>2, <2>1, Zenon
  <1>5. CASE ClientCall /\ ~ \E n \in SleepTicks : thread_sleep(n)
    <2>1. CASE ~ \E t \in Thread : thread_create(t)
      <3>1. UNCHANGED clock
        BY <1>5, <2>1, ZenonT(30) DEF ClientCall, thread_yield, thread_exit, sema_init, sema_down,
           sema_try_down, sema_up, timer_sleep
      <3> QED BY <1>2, <3>1, Zenon
    <2> QED BY <1>3, <2>1, Zenon
  <1>6. CASE \E n \in SleepTicks : thread_sleep(n)
    BY <1>6, SleepSorted, Zenon
  <1>7. CASE timer_interrupt
    BY <1>7, TimerWakes, Zenon
  <1>8. CASE \E s \in ClientSema : device_interrupt(s)
    <2>1. UNCHANGED clock
      BY <1>8, Zenon DEF device_interrupt
    <2> QED BY <1>2, <2>1, Zenon
  <1>9. CASE UNCHANGED vars
    BY <1>2, <1>9, Zenon DEF vars
  <1> QED BY <1>4, <1>5, <1>6, <1>7, <1>8, <1>9, ZenonT(30) DEF Next, Interrupt

-----------------------------------------------------------------------------
(***************************************************************************)
(* The semaphores without the scheduler.  Since a semaphore's queue holds  *)
(* exactly the threads blocked in its sema_down, the woken ones are those  *)
(* in its sema_down that are not in the queue: which of them runs, and     *)
(* when, plays no part.                                                    *)
(***************************************************************************)
Downing(t, s) == pc[t] = "sema_down" /\ arg[t] = s

\* The woken threads of a semaphore, from its queue.
LEMMA WokenQueue ==
  ASSUME IndInv, NEW s \in Sema
  PROVE  Woken(s) = {t \in Thread : Downing(t, s) /\ t \notin Range(waiters[s])}
  <1>1. \A t \in Thread : t \in Range(waiters[s]) <=> status[t] = "BLOCKED" /\ Downing(t, s)
    BY Zenon DEF IndInv, QueuesMatchStatus, WaitersOK, Downing
  <1> QED BY <1>1, Zenon DEF Woken, Downing

\* The same after a step.
LEMMA WokenQueueNext ==
  ASSUME IndInv', NEW s \in Sema
  PROVE  Woken(s)' = {t \in Thread : Downing(t, s)' /\ t \notin Range(waiters'[s])}
  <1>1. \A t \in Thread : t \in Range(waiters'[s]) <=> status'[t] = "BLOCKED" /\ Downing(t, s)'
    BY Zenon DEF IndInv, QueuesMatchStatus, WaitersOK, Downing
  <1> QED BY <1>1, Zenon DEF Woken, Downing

\* A semaphore whose queue and whose threads stay as they are keeps its woken
\* threads.
LEMMA WokenKept ==
  ASSUME IndInv, IndInv', NEW s \in Sema, waiters'[s] = waiters[s],
         \A t \in Thread : Downing(t, s)' <=> Downing(t, s)
  PROVE  Woken(s)' = Woken(s)
  BY WokenQueue, WokenQueueNext, ZenonT(30)

\* sema_down is a step of the abstract semaphore: block, or take a unit.
LEMMA DownRefines ==
  ASSUME IndInv, IndInv', NEW s \in Sema, SemaDown(s, "run"),
         pc[current] = "sema_down" => arg[current] = s
  PROVE  Semaphore!sema_block(current, s) \/ Semaphore!sema_take(current, s)
  <1>1. /\ current \in Thread /\ pc \in [Thread -> Label] /\ DOMAIN arg = Thread
        /\ waiters \in [Sema -> Seq(Thread)] /\ value \in [Sema -> Nat]
        /\ \A u \in Sema : current \notin Range(waiters[u])
    BY CurrentFacts, Zenon DEF IndInv, TypeOK
  <1>c. PICK c \in Thread : c = current
    BY <1>1, Zenon
  <1>2. \A u \in Sema : waiters[u] \in Seq(Thread) /\ (u # s => waiters'[u] = waiters[u])
    BY <1>1, Zenon DEF SemaDown
  <1>3. \A t \in Thread \ {c} : \A u \in Sema : Downing(t, u)' <=> Downing(t, u)
    <2>1. PICK label, a : Goto(current, label, a)
      BY Zenon DEF SemaDown
    <2> QED BY <1>1, <1>c, <2>1, Zenon DEF Goto, Downing
  <1>4. \A u \in Sema \ {s} : ~Downing(c, u) /\ ~Downing(c, u)'
    BY <1>1, <1>c DEF SemaDown, Goto, Downing
  <1>5. \A u \in Sema \ {s} : Woken(u)' = Woken(u) /\ current \notin Woken(u)
    <2>1. ASSUME NEW u \in Sema \ {s} PROVE Woken(u)' = Woken(u)
      <3>1. waiters'[u] = waiters[u]
        BY <1>2, Zenon
      <3>2. \A t \in Thread : Downing(t, u)' <=> Downing(t, u)
        BY <1>3, <1>4, Zenon
      <3> QED BY <3>1, <3>2, WokenKept, ZenonT(30)
    <2> QED BY <1>c, <1>4, <2>1, ZenonT(30) DEF Woken, Downing
  <1>6. Woken(s)' = {t \in Thread : Downing(t, s)' /\ t \notin Range(waiters'[s])}
    BY WokenQueueNext, Zenon
  <1>7. Woken(s) = {t \in Thread : Downing(t, s) /\ t \notin Range(waiters[s])}
    BY WokenQueue, Zenon
  <1>8. Semaphore!CanDown(current, s)
    BY <1>1, <1>5, ZenonT(30) DEF Semaphore!CanDown, Semaphore!Blocked, Semaphore!Range, Range
  <1>9. ASSUME Woken(s)' = Woken(s) \ {current}
        PROVE  [u \in Sema |-> Woken(u)]' = [[u \in Sema |-> Woken(u)] EXCEPT ![s] = @ \ {current}]
    BY <1>5, <1>9, Zenon
  <1>10. CASE value[s] = 0
    <2>1. waiters' = [waiters EXCEPT ![s] = Append(@, current)] /\ value' = value
      BY <1>1, <1>10 DEF SemaDown
    <2>2. Range(waiters'[s]) = Range(waiters[s]) \cup {current}
      BY <1>1, <1>2, <2>1, AppendRange, SMTT(30)
    <2>3. Woken(s)' = Woken(s) \ {current}
      BY <1>c, <1>3, <1>6, <1>7, <2>2, ZenonT(30)
    <2>4. [u \in Sema |-> Woken(u)]' = [[u \in Sema |-> Woken(u)] EXCEPT ![s] = @ \ {current}]
      BY <1>9, <2>3, ZenonT(30)
    <2> QED BY <1>8, <1>10, <2>1, <2>4, ZenonT(30) DEF Semaphore!sema_block
  <1>11. CASE value[s] > 0
    <2>1. waiters' = waiters /\ value' = [value EXCEPT ![s] = @ - 1] /\ ~Downing(c, s)'
      BY <1>1, <1>c, <1>11, SMTT(30) DEF SemaDown, Goto, Downing
    <2>2. Woken(s)' = Woken(s) \ {current}
      BY <1>c, <1>3, <1>6, <1>7, <2>1, Zenon
    <2>3. [u \in Sema |-> Woken(u)]' = [[u \in Sema |-> Woken(u)] EXCEPT ![s] = @ \ {current}]
      BY <1>9, <2>2, ZenonT(30)
    <2> QED BY <1>8, <1>11, <2>1, <2>3, ZenonT(30) DEF Semaphore!sema_take
  <1> QED BY <1>10, <1>11, ZenonT(30) DEF SemaDown

\* sema_up, called by a thread or by an interrupt handler, is the abstract one.
LEMMA UpRefines ==
  ASSUME IndInv, IndInv', NEW s \in Sema, SemaUp(s),
         \A t \in Thread : \A u \in Sema : Downing(t, u)' <=> Downing(t, u)
  PROVE  Semaphore!sema_up(s)
  <1>1. waiters \in [Sema -> Seq(Thread)] /\ value' = [value EXCEPT ![s] = @ + 1]
    BY Zenon DEF IndInv, TypeOK, SemaUp
  <1>2. \A u \in Sema \ {s} : Woken(u)' = Woken(u)
    <2>1. ASSUME NEW u \in Sema \ {s} PROVE waiters'[u] = waiters[u]
      BY <1>1, Zenon DEF SemaUp
    <2> QED BY <2>1, WokenKept, Zenon
  <1>3. CASE waiters[s] = <<>>
    <2>1. waiters' = waiters
      BY <1>3, Zenon DEF SemaUp
    <2>2. Woken(s)' = Woken(s)
      BY <2>1, WokenKept, Zenon
    <2>3. [u \in Sema |-> Woken(u)]' = [u \in Sema |-> Woken(u)]
      BY <1>2, <2>2, Zenon
    <2> QED BY <1>1, <1>3, <2>1, <2>3, ZenonT(30) DEF Semaphore!sema_up
  <1>4. CASE waiters[s] # <<>>
    <2> DEFINE h == Head(waiters[s])
    <2>1. waiters' = [waiters EXCEPT ![s] = Tail(@)]
      BY <1>4, ZenonT(30) DEF SemaUp
    <2>2. waiters[s] \in Seq(Thread) /\ waiters'[s] = Tail(waiters[s]) /\ IsInjective(waiters[s])
      BY <1>1, <2>1 DEF IndInv, QueuesMatchStatus, WaitersOK
    <2>3. Range(waiters'[s]) = Range(waiters[s]) \ {h} /\ h \in Thread /\ h \in Range(waiters[s])
      BY <1>4, <2>2, TailRange, ZenonT(30)
    <2>4. Downing(h, s)
      BY <2>3 DEF IndInv, QueuesMatchStatus, WaitersOK, Downing
    <2>5. Woken(s)' = {t \in Thread : Downing(t, s)' /\ t \notin Range(waiters'[s])}
      BY WokenQueueNext, Zenon
    <2>6. Woken(s) = {t \in Thread : Downing(t, s) /\ t \notin Range(waiters[s])}
      BY WokenQueue, Zenon
    <2> HIDE DEF h
    <2>7. Woken(s)' = Woken(s) \cup {h}
      BY <2>3, <2>4, <2>5, <2>6, ZenonT(30)
    <2>8. [u \in Sema |-> Woken(u)]' = [[u \in Sema |-> Woken(u)] EXCEPT ![s] = @ \cup {h}]
      BY <1>2, <2>7, ZenonT(30)
    <2> QED BY <1>1, <1>4, <2>1, <2>8, ZenonT(30) DEF Semaphore!sema_up, h
  <1> QED BY <1>3, <1>4, ZenonT(30)

\* A step that touches no semaphore and moves no thread into or out of
\* sema_down stutters.
LEMMA OtherStutters ==
  ASSUME IndInv, IndInv', UNCHANGED semas,
         \A t \in Thread : \A u \in Sema : Downing(t, u)' <=> Downing(t, u)
  PROVE  UNCHANGED Semaphore!semaphores
  <1>1. value' = value /\ waiters' = waiters
    BY Zenon DEF semas
  <1>2. \A u \in Sema : Woken(u)' = Woken(u)
    BY <1>1, WokenKept, Zenon
  <1> QED BY <1>1, <1>2, Zenon DEF Semaphore!semaphores

\* sema_try_down takes a unit without having waited for it.
LEMMA TryDownRefines ==
  ASSUME IndInv, IndInv', NEW s \in Sema, sema_try_down(s)
  PROVE  Semaphore!sema_take(current, s)
  <1>1. \A u \in Sema : Woken(u)' = Woken(u)
    BY WokenKept, Zenon DEF sema_try_down, Downing
  <1>2. \A u \in Sema : current \notin Woken(u)
    BY Zenon DEF sema_try_down, Calling, Woken
  <1>3. Semaphore!CanDown(current, s)
    BY <1>2, CurrentFacts, Zenon DEF Semaphore!CanDown, Semaphore!Blocked, Semaphore!Range, Range
  <1>4. [u \in Sema |-> Woken(u)]' = [[u \in Sema |-> Woken(u)] EXCEPT ![s] = @ \ {current}]
    BY <1>1, <1>2, Zenon
  <1> QED BY <1>3, <1>4, Zenon DEF sema_try_down, Semaphore!sema_take

\* sema_init is applied to a semaphore without waiting or woken threads.
LEMMA InitRefines ==
  ASSUME IndInv, IndInv', NEW s \in Sema, NEW v \in 0..MaxValue, sema_init(s, v)
  PROVE  Semaphore!sema_init(s, v)
  <1>1. waiters \in [Sema -> Seq(Thread)] /\ waiters[s] \in Seq(Thread)
    BY Zenon DEF IndInv, TypeOK
  <1>2. waiters[s] = <<>>
    <2>1. SUFFICES ASSUME waiters[s] # <<>> PROVE FALSE
      BY Zenon
    <2>2. Head(waiters[s]) \in Range(waiters[s]) /\ Head(waiters[s]) \in Thread
      BY <1>1, <2>1, TailRange, ZenonT(30) DEF IndInv, QueuesMatchStatus, WaitersOK
    <2> QED BY <2>2 DEF sema_init, IndInv, QueuesMatchStatus, WaitersOK
  <1>3. waiters' = waiters /\ value' = [value EXCEPT ![s] = v]
    BY <1>1, <1>2, Zenon DEF sema_init
  <1>4. \A u \in Sema : Woken(u)' = Woken(u)
    BY <1>3, WokenKept, Zenon DEF sema_init, Downing
  <1>5. Woken(s) = {}
    BY Zenon DEF sema_init, Woken
  <1> QED BY <1>2, <1>3, <1>4, <1>5, ZenonT(30) DEF Semaphore!sema_init

\* Every step of the kernel is a step of the abstract semaphores, or none.
LEMMA SemaStep ==
  ASSUME IndInv, IndInv', Gone, [Next]_vars
  PROVE  [Semaphore!SemaNext]_Semaphore!semaphores
  <1>1. /\ current \in Thread /\ pc \in [Thread -> Label] /\ DOMAIN arg = Thread
        /\ waiters \in [Sema -> Seq(Thread)]
    BY Zenon DEF IndInv, TypeOK
  <1>c. PICK c \in Thread : c = current
    BY <1>1, Zenon
  <1>2. ASSUME NEW s \in Sema, SemaDown(s, "run"),
               pc[current] = "sema_down" => arg[current] = s
        PROVE  Semaphore!SemaNext
    BY <1>1, <1>2, DownRefines, ZenonT(30) DEF Semaphore!SemaNext
  <1>3. ASSUME NEW s \in Sema, SemaUp(s),
               \A t \in Thread : \A u \in Sema : Downing(t, u)' <=> Downing(t, u)
        PROVE  Semaphore!SemaNext
    BY <1>3, UpRefines, Zenon DEF Semaphore!SemaNext
  <1>4. ASSUME UNCHANGED semas, ~thread_start, \A t \in Thread : ~thread_create(t),
               pc[c] # "sema_down", pc'[c] # "sema_down"
        PROVE  UNCHANGED Semaphore!semaphores
    <2>1. \A u \in Thread \ {c} : pc'[u] = pc[u] /\ arg'[u] = arg[u]
      BY <1>4, <1>c, OnlyCurrentMoves, ZenonT(30)
    <2>2. \A t \in Thread : \A u \in Sema : Downing(t, u)' <=> Downing(t, u)
      BY <1>4, <2>1, ZenonT(30) DEF Downing
    <2> QED BY <1>4, <2>2, OtherStutters, ZenonT(30)
  <1>5. ASSUME UNCHANGED semas, UNCHANGED <<pc, arg>>
        PROVE  UNCHANGED Semaphore!semaphores
    BY <1>5, OtherStutters, Zenon DEF Downing
  <1>6. ASSUME EndHlt
        PROVE  \A t \in Thread : \A u \in Sema : Downing(t, u)' <=> Downing(t, u)
    BY <1>1, <1>6, ZenonT(30) DEF EndHlt, Downing
  <1>7. CASE thread_start
    <2>1. /\ \A t \in Thread \ {Main, Idle} : pc'[t] = pc[t]
          /\ pc'[Main] = "main_wait" /\ pc'[Idle] = "idle_begin" /\ arg' = arg
          /\ UNCHANGED semas
      BY <1>1, <1>7, ThreadAssumption, ZenonT(30) DEF thread_start
    <2>2. pc[Main] = "main_start" /\ pc[Idle] # "sema_down"
      BY <1>1, <1>7, ZenonT(30) DEF thread_start, IndInv, Roles, IdleLabel
    <2>3. \A t \in Thread : \A u \in Sema : Downing(t, u)' <=> Downing(t, u)
      BY <2>1, <2>2, ZenonT(30) DEF Downing
    <2> QED BY <2>1, <2>3, OtherStutters, ZenonT(30)
  <1>8. ASSUME NEW t \in Thread, thread_create(t)
        PROVE  UNCHANGED Semaphore!semaphores
    <2>1. pc[t] = "none" /\ pc[c] = "run" /\ t # c
      BY <1>c, <1>8, CurrentFacts, ZenonT(30) DEF thread_create, Calling, Gone, IndInv, AllListOK
    <2>2. /\ \A u \in Thread \ {t, c} : pc'[u] = pc[u] /\ arg'[u] = arg[u]
          /\ pc'[c] = "create" /\ pc'[t] = "run" /\ UNCHANGED semas
      BY <1>1, <1>c, <1>8, <2>1, ZenonT(30) DEF thread_create
    <2>3. \A u \in Thread : \A s \in Sema : Downing(u, s)' <=> Downing(u, s)
      BY <2>1, <2>2, ZenonT(30) DEF Downing
    <2> QED BY <2>2, <2>3, OtherStutters, ZenonT(30)
  <1>9. CASE KernelStep /\ ~thread_start
    <2>1. CASE main_wait
      BY <1>2, <2>1, SemaAssumption, ZenonT(30) DEF main_wait
    <2>2. CASE sema_down_again
      <3>1. arg[current] \in Sema
        BY <1>1, <2>2, ZenonT(30) DEF sema_down_again, IndInv, Args
      <3> QED BY <1>2, <2>2, <3>1, ZenonT(30) DEF sema_down_again
    <2>3. CASE idle_up
      <3>1. \A t \in Thread : \A u \in Sema : Downing(t, u)' <=> Downing(t, u)
        BY <1>1, <2>3, Zenon DEF idle_up, Goto, Downing
      <3> QED BY <1>3, <2>3, <3>1, SemaAssumption, ZenonT(30) DEF idle_up
    <2>4. CASE idle_begin \/ idle_block \/ thread_create_unblock \/ thread_sleep_return
      <3>1. UNCHANGED semas /\ pc[c] # "sema_down" /\ pc'[c] # "sema_down"
        BY <1>1, <1>c, <2>4, ZenonT(30) DEF idle_begin, idle_block, thread_create_unblock,
           thread_sleep_return, Return, Goto
      <3>2. \A t \in Thread : ~thread_create(t)
        BY <2>4, ZenonT(30) DEF idle_begin, idle_block, thread_create_unblock, thread_sleep_return,
           thread_create, Calling
      <3> QED BY <1>4, <1>9, <3>1, <3>2, ZenonT(30)
    <2>5. CASE timer_sleep_loop
      <3>1. UNCHANGED semas /\ pc[c] # "sema_down" /\ pc'[c] # "sema_down"
        BY <1>1, <1>c, <2>5, ZenonT(30) DEF timer_sleep_loop, Return, Goto
      <3>2. \A t \in Thread : ~thread_create(t)
        BY <2>5, Zenon DEF timer_sleep_loop, thread_create, Calling
      <3> QED BY <1>4, <1>9, <3>1, <3>2, Zenon
    <2> QED BY <1>9, <2>1, <2>2, <2>3, <2>4, <2>5, ZenonT(30) DEF KernelStep
  <1>10. CASE ClientCall /\ \A t \in Thread : ~thread_create(t)
    <2>0. ~thread_start
      BY <1>10, ZenonT(30) DEF thread_start, ClientCall, Calling, thread_yield, thread_exit, sema_init,
         sema_down, sema_try_down, sema_up, timer_sleep, thread_sleep
    <2>1. CASE thread_yield
      BY <1>5, <2>1, Zenon DEF thread_yield
    <2>2. CASE thread_exit \/ \E n \in SleepTicks : timer_sleep(n) \/ thread_sleep(n)
      <3>1. UNCHANGED semas /\ pc[c] # "sema_down" /\ pc'[c] # "sema_down"
        BY <1>1, <1>c, <2>2, ZenonT(30) DEF thread_exit, timer_sleep, thread_sleep, Goto, Calling
      <3> QED BY <1>4, <1>10, <2>0, <3>1, ZenonT(30)
    <2>3. ASSUME NEW s \in ClientSema, sema_down(s) PROVE Semaphore!SemaNext
      BY <1>2, <2>3, ZenonT(30) DEF ClientSema, sema_down, Calling
    <2>4. ASSUME NEW s \in ClientSema, sema_up(s) PROVE Semaphore!SemaNext
      <3>1. \A t \in Thread : \A u \in Sema : Downing(t, u)' <=> Downing(t, u)
        BY <2>4, Zenon DEF sema_up, Downing
      <3> QED BY <1>3, <2>4, <3>1, ZenonT(30) DEF ClientSema, sema_up
    <2>5. ASSUME NEW s \in ClientSema, sema_try_down(s) PROVE Semaphore!SemaNext
      BY <1>1, <2>5, TryDownRefines, ZenonT(30) DEF ClientSema, Semaphore!SemaNext
    <2>6. ASSUME NEW s \in ClientSema, NEW v \in 0..MaxValue, sema_init(s, v)
          PROVE  Semaphore!SemaNext
      BY <2>6, InitRefines, Zenon DEF ClientSema, Semaphore!SemaNext
    <2> QED BY <1>10, <2>1, <2>2, <2>3, <2>4, <2>5, <2>6, ZenonT(30) DEF ClientCall
  <1>11. CASE Interrupt
    <2>1. ASSUME NEW s \in ClientSema, device_interrupt(s) PROVE Semaphore!SemaNext
      BY <1>3, <1>6, <2>1, ZenonT(30) DEF ClientSema, device_interrupt
    <2>2. CASE timer_interrupt
      BY <1>6, <2>2, OtherStutters, ZenonT(30) DEF timer_interrupt
    <2> QED BY <1>11, <2>1, <2>2, ZenonT(30) DEF Interrupt
  <1>12. CASE UNCHANGED vars
    BY <1>5, <1>12, ZenonT(30) DEF vars
  <1> QED BY <1>7, <1>8, <1>9, <1>10, <1>11, <1>12, ZenonT(30) DEF Next, ClientCall

\* A step of the abstract semaphores keeps a woken thread for each unit.
LEMMA WakeupKept ==
  ASSUME IndInv, NoLostWakeup, [Semaphore!SemaNext]_Semaphore!semaphores
  PROVE  NoLostWakeup'
  <1> DEFINE W == [s \in Sema |-> Woken(s)]
  <1>1. /\ value \in [Sema -> Nat] /\ waiters \in [Sema -> Seq(Thread)]
        /\ \A s \in Sema : /\ value[s] \in Nat
                           /\ waiters[s] \in Seq(Thread)
                           /\ W[s] = Woken(s) /\ W'[s] = Woken(s)'
    BY Zenon DEF IndInv, TypeOK
  <1>2. \A s \in Sema : IsFiniteSet(Woken(s)) /\ Cardinality(Woken(s)) \in Nat
    BY ThreadAssumption, FS_Subset, FS_CardinalityType, ZenonT(30) DEF Woken
  <1>3. ASSUME NEW s \in Sema, waiters'[s] = waiters[s], value'[s] = value[s], W'[s] = W[s],
               waiters'[s] # <<>>
        PROVE  value'[s] <= Cardinality(Woken(s)')
    BY <1>1, <1>3, Zenon DEF NoLostWakeup
  <1> HIDE DEF W
  <1>4. CASE UNCHANGED Semaphore!semaphores
    <2>1. waiters' = waiters /\ value' = value /\ W' = W
      BY <1>4, ZenonT(30) DEF Semaphore!semaphores, W
    <2> QED BY <1>3, <2>1, Zenon DEF NoLostWakeup
  <1>5. ASSUME NEW s \in Sema, NEW t \in Thread, Semaphore!sema_block(t, s)
        PROVE  NoLostWakeup'
    <2>1. value[s] = 0 /\ value' = value /\ waiters' = [waiters EXCEPT ![s] = Append(@, t)]
          /\ W' = [W EXCEPT ![s] = @ \ {t}]
      BY <1>5, Zenon DEF Semaphore!sema_block, W
    <2>2. \A u \in Sema \ {s} : waiters'[u] = waiters[u] /\ value'[u] = value[u] /\ W'[u] = W[u]
      BY <1>1, <2>1, Zenon DEF W
    <2>3. Woken(s)' = Woken(s) \ {t}
      BY <1>1, <2>1, Zenon DEF W
    <2>4. Cardinality(Woken(s)') \in Nat
      BY <1>2, <2>3, FS_RemoveElement, FS_CardinalityType, ZenonT(30)
    <2> QED BY <1>3, <2>1, <2>2, <2>4, SMTT(30) DEF NoLostWakeup
  <1>6. ASSUME NEW s \in Sema, NEW t \in Thread, Semaphore!sema_take(t, s)
        PROVE  NoLostWakeup'
    <2>1. /\ value[s] > 0 /\ value' = [value EXCEPT ![s] = @ - 1] /\ waiters' = waiters
          /\ W' = [W EXCEPT ![s] = @ \ {t}]
      BY <1>6, Zenon DEF Semaphore!sema_take, W
    <2>2. \A u \in Sema \ {s} : waiters'[u] = waiters[u] /\ value'[u] = value[u] /\ W'[u] = W[u]
      BY <1>1, <2>1, Zenon DEF W
    <2>3. Woken(s)' = Woken(s) \ {t} /\ value'[s] = value[s] - 1
      BY <1>1, <2>1, Zenon DEF W
    <2>4. Cardinality(Woken(s)') >= Cardinality(Woken(s)) - 1
      BY <1>2, <2>3, FS_RemoveElement
    <2>5. Cardinality(Woken(s)') \in Nat
      BY <1>2, <2>3, FS_RemoveElement, FS_CardinalityType, ZenonT(30)
    <2>6. waiters'[s] # <<>> => value'[s] <= Cardinality(Woken(s)')
      <3>1. waiters'[s] # <<>> => value[s] <= Cardinality(Woken(s))
        BY <2>1, Zenon DEF NoLostWakeup
      <3> QED BY <1>1, <1>2, <2>3, <2>4, <2>5, <3>1, SMTT(30)
    <2> QED BY <1>3, <2>2, <2>6, Zenon DEF NoLostWakeup
  <1>7. ASSUME NEW s \in Sema, Semaphore!sema_up(s)
        PROVE  NoLostWakeup'
    <2>0. /\ value' = [value EXCEPT ![s] = @ + 1]
          /\ \/ waiters[s] = <<>> /\ waiters' = waiters /\ W' = W
             \/ /\ waiters[s] # <<>>
                /\ waiters' = [waiters EXCEPT ![s] = Tail(@)]
                /\ W' = [W EXCEPT ![s] = @ \cup {Head(waiters[s])}]
      BY <1>7, Zenon DEF Semaphore!sema_up, W
    <2>1. \A u \in Sema \ {s} : waiters'[u] = waiters[u] /\ value'[u] = value[u] /\ W'[u] = W[u]
      BY <1>1, <2>0, ZenonT(30) DEF W
    <2>2. CASE waiters[s] = <<>>
      BY <1>3, <2>0, <2>1, <2>2, ZenonT(30) DEF NoLostWakeup
    <2>3. CASE waiters[s] # <<>>
      <3> DEFINE h == Head(waiters[s])
      <3>1. Woken(s)' = Woken(s) \cup {h} /\ value'[s] = value[s] + 1
        BY <1>1, <2>0, <2>3, ZenonT(30) DEF W
      <3>2. h \notin Woken(s)
        <4>1. h \in Thread /\ h \in Range(waiters[s])
          BY <1>1, <2>3, TailRange, ZenonT(30) DEF IndInv, QueuesMatchStatus, WaitersOK
        <4> QED BY <4>1, Zenon DEF IndInv, QueuesMatchStatus, WaitersOK, Woken
      <3> HIDE DEF h
      <3>3. Cardinality(Woken(s)') = Cardinality(Woken(s)) + 1
        BY <1>2, <3>1, <3>2, FS_AddElement, ZenonT(30)
      <3>4. value[s] <= Cardinality(Woken(s))
        BY <2>3, ZenonT(30) DEF NoLostWakeup
      <3>5. value'[s] <= Cardinality(Woken(s)')
        BY <1>1, <1>2, <3>1, <3>3, <3>4, SMTT(30)
      <3> QED BY <1>3, <2>1, <3>5, ZenonT(30) DEF NoLostWakeup
    <2> QED BY <2>2, <2>3, Zenon
  <1>8. ASSUME NEW s \in Sema, NEW v \in 0..MaxValue, Semaphore!sema_init(s, v)
        PROVE  NoLostWakeup'
    <2>1. /\ waiters[s] = <<>> /\ value' = [value EXCEPT ![s] = v] /\ waiters' = waiters
          /\ W' = W
      BY <1>8, Zenon DEF Semaphore!sema_init, W
    <2>2. \A u \in Sema \ {s} : waiters'[u] = waiters[u] /\ value'[u] = value[u] /\ W'[u] = W[u]
      BY <1>1, <2>1, Zenon
    <2> QED BY <1>3, <2>1, <2>2, ZenonT(30) DEF NoLostWakeup
  <1> QED BY <1>4, <1>5, <1>6, <1>7, <1>8, ZenonT(30) DEF Semaphore!SemaNext

\* At boot nobody sleeps, waits or has been woken.
LEMMA InitFull ==
  ASSUME Init
  PROVE  FullInv /\ NoLostWakeup /\ Semaphore!SemaInit
  <1>1. IndInv
    BY InitInv, Zenon
  <1>2. Gone
    BY Zenon DEF Init, Gone
  <1>3. Sorted
    <2>1. already_slept = <<>> /\ Len(already_slept) = 0
      BY Zenon DEF Init
    <2> QED BY <2>1 DEF Sorted
  <1>4. \A s \in Sema : waiters[s] = <<>> /\ Woken(s) = {}
    BY Zenon DEF Init, Woken
  <1>5. Semaphore!SemaInit
    BY <1>4, Zenon DEF Init, Semaphore!SemaInit
  <1> QED BY <1>1, <1>2, <1>3, <1>4, <1>5, ZenonT(30) DEF FullInv, NoLostWakeup

\* Every step keeps the invariant.
LEMMA NextFull ==
  ASSUME FullInv, [Next]_vars
  PROVE  FullInv'
  BY NextInv, GoneInv, SortedInv, Zenon DEF FullInv

\* The sleepers' list is sorted by wake-up time, and exited threads are at no
\* label, in every reachable state.
THEOREM FullInvariance == Spec => []FullInv
  BY InitFull, NextFull, PTL DEF Spec

\* The scheduler, the timer, thread creation and exit, and the boot sequence
\* leave the semaphores what Semaphores says they are.
THEOREM SemaphoresImplemented == Spec => ImplementsSemaphores
  <1>1. FullInv /\ FullInv' /\ [Next]_vars => [Semaphore!SemaNext]_Semaphore!semaphores
    BY SemaStep, Zenon DEF FullInv
  <1> QED BY <1>1, InitFull, FullInvariance, PTL DEF Spec, ImplementsSemaphores, Semaphore!SemaSpec

\* While threads wait for a semaphore, each unit of its value has a woken thread
\* that will test it: no sema_up is lost, whoever takes units in between.
THEOREM WakeupsKept == Spec => []NoLostWakeup
  <1>1. FullInv /\ NoLostWakeup /\ FullInv' /\ [Next]_vars => NoLostWakeup'
    BY SemaStep, WakeupKept, Zenon DEF FullInv
  <1> QED BY <1>1, InitFull, FullInvariance, PTL DEF Spec

\* update_slept_threads wakes no sleeper before its time, and leaves none on the
\* list that is due.
THEOREM SleepersOnTime == Spec => WakeOnTime
  <1>1. FullInv /\ [Next]_vars => [WakesOnTime]_vars
    BY SortedInv, Zenon DEF FullInv
  <1>2. [WakesOnTime]_vars => [/\ \A t \in Range(already_slept) \ Range(already_slept') :
                                    time_ticks[t] <= ticks'
                               /\ ticks' # ticks =>
                                    \A t \in Range(already_slept') : time_ticks[t] > ticks']_vars
    BY Zenon DEF WakesOnTime
  <1> QED BY <1>1, <1>2, FullInvariance, PTL DEF Spec, WakeOnTime

=============================================================================
