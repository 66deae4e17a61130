--------------------------- MODULE ThreadsProofs ---------------------------
(***************************************************************************)
(* Proofs about Threads, for any number of threads and semaphores, any     *)
(* time slice and any bounds.                                              *)
(*                                                                         *)
(* The inductive invariant adds three facts to the properties of Threads:  *)
(* who may be at which label, what each label's argument is, and how far   *)
(* boot has come.                                                          *)
(***************************************************************************)
EXTENDS Threads, ListLemmas

IdleLabel == {"idle_begin", "idle_up", "idle_block", "idle_hlt"}

Roles ==
  /\ \A t \in Thread : pc[t] \in {"main_start", "main_wait"} => t = Main
  /\ \A t \in Thread : pc[t] \in IdleLabel => t = Idle
  /\ pc[Idle] \in IdleLabel \cup {"none"}

Args ==
  \A t \in Thread :
    /\ pc[t] = "sema_down" => arg[t] \in Sema
    /\ pc[t] = "timer_sleep" => arg[t] \in Int
    /\ pc[t] = "create" =>
         /\ arg[t] \in Thread
         /\ status[arg[t]] = "BLOCKED"
         /\ pc[arg[t]] = "run"
         /\ \A u \in Thread : pc[u] = "create" /\ arg[u] = arg[t] => u = t

Boot ==
  /\ pc[Main] = "main_start" => current = Main
  /\ pc[Main] = "main_start" <=> status[Idle] = "FREE"
  /\ status[Idle] # "DYING"
  /\ idle_thread = NULL /\ pc[Main] # "main_start" =>
       status[Idle] \in {"READY", "RUNNING"} /\ pc[Idle] = "idle_begin"
  /\ idle_thread # NULL => status[Idle] # "FREE"

AllListOK == all_list = {t \in Thread : status[t] \notin {"FREE", "DYING"}}

IndInv ==
  /\ TypeOK
  /\ OneRunning
  /\ QueuesMatchStatus
  /\ AllListOK
  /\ Roles
  /\ Args
  /\ Boot

-----------------------------------------------------------------------------

ReadyOK(st, rl) ==
  /\ IsInjective(rl)
  /\ \A t \in Thread : t \in Range(rl) <=> st[t] = "READY" /\ t # idle_thread

\* schedule switches to a thread of the run queue or to the idle thread, makes
\* it the only running one, and frees the previous one if it is dying.
LEMMA ScheduleLemma ==
  ASSUME NEW st \in [Thread -> Status], NEW rl \in Seq(Thread),
         TypeOK,
         ReadyOK(st, rl),
         \A t \in Thread : st[t] # "RUNNING",
         rl = <<>> => idle_thread = Idle,
         Schedule(st, rl), UNCHANGED idle_thread
  PROVE  /\ current' \in Thread
         /\ ready_list' \in Seq(Thread)
         /\ status' \in [Thread -> Status]
         /\ thread_ticks' = 0
         /\ OneRunning'
         /\ ReadyListOK'
         /\ current' = Idle \/ st[current'] = "READY"
         /\ \A t \in Thread : t # current' =>
              status'[t] = IF t = current /\ st[t] = "DYING" /\ t # Main
                           THEN "FREE" ELSE st[t]
  <1> DEFINE next == NextThreadToRun(rl)
  <1>1. /\ rl # <<>> =>
             /\ Head(rl) \in Range(rl) /\ Head(rl) \in Thread
             /\ Tail(rl) \in Seq(Thread) /\ IsInjective(Tail(rl))
             /\ Range(Tail(rl)) = Range(rl) \ {Head(rl)}
    BY TailRange, Zenon DEF ReadyOK
  <1>2. next \in Thread /\ (next = Idle \/ st[next] = "READY")
    BY <1>1, ThreadAssumption, Zenon DEF NextThreadToRun, ReadyOK
  <1>3. current' = next /\ thread_ticks' = 0 /\ status' = StatusAfterSwitch(st, next)
    BY Zenon DEF Schedule
  <1>4. ready_list' \in Seq(Thread) /\ IsInjective(ready_list')
    BY <1>1, Zenon DEF Schedule, ReadyOK
  <1>5. status' \in [Thread -> Status]
    BY <1>2, <1>3, Zenon DEF StatusAfterSwitch, Status
  <1>6. \A t \in Thread :
          status'[t] = IF t = next THEN "RUNNING"
                       ELSE IF t = current /\ st[t] = "DYING" /\ t # Main
                       THEN "FREE" ELSE st[t]
    BY <1>3, Zenon DEF StatusAfterSwitch
  <1> HIDE DEF next
  <1>7. OneRunning'
    BY <1>2, <1>3, <1>6, Zenon DEF OneRunning
  <1>8. ASSUME NEW t \in Thread
        PROVE  t \in Range(ready_list') <=> status'[t] = "READY" /\ t # idle_thread
    <2>1. CASE rl = <<>>
      <3>1. ready_list' = <<>> /\ next = idle_thread
        BY <2>1, Zenon DEF Schedule, next, NextThreadToRun
      <3>2. t \notin Range(rl) /\ t \notin Range(ready_list')
        BY <2>1, <3>1 DEF Range
      <3> QED BY <3>1, <3>2, <1>6, Zenon DEF ReadyOK
    <2>2. CASE rl # <<>>
      <3>1. ready_list' = Tail(rl) /\ next = Head(rl)
        BY <2>2, Zenon DEF Schedule, next, NextThreadToRun
      <3> QED BY <3>1, <2>2, <1>1, <1>6, Zenon DEF ReadyOK
    <2> QED BY <2>1, <2>2, Zenon
  <1> QED BY <1>2, <1>3, <1>4, <1>5, <1>6, <1>7, <1>8, Zenon DEF ReadyListOK

\* thread_unblock puts a blocked thread on the run queue.
LEMMA UnblockLemma ==
  ASSUME TypeOK, OneRunning, ReadyListOK,
         NEW t \in Thread, status[t] \notin {"READY", "RUNNING"},
         t # idle_thread,
         ThreadUnblock(t), UNCHANGED idle_thread
  PROVE  /\ ready_list' \in Seq(Thread)
         /\ status' \in [Thread -> Status]
         /\ current' = current /\ thread_ticks' = thread_ticks
         /\ OneRunning'
         /\ ReadyListOK'
         /\ status'[t] = "READY"
         /\ \A u \in Thread : u # t => status'[u] = status[u]
  <1>1. ready_list \in Seq(Thread) /\ t \notin Range(ready_list)
    BY Zenon DEF TypeOK, ReadyListOK
  <1>2. ready_list' = Append(ready_list, t) /\ current' = current
    BY Zenon DEF ThreadUnblock
  <1>3. /\ ready_list' \in Seq(Thread)
        /\ IsInjective(ready_list')
        /\ Range(ready_list') = Range(ready_list) \cup {t}
    BY <1>1, <1>2, AppendRange DEF ReadyListOK
  <1>4. /\ status' \in [Thread -> Status] /\ status'[t] = "READY"
        /\ \A u \in Thread : u # t => status'[u] = status[u]
    BY Zenon DEF ThreadUnblock, TypeOK, Status
  <1>5. OneRunning'
    BY <1>2, <1>4, Zenon DEF OneRunning
  <1>6. ReadyListOK'
    BY <1>3, <1>4, Zenon DEF ReadyListOK
  <1> QED BY <1>2, <1>3, <1>4, <1>5, <1>6, Zenon DEF ThreadUnblock

\* While the idle thread is unpublished it is ready to run, so the run queue is
\* never empty when some other thread gives up the CPU.
LEMMA IdleAvailable ==
  ASSUME IndInv, pc[current] \notin {"main_start", "idle_begin"},
         ready_list = <<>>
  PROVE  idle_thread = Idle
  <1>1. Idle \notin Range(ready_list)
    BY DEF Range
  <1> QED BY <1>1, ThreadAssumption, Zenon
          DEF IndInv, TypeOK, Boot, QueuesMatchStatus, ReadyListOK, OneRunning

\* thread_block leaves the current thread blocked and another one running; only
\* the idle thread may switch to itself.
LEMMA BlockLemma ==
  ASSUME IndInv, pc[current] \notin {"main_start", "idle_begin"},
         ThreadBlock, UNCHANGED idle_thread
  PROVE  /\ current' \in Thread
         /\ ready_list' \in Seq(Thread)
         /\ status' \in [Thread -> Status]
         /\ thread_ticks' = 0
         /\ OneRunning'
         /\ ReadyListOK'
         /\ current' = Idle \/ status[current'] = "READY"
         /\ \A t \in Thread : t # current' =>
              status'[t] = IF t = current THEN "BLOCKED" ELSE status[t]
  <1> DEFINE st == [status EXCEPT ![current] = "BLOCKED"]
  <1>1. /\ st \in [Thread -> Status]
        /\ \A t \in Thread : st[t] = IF t = current THEN "BLOCKED" ELSE status[t]
    BY Zenon DEF IndInv, TypeOK, Status
  <1>2. Schedule(st, ready_list)
    BY Zenon DEF ThreadBlock
  <1> HIDE DEF st
  <1>3. ReadyOK(st, ready_list) /\ \A t \in Thread : st[t] # "RUNNING"
    BY <1>1, Zenon DEF IndInv, OneRunning, QueuesMatchStatus, ReadyListOK, ReadyOK
  <1>4. ready_list = <<>> => idle_thread = Idle
    BY IdleAvailable, Zenon
  <1>5. TypeOK /\ ready_list \in Seq(Thread)
    BY Zenon DEF IndInv, TypeOK
  <1>6. /\ current' \in Thread
        /\ ready_list' \in Seq(Thread)
        /\ status' \in [Thread -> Status]
        /\ thread_ticks' = 0
        /\ OneRunning'
        /\ ReadyListOK'
        /\ current' = Idle \/ st[current'] = "READY"
        /\ \A t \in Thread : t # current' =>
             status'[t] = IF t = current /\ st[t] = "DYING" /\ t # Main
                          THEN "FREE" ELSE st[t]
    BY <1>1, <1>2, <1>3, <1>4, <1>5, ScheduleLemma, Zenon
  <1> QED BY <1>1, <1>6, Zenon

\* thread_yield leaves the current thread ready, on the run queue unless it is
\* the idle thread.
LEMMA YieldLemma ==
  ASSUME TypeOK,
         NEW st \in [Thread -> Status], NEW rl \in Seq(Thread),
         ReadyOK(st, rl),
         \A t \in Thread : st[t] = "RUNNING" <=> t = current,
         YieldFrom(st, rl), UNCHANGED idle_thread
  PROVE  /\ current' \in Thread
         /\ ready_list' \in Seq(Thread)
         /\ status' \in [Thread -> Status]
         /\ thread_ticks' = 0
         /\ OneRunning'
         /\ ReadyListOK'
         /\ current' = Idle \/ current' = current \/ st[current'] = "READY"
         /\ \A t \in Thread : t # current' =>
              status'[t] = IF t = current THEN "READY" ELSE st[t]
  <1> DEFINE st1 == [st EXCEPT ![current] = "READY"]
             rl1 == IF current = idle_thread THEN rl ELSE Append(rl, current)
  <1>1. /\ st1 \in [Thread -> Status]
        /\ \A t \in Thread : st1[t] = IF t = current THEN "READY" ELSE st[t]
    BY Zenon DEF TypeOK, Status
  <1>2. Schedule(st1, rl1)
    BY Zenon DEF YieldFrom
  <1>3. current \in Thread /\ current \notin Range(rl)
    BY Zenon DEF TypeOK, ReadyOK
  <1>4. rl1 \in Seq(Thread)
    BY <1>3
  <1>. /\ Range(Append(rl, current)) = Range(rl) \cup {current}
       /\ IsInjective(rl) => IsInjective(Append(rl, current))
    BY <1>3, AppendRange
  <1>5. IsInjective(rl1)
    BY Zenon DEF ReadyOK
  <1>6. Range(rl1) = IF current = idle_thread THEN Range(rl)
                     ELSE Range(rl) \cup {current}
    BY Zenon
  <1>7. rl1 = <<>> => idle_thread = Idle
    <2>1. Append(rl, current) # <<>>
      BY <1>3
    <2>2. current = idle_thread => idle_thread = Idle
      BY <1>3, ThreadAssumption, Zenon DEF TypeOK
    <2> QED BY <2>1, <2>2, Zenon
  <1> HIDE DEF st1, rl1
  <1>8. ReadyOK(st1, rl1) /\ \A t \in Thread : st1[t] # "RUNNING"
    BY <1>1, <1>5, <1>6 DEF ReadyOK
  <1>9. /\ current' \in Thread
        /\ ready_list' \in Seq(Thread)
        /\ status' \in [Thread -> Status]
        /\ thread_ticks' = 0
        /\ OneRunning'
        /\ ReadyListOK'
        /\ current' = Idle \/ st1[current'] = "READY"
        /\ \A t \in Thread : t # current' =>
             status'[t] = IF t = current /\ st1[t] = "DYING" /\ t # Main
                          THEN "FREE" ELSE st1[t]
    BY <1>1, <1>2, <1>4, <1>7, <1>8, ScheduleLemma, Zenon
  <1> QED BY <1>1, <1>9, Zenon

-----------------------------------------------------------------------------
(***************************************************************************)
(* One lemma per operation: it preserves the invariant.                    *)
(***************************************************************************)

\* Whether thread t is blocked in sema_down on s.
Waits(t, s) == status[t] = "BLOCKED" /\ pc[t] = "sema_down" /\ arg[t] = s

\* A step that changes neither the semaphores' queues nor who is blocked in
\* sema_down keeps the two in agreement.
LEMMA WaitersFrame ==
  ASSUME WaitersOK, waiters' = waiters,
         \A t \in Thread : \A s \in Sema : Waits(t, s)' <=> Waits(t, s)
  PROVE  WaitersOK'
  <1> SUFFICES ASSUME NEW s \in Sema
               PROVE  /\ IsInjective(waiters'[s])
                      /\ \A t \in Thread : t \in Range(waiters'[s]) <=> Waits(t, s)'
    BY Zenon DEF WaitersOK, Waits
  <1>1. waiters'[s] = waiters[s]
    BY Zenon
  <1>2. /\ IsInjective(waiters[s])
        /\ \A t \in Thread : t \in Range(waiters[s]) <=> Waits(t, s)
    BY Zenon DEF WaitersOK, Waits
  <1> QED BY <1>1, <1>2, Zenon

\* A step that changes nothing but ticks, semaphore values and queues preserves
\* the invariant when it keeps the queues right.
LEMMA FrameInv ==
  ASSUME IndInv, TypeOK', WaitersOK',
         UNCHANGED <<status, ready_list, current, all_list, idle_thread,
                     already_slept, pc, arg>>
  PROVE  IndInv'
  <1>1. OneRunning' /\ AllListOK'
    BY Zenon DEF IndInv, OneRunning, AllListOK
  <1>2. QueuesMatchStatus'
    BY Zenon DEF IndInv, QueuesMatchStatus, ReadyListOK, SleepListOK
  <1>3. Roles' /\ Boot'
    BY Zenon DEF IndInv, Roles, Boot
  <1>4. Args'
    BY Zenon DEF IndInv, Args
  <1> QED BY <1>1, <1>2, <1>3, <1>4, Zenon DEF IndInv

\* The machine as thread_init leaves it satisfies the invariant.
LEMMA InitInv == Init => IndInv
  <1> SUFFICES ASSUME Init PROVE IndInv
    BY Zenon
  <1>1. Range(<<>>) = {} /\ IsInjective(<<>>)
    BY DEF Range, IsInjective
  <1>2. TypeOK
    BY ThreadAssumption DEF Init, TypeOK, Status, Label
  <1>3. OneRunning /\ QueuesMatchStatus /\ AllListOK
    BY <1>1, ThreadAssumption, Zenon
       DEF Init, OneRunning, QueuesMatchStatus, ReadyListOK, SleepListOK,
           WaitersOK, AllListOK
  <1>4. Roles /\ Args /\ Boot
    BY ThreadAssumption, Zenon DEF Init, Roles, IdleLabel, Args, Boot
  <1> QED BY <1>2, <1>3, <1>4, Zenon DEF IndInv

\* thread_start, which creates the idle thread, preserves the invariant.
LEMMA ThreadStartInv ==
  ASSUME IndInv, thread_start
  PROVE  IndInv'
  <1> USE ThreadAssumption
  <1>1. pc[Main] = "main_start" /\ current = Main /\ status[Idle] = "FREE"
    BY Zenon DEF IndInv, TypeOK, Roles, Boot, thread_start
  <1>2. idle_thread = NULL
    BY <1>1, Zenon DEF IndInv, TypeOK, Boot
  <1>3. /\ pc' = [pc EXCEPT ![Main] = "main_wait", ![Idle] = "idle_begin"]
        /\ ThreadUnblock(Idle)
        /\ all_list' = all_list \cup {Idle}
        /\ UNCHANGED <<idle_thread, ticks, already_slept, time_ticks, value,
                       waiters, arg>>
    BY Zenon DEF thread_start, clock, semas
  <1>4. /\ ready_list' \in Seq(Thread)
        /\ status' \in [Thread -> Status]
        /\ current' = current /\ thread_ticks' = thread_ticks
        /\ OneRunning'
        /\ ReadyListOK'
        /\ status'[Idle] = "READY"
        /\ \A u \in Thread : u # Idle => status'[u] = status[u]
    BY <1>1, <1>2, <1>3, UnblockLemma, Zenon DEF IndInv, QueuesMatchStatus
  <1>5. pc' \in [Thread -> Label] /\ pc'[Main] = "main_wait"
        /\ pc'[Idle] = "idle_begin"
        /\ \A u \in Thread : u \notin {Main, Idle} => pc'[u] = pc[u]
    BY <1>3, Zenon DEF IndInv, TypeOK, Label
  <1>6. TypeOK'
    BY <1>3, <1>4, <1>5, Zenon DEF IndInv, TypeOK
  <1>7. SleepListOK' /\ WaitersOK'
    BY <1>1, <1>3, <1>4, <1>5
       DEF IndInv, QueuesMatchStatus, SleepListOK, WaitersOK
  <1>8. AllListOK'
    BY <1>1, <1>3, <1>4, Zenon DEF IndInv, AllListOK
  <1>9. Roles' /\ Boot'
    BY <1>1, <1>2, <1>3, <1>4, <1>5, Zenon DEF IndInv, Roles, Boot, IdleLabel
  <1>10. Args'
    BY <1>1, <1>3, <1>4, <1>5 DEF IndInv, Args
  <1> QED BY <1>4, <1>6, <1>7, <1>8, <1>9, <1>10, Zenon DEF IndInv, QueuesMatchStatus

\* sema_down, for its three callers.
LEMMA SemaDownInv ==
  ASSUME IndInv, NEW s \in Sema,
         pc[current] \in {"run", "sema_down", "main_wait"},
         SemaDown(s, "run"), UNCHANGED <<all_list, idle_thread, clock>>
  PROVE  IndInv'
  <1> USE ThreadAssumption
  <1>1. current \in Thread /\ current # Idle /\ status[current] = "RUNNING"
        /\ pc[Main] # "main_start"
    BY Zenon DEF IndInv, TypeOK, Roles, IdleLabel, OneRunning, Boot
  <1>2. CASE value[s] = 0
    <2>1. /\ ThreadBlock
          /\ waiters' = [waiters EXCEPT ![s] = Append(@, current)]
          /\ pc' = [pc EXCEPT ![current] = "sema_down"]
          /\ arg' = [arg EXCEPT ![current] = s]
          /\ UNCHANGED <<value, all_list, idle_thread, ticks, already_slept,
                         time_ticks>>
      BY <1>2 DEF SemaDown, Goto, clock
    <2>2. /\ current' \in Thread
          /\ ready_list' \in Seq(Thread)
          /\ status' \in [Thread -> Status]
          /\ thread_ticks' = 0
          /\ OneRunning'
          /\ ReadyListOK'
          /\ current' = Idle \/ status[current'] = "READY"
          /\ \A t \in Thread : t # current' =>
               status'[t] = IF t = current THEN "BLOCKED" ELSE status[t]
      BY <2>1, BlockLemma, Zenon
    <2>3. current' # current /\ status'[current'] = "RUNNING"
          /\ status'[current] = "BLOCKED"
      BY <1>1, <2>2, Zenon DEF OneRunning
    <2>4. /\ waiters[s] \in Seq(Thread)
          /\ IsInjective(waiters[s])
          /\ current \notin Range(waiters[s])
      BY <1>1, Zenon DEF IndInv, TypeOK, QueuesMatchStatus, WaitersOK
    <2>5. /\ waiters' \in [Sema -> Seq(Thread)]
          /\ waiters'[s] = Append(waiters[s], current)
          /\ \A u \in Sema : u # s => waiters'[u] = waiters[u]
      BY <1>1, <2>1 DEF IndInv, TypeOK
    <2>6. /\ IsInjective(waiters'[s])
          /\ Range(waiters'[s]) = Range(waiters[s]) \cup {current}
      BY <1>1, <2>4, <2>5, AppendRange
    <2>7. /\ pc' \in [Thread -> Label] /\ pc'[current] = "sema_down"
          /\ arg'[current] = s
          /\ \A t \in Thread : t # current => pc'[t] = pc[t] /\ arg'[t] = arg[t]
          /\ arg' \in [Thread -> Sema \cup Thread \cup Int \cup {NULL}]
      BY <1>1, <2>1, Zenon DEF IndInv, TypeOK, Label
    <2>8. TypeOK'
      BY <2>1, <2>2, <2>5, <2>7, Zenon DEF IndInv, TypeOK
    <2>9. SleepListOK'
      BY <1>1, <2>1, <2>2, <2>3, <2>7
         DEF IndInv, QueuesMatchStatus, SleepListOK, Roles, IdleLabel
    <2>10. ASSUME NEW u \in Sema
           PROVE  /\ IsInjective(waiters'[u])
                  /\ \A t \in Thread :
                       t \in Range(waiters'[u]) <=>
                         /\ status'[t] = "BLOCKED"
                         /\ pc'[t] = "sema_down" /\ arg'[t] = u
      <3>1. /\ IsInjective(waiters[u])
            /\ \A t \in Thread :
                 t \in Range(waiters[u]) <=>
                   status[t] = "BLOCKED" /\ pc[t] = "sema_down" /\ arg[t] = u
        BY Zenon DEF IndInv, QueuesMatchStatus, WaitersOK
      <3>2. pc[Idle] # "sema_down"
        BY Zenon DEF IndInv, Roles, IdleLabel
      <3>3. CASE u = s
        BY <1>1, <2>2, <2>3, <2>6, <2>7, <3>1, <3>2, <3>3
      <3>4. CASE u # s
        <4>1. waiters'[u] = waiters[u]
          BY <2>5, <3>4, Zenon
        <4>2. ASSUME NEW t \in Thread
              PROVE  (status[t] = "BLOCKED" /\ pc[t] = "sema_down" /\ arg[t] = u)
                     <=> /\ status'[t] = "BLOCKED"
                         /\ pc'[t] = "sema_down" /\ arg'[t] = u
          BY <1>1, <2>2, <2>3, <2>7, <3>2, <3>4, Zenon
        <4> QED BY <3>1, <4>1, <4>2, Zenon
      <3> QED BY <3>3, <3>4, Zenon
    <2>11. AllListOK'
      BY <1>1, <2>1, <2>2, <2>3, Zenon DEF IndInv, AllListOK, Boot
    <2>12. Roles' /\ Boot'
      BY <1>1, <2>1, <2>2, <2>3, <2>7, Zenon DEF IndInv, Roles, Boot, IdleLabel
    <2>13. Args'
      BY <1>1, <2>2, <2>3, <2>7 DEF IndInv, Args, Roles, IdleLabel
    <2> QED BY <2>2, <2>8, <2>9, <2>10, <2>11, <2>12, <2>13
            DEF IndInv, QueuesMatchStatus, WaitersOK
  <1>3. CASE value[s] > 0
    <2>1. /\ value' = [value EXCEPT ![s] = @ - 1]
          /\ pc' = [pc EXCEPT ![current] = "run"]
          /\ arg' = [arg EXCEPT ![current] = NULL]
          /\ UNCHANGED <<waiters, status, ready_list, current, thread_ticks,
                         all_list, idle_thread, ticks, already_slept, time_ticks>>
      BY <1>3 DEF SemaDown, Goto, clock, sched, IndInv, TypeOK
    <2>2. /\ pc' \in [Thread -> Label] /\ pc'[current] = "run"
          /\ \A t \in Thread : t # current => pc'[t] = pc[t] /\ arg'[t] = arg[t]
          /\ arg' \in [Thread -> Sema \cup Thread \cup Int \cup {NULL}]
      BY <1>1, <2>1, Zenon DEF IndInv, TypeOK, Label
    <2>3. value' \in [Sema -> Nat]
      BY <1>3, <2>1 DEF IndInv, TypeOK
    <2>4. TypeOK'
      BY <2>1, <2>2, <2>3, Zenon DEF IndInv, TypeOK
    <2>5. QueuesMatchStatus'
      BY <1>1, <2>1, <2>2
         DEF IndInv, QueuesMatchStatus, ReadyListOK, SleepListOK, WaitersOK
    <2>6. OneRunning' /\ AllListOK' /\ Roles' /\ Boot'
      BY <1>1, <2>1, <2>2, Zenon
         DEF IndInv, OneRunning, AllListOK, Roles, Boot, IdleLabel
    <2>7. Args'
      BY <1>1, <2>1, <2>2 DEF IndInv, Args
    <2> QED BY <2>4, <2>5, <2>6, <2>7, Zenon DEF IndInv
  <1> QED BY <1>2, <1>3, Zenon DEF SemaDown

\* sema_up, by a thread, by the idle thread or by an interrupt handler: the
\* caller changes no pc but the idle thread's.
LEMMA SemaUpInv ==
  ASSUME IndInv, NEW s \in Sema, SemaUp(s),
         UNCHANGED <<all_list, idle_thread, clock>>,
         pc[Main] # "main_start",
         pc' \in [Thread -> Label],
         arg' \in [Thread -> Sema \cup Thread \cup Int \cup {NULL}],
         \A t \in Thread : t # Idle => pc'[t] = pc[t] /\ arg'[t] = arg[t],
         \/ pc'[Idle] = pc[Idle]
         \/ pc[Idle] \in {"idle_up", "idle_hlt"} /\ pc'[Idle] = "idle_block"
  PROVE  IndInv'
  <1> USE ThreadAssumption
  <1>1. /\ value' \in [Sema -> Nat]
        /\ UNCHANGED <<all_list, idle_thread, ticks, already_slept, time_ticks>>
    BY DEF IndInv, TypeOK, SemaUp, clock
  <1>2. Roles' /\ pc'[Main] # "main_start"
    BY Zenon DEF IndInv, Roles, IdleLabel
  <1>3. CASE waiters[s] = <<>>
    <2>1. UNCHANGED <<waiters, status, ready_list, current, thread_ticks>>
      BY <1>3, Zenon DEF SemaUp, sched
    <2>2. TypeOK'
      BY <1>1, <2>1, Zenon DEF IndInv, TypeOK
    <2>3. QueuesMatchStatus'
      BY <1>1, <2>1 DEF IndInv, QueuesMatchStatus, ReadyListOK, SleepListOK,
                        WaitersOK, Roles, IdleLabel
    <2>4. OneRunning' /\ AllListOK' /\ Boot'
      BY <1>1, <2>1, Zenon DEF IndInv, OneRunning, AllListOK, Boot, Roles, IdleLabel
    <2>5. Args'
      BY <1>1, <2>1 DEF IndInv, Args, Roles, IdleLabel
    <2> QED BY <1>2, <2>2, <2>3, <2>4, <2>5, Zenon DEF IndInv
  <1>4. CASE waiters[s] # <<>>
    <2> DEFINE t == Head(waiters[s])
    <2>1. ThreadUnblock(t) /\ waiters' = [waiters EXCEPT ![s] = Tail(@)]
      BY <1>4, Zenon DEF SemaUp
    <2>2. waiters[s] \in Seq(Thread) /\ IsInjective(waiters[s])
      BY Zenon DEF IndInv, TypeOK, QueuesMatchStatus, WaitersOK
    <2>3. /\ t \in Thread /\ t \in Range(waiters[s])
          /\ Tail(waiters[s]) \in Seq(Thread)
          /\ IsInjective(Tail(waiters[s]))
          /\ Range(Tail(waiters[s])) = Range(waiters[s]) \ {t}
      BY <1>4, <2>2, TailRange, Zenon
    <2> HIDE DEF t
    <2>4. status[t] = "BLOCKED" /\ pc[t] = "sema_down" /\ arg[t] = s /\ t # Idle
      BY <2>3 DEF IndInv, QueuesMatchStatus, WaitersOK, Roles, IdleLabel
    <2>5. t # idle_thread
      <3>1. idle_thread \in {NULL, Idle} /\ NULL \notin Thread
        BY ThreadAssumption, Zenon DEF IndInv, TypeOK
      <3> QED BY ONLY <3>1, <2>3, <2>4, Zenon
    <2>6. /\ ready_list' \in Seq(Thread)
          /\ status' \in [Thread -> Status]
          /\ current' = current /\ thread_ticks' = thread_ticks
          /\ OneRunning'
          /\ ReadyListOK'
          /\ status'[t] = "READY"
          /\ \A u \in Thread : u # t => status'[u] = status[u]
      BY <1>1, <2>1, <2>3, <2>4, <2>5, UnblockLemma, Zenon DEF IndInv, QueuesMatchStatus
    <2>7. /\ waiters' \in [Sema -> Seq(Thread)]
          /\ waiters'[s] = Tail(waiters[s])
          /\ \A u \in Sema : u # s => waiters'[u] = waiters[u]
      BY <2>1, <2>3, Zenon DEF IndInv, TypeOK
    <2>8. TypeOK'
      BY <1>1, <2>6, <2>7, Zenon DEF IndInv, TypeOK
    <2>9. SleepListOK'
      BY <1>1, <2>4, <2>6 DEF IndInv, QueuesMatchStatus, SleepListOK, Roles, IdleLabel
    <2>10. WaitersOK'
      <3> SUFFICES ASSUME NEW u \in Sema
                   PROVE  /\ IsInjective(waiters'[u])
                          /\ \A v \in Thread :
                               v \in Range(waiters'[u]) <=>
                                 /\ status'[v] = "BLOCKED"
                                 /\ pc'[v] = "sema_down" /\ arg'[v] = u
        BY DEF WaitersOK
      <3>1. /\ IsInjective(waiters[u])
            /\ \A v \in Thread :
                 v \in Range(waiters[u]) <=>
                   status[v] = "BLOCKED" /\ pc[v] = "sema_down" /\ arg[v] = u
        BY Zenon DEF IndInv, QueuesMatchStatus, WaitersOK
      <3>2. pc[Idle] # "sema_down" /\ pc'[Idle] # "sema_down"
        BY Zenon DEF IndInv, Roles, IdleLabel
      <3>3. CASE u = s
        <4>1. /\ IsInjective(waiters'[u])
              /\ Range(waiters'[u]) = Range(waiters[u]) \ {t}
          BY <2>3, <2>7, <3>3, Zenon
        <4>2. ASSUME NEW v \in Thread
              PROVE  v \in Range(waiters[u]) \ {t} <=>
                       /\ status'[v] = "BLOCKED"
                       /\ pc'[v] = "sema_down" /\ arg'[v] = u
          <5>1. CASE v = t
            BY <2>6, <5>1, Zenon
          <5>2. CASE v # t
            BY <2>6, <3>1, <3>2, <5>2, Zenon
          <5> QED BY <5>1, <5>2, Zenon
        <4> QED BY <4>1, <4>2, Zenon
      <3>4. CASE u # s
        <4>1. waiters'[u] = waiters[u]
          BY <2>7, <3>4, Zenon
        <4>2. ASSUME NEW v \in Thread
              PROVE  /\ status[v] = "BLOCKED" /\ pc[v] = "sema_down" /\ arg[v] = u
                     <=>
                     /\ status'[v] = "BLOCKED" /\ pc'[v] = "sema_down" /\ arg'[v] = u
          <5>1. CASE v = t
            BY <2>3, <2>4, <2>6, <3>4, <5>1, Zenon
          <5>2. CASE v # t
            BY <2>6, <3>2, <5>2, Zenon
          <5> QED BY <5>1, <5>2, Zenon
        <4> QED BY <3>1, <4>1, <4>2, Zenon
      <3> QED BY <3>3, <3>4, Zenon
    <2>11. AllListOK' /\ Boot'
      BY <1>1, <1>2, <2>3, <2>4, <2>6, Zenon
         DEF IndInv, AllListOK, Boot, Roles, IdleLabel
    <2>12. Args'
      BY <2>3, <2>4, <2>6, SMTT(30) DEF IndInv, Args, Roles, IdleLabel
    <2> QED BY <1>2, <2>6, <2>8, <2>9, <2>10, <2>11, <2>12, Zenon
            DEF IndInv, QueuesMatchStatus
  <1> QED BY <1>3, <1>4, Zenon

\* The idle thread's first step, which sets idle_thread, preserves the invariant.
LEMMA IdleBeginInv ==
  ASSUME IndInv, idle_begin
  PROVE  IndInv'
  <1> USE ThreadAssumption
  <1>1. /\ current = Idle /\ status[Idle] = "RUNNING" /\ pc[Idle] = "idle_begin"
        /\ pc[Main] # "main_start"
    BY Zenon DEF IndInv, TypeOK, Roles, IdleLabel, OneRunning, Boot, idle_begin
  <1>2. /\ idle_thread' = Idle
        /\ pc' = [pc EXCEPT ![Idle] = "idle_up"]
        /\ arg' = [arg EXCEPT ![Idle] = NULL]
        /\ UNCHANGED <<status, ready_list, current, thread_ticks, all_list, ticks,
                       already_slept, time_ticks, value, waiters>>
    BY <1>1, Zenon DEF idle_begin, Goto, sched, clock, semas
  <1>3. /\ pc' \in [Thread -> Label] /\ pc'[Idle] = "idle_up"
        /\ \A t \in Thread : t # Idle => pc'[t] = pc[t] /\ arg'[t] = arg[t]
        /\ arg' \in [Thread -> Sema \cup Thread \cup Int \cup {NULL}]
    BY <1>2, Zenon DEF IndInv, TypeOK, Label
  <1>4. TypeOK'
    BY <1>2, <1>3, Zenon DEF IndInv, TypeOK
  <1>5. QueuesMatchStatus'
    <2>1. ReadyListOK'
      <3>1. \A t \in Thread : t # Idle => t # idle_thread /\ t # idle_thread'
        BY <1>2, Zenon DEF IndInv, TypeOK
      <3> QED BY <3>1, <1>1, <1>2, Zenon
              DEF IndInv, QueuesMatchStatus, ReadyListOK
    <2>2. SleepListOK'
      BY <1>1, <1>2, <1>3, Zenon DEF IndInv, QueuesMatchStatus, SleepListOK
    <2>3. WaitersOK'
      BY <1>1, <1>2, <1>3 DEF IndInv, QueuesMatchStatus, WaitersOK
    <2> QED BY <2>1, <2>2, <2>3, Zenon DEF QueuesMatchStatus
  <1>6. OneRunning' /\ AllListOK' /\ Roles' /\ Boot'
    BY <1>1, <1>2, <1>3, Zenon DEF IndInv, OneRunning, AllListOK, Roles, Boot, IdleLabel
  <1>7. Args'
    BY <1>1, <1>2, <1>3 DEF IndInv, Args
  <1> QED BY <1>4, <1>5, <1>6, <1>7, Zenon DEF IndInv

\* The idle thread's sema_up of idle_started preserves the invariant.
LEMMA IdleUpInv ==
  ASSUME IndInv, idle_up
  PROVE  IndInv'
  <1> USE ThreadAssumption
  <1>1. current = Idle /\ pc[Idle] = "idle_up" /\ pc[Main] # "main_start"
    BY Zenon DEF IndInv, TypeOK, Roles, IdleLabel, Boot, idle_up
  <1>2. /\ SemaUp(IdleStarted)
        /\ pc' = [pc EXCEPT ![Idle] = "idle_block"]
        /\ arg' = [arg EXCEPT ![Idle] = NULL]
        /\ UNCHANGED <<all_list, idle_thread, clock>>
    BY <1>1, Zenon DEF idle_up, Goto
  <1>3. /\ pc' \in [Thread -> Label] /\ pc'[Idle] = "idle_block"
        /\ \A t \in Thread : t # Idle => pc'[t] = pc[t] /\ arg'[t] = arg[t]
        /\ arg' \in [Thread -> Sema \cup Thread \cup Int \cup {NULL}]
    BY <1>2, Zenon DEF IndInv, TypeOK, Label
  <1> QED BY <1>1, <1>2, <1>3, SemaAssumption, SemaUpInv, Zenon

\* The idle thread's thread_block, in its loop, preserves the invariant.
LEMMA IdleBlockInv ==
  ASSUME IndInv, idle_block
  PROVE  IndInv'
  <1> USE ThreadAssumption
  <1>1. /\ current = Idle /\ status[Idle] = "RUNNING" /\ pc[Idle] = "idle_block"
        /\ pc[Main] # "main_start" /\ idle_thread = Idle
    BY Zenon DEF IndInv, TypeOK, Roles, IdleLabel, OneRunning, Boot, idle_block
  <1>2. /\ ThreadBlock
        /\ pc' = [pc EXCEPT ![Idle] = "idle_hlt"]
        /\ arg' = [arg EXCEPT ![Idle] = NULL]
        /\ UNCHANGED <<all_list, idle_thread, ticks, already_slept, time_ticks,
                       value, waiters>>
    BY <1>1, Zenon DEF idle_block, Goto, clock, semas
  <1>3. /\ current' \in Thread
        /\ ready_list' \in Seq(Thread)
        /\ status' \in [Thread -> Status]
        /\ thread_ticks' = 0
        /\ OneRunning'
        /\ ReadyListOK'
        /\ current' = Idle \/ status[current'] = "READY"
        /\ \A t \in Thread : t # current' =>
             status'[t] = IF t = current THEN "BLOCKED" ELSE status[t]
    BY <1>1, <1>2, BlockLemma, Zenon
  <1>4. status'[current'] = "RUNNING"
    BY <1>3, Zenon DEF OneRunning
  <1>5. /\ pc' \in [Thread -> Label] /\ pc'[Idle] = "idle_hlt"
        /\ \A t \in Thread : t # Idle => pc'[t] = pc[t] /\ arg'[t] = arg[t]
        /\ arg' \in [Thread -> Sema \cup Thread \cup Int \cup {NULL}]
    BY <1>2, Zenon DEF IndInv, TypeOK, Label
  <1>6. TypeOK'
    BY <1>2, <1>3, <1>5, Zenon DEF IndInv, TypeOK
  <1>7. SleepListOK' /\ WaitersOK'
    <2>1. SleepListOK'
      BY <1>1, <1>2, <1>3, <1>4, <1>5 DEF IndInv, QueuesMatchStatus, SleepListOK
    <2>2. \A t \in Thread : \A s \in Sema : Waits(t, s)' <=> Waits(t, s)
      BY <1>1, <1>2, <1>3, <1>4, <1>5 DEF Waits
    <2>3. WaitersOK /\ waiters' = waiters
      BY <1>2, Zenon DEF IndInv, QueuesMatchStatus
    <2> QED BY <2>1, <2>2, <2>3, WaitersFrame, Zenon
  <1>8. AllListOK' /\ Roles' /\ Boot'
    BY <1>1, <1>2, <1>3, <1>4, <1>5 DEF IndInv, AllListOK, Roles, Boot, IdleLabel
  <1>9. Args'
    <2>1. \A t \in Thread : pc[t] = "run" /\ status[t] = "BLOCKED" =>
            t # Idle /\ pc'[t] = "run" /\ status'[t] = "BLOCKED"
      BY <1>1, <1>3, <1>5, Zenon
    <2>2. \A t \in Thread : pc'[t] \in {"sema_down", "timer_sleep", "create"} =>
            pc[t] = pc'[t] /\ arg'[t] = arg[t]
      BY <1>5, Zenon
    <2> QED BY <2>1, <2>2 DEF IndInv, Args
  <1> QED BY <1>3, <1>6, <1>7, <1>8, <1>9, Zenon DEF IndInv, QueuesMatchStatus

\* thread_create, up to where the new thread is built and blocked, preserves the
\* invariant.
LEMMA ThreadCreateInv ==
  ASSUME IndInv, NEW t \in Thread, thread_create(t)
  PROVE  IndInv'
  <1> USE ThreadAssumption
  <1>1. /\ current \in Thread /\ status[current] = "RUNNING"
        /\ pc[current] = "run" /\ status[t] = "FREE" /\ t # current
        /\ pc[Main] # "main_start" /\ t # Idle /\ current # Idle
    BY Zenon DEF IndInv, TypeOK, OneRunning, Boot, Roles, IdleLabel, thread_create, Calling
  <1>2. /\ status' = [status EXCEPT ![t] = "BLOCKED"]
        /\ all_list' = all_list \cup {t}
        /\ pc' = [pc EXCEPT ![current] = "create", ![t] = "run"]
        /\ arg' = [arg EXCEPT ![current] = t, ![t] = NULL]
        /\ time_ticks' = [time_ticks EXCEPT ![t] = 0]
        /\ UNCHANGED <<ready_list, current, thread_ticks, idle_thread, ticks,
                       already_slept, value, waiters>>
    BY Zenon DEF thread_create, semas
  <1>3. /\ pc' \in [Thread -> Label] /\ pc'[current] = "create" /\ pc'[t] = "run"
        /\ arg'[current] = t
        /\ \A u \in Thread : u \notin {current, t} =>
             pc'[u] = pc[u] /\ arg'[u] = arg[u]
        /\ arg' \in [Thread -> Sema \cup Thread \cup Int \cup {NULL}]
        /\ time_ticks' \in [Thread -> Int]
    <2>1. /\ pc \in [Thread -> Label] /\ time_ticks \in [Thread -> Int]
          /\ arg \in [Thread -> Sema \cup Thread \cup Int \cup {NULL}]
          /\ "create" \in Label /\ "run" \in Label
      BY Zenon DEF IndInv, TypeOK, Label
    <2>2. /\ pc' \in [Thread -> Label] /\ pc'[current] = "create" /\ pc'[t] = "run"
          /\ \A u \in Thread : u \notin {current, t} => pc'[u] = pc[u]
      BY <1>1, <1>2, <2>1, Zenon
    <2>3. /\ arg' \in [Thread -> Sema \cup Thread \cup Int \cup {NULL}]
          /\ arg'[current] = t
          /\ \A u \in Thread : u \notin {current, t} => arg'[u] = arg[u]
      BY <1>1, <1>2, <2>1, Zenon
    <2> QED BY <1>2, <2>1, <2>2, <2>3
  <1>4. /\ status' \in [Thread -> Status] /\ status'[t] = "BLOCKED"
        /\ \A u \in Thread : u # t => status'[u] = status[u]
    BY <1>2, Zenon DEF IndInv, TypeOK, Status
  <1>5. TypeOK'
    BY <1>2, <1>3, <1>4, Zenon DEF IndInv, TypeOK
  <1>6. QueuesMatchStatus'
    <2>1. ReadyListOK' /\ SleepListOK'
      BY <1>1, <1>2, <1>3, <1>4
         DEF IndInv, QueuesMatchStatus, ReadyListOK, SleepListOK
    <2>2. \A u \in Thread : \A s \in Sema : Waits(u, s)' <=> Waits(u, s)
      BY <1>1, <1>2, <1>3, <1>4 DEF Waits
    <2>3. WaitersOK /\ waiters' = waiters
      BY <1>2, Zenon DEF IndInv, QueuesMatchStatus
    <2> QED BY <2>1, <2>2, <2>3, WaitersFrame, Zenon DEF QueuesMatchStatus
  <1>7. OneRunning' /\ AllListOK' /\ Roles' /\ Boot'
    <2>1. OneRunning' /\ AllListOK'
      BY <1>1, <1>2, <1>4, Zenon DEF IndInv, OneRunning, AllListOK
    <2>2. Roles'
      BY <1>1, <1>3, Zenon DEF IndInv, Roles, IdleLabel
    <2>3. Boot'
      BY <1>1, <1>2, <1>3, <1>4, Zenon DEF IndInv, Boot
    <2> QED BY <2>1, <2>2, <2>3, Zenon
  <1>8. Args'
    BY <1>1, <1>3, <1>4 DEF IndInv, Args
  <1> QED BY <1>5, <1>6, <1>7, <1>8, Zenon DEF IndInv

\* thread_create's thread_unblock of the new thread preserves the invariant.
LEMMA ThreadCreateUnblockInv ==
  ASSUME IndInv, thread_create_unblock
  PROVE  IndInv'
  <1> USE ThreadAssumption
  <1> DEFINE t == arg[current]
  <1>1. /\ current \in Thread /\ status[current] = "RUNNING"
        /\ pc[current] = "create" /\ pc[Main] # "main_start" /\ current # Idle
        /\ t \in Thread /\ status[t] = "BLOCKED" /\ pc[t] = "run" /\ t # Idle
        /\ t # idle_thread
    BY DEF IndInv, TypeOK, OneRunning, Boot, Roles, IdleLabel, Args,
           thread_create_unblock
  <1>2. /\ ThreadUnblock(t)
        /\ pc' = [pc EXCEPT ![current] = "run"]
        /\ arg' = [arg EXCEPT ![current] = NULL]
        /\ UNCHANGED <<all_list, idle_thread, ticks, already_slept, time_ticks,
                       value, waiters>>
    BY Zenon DEF thread_create_unblock, Return, Goto, clock, semas
  <1>3. \A u \in Thread : pc[u] = "create" /\ arg[u] = t => u = current
    BY <1>1, Zenon DEF IndInv, Args
  <1> HIDE DEF t
  <1>4. /\ ready_list' \in Seq(Thread)
        /\ status' \in [Thread -> Status]
        /\ current' = current /\ thread_ticks' = thread_ticks
        /\ OneRunning'
        /\ ReadyListOK'
        /\ status'[t] = "READY"
        /\ \A u \in Thread : u # t => status'[u] = status[u]
    BY <1>1, <1>2, UnblockLemma, Zenon DEF IndInv, QueuesMatchStatus
  <1>5. /\ pc' \in [Thread -> Label] /\ pc'[current] = "run"
        /\ \A u \in Thread : u # current => pc'[u] = pc[u] /\ arg'[u] = arg[u]
        /\ arg' \in [Thread -> Sema \cup Thread \cup Int \cup {NULL}]
    BY <1>1, <1>2, Zenon DEF IndInv, TypeOK, Label
  <1>6. TypeOK'
    BY <1>2, <1>4, <1>5, Zenon DEF IndInv, TypeOK
  <1>7. SleepListOK' /\ WaitersOK'
    <2>1. SleepListOK'
      BY <1>1, <1>2, <1>4, <1>5 DEF IndInv, QueuesMatchStatus, SleepListOK
    <2>2. \A u \in Thread : \A s \in Sema : Waits(u, s)' <=> Waits(u, s)
      BY <1>1, <1>2, <1>4, <1>5, Zenon DEF Waits
    <2>3. WaitersOK /\ waiters' = waiters
      BY <1>2, Zenon DEF IndInv, QueuesMatchStatus
    <2> QED BY <2>1, <2>2, <2>3, WaitersFrame, Zenon
  <1>8. AllListOK' /\ Roles' /\ Boot'
    <2>1. AllListOK /\ Roles /\ Boot
      BY Zenon DEF IndInv
    <2>2. AllListOK'
      BY <1>1, <1>2, <1>4, <2>1, Zenon DEF AllListOK
    <2>3. Roles'
      BY <1>1, <1>2, <1>5, <2>1, Zenon DEF Roles, IdleLabel
    <2>4. Boot'
      BY <1>1, <1>2, <1>4, <1>5, <2>1, Zenon DEF Boot
    <2> QED BY <2>2, <2>3, <2>4, Zenon
  <1>9. Args'
    BY <1>1, <1>3, <1>4, <1>5 DEF IndInv, Args
  <1> QED BY <1>4, <1>6, <1>7, <1>8, <1>9, Zenon DEF IndInv, QueuesMatchStatus

\* The timer interrupt's wake-ups st and rl, followed by a yield or not,
\* preserve the invariant; so does a yield alone.
LEMMA WakeYieldInv ==
  ASSUME IndInv, pc[Main] # "main_start",
         NEW st \in [Thread -> Status], NEW rl \in Seq(Thread),
         \A t \in Thread :
           \/ st[t] = status[t]
           \/ status[t] = "BLOCKED" /\ pc[t] = "thread_sleep" /\ st[t] = "READY",
         ReadyOK(st, rl),
         already_slept' \in Seq(Thread),
         IsInjective(already_slept'),
         \A t \in Thread : t \in Range(already_slept') <=>
                             st[t] = "BLOCKED" /\ pc[t] = "thread_sleep",
         \/ YieldFrom(st, rl)
         \/ /\ status' = st /\ ready_list' = rl /\ current' = current
            /\ thread_ticks' \in Nat,
         ticks' \in Nat,
         UNCHANGED <<all_list, idle_thread, time_ticks, semas, arg>>,
         pc' \in [Thread -> Label],
         \A t \in Thread :
           \/ pc'[t] = pc[t]
           \/ t = Idle /\ pc[t] = "idle_hlt" /\ pc'[t] = "idle_block"
  PROVE  IndInv'
  <1> USE ThreadAssumption
  <1>1. /\ UNCHANGED <<all_list, idle_thread, time_ticks, value, waiters, arg>>
        /\ pc[Idle] \in IdleLabel \cup {"none"}
        /\ pc'[Idle] \in IdleLabel \cup {"none"}
        /\ \A t \in Thread : t # Idle => pc'[t] = pc[t]
        /\ current \in Thread /\ status[current] = "RUNNING" /\ TypeOK
    BY Zenon DEF IndInv, Roles, TypeOK, semas, IdleLabel, OneRunning
  <1>2. \A t \in Thread : st[t] = "RUNNING" <=> t = current
    BY DEF IndInv, OneRunning
  <1>3. /\ current' \in Thread
        /\ ready_list' \in Seq(Thread)
        /\ status' \in [Thread -> Status]
        /\ thread_ticks' \in Nat
        /\ OneRunning'
        /\ ReadyListOK'
        /\ current' = Idle \/ current' = current \/ st[current'] = "READY"
        /\ \A t \in Thread : t # current' =>
             status'[t] \in IF t = current THEN {"READY"} ELSE {st[t]}
    <2>1. CASE YieldFrom(st, rl)
      <3>1. TypeOK /\ UNCHANGED idle_thread
        BY <1>1, Zenon
      <3>2. /\ current' \in Thread
            /\ ready_list' \in Seq(Thread)
            /\ status' \in [Thread -> Status]
            /\ thread_ticks' = 0
            /\ OneRunning'
            /\ ReadyListOK'
            /\ current' = Idle \/ current' = current \/ st[current'] = "READY"
            /\ \A t \in Thread : t # current' =>
                 status'[t] = IF t = current THEN "READY" ELSE st[t]
        BY ONLY <1>2, <2>1, <3>1, ReadyOK(st, rl), st \in [Thread -> Status],
                rl \in Seq(Thread), YieldLemma, Zenon
      <3> QED BY <3>2, Zenon
    <2>2. CASE /\ status' = st /\ ready_list' = rl /\ current' = current
               /\ thread_ticks' \in Nat
      BY <1>1, <1>2, <2>2, Zenon DEF ReadyOK, ReadyListOK, OneRunning
    <2> QED BY <2>1, <2>2, Zenon
  <1>4. status'[current'] = "RUNNING"
    BY <1>3, Zenon DEF OneRunning
  <1>5. \A t \in Thread : t # Idle =>
          (status'[t] = "BLOCKED" <=> st[t] = "BLOCKED")
    BY <1>1, <1>2, <1>3, <1>4, Zenon
  <1>6. TypeOK'
    BY <1>1, <1>3, Zenon DEF TypeOK
  <1>7. SleepListOK'
    BY <1>1, <1>5 DEF SleepListOK, IdleLabel
  <1>8. WaitersOK'
    <2>1. \A t \in Thread : pc[t] = "sema_down" =>
            /\ pc'[t] = "sema_down"
            /\ status'[t] = "BLOCKED" <=> status[t] = "BLOCKED"
      BY <1>1, <1>5, ZenonT(30) DEF IdleLabel
    <2>2. \A t \in Thread : pc'[t] = "sema_down" => pc[t] = "sema_down"
      BY <1>1, Zenon DEF IdleLabel
    <2>3. WaitersOK /\ waiters' = waiters /\ arg' = arg
      BY <1>1, Zenon DEF IndInv, QueuesMatchStatus
    <2>4. \A t \in Thread : \A s \in Sema : Waits(t, s)' <=> Waits(t, s)
      BY <2>1, <2>2, <2>3, Zenon DEF Waits
    <2> QED BY <2>3, <2>4, WaitersFrame, Zenon
  <1>9. \A t \in Thread : status'[t] \in {"FREE", "DYING"} <=>
                          status[t] \in {"FREE", "DYING"}
    BY <1>1, <1>3, <1>4 DEF IndInv, Boot
  <1>10. AllListOK'
    BY <1>1, <1>9, Zenon DEF IndInv, AllListOK
  <1>11. Roles'
    BY <1>1, Zenon DEF IndInv, Roles
  <1>12. Boot'
    <2>1. st[Idle] = status[Idle]
      BY <1>1, Zenon DEF IdleLabel
    <2>2. pc'[Main] = pc[Main] /\ (pc[Idle] = "idle_begin" => pc'[Idle] = "idle_begin")
      BY <1>1, Zenon
    <2>3. idle_thread = NULL => status'[Idle] \in {"READY", "RUNNING"}
      BY <1>3, <1>4, <2>1, Zenon DEF IndInv, Boot
    <2>4. status'[Idle] \notin {"FREE", "DYING"}
      BY <1>9, Zenon DEF IndInv, Boot
    <2> QED BY <1>1, <2>2, <2>3, <2>4, Zenon DEF IndInv, Boot
  <1>13. Args'
    <2>1. \A t \in Thread : pc[t] = "run" /\ status[t] = "BLOCKED" =>
            pc'[t] = "run" /\ status'[t] = "BLOCKED"
      BY <1>1, <1>5, Zenon DEF IdleLabel
    <2>2. \A t \in Thread : pc'[t] \in {"sema_down", "timer_sleep", "create"} =>
            pc[t] = pc'[t]
      BY <1>1, Zenon
    <2>3. Args
      BY Zenon DEF IndInv
    <2> QED BY <1>1, <2>1, <2>2, <2>3 DEF Args
  <1> QED BY <1>3, <1>6, <1>7, <1>8, <1>10, <1>11, <1>12, <1>13, Zenon
          DEF IndInv, QueuesMatchStatus

\* thread_yield preserves the invariant.
LEMMA YieldInv ==
  ASSUME IndInv, pc[current] # "main_start",
         YieldFrom(status, ready_list),
         UNCHANGED <<all_list, idle_thread, clock, semas, pc, arg>>
  PROVE  IndInv'
  <1>1. /\ status \in [Thread -> Status] /\ ready_list \in Seq(Thread)
        /\ ReadyOK(status, ready_list)
        /\ pc' = pc /\ already_slept' = already_slept /\ ticks' = ticks
        /\ time_ticks' = time_ticks
    BY Zenon DEF IndInv, TypeOK, QueuesMatchStatus, ReadyListOK, ReadyOK, clock
  <1>2. pc[Main] # "main_start"
    BY Zenon DEF IndInv, Boot
  <1>3. /\ already_slept \in Seq(Thread) /\ ticks \in Nat
        /\ pc \in [Thread -> Label]
        /\ IsInjective(already_slept)
        /\ \A t \in Thread : t \in Range(already_slept) <=>
                               status[t] = "BLOCKED" /\ pc[t] = "thread_sleep"
    BY Zenon DEF IndInv, TypeOK, QueuesMatchStatus, SleepListOK
  <1> QED BY <1>1, <1>2, <1>3, WakeYieldInv, Zenon

\* timer_interrupt, with the wake-ups and the yield on return, preserves the
\* invariant.
LEMMA TimerInterruptInv ==
  ASSUME IndInv, timer_interrupt
  PROVE  IndInv'
  <1> USE ThreadAssumption
  <1>1. /\ pc[Main] # "main_start" /\ current \in Thread /\ ticks \in Nat
        /\ thread_ticks \in Nat /\ MaxTicks \in Nat
        /\ already_slept \in Seq(Thread) /\ ready_list \in Seq(Thread)
        /\ status \in [Thread -> Status] /\ pc \in [Thread -> Label]
        /\ IsInjective(already_slept) /\ IsInjective(ready_list)
    BY BoundAssumption, Zenon
       DEF IndInv, Boot, TypeOK, QueuesMatchStatus, SleepListOK, ReadyListOK,
           timer_interrupt, InterruptsOn
  <1>2. PICK k \in 0..Len(already_slept) :
          /\ already_slept' = SubSeq(already_slept, k + 1, Len(already_slept))
          /\ \/ YieldFrom(StatusAfterWake(k), ready_list \o WokenSleepers(k))
             \/ /\ status' = StatusAfterWake(k)
                /\ ready_list' = ready_list \o WokenSleepers(k)
                /\ thread_ticks' = thread_ticks + 1
                /\ current' = current
    BY Zenon DEF timer_interrupt
  <1> DEFINE st == StatusAfterWake(k)
             woken == SubSeq(already_slept, 1, k)
             rl == ready_list \o woken
  <1>3. /\ woken \in Seq(Thread) /\ already_slept' \in Seq(Thread)
        /\ IsInjective(woken) /\ IsInjective(already_slept')
        /\ Range(woken) \cup Range(already_slept') = Range(already_slept)
        /\ Range(woken) \cap Range(already_slept') = {}
        /\ \A t : t \in Range(woken) <=> \E i \in 1..k : already_slept[i] = t
    BY <1>1, <1>2, SplitRange
  <1>4. /\ st \in [Thread -> Status]
        /\ \A t \in Thread : st[t] = IF t \in Range(woken) THEN "READY" ELSE status[t]
    BY <1>1, <1>3, Zenon DEF StatusAfterWake, Status
  <1>5. YieldFrom(st, rl) \/ ( /\ status' = st /\ ready_list' = rl
                               /\ current' = current /\ thread_ticks' \in Nat )
    BY <1>1, <1>2 DEF WokenSleepers
  <1> HIDE DEF st, woken
  <1>6. \A t \in Thread : t \in Range(woken) =>
          /\ status[t] = "BLOCKED" /\ pc[t] = "thread_sleep" /\ t # Idle
          /\ t \notin Range(ready_list)
    BY <1>3, Zenon DEF IndInv, QueuesMatchStatus, SleepListOK, ReadyListOK, Roles, IdleLabel
  <1>7. Range(ready_list) \cap Range(woken) = {}
    <2>1. \A t \in Range(woken) : t \in Thread
      BY <1>3, InRange
    <2> QED BY <1>6, <2>1, Zenon
  <1>8. /\ rl \in Seq(Thread) /\ IsInjective(rl)
        /\ Range(rl) = Range(ready_list) \cup Range(woken)
    BY <1>1, <1>3, <1>7, ConcatRange
  <1> HIDE DEF rl
  <1>9. ReadyOK(st, rl)
    <2>1. \A t \in Thread : t \in Range(woken) => t # idle_thread
      BY <1>6, Zenon DEF IndInv, TypeOK
    <2> QED BY <1>4, <1>6, <1>8, <2>1, Zenon
            DEF ReadyOK, IndInv, QueuesMatchStatus, ReadyListOK
  <1>10. \A t \in Thread : t \in Range(already_slept') <=>
                             st[t] = "BLOCKED" /\ pc[t] = "thread_sleep"
    BY <1>3, <1>4, <1>6, Zenon DEF IndInv, QueuesMatchStatus, SleepListOK
  <1>11. \A t \in Thread :
           \/ st[t] = status[t]
           \/ status[t] = "BLOCKED" /\ pc[t] = "thread_sleep" /\ st[t] = "READY"
    BY <1>4, <1>6, Zenon
  <1>12. /\ ticks' \in Nat
         /\ UNCHANGED <<all_list, idle_thread, time_ticks, semas, arg>>
    BY <1>1 DEF timer_interrupt, EndHlt
  <1>13. /\ pc' \in [Thread -> Label]
         /\ \A t \in Thread :
              \/ pc'[t] = pc[t]
              \/ t = Idle /\ pc[t] = "idle_hlt" /\ pc'[t] = "idle_block"
    BY <1>1, Zenon DEF timer_interrupt, EndHlt, Label, IndInv, Roles, IdleLabel
  <1>14. st \in [Thread -> Status] /\ rl \in Seq(Thread) /\ pc[Main] # "main_start"
    BY <1>1, <1>4, <1>8, Zenon
  <1>15. already_slept' \in Seq(Thread) /\ IsInjective(already_slept')
    BY <1>3, Zenon
  <1> QED BY <1>5, <1>9, <1>10, <1>11, <1>12, <1>13, <1>14, <1>15,
             WakeYieldInv, Zenon

\* The current thread moves between the labels of its own calls.
LEMMA GotoInv ==
  ASSUME IndInv,
         pc[current] \in {"run", "timer_sleep", "thread_sleep"},
         NEW label \in {"run", "timer_sleep"},
         NEW a \in Int \cup {NULL}, label = "timer_sleep" => a \in Int,
         Goto(current, label, a),
         UNCHANGED <<sched, all_list, idle_thread, clock, semas>>
  PROVE  IndInv'
  <1> USE ThreadAssumption
  <1>1. /\ current \in Thread /\ current # Idle /\ status[current] = "RUNNING"
        /\ pc[Main] # "main_start"
    BY Zenon DEF IndInv, TypeOK, Roles, IdleLabel, OneRunning, Boot
  <1>2. UNCHANGED <<status, ready_list, current, thread_ticks, all_list, idle_thread,
                    ticks, already_slept, time_ticks, value, waiters>>
    BY Zenon DEF sched, clock, semas
  <1>3. /\ pc' \in [Thread -> Label] /\ pc'[current] = label
        /\ arg'[current] = a
        /\ \A t \in Thread : t # current => pc'[t] = pc[t] /\ arg'[t] = arg[t]
        /\ arg' \in [Thread -> Sema \cup Thread \cup Int \cup {NULL}]
    BY <1>1, Zenon DEF Goto, IndInv, TypeOK, Label
  <1>4. TypeOK'
    BY <1>2, <1>3, Zenon DEF IndInv, TypeOK
  <1>5. QueuesMatchStatus'
    <2>1. SleepListOK'
      BY <1>1, <1>2, <1>3, Zenon DEF IndInv, QueuesMatchStatus, SleepListOK
    <2>2. WaitersOK'
      <3>1. \A t \in Thread : \A s \in Sema : Waits(t, s)' <=> Waits(t, s)
        BY <1>1, <1>2, <1>3, Zenon DEF Waits
      <3>2. WaitersOK /\ waiters' = waiters
        BY <1>2, Zenon DEF IndInv, QueuesMatchStatus
      <3> QED BY <3>1, <3>2, WaitersFrame, Zenon
    <2> QED BY <1>2, <2>1, <2>2, Zenon DEF IndInv, QueuesMatchStatus, ReadyListOK
  <1>6. OneRunning' /\ AllListOK' /\ Roles' /\ Boot'
    BY <1>1, <1>2, <1>3, ZenonT(30) DEF IndInv, OneRunning, AllListOK, Roles, Boot, IdleLabel
  <1>7. Args'
    <2>1. \A t \in Thread : pc[t] = "run" /\ status[t] = "BLOCKED" => pc'[t] = "run"
      BY <1>1, <1>3, Zenon
    <2>2. \A t \in Thread : pc'[t] \in {"sema_down", "create"} =>
            pc[t] = pc'[t] /\ arg[t] = arg'[t]
      BY <1>3, Zenon
    <2>3. \A t \in Thread : pc'[t] = "timer_sleep" => arg'[t] \in Int
      BY <1>3, Zenon DEF IndInv, Args
    <2>4. Args
      BY Zenon DEF IndInv
    <2> QED BY <1>2, <2>1, <2>2, <2>3, <2>4 DEF Args
  <1> QED BY <1>4, <1>5, <1>6, <1>7, Zenon DEF IndInv

\* thread_exit, with the freeing of the page by the next thread, preserves the
\* invariant.
LEMMA ThreadExitInv ==
  ASSUME IndInv, thread_exit
  PROVE  IndInv'
  <1> USE ThreadAssumption
  <1> DEFINE st == [status EXCEPT ![current] = "DYING"]
  <1>1. /\ current \in Thread /\ current # Idle /\ status[current] = "RUNNING"
        /\ pc[current] = "run" /\ pc[Main] # "main_start"
        /\ TypeOK /\ ready_list \in Seq(Thread)
    BY Zenon DEF IndInv, TypeOK, Roles, IdleLabel, OneRunning, Boot, thread_exit, Calling
  <1>2. /\ Schedule(st, ready_list)
        /\ all_list' = all_list \ {current}
        /\ pc' = [pc EXCEPT ![current] = "none"]
        /\ arg' = [arg EXCEPT ![current] = NULL]
        /\ UNCHANGED <<idle_thread, ticks, already_slept, time_ticks, value, waiters>>
    BY Zenon DEF thread_exit, Goto, clock, semas
  <1>3. /\ st \in [Thread -> Status]
        /\ \A t \in Thread : st[t] = IF t = current THEN "DYING" ELSE status[t]
    BY <1>1, Zenon DEF TypeOK, Status
  <1> HIDE DEF st
  <1>4. ReadyOK(st, ready_list) /\ \A t \in Thread : st[t] # "RUNNING"
    BY <1>1, <1>3, Zenon DEF IndInv, OneRunning, QueuesMatchStatus, ReadyListOK, ReadyOK
  <1>5. ready_list = <<>> => idle_thread = Idle
    BY <1>1, IdleAvailable, Zenon
  <1>6. /\ current' \in Thread
        /\ ready_list' \in Seq(Thread)
        /\ status' \in [Thread -> Status]
        /\ thread_ticks' = 0
        /\ OneRunning'
        /\ ReadyListOK'
        /\ current' = Idle \/ st[current'] = "READY"
        /\ \A t \in Thread : t # current' =>
             status'[t] = IF t = current /\ st[t] = "DYING" /\ t # Main
                          THEN "FREE" ELSE st[t]
    BY <1>1, <1>2, <1>3, <1>4, <1>5, ScheduleLemma, ZenonT(30)
  <1>7. /\ status'[current'] = "RUNNING" /\ current' # current
        /\ status'[current] \in {"FREE", "DYING"}
        /\ \A t \in Thread : t \notin {current, current'} => status'[t] = status[t]
        /\ current' = Idle \/ status[current'] = "READY"
    BY <1>1, <1>3, <1>6, Zenon DEF OneRunning
  <1>8. /\ pc' \in [Thread -> Label] /\ pc'[current] = "none"
        /\ \A t \in Thread : t # current => pc'[t] = pc[t] /\ arg'[t] = arg[t]
        /\ arg' \in [Thread -> Sema \cup Thread \cup Int \cup {NULL}]
    BY <1>1, <1>2, Zenon DEF TypeOK, Label
  <1>9. TypeOK'
    BY <1>1, <1>2, <1>6, <1>8, Zenon DEF TypeOK
  <1>10. \A t \in Thread : pc[t] \in {"run", "sema_down", "thread_sleep"} =>
           (status'[t] = "BLOCKED" <=> status[t] = "BLOCKED")
    BY <1>1, <1>7, Zenon DEF IndInv, Roles, IdleLabel
  <1>11. SleepListOK' /\ WaitersOK'
    <2>1. \A t \in Thread : pc[t] \in {"sema_down", "thread_sleep"} =>
            pc'[t] = pc[t] /\ arg'[t] = arg[t]
      BY <1>1, <1>8, Zenon
    <2>2. \A t \in Thread : pc'[t] \in {"sema_down", "thread_sleep"} => pc[t] = pc'[t]
      BY <1>8, Zenon
    <2>3. SleepListOK'
      BY <1>2, <1>10, <2>1, <2>2, Zenon DEF IndInv, QueuesMatchStatus, SleepListOK
    <2>4. WaitersOK'
      <3>1. \A t \in Thread : \A s \in Sema : Waits(t, s)' <=> Waits(t, s)
        BY <1>2, <1>10, <2>1, <2>2 DEF Waits
      <3>2. WaitersOK /\ waiters' = waiters
        BY <1>2, Zenon DEF IndInv, QueuesMatchStatus
      <3> QED BY <3>1, <3>2, WaitersFrame, Zenon
    <2> QED BY <2>3, <2>4, Zenon
  <1>12. AllListOK'
    <2>1. \A t \in Thread : t # current =>
            (status'[t] \in {"FREE", "DYING"} <=> status[t] \in {"FREE", "DYING"})
      BY <1>1, <1>7, Zenon DEF IndInv, Boot
    <2> QED BY <1>2, <1>7, <2>1, Zenon DEF IndInv, AllListOK
  <1>13. Roles'
    BY <1>1, <1>8, Zenon DEF IndInv, Roles, IdleLabel
  <1>14. Boot'
    BY <1>1, <1>2, <1>7, <1>8, Zenon DEF IndInv, Boot
  <1>15. Args'
    <2>1. \A t \in Thread : pc[t] = "run" /\ status[t] = "BLOCKED" =>
            pc'[t] = "run" /\ status'[t] = "BLOCKED"
      BY <1>1, <1>8, <1>10, Zenon
    <2>2. \A t \in Thread : pc'[t] \in {"sema_down", "timer_sleep", "create"} =>
            pc[t] = pc'[t] /\ arg'[t] = arg[t]
      BY <1>8, Zenon
    <2> QED BY <2>1, <2>2 DEF IndInv, Args
  <1> QED BY <1>6, <1>9, <1>11, <1>12, <1>13, <1>14, <1>15, Zenon
          DEF IndInv, QueuesMatchStatus

\* sema_init of a semaphore that nobody uses preserves the invariant.
LEMMA SemaInitInv ==
  ASSUME IndInv, NEW s \in Sema, NEW v \in Nat, sema_init(s, v)
  PROVE  IndInv'
  <1>1. /\ UNCHANGED <<status, ready_list, current, thread_ticks, all_list, idle_thread,
                       ticks, already_slept, time_ticks, pc, arg>>
        /\ value' \in [Sema -> Nat]
        /\ waiters' \in [Sema -> Seq(Thread)]
        /\ waiters'[s] = <<>>
        /\ \A u \in Sema : u # s => waiters'[u] = waiters[u]
        /\ \A t \in Thread : ~(pc[t] = "sema_down" /\ arg[t] = s)
    BY DEF sema_init, sched, clock, IndInv, TypeOK
  <1>2. TypeOK'
    BY <1>1, Zenon DEF IndInv, TypeOK
  <1>3. IsInjective(waiters'[s]) /\ Range(waiters'[s]) = {}
    <2>1. waiters'[s] = <<>>
      BY <1>1, Zenon
    <2> QED BY ONLY <2>1, EmptyRange, Zenon
  <1>4. WaitersOK'
    <2> SUFFICES ASSUME NEW u \in Sema
                 PROVE  /\ IsInjective(waiters'[u])
                        /\ \A t \in Thread :
                             t \in Range(waiters'[u]) <=> Waits(t, u)
      BY <1>1, Zenon DEF WaitersOK, Waits
    <2>1. CASE u = s
      BY <1>1, <1>3, <2>1, Zenon DEF Waits
    <2>2. CASE u # s
      BY <1>1, <2>2, Zenon DEF IndInv, QueuesMatchStatus, WaitersOK, Waits
    <2> QED BY <2>1, <2>2, Zenon
  <1> QED BY <1>1, <1>2, <1>4, FrameInv, Zenon

\* sema_try_down preserves the invariant.
LEMMA SemaTryDownInv ==
  ASSUME IndInv, NEW s \in Sema, sema_try_down(s)
  PROVE  IndInv'
  <1>1. /\ UNCHANGED <<status, ready_list, current, thread_ticks, all_list, idle_thread,
                       ticks, already_slept, time_ticks, waiters, pc, arg>>
        /\ value' \in [Sema -> Nat]
    BY DEF sema_try_down, sched, clock, IndInv, TypeOK
  <1>2. TypeOK' /\ WaitersOK'
    BY <1>1, Zenon DEF IndInv, TypeOK, QueuesMatchStatus, WaitersOK
  <1> QED BY <1>1, <1>2, FrameInv, Zenon

\* sema_up called by a thread preserves the invariant.
LEMMA SemaUpCallInv ==
  ASSUME IndInv, NEW s \in Sema, sema_up(s)
  PROVE  IndInv'
  <1>1. /\ SemaUp(s) /\ UNCHANGED <<all_list, idle_thread, clock>>
        /\ pc' = pc /\ arg' = arg
    BY Zenon DEF sema_up
  <1>2. /\ pc[Main] # "main_start" /\ pc \in [Thread -> Label]
        /\ arg \in [Thread -> Sema \cup Thread \cup Int \cup {NULL}]
    BY Zenon DEF IndInv, Boot, TypeOK, sema_up, Calling
  <1> QED BY <1>1, <1>2, SemaUpInv, Zenon

\* sema_up called by a device's handler preserves the invariant.
LEMMA DeviceInterruptInv ==
  ASSUME IndInv, NEW s \in Sema, device_interrupt(s)
  PROVE  IndInv'
  <1> USE ThreadAssumption
  <1>1. /\ SemaUp(s) /\ UNCHANGED <<all_list, idle_thread, clock>> /\ arg' = arg
    BY Zenon DEF device_interrupt, EndHlt
  <1>2. /\ pc[Main] # "main_start" /\ pc \in [Thread -> Label] /\ current \in Thread
        /\ arg \in [Thread -> Sema \cup Thread \cup Int \cup {NULL}]
    BY Zenon DEF IndInv, Boot, TypeOK, device_interrupt, InterruptsOn
  <1>3. /\ pc' \in [Thread -> Label]
        /\ \A t \in Thread : t # Idle => pc'[t] = pc[t]
        /\ \/ pc'[Idle] = pc[Idle]
           \/ pc[Idle] = "idle_hlt" /\ pc'[Idle] = "idle_block"
    BY <1>2, Zenon DEF device_interrupt, EndHlt, Label, IndInv, Roles, IdleLabel
  <1> QED BY <1>1, <1>2, <1>3, SemaUpInv, Zenon

\* timer_sleep, up to its first test of the clock, preserves the invariant.
LEMMA TimerSleepInv ==
  ASSUME IndInv, NEW n \in SleepTicks, timer_sleep(n)
  PROVE  IndInv'
  <1>1. ticks + n \in Int
    BY BoundAssumption DEF IndInv, TypeOK
  <1> QED BY <1>1, GotoInv, Zenon DEF timer_sleep, Calling

\* One turn of timer_sleep's loop preserves the invariant.
LEMMA TimerSleepLoopInv ==
  ASSUME IndInv, timer_sleep_loop
  PROVE  IndInv'
  <1>1. CASE YieldFrom(status, ready_list) /\ UNCHANGED <<pc, arg>>
    BY <1>1, YieldInv, Zenon DEF timer_sleep_loop
  <1>2. CASE Return /\ UNCHANGED sched
    BY <1>2, GotoInv, Zenon DEF timer_sleep_loop, Return
  <1> QED BY <1>1, <1>2, Zenon DEF timer_sleep_loop

\* thread_sleep, which inserts the caller among the sleepers and blocks it,
\* preserves the invariant.
LEMMA ThreadSleepInv ==
  ASSUME IndInv, NEW n \in SleepTicks, thread_sleep(n)
  PROVE  IndInv'
  <1> USE ThreadAssumption
  <1>1. /\ current \in Thread /\ current # Idle /\ status[current] = "RUNNING"
        /\ pc[current] = "run" /\ pc[Main] # "main_start"
        /\ already_slept \in Seq(Thread) /\ IsInjective(already_slept)
        /\ current \notin Range(already_slept)
        /\ ticks + n \in Int
    <2>1. current \in Thread /\ pc[current] = "run" /\ status[current] = "RUNNING"
      BY Zenon DEF IndInv, TypeOK, OneRunning, thread_sleep, Calling
    <2>2. current # Idle /\ pc[Main] # "main_start"
      BY <2>1, Zenon DEF IndInv, Roles, IdleLabel, Boot
    <2>3. /\ already_slept \in Seq(Thread) /\ IsInjective(already_slept)
          /\ current \notin Range(already_slept)
      BY <2>1, Zenon DEF IndInv, TypeOK, QueuesMatchStatus, SleepListOK
    <2>4. ticks + n \in Int
      BY BoundAssumption DEF IndInv, TypeOK
    <2> QED BY <2>1, <2>2, <2>3, <2>4, Zenon
  <1>2. /\ ThreadBlock
        /\ time_ticks' = [time_ticks EXCEPT ![current] = ticks + n]
        /\ pc' = [pc EXCEPT ![current] = "thread_sleep"]
        /\ arg' = [arg EXCEPT ![current] = NULL]
        /\ UNCHANGED <<all_list, idle_thread, ticks, value, waiters>>
    BY Zenon DEF thread_sleep, Goto, semas
  <1>3. /\ already_slept' \in Seq(Thread) /\ IsInjective(already_slept')
        /\ Range(already_slept') = Range(already_slept) \cup {current}
    <2>1. PICK k \in 0..Len(already_slept) :
            already_slept' = InsertAfter(already_slept, k, current)
      BY Zenon DEF thread_sleep
    <2>2. /\ InsertAfter(already_slept, k, current) \in Seq(Thread)
          /\ Range(InsertAfter(already_slept, k, current))
               = Range(already_slept) \cup {current}
          /\ IsInjective(InsertAfter(already_slept, k, current))
      <3>1. /\ already_slept \in Seq(Thread) /\ IsInjective(already_slept)
            /\ current \in Thread /\ current \notin Range(already_slept)
        BY <1>1, Zenon
      <3> DEFINE w == [i \in 1..Len(already_slept) + 1 |->
                         IF i <= k THEN already_slept[i]
                         ELSE IF i = k + 1 THEN current ELSE already_slept[i - 1]]
      <3>2. InsertAfter(already_slept, k, current) = w
        BY Zenon DEF InsertAfter
      <3>3. /\ w \in Seq(Thread)
            /\ Range(w) = Range(already_slept) \cup {current}
            /\ IsInjective(already_slept) /\ current \notin Range(already_slept)
                 => IsInjective(w)
        BY ONLY <3>1, k \in 0..Len(already_slept), InsertRange
      <3> HIDE DEF w
      <3> QED BY ONLY <3>1, <3>2, <3>3, Zenon
    <2> QED BY <2>1, <2>2, Zenon
  <1>4. /\ current' \in Thread
        /\ ready_list' \in Seq(Thread)
        /\ status' \in [Thread -> Status]
        /\ thread_ticks' = 0
        /\ OneRunning'
        /\ ReadyListOK'
        /\ current' = Idle \/ status[current'] = "READY"
        /\ \A t \in Thread : t # current' =>
             status'[t] = IF t = current THEN "BLOCKED" ELSE status[t]
    BY <1>1, <1>2, BlockLemma, Zenon
  <1>5. /\ status'[current'] = "RUNNING" /\ current' # current
        /\ status'[current] = "BLOCKED"
        /\ \A t \in Thread : t \notin {current, current'} => status'[t] = status[t]
    BY <1>1, <1>4, Zenon DEF OneRunning
  <1>6. /\ pc' \in [Thread -> Label] /\ pc'[current] = "thread_sleep"
        /\ \A t \in Thread : t # current => pc'[t] = pc[t] /\ arg'[t] = arg[t]
        /\ arg' \in [Thread -> Sema \cup Thread \cup Int \cup {NULL}]
        /\ time_ticks' \in [Thread -> Int]
    BY <1>1, <1>2, Zenon DEF IndInv, TypeOK, Label
  <1>7. TypeOK'
    BY <1>2, <1>3, <1>4, <1>6, Zenon DEF IndInv, TypeOK
  <1>8. \A t \in Thread : t # current /\ pc[t] \in {"run", "sema_down", "thread_sleep"} =>
          (status'[t] = "BLOCKED" <=> status[t] = "BLOCKED")
    BY <1>1, <1>4, <1>5, Zenon DEF IndInv, Roles, IdleLabel
  <1>9. SleepListOK'
    BY <1>3, <1>5, <1>6, <1>8, Zenon DEF IndInv, QueuesMatchStatus, SleepListOK
  <1>10. WaitersOK'
    <2>1. \A t \in Thread : pc[t] = "sema_down" <=> pc'[t] = "sema_down"
      BY <1>1, <1>6, Zenon
    <2>2. \A t \in Thread : pc[t] = "sema_down" => t # current
      BY <1>1, Zenon
    <2>3. \A t \in Thread : \A s \in Sema : Waits(t, s)' <=> Waits(t, s)
      BY <1>2, <1>6, <1>8, <2>1, <2>2, Zenon DEF Waits
    <2>4. WaitersOK /\ waiters' = waiters
      BY <1>2, Zenon DEF IndInv, QueuesMatchStatus
    <2> QED BY <2>3, <2>4, WaitersFrame, Zenon
  <1>11. AllListOK'
    <2>1. \A t \in Thread : status'[t] \in {"FREE", "DYING"} <=>
                            status[t] \in {"FREE", "DYING"}
      BY <1>1, <1>4, <1>5, Zenon DEF IndInv, Boot
    <2> QED BY <1>2, <2>1, Zenon DEF IndInv, AllListOK
  <1>12. Roles' /\ Boot'
    BY <1>1, <1>2, <1>4, <1>5, <1>6, ZenonT(30) DEF IndInv, Boot, Roles, IdleLabel
  <1>13. Args'
    <2>1. \A t \in Thread : pc[t] = "run" /\ status[t] = "BLOCKED" =>
            pc'[t] = "run" /\ status'[t] = "BLOCKED"
      BY <1>1, <1>6, <1>8, Zenon
    <2>2. \A t \in Thread : pc'[t] \in {"sema_down", "timer_sleep", "create"} =>
            pc[t] = pc'[t] /\ arg'[t] = arg[t]
      BY <1>6, Zenon
    <2> QED BY <2>1, <2>2 DEF IndInv, Args
  <1> QED BY <1>4, <1>7, <1>9, <1>10, <1>11, <1>12, <1>13, Zenon
          DEF IndInv, QueuesMatchStatus

\* Every step preserves the invariant.
LEMMA NextInv ==
  ASSUME IndInv, [Next]_vars
  PROVE  IndInv'
  <1> USE SemaAssumption
  <1>1. CASE thread_start
    BY <1>1, ThreadStartInv, Zenon
  <1>2. CASE main_wait
    BY <1>2, SemaDownInv, Zenon DEF main_wait
  <1>3. CASE idle_begin \/ idle_up \/ idle_block
    BY <1>3, IdleBeginInv, IdleUpInv, IdleBlockInv, Zenon
  <1>4. CASE thread_create_unblock
    BY <1>4, ThreadCreateUnblockInv, Zenon
  <1>5. CASE sema_down_again
    <2>1. arg[current] \in Sema
      BY <1>5, Zenon DEF sema_down_again, IndInv, TypeOK, Args
    <2> QED BY <1>5, <2>1, SemaDownInv, Zenon DEF sema_down_again
  <1>6. CASE timer_sleep_loop
    BY <1>6, TimerSleepLoopInv, Zenon
  <1>7. CASE thread_sleep_return
    BY <1>7, GotoInv, Zenon DEF thread_sleep_return, Return
  <1>8. CASE \E t \in Thread : thread_create(t)
    BY <1>8, ThreadCreateInv, Zenon
  <1>9. CASE thread_yield
    BY <1>9, YieldInv, Zenon DEF thread_yield, Calling
  <1>10. CASE thread_exit
    BY <1>10, ThreadExitInv, Zenon
  <1>11. ASSUME NEW s \in ClientSema,
                \/ \E v \in 0..MaxValue : sema_init(s, v)
                \/ sema_down(s) \/ sema_try_down(s) \/ sema_up(s)
         PROVE  IndInv'
    <2>1. s \in Sema
      BY Zenon DEF ClientSema
    <2>2. CASE \E v \in 0..MaxValue : sema_init(s, v)
      <3>1. PICK v \in 0..MaxValue : sema_init(s, v)
        BY <2>2, Zenon
      <3>2. v \in Nat
        BY BoundAssumption
      <3> QED BY <2>1, <3>1, <3>2, SemaInitInv, Zenon
    <2>3. CASE sema_down(s)
      BY <2>1, <2>3, SemaDownInv, Zenon DEF sema_down, Calling
    <2>4. CASE sema_try_down(s)
      BY <2>1, <2>4, SemaTryDownInv, Zenon
    <2>5. CASE sema_up(s)
      BY <2>1, <2>5, SemaUpCallInv, Zenon
    <2> QED BY <1>11, <2>2, <2>3, <2>4, <2>5, Zenon
  <1>12. CASE \E n \in SleepTicks : timer_sleep(n) \/ thread_sleep(n)
    BY <1>12, TimerSleepInv, ThreadSleepInv, Zenon
  <1>13. CASE timer_interrupt
    BY <1>13, TimerInterruptInv, Zenon
  <1>14. CASE \E s \in ClientSema : device_interrupt(s)
    BY <1>14, DeviceInterruptInv, Zenon DEF ClientSema
  <1>15. CASE UNCHANGED vars
    <2>1. UNCHANGED <<status, ready_list, all_list, current, idle_thread,
                      thread_ticks, ticks, already_slept, time_ticks, value,
                      waiters, pc, arg>>
      BY <1>15, Zenon DEF vars, sched, clock, semas
    <2>2. TypeOK' /\ WaitersOK'
      BY <2>1, Zenon DEF IndInv, TypeOK, QueuesMatchStatus, WaitersOK
    <2> QED BY <2>1, <2>2, FrameInv, Zenon
  <1> QED BY <1>1, <1>2, <1>3, <1>4, <1>5, <1>6, <1>7, <1>8, <1>9, <1>10, <1>11,
             <1>12, <1>13, <1>14, <1>15, Zenon
          DEF Next, KernelStep, ClientCall, Interrupt

-----------------------------------------------------------------------------
(***************************************************************************)
(* The theorems.                                                           *)
(***************************************************************************)

\* The inductive invariant holds in every reachable state.
THEOREM Invariance == Spec => []IndInv
  BY InitInv, NextInv, PTL DEF Spec

\* Every variable keeps its type; in particular schedule never switches to a
\* null thread.
THEOREM TypeCorrect == Spec => []TypeOK
  <1>1. IndInv => TypeOK
    BY Zenon DEF IndInv
  <1> QED BY <1>1, Invariance, PTL

\* Exactly the thread whose stack is in use is in state THREAD_RUNNING.
THEOREM OneThreadRuns == Spec => []OneRunning
  <1>1. IndInv => OneRunning
    BY Zenon DEF IndInv
  <1> QED BY <1>1, Invariance, PTL

\* The run queue, the sleepers' list and the semaphores' queues hold each thread
\* at most once, and exactly where its status says.
THEOREM ListMembership == Spec => []QueuesMatchStatus
  <1>1. IndInv => QueuesMatchStatus
    BY Zenon DEF IndInv
  <1> QED BY <1>1, Invariance, PTL

\* No kernel structure refers to a page that thread_schedule_tail freed.
THEOREM NoDangling == Spec => []NoDanglingThread
  <1>1. IndInv => NoDanglingThread
    BY ThreadAssumption, Zenon
       DEF IndInv, TypeOK, AllListOK, Args, Boot, NoDanglingThread
  <1> QED BY <1>1, Invariance, PTL

=============================================================================
