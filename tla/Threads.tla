------------------------------ MODULE Threads ------------------------------
(***************************************************************************)
(* The kernel threads of Pintos: the scheduler of threads/thread.c, the    *)
(* semaphores of threads/synch.c that block and unblock threads, the timer *)
(* interrupt of devices/timer.c that preempts and wakes them, and the boot *)
(* sequence that creates the idle thread.                                  *)
(*                                                                         *)
(* The machine is a uniprocessor.  Code that runs with interrupts off is   *)
(* atomic until it switches threads, so one action is the code between two *)
(* points where interrupts are on, or between two thread switches.  A      *)
(* thread's `pc' names the place where it will continue; `arg' is the      *)
(* argument or local variable that place needs.                            *)
(*                                                                         *)
(* A thread is identified with the page that holds its struct thread and   *)
(* its stack, so a page freed by thread_schedule_tail can come back as     *)
(* another thread.                                                         *)
(***************************************************************************)
EXTENDS Integers, Sequences, FiniteSets, Functions

CONSTANTS
  Thread,       \* pages that can hold a thread
  Main,         \* the page of initial_thread; not obtained from palloc
  Idle,         \* the page thread_start obtains for the idle thread
  Sema,         \* the semaphores
  IdleStarted,  \* the semaphore idle_started, local to thread_start
  NULL,
  TIME_SLICE,   \* # of timer ticks to give each thread
  SleepTicks,   \* bound: the arguments of timer_sleep and thread_sleep
  MaxTicks,     \* bound: the last clock value, which stands for all later ones
  MaxValue      \* bound: the largest value clients push a semaphore to

ASSUME ThreadAssumption ==
  /\ Main \in Thread /\ Idle \in Thread /\ Main # Idle
  /\ NULL \notin Thread
  /\ IsFiniteSet(Thread)

ASSUME SemaAssumption == IdleStarted \in Sema

ASSUME BoundAssumption ==
  /\ TIME_SLICE \in Nat \ {0}
  /\ SleepTicks \subseteq Int
  /\ MaxTicks \in Nat
  /\ MaxValue \in Nat

VARIABLES
  status,         \* struct thread.status; "FREE" when the page holds no thread
  ready_list,     \* run queue
  all_list,       \* the threads on all_list
  current,        \* running_thread(): whose stack the CPU uses
  idle_thread,    \* NULL until the idle thread has run once
  thread_ticks,   \* # of timer ticks since the last switch
  ticks,          \* timer.c: # of timer ticks since boot
  already_slept,  \* threads in thread_sleep, by wake-up time
  time_ticks,     \* struct thread.time_ticks: when to wake it
  value,          \* struct semaphore.value
  waiters,        \* struct semaphore.waiters
  pc,             \* where each thread continues
  arg             \* the semaphore, thread or deadline that place refers to

sched == <<status, ready_list, current, thread_ticks>>
clock == <<ticks, already_slept, time_ticks>>
semas == <<value, waiters>>
vars == <<sched, all_list, idle_thread, clock, semas, pc, arg>>

ClientSema == Sema \ {IdleStarted}

Status == {"FREE", "BLOCKED", "READY", "RUNNING", "DYING"}

Label == {"none", "run", "create", "sema_down", "thread_sleep", "timer_sleep",
          "main_start", "main_wait",
          "idle_begin", "idle_up", "idle_block", "idle_hlt"}

(***************************************************************************)
(* Interrupts are off at boot, and whenever the current thread has just    *)
(* been switched to inside thread_block: it has not yet restored its       *)
(* interrupt level.                                                        *)
(***************************************************************************)
InterruptsOn == pc[current] \notin {"main_start", "sema_down", "thread_sleep"}

Goto(t, label, a) ==
  /\ pc' = [pc EXCEPT ![t] = label]
  /\ arg' = [arg EXCEPT ![t] = a]

Return == Goto(current, "run", NULL)

-----------------------------------------------------------------------------
(***************************************************************************)
(* schedule, next_thread_to_run and thread_schedule_tail, on behalf of a   *)
(* caller that has already changed the statuses to st and the run queue to *)
(* rl.  The switch destroys a dying thread, except initial_thread.         *)
(***************************************************************************)
NextThreadToRun(rl) == IF rl = <<>> THEN idle_thread ELSE Head(rl)

StatusAfterSwitch(st, next) ==
  [t \in Thread |->
     IF t = next THEN "RUNNING"
     ELSE IF t = current /\ st[t] = "DYING" /\ t # Main THEN "FREE"
     ELSE st[t]]

Schedule(st, rl) ==
  /\ current' = NextThreadToRun(rl)
  /\ ready_list' = IF rl = <<>> THEN rl ELSE Tail(rl)
  /\ status' = StatusAfterSwitch(st, NextThreadToRun(rl))
  /\ thread_ticks' = 0

\* thread_block: the caller has queued the current thread somewhere.
ThreadBlock == Schedule([status EXCEPT ![current] = "BLOCKED"], ready_list)

\* Mutant: the idle thread is queued like any other.
YieldFrom_QueuesIdle(st, rl) ==
  Schedule([st EXCEPT ![current] = "READY"], Append(rl, current))

\* Mutant: a yielding thread goes to the front of the run queue.
YieldFrom_Front(st, rl) ==
  Schedule([st EXCEPT ![current] = "READY"],
           IF current = idle_thread THEN rl ELSE <<current>> \o rl)

\* thread_yield, from a caller that has made st and rl of the statuses and
\* the run queue.  The idle thread never enters the run queue.
YieldFrom(st, rl) ==
  Schedule([st EXCEPT ![current] = "READY"],
           IF current = idle_thread THEN rl ELSE Append(rl, current))

\* thread_unblock: does not preempt the running thread.
ThreadUnblock(t) ==
  /\ status' = [status EXCEPT ![t] = "READY"]
  /\ ready_list' = Append(ready_list, t)
  /\ UNCHANGED <<current, thread_ticks>>

-----------------------------------------------------------------------------
(***************************************************************************)
(* Semaphores.  SemaDown is one evaluation of the loop condition of        *)
(* sema_down: block in the queue of s, or take the semaphore and continue  *)
(* at `then'.  A thread that has been woken evaluates it again.            *)
(***************************************************************************)
SemaDown(s, then) ==
  \/ /\ value[s] = 0
     /\ waiters' = [waiters EXCEPT ![s] = Append(@, current)]
     /\ Goto(current, "sema_down", s)
     /\ ThreadBlock
     /\ UNCHANGED value
  \/ /\ value[s] > 0
     /\ value' = [value EXCEPT ![s] = @ - 1]
     /\ Goto(current, then, NULL)
     /\ UNCHANGED <<waiters, sched>>

\* Mutant: wake a waiter only when the value leaves zero.
SemaUp_WakesAtZero(s) ==
  /\ value' = [value EXCEPT ![s] = @ + 1]
  /\ \/ /\ waiters[s] = <<>> \/ value[s] > 0
        /\ UNCHANGED <<waiters, sched>>
     \/ /\ waiters[s] # <<>> /\ value[s] = 0
        /\ waiters' = [waiters EXCEPT ![s] = Tail(@)]
        /\ ThreadUnblock(Head(waiters[s]))

SemaUp(s) ==
  /\ value' = [value EXCEPT ![s] = @ + 1]
  /\ \/ /\ waiters[s] = <<>>
        /\ UNCHANGED <<waiters, sched>>
     \/ /\ waiters[s] # <<>>
        /\ waiters' = [waiters EXCEPT ![s] = Tail(@)]
        /\ ThreadUnblock(Head(waiters[s]))

-----------------------------------------------------------------------------
(***************************************************************************)
(* Boot.  thread_start runs with interrupts off until it enables them, so  *)
(* it creates the idle thread in one step; then, interruptible, it waits   *)
(* for the idle thread to run.                                             *)
(***************************************************************************)
Init ==
  /\ status = [t \in Thread |-> IF t = Main THEN "RUNNING" ELSE "FREE"]
  /\ ready_list = <<>>
  /\ all_list = {Main}
  /\ current = Main
  /\ idle_thread = NULL
  /\ thread_ticks = 0
  /\ ticks = 0
  /\ already_slept = <<>>
  /\ time_ticks = [t \in Thread |-> 0]
  /\ value = [s \in Sema |-> 0]
  /\ waiters = [s \in Sema |-> <<>>]
  /\ pc = [t \in Thread |-> IF t = Main THEN "main_start" ELSE "none"]
  /\ arg = [t \in Thread |-> NULL]

thread_start ==
  /\ pc[current] = "main_start"
  /\ all_list' = all_list \cup {Idle}
  /\ ThreadUnblock(Idle)
  /\ pc' = [pc EXCEPT ![Main] = "main_wait", ![Idle] = "idle_begin"]
  /\ UNCHANGED <<idle_thread, clock, semas, arg>>

main_wait ==
  /\ pc[current] = "main_wait"
  /\ SemaDown(IdleStarted, "run")
  /\ UNCHANGED <<all_list, idle_thread, clock>>

\* Mutant: idle_thread is never published.
idle_begin_Unpublished ==
  /\ pc[current] = "idle_begin"
  /\ Goto(current, "idle_up", NULL)
  /\ UNCHANGED <<idle_thread, sched, all_list, clock, semas>>

\* idle: publish idle_thread, up the semaphore, then block for good.
idle_begin ==
  /\ pc[current] = "idle_begin"
  /\ idle_thread' = current
  /\ Goto(current, "idle_up", NULL)
  /\ UNCHANGED <<sched, all_list, clock, semas>>

idle_up ==
  /\ pc[current] = "idle_up"
  /\ SemaUp(IdleStarted)
  /\ Goto(current, "idle_block", NULL)
  /\ UNCHANGED <<all_list, idle_thread, clock>>

idle_block ==
  /\ pc[current] = "idle_block"
  /\ ThreadBlock
  /\ Goto(current, "idle_hlt", NULL)
  /\ UNCHANGED <<all_list, idle_thread, clock, semas>>

-----------------------------------------------------------------------------
(***************************************************************************)
(* The operations a thread may call, with interrupts on.                   *)
(***************************************************************************)
Calling == pc[current] = "run"

\* thread_create up to the end of init_thread: the new thread is blocked and
\* on no queue.  Without a free page it returns TID_ERROR, changing nothing.
thread_create(t) ==
  /\ Calling
  /\ status[t] = "FREE"
  /\ status' = [status EXCEPT ![t] = "BLOCKED"]
  /\ all_list' = all_list \cup {t}
  /\ pc' = [pc EXCEPT ![current] = "create", ![t] = "run"]
  /\ arg' = [arg EXCEPT ![current] = t, ![t] = NULL]
  /\ time_ticks' = [time_ticks EXCEPT ![t] = 0]
  /\ UNCHANGED <<ready_list, current, thread_ticks, idle_thread, ticks,
                 already_slept, semas>>

\* The end of thread_create: add the new thread to the run queue.
thread_create_unblock ==
  /\ pc[current] = "create"
  /\ ThreadUnblock(arg[current])
  /\ Return
  /\ UNCHANGED <<all_list, idle_thread, clock, semas>>

thread_yield ==
  /\ Calling
  /\ YieldFrom(status, ready_list)
  /\ UNCHANGED <<all_list, idle_thread, clock, semas, pc, arg>>

\* Mutant: the thread stays on all_list.
thread_exit_StaysListed ==
  /\ Calling
  /\ Schedule([status EXCEPT ![current] = "DYING"], ready_list)
  /\ Goto(current, "none", NULL)
  /\ UNCHANGED <<all_list, idle_thread, clock, semas>>

thread_exit ==
  /\ Calling
  /\ all_list' = all_list \ {current}
  /\ Schedule([status EXCEPT ![current] = "DYING"], ready_list)
  /\ Goto(current, "none", NULL)
  /\ UNCHANGED <<idle_thread, clock, semas>>

\* sema_init on a semaphore that no thread is using.
sema_init(s, v) ==
  /\ Calling
  /\ \A t \in Thread : ~(pc[t] = "sema_down" /\ arg[t] = s)
  /\ value' = [value EXCEPT ![s] = v]
  /\ waiters' = [waiters EXCEPT ![s] = <<>>]
  /\ UNCHANGED <<sched, all_list, idle_thread, clock, pc, arg>>

sema_down(s) ==
  /\ Calling
  /\ SemaDown(s, "run")
  /\ UNCHANGED <<all_list, idle_thread, clock>>

\* A thread that sema_up has woken re-evaluates the loop condition.
sema_down_again ==
  /\ pc[current] = "sema_down"
  /\ SemaDown(arg[current], "run")
  /\ UNCHANGED <<all_list, idle_thread, clock>>

sema_try_down(s) ==
  /\ Calling
  /\ value[s] > 0
  /\ value' = [value EXCEPT ![s] = @ - 1]
  /\ UNCHANGED <<sched, all_list, idle_thread, clock, waiters, pc, arg>>

sema_up(s) ==
  /\ Calling
  /\ value[s] < MaxValue
  /\ SemaUp(s)
  /\ UNCHANGED <<all_list, idle_thread, clock, pc, arg>>

\* timer_sleep: yield until the deadline has passed.
timer_sleep(n) ==
  /\ Calling
  /\ ticks + n <= MaxTicks
  /\ Goto(current, "timer_sleep", ticks + n)
  /\ UNCHANGED <<sched, all_list, idle_thread, clock, semas>>

timer_sleep_loop ==
  /\ pc[current] = "timer_sleep"
  /\ \/ /\ ticks < arg[current]
        /\ YieldFrom(status, ready_list)
        /\ UNCHANGED <<pc, arg>>
     \/ /\ ticks >= arg[current]
        /\ Return
        /\ UNCHANGED sched
  /\ UNCHANGED <<all_list, idle_thread, clock, semas>>

(***************************************************************************)
(* thread_sleep: list_insert_ordered puts the thread after the sleepers    *)
(* that wake no later than it does.                                        *)
(***************************************************************************)
\* Mutant: list_push_back instead of list_insert_ordered.
InsertAfter_Back(list, k, t) == Append(list, t)

InsertAfter(list, k, t) ==
  [i \in 1..Len(list) + 1 |->
     IF i <= k THEN list[i] ELSE IF i = k + 1 THEN t ELSE list[i - 1]]

\* k is the number of leading sleepers that are due at time n.
LeadingDue(list, k, n) ==
  /\ \A i \in 1..k : time_ticks[list[i]] <= n
  /\ k < Len(list) => time_ticks[list[k + 1]] > n

thread_sleep(n) ==
  /\ Calling
  /\ ticks + n <= MaxTicks
  /\ time_ticks' = [time_ticks EXCEPT ![current] = ticks + n]
  /\ \E k \in 0..Len(already_slept) :
       /\ LeadingDue(already_slept, k, ticks + n)
       /\ already_slept' = InsertAfter(already_slept, k, current)
  /\ Goto(current, "thread_sleep", NULL)
  /\ ThreadBlock
  /\ UNCHANGED <<all_list, idle_thread, ticks, semas>>

thread_sleep_return ==
  /\ pc[current] = "thread_sleep"
  /\ Return
  /\ UNCHANGED <<sched, all_list, idle_thread, clock, semas>>

-----------------------------------------------------------------------------
(***************************************************************************)
(* External interrupts, which intr_handler runs to completion with         *)
(* interrupts off.  They end the idle thread's hlt.                        *)
(***************************************************************************)
EndHlt ==
  /\ pc' = [pc EXCEPT ![current] = IF @ = "idle_hlt" THEN "idle_block" ELSE @]
  /\ UNCHANGED arg

\* thread_tick and update_slept_threads: yield when the slice is used up, one
\* tick earlier when some thread sleeps.
YieldOnReturn ==
  \/ thread_ticks + 1 >= TIME_SLICE
  \/ already_slept # <<>> /\ thread_ticks + 2 >= TIME_SLICE

\* The statuses once the first k sleepers are unblocked.
StatusAfterWake(k) ==
  [t \in Thread |-> IF \E i \in 1..k : already_slept[i] = t
                    THEN "READY" ELSE status[t]]

\* Mutant: only the first of the removed sleepers is unblocked.
WokenSleepers_FirstOnly(k) == SubSeq(already_slept, 1, IF k = 0 THEN 0 ELSE 1)

\* The sleepers that update_slept_threads puts on the run queue.
WokenSleepers(k) == SubSeq(already_slept, 1, k)

timer_interrupt ==
  /\ InterruptsOn
  /\ ticks' = IF ticks < MaxTicks THEN ticks + 1 ELSE ticks
  /\ \E k \in 0..Len(already_slept) :
       LET rl == ready_list \o WokenSleepers(k)
       IN /\ LeadingDue(already_slept, k, ticks')
          /\ already_slept' = SubSeq(already_slept, k + 1, Len(already_slept))
          /\ \/ /\ YieldOnReturn
                /\ YieldFrom(StatusAfterWake(k), rl)
             \/ /\ ~YieldOnReturn
                /\ status' = StatusAfterWake(k)
                /\ ready_list' = rl
                /\ thread_ticks' = thread_ticks + 1
                /\ UNCHANGED current
  /\ EndHlt
  /\ UNCHANGED <<all_list, idle_thread, time_ticks, semas>>

\* A device's handler ups a semaphore that a thread waits on.
device_interrupt(s) ==
  /\ InterruptsOn
  /\ value[s] < MaxValue
  /\ SemaUp(s)
  /\ EndHlt
  /\ UNCHANGED <<all_list, idle_thread, clock>>

-----------------------------------------------------------------------------
\* The steps the running thread takes without a choice of its caller.
KernelStep ==
  \/ thread_start \/ main_wait
  \/ idle_begin \/ idle_up \/ idle_block
  \/ thread_create_unblock
  \/ sema_down_again
  \/ timer_sleep_loop
  \/ thread_sleep_return

ClientCall ==
  \/ \E t \in Thread : thread_create(t)
  \/ thread_yield
  \/ thread_exit
  \/ \E s \in ClientSema : \/ \E v \in 0..MaxValue : sema_init(s, v)
                           \/ sema_down(s)
                           \/ sema_try_down(s)
                           \/ sema_up(s)
  \/ \E n \in SleepTicks : timer_sleep(n) \/ thread_sleep(n)

Interrupt == timer_interrupt \/ \E s \in ClientSema : device_interrupt(s)

Next == KernelStep \/ ClientCall \/ Interrupt

(***************************************************************************)
(* A thread that gets the CPU again and again executes its code: a time    *)
(* slice lasts many instructions.  The interrupt controller holds a timer  *)
(* interrupt that arrives with interrupts off until they are on again.     *)
(* What a thread calls, and when, is up to it: ClientCall is not fair.     *)
(***************************************************************************)
Fairness ==
  /\ \A t \in Thread : SF_vars(current = t /\ KernelStep)
  /\ SF_vars(timer_interrupt)

Spec == Init /\ [][Next]_vars /\ Fairness

-----------------------------------------------------------------------------
(***************************************************************************)
(* Properties.                                                             *)
(***************************************************************************)

\* Every variable keeps its type.  current \in Thread is the assertion
\* is_thread (next) of schedule: the run queue is never empty before the idle
\* thread has published itself.
TypeOK ==
  /\ status \in [Thread -> Status]
  /\ ready_list \in Seq(Thread)
  /\ all_list \subseteq Thread
  /\ current \in Thread
  /\ idle_thread \in {NULL, Idle}
  /\ thread_ticks \in Nat
  /\ ticks \in Nat
  /\ already_slept \in Seq(Thread)
  /\ time_ticks \in [Thread -> Int]
  /\ value \in [Sema -> Nat]
  /\ waiters \in [Sema -> Seq(Thread)]
  /\ pc \in [Thread -> Label]
  /\ arg \in [Thread -> Sema \cup Thread \cup Int \cup {NULL}]

\* thread_current's assertion: exactly the thread whose stack is in use is in
\* state THREAD_RUNNING.
OneRunning == \A t \in Thread : status[t] = "RUNNING" <=> t = current

ReadyListOK ==
  /\ IsInjective(ready_list)
  /\ \A t \in Thread :
       t \in Range(ready_list) <=> status[t] = "READY" /\ t # idle_thread

SleepListOK ==
  /\ IsInjective(already_slept)
  /\ \A t \in Thread :
       t \in Range(already_slept) <=>
         status[t] = "BLOCKED" /\ pc[t] = "thread_sleep"

WaitersOK ==
  \A s \in Sema :
    /\ IsInjective(waiters[s])
    /\ \A t \in Thread :
         t \in Range(waiters[s]) <=>
           status[t] = "BLOCKED" /\ pc[t] = "sema_down" /\ arg[t] = s

\* thread.h on `elem': a thread is on at most one list, once; the ready ones
\* (but not the idle thread) are on the run queue, the blocked ones on the
\* list of what they wait for.  Hence thread_unblock's assertion holds for
\* whatever sema_up and update_slept_threads pop.
QueuesMatchStatus == ReadyListOK /\ SleepListOK /\ WaitersOK

\* A page freed by thread_schedule_tail is referenced by no kernel structure:
\* all_list holds exactly the threads that have not exited, and a thread under
\* construction belongs to one creator.
NoDanglingThread ==
  /\ all_list = {t \in Thread : status[t] \notin {"FREE", "DYING"}}
  /\ idle_thread # NULL => idle_thread \in all_list
  /\ \A t \in Thread :
       pc[t] = "create" =>
         /\ arg[t] \in all_list
         /\ status[arg[t]] = "BLOCKED"
         /\ \A u \in Thread : pc[u] = "create" /\ arg[u] = arg[t] => u = t

\* The threads that sema_up has woken but that have not yet tested the value
\* again.
Woken(s) == {t \in Thread : /\ pc[t] = "sema_down" /\ arg[t] = s
                            /\ status[t] # "BLOCKED"}

\* No wake-up is lost between sema_up and the woken thread's turn, whatever
\* other threads take from the semaphore in between: while threads wait, each
\* unit of the value has a woken thread that will test it.
NoLostWakeup ==
  \A s \in Sema : waiters[s] # <<>> => value[s] <= Cardinality(Woken(s))

\* Seen without the scheduler, the semaphores are those of Semaphores.
Semaphore == INSTANCE Semaphores WITH InitialValue <- 0..MaxValue,
                                      woken <- [s \in Sema |-> Woken(s)]

\* No interleaving of calls, thread switches, interrupts and thread exits makes
\* the semaphores do anything but first-in first-out blocking and waking.
ImplementsSemaphores == Semaphore!SemaSpec

\* update_slept_threads wakes nobody early, and leaves nobody who is due: this
\* is what already_slept must be sorted for.
WakeOnTime ==
  [][/\ \A t \in Range(already_slept) \ Range(already_slept') :
          time_ticks[t] <= ticks'
     /\ ticks' # ticks =>
          \A t \in Range(already_slept') : time_ticks[t] > ticks']_vars

\* Round robin starves nobody: a thread on the run queue gets the CPU.
ReadyRuns ==
  \A t \in Thread \ {Idle} : status[t] = "READY" ~> status[t] = "RUNNING"

\* A thread in thread_sleep or timer_sleep returns from it.
SleeperReturns ==
  \A t \in Thread : pc[t] \in {"thread_sleep", "timer_sleep"} ~> pc[t] = "run"

=============================================================================
