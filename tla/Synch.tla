------------------------------- MODULE Synch -------------------------------
(***************************************************************************)
(* The locks and condition variables of threads/synch.c, used by threads   *)
(* that may be preempted between any two of their steps, and allocate_tid  *)
(* of threads/thread.c, the lock's first user.                             *)
(*                                                                         *)
(* A lock is a semaphore and a holder, which is written apart from the     *)
(* semaphore: after sema_down has returned, before sema_up is called.  A   *)
(* thread in cond_wait waits on a semaphore of its own, on its stack; it   *)
(* is named by the thread.                                                 *)
(***************************************************************************)
EXTENDS Semaphores

CONSTANTS
  Lock, Cond,
  LockOf,     \* the lock each condition variable is used with
  TidLock,    \* tid_lock
  NULL,
  MaxTid      \* bound: the last tid allocated

ASSUME SynchAssumption ==
  /\ Sema = Lock \cup Thread /\ Lock \cap Thread = {}
  /\ TidLock \in Lock
  /\ LockOf \in [Cond -> Lock \ {TidLock}]
  /\ NULL \notin Thread \cup Lock \cup Cond
  /\ IsFiniteSet(Thread)
  /\ MaxTid \in Nat

VARIABLES
  holder,    \* struct lock.holder
  cwaiters,  \* struct condition.waiters: the threads whose semaphores it holds
  held,      \* the locks each thread has acquired and not yet released
  pc,        \* where each thread is
  lock,      \* the lock its lock_acquire or lock_release is about
  cond,      \* the condition variable its cond_wait or cond_broadcast is about
  signalled, \* the waiter its cond_signal has taken off the list
  next_tid,  \* allocate_tid's static next_tid
  tid,       \* allocate_tid's local tid
  tids       \* the tids of the threads created

locks == <<holder, held, lock>>
conds == <<cwaiters, cond, signalled>>
alloc == <<next_tid, tid, tids>>
vars == <<semaphores, locks, conds, alloc, pc>>

UserLock == Lock \ {TidLock}

Label == {"run", "acquire", "acquired", "releasing",
          "cond_release", "cond_block", "cond_reacquire",
          "signal", "broadcast", "broadcast_signal",
          "tid_read", "tid_write", "tid_release"}

Goto(t, label) == pc' = [pc EXCEPT ![t] = label]

\* One evaluation of sema_down's loop by t, which waits at one label and
\* continues at another.
SemaDown(t, s, waiting, then) ==
  \/ sema_block(t, s) /\ Goto(t, waiting)
  \/ sema_take(t, s) /\ Goto(t, then)

-----------------------------------------------------------------------------
(***************************************************************************)
(* Locks.                                                                  *)
(***************************************************************************)
lock_acquire(t, l) ==
  /\ pc[t] = "run"
  /\ holder[l] # t
  /\ lock' = [lock EXCEPT ![t] = l]
  /\ SemaDown(t, l, "acquire", "acquired")
  /\ UNCHANGED <<holder, held, conds, alloc>>

\* sema_down's loop in lock_acquire, after a wake-up; in cond_wait, the first
\* test too.
acquire_loop(t) ==
  /\ pc[t] \in {"acquire", "cond_reacquire"}
  /\ SemaDown(t, lock[t], "acquire", "acquired")
  /\ UNCHANGED <<locks, conds, alloc>>

set_holder(t) ==
  /\ pc[t] = "acquired"
  /\ holder' = [holder EXCEPT ![lock[t]] = t]
  /\ held' = [held EXCEPT ![t] = @ \cup {lock[t]}]
  /\ Goto(t, IF lock[t] = TidLock THEN "tid_read" ELSE "run")
  /\ UNCHANGED <<semaphores, lock, conds, alloc>>

\* Mutant: the result of sema_try_down is ignored.
lock_try_acquire_Always(t, l) ==
  /\ pc[t] = "run"
  /\ holder[l] # t
  /\ lock' = [lock EXCEPT ![t] = l]
  /\ Goto(t, "acquired")
  /\ UNCHANGED <<semaphores, holder, held, conds, alloc>>

\* A failed lock_try_acquire changes nothing.
lock_try_acquire(t, l) ==
  /\ pc[t] = "run"
  /\ holder[l] # t
  /\ sema_take(t, l)
  /\ lock' = [lock EXCEPT ![t] = l]
  /\ Goto(t, "acquired")
  /\ UNCHANGED <<holder, held, conds, alloc>>

\* The first half of lock_release.
ClearHolder(t, l) ==
  /\ holder[l] = t
  /\ holder' = [holder EXCEPT ![l] = NULL]
  /\ held' = [held EXCEPT ![t] = @ \ {l}]
  /\ lock' = [lock EXCEPT ![t] = l]
  /\ UNCHANGED semaphores

lock_release(t, l) ==
  /\ pc[t] = "run" /\ l \in held[t]
  /\ ClearHolder(t, l)
  /\ cond' = [cond EXCEPT ![t] = NULL]
  /\ Goto(t, "releasing")
  /\ UNCHANGED <<cwaiters, signalled, alloc>>

\* The second half, from which a cond_wait goes on to wait.
release_up(t) ==
  /\ pc[t] = "releasing"
  /\ sema_up(lock[t])
  /\ Goto(t, IF cond[t] # NULL THEN "cond_block" ELSE "run")
  /\ UNCHANGED <<locks, conds, alloc>>

-----------------------------------------------------------------------------
(***************************************************************************)
(* Condition variables.                                                    *)
(***************************************************************************)
Monitor(t, c) == pc[t] = "run" /\ LockOf[c] \in held[t]

cond_wait(t, c) ==
  /\ Monitor(t, c)
  /\ sema_init(t, 0)
  /\ cwaiters' = [cwaiters EXCEPT ![c] = Append(@, t)]
  /\ cond' = [cond EXCEPT ![t] = c]
  /\ Goto(t, "cond_release")
  /\ UNCHANGED <<signalled, locks, alloc>>

cond_wait_release(t) ==
  /\ pc[t] = "cond_release"
  /\ ClearHolder(t, LockOf[cond[t]])
  /\ Goto(t, "releasing")
  /\ UNCHANGED <<conds, alloc>>

cond_wait_block(t) ==
  /\ pc[t] = "cond_block"
  /\ SemaDown(t, t, "cond_block", "cond_reacquire")
  /\ UNCHANGED <<locks, conds, alloc>>

\* cond_signal takes the first waiter off the list; a broadcast repeats that
\* until the list is empty.
PopWaiter(t, c) ==
  /\ cwaiters[c] # <<>>
  /\ signalled' = [signalled EXCEPT ![t] = Head(cwaiters[c])]
  /\ cwaiters' = [cwaiters EXCEPT ![c] = Tail(@)]

cond_signal(t, c) ==
  /\ Monitor(t, c)
  /\ PopWaiter(t, c)
  /\ Goto(t, "signal")
  /\ UNCHANGED <<semaphores, locks, cond, alloc>>

cond_broadcast(t, c) ==
  /\ Monitor(t, c)
  /\ cond' = [cond EXCEPT ![t] = c]
  /\ Goto(t, "broadcast")
  /\ UNCHANGED <<semaphores, locks, cwaiters, signalled, alloc>>

broadcast_loop(t) ==
  /\ pc[t] = "broadcast"
  /\ \/ PopWaiter(t, cond[t]) /\ Goto(t, "broadcast_signal")
     \/ /\ cwaiters[cond[t]] = <<>>
        /\ Goto(t, "run")
        /\ UNCHANGED <<cwaiters, signalled>>
  /\ UNCHANGED <<semaphores, locks, cond, alloc>>

\* Mutant: the waiter's semaphore is upped only if it already waits on it.
signal_up_IfWaiting(t) ==
  /\ pc[t] \in {"signal", "broadcast_signal"}
  /\ IF waiters[signalled[t]] = <<>> THEN UNCHANGED semaphores ELSE sema_up(signalled[t])
  /\ signalled' = [signalled EXCEPT ![t] = NULL]
  /\ Goto(t, IF pc[t] = "signal" THEN "run" ELSE "broadcast")
  /\ UNCHANGED <<locks, cwaiters, cond, alloc>>

signal_up(t) ==
  /\ pc[t] \in {"signal", "broadcast_signal"}
  /\ sema_up(signalled[t])
  /\ signalled' = [signalled EXCEPT ![t] = NULL]
  /\ Goto(t, IF pc[t] = "signal" THEN "run" ELSE "broadcast")
  /\ UNCHANGED <<locks, cwaiters, cond, alloc>>

-----------------------------------------------------------------------------
(***************************************************************************)
(* allocate_tid, called by thread_create.  next_tid++ is a read and a      *)
(* write.                                                                  *)
(***************************************************************************)
allocate_tid(t) ==
  /\ pc[t] = "run" /\ next_tid <= MaxTid
  /\ lock' = [lock EXCEPT ![t] = TidLock]
  /\ SemaDown(t, TidLock, "acquire", "acquired")
  /\ UNCHANGED <<holder, held, conds, alloc>>

tid_read(t) ==
  /\ pc[t] = "tid_read"
  /\ tid' = [tid EXCEPT ![t] = next_tid]
  /\ Goto(t, "tid_write")
  /\ UNCHANGED <<semaphores, locks, conds, next_tid, tids>>

tid_write(t) ==
  /\ pc[t] = "tid_write"
  /\ next_tid' = tid[t] + 1
  /\ tids' = Append(tids, tid[t])
  /\ Goto(t, "tid_release")
  /\ UNCHANGED <<semaphores, locks, conds, tid>>

tid_release(t) ==
  /\ pc[t] = "tid_release"
  /\ ClearHolder(t, TidLock)
  /\ cond' = [cond EXCEPT ![t] = NULL]
  /\ Goto(t, "releasing")
  /\ UNCHANGED <<cwaiters, signalled, alloc>>

-----------------------------------------------------------------------------
\* After lock_init and cond_init.
Init ==
  /\ value = [s \in Sema |-> IF s \in Lock THEN 1 ELSE 0]
  /\ waiters = [s \in Sema |-> <<>>]
  /\ woken = [s \in Sema |-> {}]
  /\ holder = [l \in Lock |-> NULL]
  /\ cwaiters = [c \in Cond |-> <<>>]
  /\ held = [t \in Thread |-> {}]
  /\ pc = [t \in Thread |-> "run"]
  /\ lock = [t \in Thread |-> NULL]
  /\ cond = [t \in Thread |-> NULL]
  /\ signalled = [t \in Thread |-> NULL]
  /\ next_tid = 1
  /\ tid = [t \in Thread |-> 0]
  /\ tids = <<>>

\* What a thread inside an operation does next.
Step(t) ==
  \/ acquire_loop(t) \/ set_holder(t) \/ release_up(t)
  \/ cond_wait_release(t) \/ cond_wait_block(t)
  \/ broadcast_loop(t) \/ signal_up(t)
  \/ tid_read(t) \/ tid_write(t) \/ tid_release(t)

Call(t) ==
  \/ \E l \in UserLock : \/ lock_acquire(t, l) \/ lock_try_acquire(t, l)
                         \/ lock_release(t, l)
  \/ \E c \in Cond : cond_wait(t, c) \/ cond_signal(t, c) \/ cond_broadcast(t, c)
  \/ allocate_tid(t)

Next == \E t \in Thread : Step(t) \/ Call(t)

\* Every ready thread gets the CPU (ReadyRuns in Threads) and its operation
\* goes on.  Nobody has to call anything.
Fairness == \A t \in Thread : WF_vars(Step(t))

Spec == Init /\ [][Next]_vars /\ Fairness

-----------------------------------------------------------------------------
\* The threads that are past lock_acquire's sema_down on l and before
\* lock_release's sema_up.
Owners(l) == {t \in Thread : \/ l \in held[t]
                             \/ pc[t] \in {"acquired", "releasing"} /\ lock[t] = l}

\* A lock is free or owned by one thread, whatever threads run between the
\* steps of lock_acquire, lock_release and cond_wait.
Exclusive(l) == \/ value[l] = 1 /\ Owners(l) = {}
                \/ value[l] = 0 /\ \E t \in Thread : Owners(l) = {t}

MutualExclusion == \A l \in Lock : Exclusive(l)

\* The threads in cond_wait that have not yet got their signal.
Waiting(t) == \/ pc[t] \in {"cond_release", "cond_block"}
              \/ pc[t] = "releasing" /\ cond[t] # NULL

Listed(t) == {c \in Cond : t \in Range(cwaiters[c])}
Signallers(t) == {u \in Thread : signalled[u] = t}

\* A thread in cond_wait, wherever it has been preempted, is in exactly one of
\* three places: on the condition's list, in the hands of a signaller, or with
\* its semaphore up.  Nobody else is in any of them: cond_signal never ups a
\* semaphore whose stack frame is gone.
OneSignal(t) ==
  IF Waiting(t)
  THEN \/ value[t] = 0 /\ Signallers(t) = {} /\ \E c \in Cond : Listed(t) = {c}
       \/ value[t] = 0 /\ Listed(t) = {} /\ \E u \in Thread : Signallers(t) = {u}
       \/ value[t] = 1 /\ Listed(t) = {} /\ Signallers(t) = {}
  ELSE value[t] = 0 /\ Listed(t) = {} /\ Signallers(t) = {}

NoLostSignal == \A t \in Thread : OneSignal(t)

Broadcasting == {"broadcast", "broadcast_signal"}

\* A lock does not stay free while threads wait for it.
LockProgress ==
  \A l \in Lock : value[l] > 0 /\ waiters[l] # <<>> ~> value[l] = 0

=============================================================================
