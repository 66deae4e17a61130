----------------------------- MODULE Semaphores -----------------------------
(***************************************************************************)
(* What the semaphores of threads/synch.c promise their users, with the    *)
(* scheduler left out: a thread that is not blocked may run at any time.   *)
(* Threads implements this specification; Synch builds locks and condition *)
(* variables on its operations.                                            *)
(*                                                                         *)
(* sema_down tests the value again after it has been woken, so between     *)
(* sema_up and that test the thread is in neither the queue nor past the   *)
(* semaphore: it is in `woken'.                                            *)
(***************************************************************************)
EXTENDS Integers, Sequences, FiniteSets, Functions

CONSTANTS
  Thread,
  Sema,
  InitialValue  \* the values semaphores are initialized to

ASSUME InitialValueAssumption == InitialValue \subseteq Nat

VARIABLES
  value,    \* struct semaphore.value
  waiters,  \* struct semaphore.waiters
  woken     \* the threads sema_up has woken, which have yet to test the value

semaphores == <<value, waiters, woken>>

Blocked(t) == \E s \in Sema : t \in Range(waiters[s])

\* A running thread is at most in one sema_down.
CanDown(t, s) == /\ ~Blocked(t)
                 /\ \A u \in Sema \ {s} : t \notin woken[u]

sema_block(t, s) ==
  /\ CanDown(t, s)
  /\ value[s] = 0
  /\ waiters' = [waiters EXCEPT ![s] = Append(@, t)]
  /\ woken' = [woken EXCEPT ![s] = @ \ {t}]
  /\ UNCHANGED value

sema_take(t, s) ==
  /\ CanDown(t, s)
  /\ value[s] > 0
  /\ value' = [value EXCEPT ![s] = @ - 1]
  /\ woken' = [woken EXCEPT ![s] = @ \ {t}]
  /\ UNCHANGED waiters

\* Mutant: nobody is woken.
sema_up_Silent(s) ==
  /\ value' = [value EXCEPT ![s] = @ + 1]
  /\ UNCHANGED <<waiters, woken>>

sema_up(s) ==
  /\ value' = [value EXCEPT ![s] = @ + 1]
  /\ \/ /\ waiters[s] = <<>>
        /\ UNCHANGED <<waiters, woken>>
     \/ /\ waiters[s] # <<>>
        /\ waiters' = [waiters EXCEPT ![s] = Tail(@)]
        /\ woken' = [woken EXCEPT ![s] = @ \cup {Head(waiters[s])}]

\* Only a semaphore that no thread is using may be initialized.
sema_init(s, v) ==
  /\ waiters[s] = <<>> /\ woken[s] = {}
  /\ value' = [value EXCEPT ![s] = v]
  /\ UNCHANGED <<waiters, woken>>

SemaInit ==
  /\ value = [s \in Sema |-> 0]
  /\ waiters = [s \in Sema |-> <<>>]
  /\ woken = [s \in Sema |-> {}]

SemaNext ==
  \E s \in Sema : \/ \E t \in Thread : sema_block(t, s) \/ sema_take(t, s)
                  \/ sema_up(s)
                  \/ \E v \in InitialValue : sema_init(s, v)

SemaSpec == SemaInit /\ [][SemaNext]_semaphores

-----------------------------------------------------------------------------
\* Threads in the queue of a semaphore are there once and have not been woken.
QueuedOnce ==
  \A s \in Sema : /\ IsInjective(waiters[s])
                  /\ Range(waiters[s]) \cap woken[s] = {}

\* While threads wait, each unit of the value has a woken thread to test it,
\* whatever other threads take from the semaphore in between.
NoLostWakeup ==
  \A s \in Sema : waiters[s] # <<>> => value[s] <= Cardinality(woken[s])

=============================================================================
