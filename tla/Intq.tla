-------------------------------- MODULE Intq --------------------------------
(***************************************************************************)
(* The interrupt queue of devices/intq.c: a circular buffer shared between *)
(* threads and interrupt handlers.                                         *)
(*                                                                         *)
(* Its functions run with interrupts off, so a call is atomic up to the    *)
(* next point where it blocks: in lock_acquire, on the queue's lock, or in *)
(* wait, as the one thread recorded in not_empty or not_full.  A handler   *)
(* runs between such steps and never blocks.  Any thread that is not       *)
(* blocked may run next.                                                   *)
(***************************************************************************)
EXTENDS Integers, Sequences, FiniteSets, Functions

CONSTANTS
  Reader, Writer,  \* the threads that call intq_getc and intq_putc
  HandlerGets,     \* does an interrupt handler call intq_getc?
  HandlerPuts,     \* does an interrupt handler call intq_putc?
  Byte,
  INTQ_BUFSIZE,
  None

Client == Reader \cup Writer

ASSUME IntqAssumption ==
  /\ INTQ_BUFSIZE \in Nat /\ INTQ_BUFSIZE > 1
  /\ Reader \cap Writer = {} /\ IsFiniteSet(Client)
  /\ None \notin Client \cup Byte
  /\ HandlerGets \in BOOLEAN /\ HandlerPuts \in BOOLEAN

VARIABLES
  buf, head, tail,      \* the circular buffer
  not_empty, not_full,  \* the thread that waits for either condition
  lock_holder,          \* the lock's holder
  lock_waiters,         \* the threads blocked in lock_acquire
  state,                \* what each thread does
  byte,                 \* the byte each writer is to put
  failed                \* has an assertion of wait failed?

ring == <<buf, head, tail>>
intqVars == <<ring, not_empty, not_full, lock_holder, lock_waiters, state, byte, failed>>

\* run: outside; call: about to test the queue; lock: blocked in lock_acquire,
\* or woken and about to test the lock; wait: blocked in wait; woken: unblocked
\* in wait.
State == {"run", "call", "lock", "wait", "woken"}

Position == 0..INTQ_BUFSIZE - 1

next(pos) == (pos + 1) % INTQ_BUFSIZE

intq_empty == head = tail

\* Mutant: the queue is never found full.
intq_full_Never == FALSE

intq_full == next(head) = tail

\* The condition for which t's call sleeps.
Stuck(t) == IF t \in Reader THEN intq_empty ELSE intq_full

-----------------------------------------------------------------------------
(***************************************************************************)
(* signal, on behalf of a caller that has just put or taken a byte.        *)
(***************************************************************************)
Unblock(waiter, st) == IF waiter = None THEN st ELSE [st EXCEPT ![waiter] = "woken"]

PutByte(b, st) ==
  /\ buf' = [buf EXCEPT ![head] = b]
  /\ head' = next(head)
  /\ state' = Unblock(not_empty, st)
  /\ not_empty' = None
  /\ UNCHANGED <<tail, not_full>>

TakeByte(st) ==
  /\ tail' = next(tail)
  /\ state' = Unblock(not_full, st)
  /\ not_full' = None
  /\ UNCHANGED <<buf, head, not_empty>>

\* The end of intq_getc or intq_putc.
Complete(t) ==
  LET st == [state EXCEPT ![t] = "run"]
  IN IF t \in Reader THEN TakeByte(st) ELSE PutByte(byte[t], st)

(***************************************************************************)
(* wait, called with the lock held.  Its assertion is that the condition   *)
(* the caller waits for is still false.                                    *)
(***************************************************************************)
wait(t) ==
  \/ /\ Stuck(t)
     /\ not_empty' = IF t \in Reader THEN t ELSE not_empty
     /\ not_full' = IF t \in Writer THEN t ELSE not_full
     /\ state' = [state EXCEPT ![t] = "wait"]
     /\ UNCHANGED failed
  \/ /\ ~Stuck(t)
     /\ failed' = TRUE
     /\ UNCHANGED <<not_empty, not_full, state>>

-----------------------------------------------------------------------------
Running(t) == ~failed /\ t \notin Range(lock_waiters)

call(t) ==
  /\ ~failed /\ state[t] = "run"
  /\ state' = [state EXCEPT ![t] = "call"]
  /\ \E b \in Byte : byte' = [byte EXCEPT ![t] = IF t \in Writer THEN b ELSE @]
  /\ UNCHANGED <<ring, not_empty, not_full, lock_holder, lock_waiters, failed>>

\* Mutant: a second thread does not wait for the lock.
AcquireAndWait_Unlocked(t, h, q) ==
  /\ lock_holder' = t
  /\ lock_waiters' = q
  /\ wait(t)
  /\ UNCHANGED <<ring, byte>>

\* lock_acquire and wait, when the holder is h and the lock's queue q.
AcquireAndWait(t, h, q) ==
  /\ \/ /\ h = None
        /\ lock_holder' = t
        /\ lock_waiters' = q
        /\ wait(t)
     \/ /\ h # None
        /\ lock_waiters' = Append(q, t)
        /\ state' = [state EXCEPT ![t] = "lock"]
        /\ UNCHANGED <<lock_holder, not_empty, not_full, failed>>
  /\ UNCHANGED <<ring, byte>>

\* The loop condition of intq_getc or intq_putc, and what follows it.
test_queue(t) ==
  /\ Running(t) /\ state[t] = "call"
  /\ \/ /\ Stuck(t)
        /\ AcquireAndWait(t, lock_holder, lock_waiters)
     \/ /\ ~Stuck(t)
        /\ Complete(t)
        /\ UNCHANGED <<lock_holder, lock_waiters, byte, failed>>

\* A thread that lock_release has woken tests the lock again.  It does not
\* test the queue again.
lock_again(t) ==
  /\ Running(t) /\ state[t] = "lock"
  /\ AcquireAndWait(t, lock_holder, lock_waiters)

\* wait returns; lock_release wakes the next thread; the loop goes round.
wait_return(t) ==
  /\ Running(t) /\ state[t] = "woken"
  /\ LET q == IF lock_waiters = <<>> THEN lock_waiters ELSE Tail(lock_waiters)
     IN \/ /\ Stuck(t)
           /\ AcquireAndWait(t, None, q)
        \/ /\ ~Stuck(t)
           /\ lock_holder' = None
           /\ lock_waiters' = q
           /\ Complete(t)
           /\ UNCHANGED <<byte, failed>>

\* A handler puts a byte only when the queue is not full, and takes one only
\* when it is not empty.
handler_putc ==
  /\ ~failed /\ HandlerPuts /\ ~intq_full
  /\ \E b \in Byte : PutByte(b, state)
  /\ UNCHANGED <<lock_holder, lock_waiters, byte, failed>>

handler_getc ==
  /\ ~failed /\ HandlerGets /\ ~intq_empty
  /\ TakeByte(state)
  /\ UNCHANGED <<lock_holder, lock_waiters, byte, failed>>

\* intq_init.
InitIntq ==
  /\ buf = [i \in Position |-> None]
  /\ head = 0 /\ tail = 0
  /\ not_empty = None /\ not_full = None
  /\ lock_holder = None /\ lock_waiters = <<>>
  /\ state = [t \in Client |-> "run"]
  /\ byte = [t \in Client |-> None]
  /\ failed = FALSE

IntqStep(t) == test_queue(t) \/ lock_again(t) \/ wait_return(t)

NextIntq == \/ \E t \in Client : call(t) \/ IntqStep(t)
        \/ handler_putc \/ handler_getc

\* Threads that can run do, by round robin.  The devices' handlers are not
\* assumed to run.
IntqFairness == \A t \in Client : WF_intqVars(IntqStep(t))

IntqSpec == InitIntq /\ [][NextIntq]_intqVars /\ IntqFairness

-----------------------------------------------------------------------------
Length == (head - tail) % INTQ_BUFSIZE

Queue == INSTANCE ByteQueue WITH
           Capacity <- INTQ_BUFSIZE - 1,
           contents <- [i \in 1..Length |-> buf[(tail + i - 1) % INTQ_BUFSIZE]]

\* The circular buffer is a first-in first-out queue, across its wrap-around,
\* whoever puts and takes, and holds INTQ_BUFSIZE - 1 bytes.
ImplementsQueue == Queue!QueueSpec

\* intq.h on `lock': "Only one thread may wait at once."  A thread that sleeps
\* in wait is the one not_empty or not_full names, so the next signal reaches
\* it: no second thread overwrites the record.
NoForgottenWaiter ==
  \A t \in Client : state[t] = "wait" => t \in {not_empty, not_full} /\ lock_holder = t

=============================================================================
