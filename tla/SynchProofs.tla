---------------------------- MODULE SynchProofs ----------------------------
(***************************************************************************)
(* Proofs about how threads and interrupt handlers take turns: Intq, the   *)
(* queue between them, Serial, which transmits what is printed through     *)
(* such a queue, Console, where the threads that print take turns, and     *)
(* Synch, the locks and condition variables.  They hold for any number of  *)
(* threads, locks, condition variables and characters, any size of the     *)
(* queues, any depth of nested calls and any bound on the tids.            *)
(***************************************************************************)
EXTENDS Synch, Intq, Serial, Console, ListLemmas

-----------------------------------------------------------------------------
(***************************************************************************)
(* Intq: no thread that waits is forgotten, and the circular buffer        *)
(* implements the queue of ByteQueue.                                      *)
(***************************************************************************)
IntqTypeOK ==
  /\ buf \in [Position -> Byte \cup {None}]
  /\ head \in Position /\ tail \in Position
  /\ not_empty \in Reader \cup {None}
  /\ not_full \in Writer \cup {None}
  /\ lock_holder \in Client \cup {None}
  /\ lock_waiters \in Seq(Client)
  /\ state \in [Client -> State]
  /\ byte \in [Client -> Byte \cup {None}]
  /\ failed \in BOOLEAN

\* A thread in wait holds the lock and is the one recorded; a writer in
\* intq_putc has a byte to put.
Sleeper(t) ==
  /\ state[t] \in {"wait", "woken"} => lock_holder = t
  /\ state[t] = "wait" => (IF t \in Reader THEN not_empty = t ELSE not_full = t)
  /\ t \in Writer /\ state[t] # "run" => byte[t] \in Byte

\* The thread recorded in not_empty or not_full is asleep.
WaiterRecorded ==
  /\ not_empty # None => state[not_empty] = "wait"
  /\ not_full # None => state[not_full] = "wait"

IntqInv ==
  /\ IntqTypeOK
  /\ \A t \in Client : Sleeper(t)
  /\ WaiterRecorded

-----------------------------------------------------------------------------
\* Positions go round the buffer.
LEMMA ModInRange ==
  ASSUME NEW n \in Nat, n > 0, NEW a \in Int, 0 <= a, a < n
  PROVE  a % n = a
  OBVIOUS

\* A position past the end of the buffer comes back at its start.
LEMMA ModWraps ==
  ASSUME NEW n \in Nat, n > 0, NEW a \in Int, n <= a, a < 2 * n
  PROVE  a % n = a - n
  OBVIOUS

\* A position before the start of the buffer comes back at its end.
LEMMA ModNegative ==
  ASSUME NEW n \in Nat, n > 0, NEW a \in Int, -n <= a, a < 0
  PROVE  a % n = a + n
  OBVIOUS

\* next moves a position to the one after it, and from the last to the first.
LEMMA NextPosition ==
  ASSUME NEW p \in Position
  PROVE  /\ next(p) \in Position
         /\ next(p) = IF p = INTQ_BUFSIZE - 1 THEN 0 ELSE p + 1
  <1>1. p \in Int /\ 0 <= p /\ p < INTQ_BUFSIZE /\ INTQ_BUFSIZE \in Nat /\ INTQ_BUFSIZE > 1
    BY IntqAssumption DEF Position
  <1>2. CASE p = INTQ_BUFSIZE - 1
    BY <1>1, <1>2, ModWraps DEF next, Position
  <1>3. CASE p # INTQ_BUFSIZE - 1
    BY <1>1, <1>3, ModInRange DEF next, Position
  <1> QED BY <1>2, <1>3, Zenon

\* intq_init satisfies the invariant.
LEMMA IntqInitInv == InitIntq => IntqInv
  <1> SUFFICES ASSUME InitIntq PROVE IntqInv
    BY Zenon
  <1>1. buf \in [Position -> Byte \cup {None}]
    BY Zenon DEF InitIntq
  <1>2. 0 \in Position
    BY IntqAssumption DEF Position
  <1>3. IntqTypeOK
    <2>1. state \in [Client -> State] /\ byte \in [Client -> Byte \cup {None}]
      BY Zenon DEF InitIntq, State
    <2>2. lock_waiters \in Seq(Client)
      BY DEF InitIntq
    <2> QED BY <1>1, <1>2, <2>1, <2>2, Zenon DEF InitIntq, IntqTypeOK
  <1>4. (\A t \in Client : Sleeper(t)) /\ WaiterRecorded
    BY Zenon DEF InitIntq, Sleeper, WaiterRecorded
  <1> QED BY <1>3, <1>4, Zenon DEF IntqInv

\* A byte is put, and the reader that waits is woken.
LEMMA PutInv ==
  ASSUME IntqInv, NEW b \in Byte, NEW st \in [Client -> State], PutByte(b, st),
         \A u \in Client : st[u] = state[u] \/ (st[u] = "run" /\ state[u] # "wait"),
         UNCHANGED <<byte, failed>>, lock_waiters' \in Seq(Client),
         lock_holder' = lock_holder \/ (lock_holder' = None /\ \A u \in Client : st[u] \notin {"wait", "woken"})
  PROVE  IntqInv'
  <1> USE IntqAssumption DEF Client
  <1>1. /\ buf' = [buf EXCEPT ![head] = b] /\ head' = next(head)
        /\ state' = Unblock(not_empty, st) /\ not_empty' = None
        /\ UNCHANGED <<tail, not_full>> /\ IntqTypeOK
    BY Zenon DEF PutByte, IntqInv
  <1>2. not_empty # None => not_empty \in Reader /\ state[not_empty] = "wait" /\ lock_holder = not_empty
    BY <1>1, Zenon DEF IntqInv, IntqTypeOK, WaiterRecorded, Sleeper
  <1>3. /\ state' \in [Client -> State]
        /\ \A u \in Client : state'[u] = IF u = not_empty THEN "woken" ELSE st[u]
    <2>1. CASE not_empty = None
      BY <1>1, <2>1, Zenon DEF Unblock
    <2>2. CASE not_empty # None
      BY <1>1, <1>2, <2>2, Zenon DEF Unblock, State
    <2> QED BY <2>1, <2>2, Zenon
  <1>4. IntqTypeOK'
    <2>1. buf' \in [Position -> Byte \cup {None}] /\ head' \in Position
      BY <1>1, NextPosition, Zenon DEF IntqTypeOK
    <2> QED BY <1>1, <1>3, <2>1, Zenon DEF IntqTypeOK
  <1>5. ASSUME NEW u \in Client PROVE Sleeper(u)'
    <2>1. CASE u = not_empty
      <3>1. st[u] = "wait"
        BY <1>2, <2>1, Zenon
      <3> QED BY <1>2, <1>3, <2>1, <3>1, Zenon DEF Sleeper, IntqTypeOK
    <2>2. CASE u # not_empty
      <3>1. state'[u] = st[u]
        BY <1>3, <2>2, Zenon
      <3>2. u \in Reader => state[u] # "wait"
        BY <2>2, Zenon DEF IntqInv, Sleeper
      <3> QED BY <1>1, <3>1, <3>2, Zenon DEF IntqInv, Sleeper
    <2> QED BY <2>1, <2>2, Zenon
  <1>6. WaiterRecorded'
    <2>1. not_full # None => not_full \in Writer /\ state[not_full] = "wait"
      BY <1>1, Zenon DEF IntqInv, WaiterRecorded, IntqTypeOK
    <2> QED BY <1>1, <1>2, <1>3, <2>1, Zenon DEF WaiterRecorded
  <1> QED BY <1>4, <1>5, <1>6, Zenon DEF IntqInv

\* A byte is taken, and the writer that waits is woken.
LEMMA TakeInv ==
  ASSUME IntqInv, NEW st \in [Client -> State], TakeByte(st),
         \A u \in Client : st[u] = state[u] \/ (st[u] = "run" /\ state[u] # "wait"),
         UNCHANGED <<byte, failed>>, lock_waiters' \in Seq(Client),
         lock_holder' = lock_holder \/ (lock_holder' = None /\ \A u \in Client : st[u] \notin {"wait", "woken"})
  PROVE  IntqInv'
  <1> USE IntqAssumption DEF Client
  <1>1. /\ tail' = next(tail) /\ state' = Unblock(not_full, st) /\ not_full' = None
        /\ UNCHANGED <<buf, head, not_empty>> /\ IntqTypeOK
    BY Zenon DEF TakeByte, IntqInv
  <1>2. not_full # None => not_full \in Writer /\ state[not_full] = "wait" /\ lock_holder = not_full
    BY <1>1, Zenon DEF IntqInv, IntqTypeOK, WaiterRecorded, Sleeper
  <1>3. /\ state' \in [Client -> State]
        /\ \A u \in Client : state'[u] = IF u = not_full THEN "woken" ELSE st[u]
    <2>1. CASE not_full = None
      BY <1>1, <2>1, Zenon DEF Unblock
    <2>2. CASE not_full # None
      BY <1>1, <1>2, <2>2, Zenon DEF Unblock, State
    <2> QED BY <2>1, <2>2, Zenon
  <1>4. IntqTypeOK'
    <2>1. tail' \in Position
      BY <1>1, NextPosition, Zenon DEF IntqTypeOK
    <2> QED BY <1>1, <1>3, <2>1, Zenon DEF IntqTypeOK
  <1>5. ASSUME NEW u \in Client PROVE Sleeper(u)'
    <2>1. CASE u = not_full
      <3>1. st[u] = "wait"
        BY <1>2, <2>1, Zenon
      <3> QED BY <1>2, <1>3, <2>1, <3>1, Zenon DEF IntqInv, Sleeper
    <2>2. CASE u # not_full
      <3>1. state'[u] = st[u]
        BY <1>3, <2>2, Zenon
      <3>2. u \notin Reader => state[u] # "wait"
        BY <2>2, Zenon DEF IntqInv, Sleeper
      <3> QED BY <1>1, <3>1, <3>2, Zenon DEF IntqInv, Sleeper
    <2> QED BY <2>1, <2>2, Zenon
  <1>6. WaiterRecorded'
    <2>1. not_empty # None => not_empty \in Reader /\ state[not_empty] = "wait"
      BY <1>1, Zenon DEF IntqInv, WaiterRecorded, IntqTypeOK
    <2> QED BY <1>1, <1>2, <1>3, <2>1, Zenon DEF WaiterRecorded
  <1> QED BY <1>4, <1>5, <1>6, Zenon DEF IntqInv

\* lock_acquire and wait: either the lock is free and the thread sleeps as the
\* one recorded, or it queues for the lock.
LEMMA AcquireAndWaitInv ==
  ASSUME IntqInv, NEW t \in Client, state[t] \in {"call", "lock", "woken"},
         NEW h, NEW q \in Seq(Client), AcquireAndWait(t, h, q),
         h = lock_holder \/ (h = None /\ lock_holder = t)
  PROVE  IntqInv'
  <1> USE IntqAssumption
  <1>1. UNCHANGED <<buf, head, tail, byte>> /\ IntqTypeOK
    BY Zenon DEF AcquireAndWait, ring, IntqInv
  <1>2. Append(q, t) \in Seq(Client)
    OBVIOUS
  <1>3. not_empty # t /\ not_full # t
    BY <1>1, Zenon DEF IntqInv, WaiterRecorded, IntqTypeOK
  <1>4. CASE h = None /\ lock_holder' = t /\ lock_waiters' = q /\ wait(t)
    <2>1. \A u \in Client \ {t} : state[u] \notin {"wait", "woken"}
      BY <1>4, Zenon DEF IntqInv, Sleeper
    <2>2. not_empty = None /\ not_full = None
      <3>1. not_empty # None => not_empty \in Client \ {t} /\ state[not_empty] = "wait"
        BY <1>1, <1>3, Zenon DEF IntqInv, IntqTypeOK, WaiterRecorded, Client
      <3>2. not_full # None => not_full \in Client \ {t} /\ state[not_full] = "wait"
        BY <1>1, <1>3, Zenon DEF IntqInv, IntqTypeOK, WaiterRecorded, Client
      <3> QED BY <2>1, <3>1, <3>2, Zenon
    <2>3. CASE /\ not_empty' = IF t \in Reader THEN t ELSE not_empty
               /\ not_full' = IF t \in Writer THEN t ELSE not_full
               /\ state' = [state EXCEPT ![t] = "wait"]
               /\ UNCHANGED failed
      <3>1. state' \in [Client -> State]
        BY <1>1, <2>3, Zenon DEF IntqTypeOK, State
      <3>2. state'[t] = "wait" /\ \A u \in Client \ {t} : state'[u] = state[u]
        BY <1>1, <2>3, Zenon DEF IntqTypeOK
      <3>3. t \in Reader <=> t \notin Writer
        BY Zenon DEF Client
      <3>4. IntqTypeOK'
        BY <1>1, <1>4, <2>3, <3>1, Zenon DEF IntqTypeOK
      <3>5. WaiterRecorded'
        BY <2>2, <2>3, <3>2, Zenon DEF WaiterRecorded
      <3>6. ASSUME NEW u \in Client PROVE Sleeper(u)'
        <4>1. CASE u = t
          BY <1>1, <1>4, <2>3, <3>2, <3>3, <4>1, Zenon DEF IntqInv, Sleeper
        <4>2. CASE u # t
          BY <1>1, <2>1, <3>2, <4>2, Zenon DEF IntqInv, Sleeper
        <4> QED BY <4>1, <4>2, Zenon
      <3> QED BY <3>4, <3>5, <3>6, Zenon DEF IntqInv
    <2>4. CASE failed' = TRUE /\ UNCHANGED <<not_empty, not_full, state>>
      <3>1. IntqTypeOK'
        BY <1>1, <1>4, <2>4, Zenon DEF IntqTypeOK
      <3>2. WaiterRecorded'
        BY <2>4, Zenon DEF IntqInv, WaiterRecorded
      <3>3. \A u \in Client : Sleeper(u)'
        BY <1>1, <1>4, <2>1, <2>4, Zenon DEF IntqInv, Sleeper
      <3> QED BY <3>1, <3>2, <3>3, Zenon DEF IntqInv
    <2> QED BY <1>4, <2>3, <2>4, Zenon DEF wait
  <1>5. CASE /\ lock_waiters' = Append(q, t) /\ state' = [state EXCEPT ![t] = "lock"]
             /\ UNCHANGED <<lock_holder, not_empty, not_full, failed>>
    <2>1. state' \in [Client -> State]
      BY <1>1, <1>5, Zenon DEF IntqTypeOK, State
    <2>2. state'[t] = "lock" /\ \A u \in Client \ {t} : state'[u] = state[u]
      BY <1>1, <1>5, Zenon DEF IntqTypeOK
    <2>3. IntqTypeOK'
      BY <1>1, <1>2, <1>5, <2>1, Zenon DEF IntqTypeOK
    <2>4. WaiterRecorded'
      BY <1>1, <1>3, <1>5, <2>2, Zenon DEF IntqInv, WaiterRecorded, IntqTypeOK, Client
    <2>5. ASSUME NEW u \in Client PROVE Sleeper(u)'
      BY <1>1, <1>5, <2>2, Zenon DEF IntqInv, Sleeper
    <2> QED BY <2>3, <2>4, <2>5, Zenon DEF IntqInv
  <1> QED BY <1>4, <1>5, Zenon DEF AcquireAndWait

\* The end of intq_getc or intq_putc.
LEMMA CompleteInv ==
  ASSUME IntqInv, NEW t \in Client, state[t] \in {"call", "woken"}, Complete(t),
         UNCHANGED <<byte, failed>>, lock_waiters' \in Seq(Client),
         lock_holder' = lock_holder \/ (lock_holder' = None /\ state[t] = "woken")
  PROVE  IntqInv'
  <1>1. PICK st : st = [state EXCEPT ![t] = "run"]
    BY Zenon
  <1>2. st \in [Client -> State] /\ st[t] = "run" /\ \A u \in Client \ {t} : st[u] = state[u]
    BY <1>1, Zenon DEF IntqInv, IntqTypeOK, State
  <1>3. \A u \in Client : st[u] = state[u] \/ (st[u] = "run" /\ state[u] # "wait")
    BY <1>2, Zenon
  <1>4. lock_holder' = lock_holder \/ (lock_holder' = None /\ \A u \in Client : st[u] \notin {"wait", "woken"})
    BY <1>2, Zenon DEF IntqInv, Sleeper
  <1>5. CASE t \in Reader
    <2>1. TakeByte(st)
      BY <1>1, <1>5, Zenon DEF Complete
    <2> QED BY <1>2, <1>3, <1>4, <2>1, TakeInv, Zenon
  <1>6. CASE t \notin Reader
    <2>1. PutByte(byte[t], st)
      BY <1>1, <1>6, Zenon DEF Complete
    <2>2. byte[t] \in Byte
      BY <1>6, Zenon DEF IntqInv, Sleeper, Client
    <2> QED BY <1>2, <1>3, <1>4, <2>1, <2>2, PutInv, Zenon
  <1> QED BY <1>5, <1>6, Zenon

\* Every step preserves the invariant.
LEMMA IntqNextInv == IntqInv /\ [NextIntq]_intqVars => IntqInv'
  <1> SUFFICES ASSUME IntqInv, [NextIntq]_intqVars PROVE IntqInv'
    BY Zenon
  <1>1. IntqTypeOK
    BY Zenon DEF IntqInv
  <1>2. CASE UNCHANGED intqVars
    BY <1>2, Zenon DEF intqVars, ring, IntqInv, IntqTypeOK, Sleeper, WaiterRecorded
  <1>3. ASSUME NEW t \in Client, call(t) PROVE IntqInv'
    <2>1. /\ state' = [state EXCEPT ![t] = "call"] /\ state[t] = "run"
          /\ UNCHANGED <<buf, head, tail, not_empty, not_full, lock_holder, lock_waiters, failed>>
      BY <1>3, Zenon DEF call, ring
    <2>2. PICK b \in Byte : byte' = [byte EXCEPT ![t] = IF t \in Writer THEN b ELSE @]
      BY <1>3, Zenon DEF call
    <2>3. /\ state' \in [Client -> State] /\ state'[t] = "call"
          /\ \A u \in Client \ {t} : state'[u] = state[u]
      BY <1>1, <2>1, Zenon DEF IntqTypeOK, State
    <2>4. /\ byte' \in [Client -> Byte \cup {None}]
          /\ t \in Writer => byte'[t] \in Byte
          /\ \A u \in Client \ {t} : byte'[u] = byte[u]
      BY <1>1, <2>2, Zenon DEF IntqTypeOK
    <2>5. IntqTypeOK'
      BY <1>1, <2>1, <2>3, <2>4, Zenon DEF IntqTypeOK
    <2>6. WaiterRecorded'
      BY <1>1, <2>1, <2>3, Zenon DEF IntqInv, WaiterRecorded, IntqTypeOK, Client
    <2>7. ASSUME NEW u \in Client PROVE Sleeper(u)'
      BY <2>1, <2>3, <2>4, Zenon DEF IntqInv, Sleeper
    <2> QED BY <2>5, <2>6, <2>7, Zenon DEF IntqInv
  <1>4. ASSUME NEW t \in Client, test_queue(t) PROVE IntqInv'
    <2>1. state[t] = "call" /\ lock_waiters \in Seq(Client)
      BY <1>1, <1>4, Zenon DEF test_queue, IntqTypeOK
    <2>2. CASE AcquireAndWait(t, lock_holder, lock_waiters)
      BY <2>1, <2>2, AcquireAndWaitInv, Zenon
    <2>3. CASE Complete(t) /\ UNCHANGED <<lock_holder, lock_waiters, byte, failed>>
      BY <2>1, <2>3, CompleteInv, Zenon
    <2> QED BY <1>4, <2>2, <2>3, Zenon DEF test_queue
  <1>5. ASSUME NEW t \in Client, lock_again(t) PROVE IntqInv'
    BY <1>1, <1>5, AcquireAndWaitInv, Zenon DEF lock_again, IntqTypeOK
  <1>6. ASSUME NEW t \in Client, wait_return(t) PROVE IntqInv'
    <2>1. PICK q : q = IF lock_waiters = <<>> THEN lock_waiters ELSE Tail(lock_waiters)
      BY Zenon
    <2>2. q \in Seq(Client)
      BY <1>1, <2>1 DEF IntqTypeOK
    <2>3. state[t] = "woken" /\ lock_holder = t
      BY <1>6, Zenon DEF wait_return, IntqInv, Sleeper
    <2>4. CASE AcquireAndWait(t, None, q)
      BY <2>2, <2>3, <2>4, AcquireAndWaitInv, Zenon
    <2>5. CASE lock_holder' = None /\ lock_waiters' = q /\ Complete(t) /\ UNCHANGED <<byte, failed>>
      BY <2>2, <2>3, <2>5, CompleteInv, Zenon
    <2> QED BY <1>6, <2>1, <2>4, <2>5, Zenon DEF wait_return
  <1>7. CASE handler_putc
    BY <1>1, <1>7, PutInv, Zenon DEF handler_putc, IntqTypeOK
  <1>8. CASE handler_getc
    BY <1>1, <1>8, TakeInv, Zenon DEF handler_getc, IntqTypeOK
  <1> QED BY <1>2, <1>3, <1>4, <1>5, <1>6, <1>7, <1>8, Zenon DEF NextIntq, IntqStep

\* The invariant holds in every state.
THEOREM IntqInvariance == IntqSpec => []IntqInv
  BY IntqInitInv, IntqNextInv, PTL DEF IntqSpec

\* A thread that sleeps in wait is the one recorded in not_empty or not_full and
\* holds the lock, so no second thread can overwrite the record, for any number
\* of readers and writers.
THEOREM WaitersRecorded == IntqSpec => []NoForgottenWaiter
  <1>1. IntqInv => NoForgottenWaiter
    BY Zenon DEF IntqInv, Sleeper, NoForgottenWaiter
  <1> QED BY <1>1, IntqInvariance, PTL

-----------------------------------------------------------------------------
(***************************************************************************)
(* The circular buffer implements the queue of ByteQueue.                  *)
(***************************************************************************)
\* The bytes in the ring, from the tail on.
Contents == [i \in 1..Length |-> buf[(tail + i - 1) % INTQ_BUFSIZE]]

\* The number of bytes between two positions.
LEMMA Distance ==
  ASSUME NEW h \in Position, NEW t \in Position
  PROVE  (h - t) % INTQ_BUFSIZE = IF t <= h THEN h - t ELSE h - t + INTQ_BUFSIZE
  <1>1. /\ h \in Int /\ 0 <= h /\ h < INTQ_BUFSIZE /\ t \in Int /\ 0 <= t /\ t < INTQ_BUFSIZE
        /\ INTQ_BUFSIZE \in Nat /\ INTQ_BUFSIZE > 1
    BY IntqAssumption DEF Position
  <1>2. CASE t <= h
    BY <1>1, <1>2, ModInRange
  <1>3. CASE h < t
    BY <1>1, <1>3, ModNegative
  <1> QED BY <1>1, <1>2, <1>3

\* The position of the byte i places after position t.
LEMMA Place ==
  ASSUME NEW t \in Position, NEW i \in 1..INTQ_BUFSIZE
  PROVE  /\ (t + i - 1) % INTQ_BUFSIZE \in Position
         /\ (t + i - 1) % INTQ_BUFSIZE = IF t + i - 1 < INTQ_BUFSIZE THEN t + i - 1
                                         ELSE t + i - 1 - INTQ_BUFSIZE
  <1>1. /\ t \in Int /\ 0 <= t /\ t < INTQ_BUFSIZE /\ i \in Int /\ 1 <= i /\ i <= INTQ_BUFSIZE
        /\ INTQ_BUFSIZE \in Nat /\ INTQ_BUFSIZE > 1
    BY IntqAssumption DEF Position
  <1>2. CASE t + i - 1 < INTQ_BUFSIZE
    BY <1>1, <1>2, ModInRange DEF Position
  <1>3. CASE t + i - 1 >= INTQ_BUFSIZE
    BY <1>1, <1>3, ModWraps DEF Position
  <1> QED BY <1>1, <1>2, <1>3

\* The queue holds fewer bytes than the buffer has places, all of them bytes.
LEMMA ContentsType ==
  ASSUME IntqTypeOK
  PROVE  /\ Length \in Position
         /\ Contents \in Seq(Byte \cup {None}) /\ Len(Contents) = Length
  <1>1. /\ Length \in Position
    BY Distance, IntqAssumption DEF IntqTypeOK, Length, Position
  <1>2. ASSUME NEW i \in 1..Length
        PROVE  buf[(tail + i - 1) % INTQ_BUFSIZE] \in Byte \cup {None}
    <2>1. i \in 1..INTQ_BUFSIZE
      BY <1>1, IntqAssumption DEF Position
    <2>2. (tail + i - 1) % INTQ_BUFSIZE \in Position
      BY <2>1, Place, Zenon DEF IntqTypeOK
    <2> QED BY <2>2, Zenon DEF IntqTypeOK
  <1>3. Length \in Nat
    BY <1>1, IntqAssumption DEF Position
  <1> QED BY <1>1, <1>2, <1>3 DEF Contents

\* intq_empty and intq_full are the queue's.
LEMMA EmptyAndFull ==
  ASSUME IntqTypeOK
  PROVE  /\ intq_empty <=> Length = 0
         /\ intq_full <=> Length = INTQ_BUFSIZE - 1
  <1>1. Length = IF tail <= head THEN head - tail ELSE head - tail + INTQ_BUFSIZE
    BY Distance, Zenon DEF IntqTypeOK, Length
  <1>2. next(head) = IF head = INTQ_BUFSIZE - 1 THEN 0 ELSE head + 1
    BY NextPosition, Zenon DEF IntqTypeOK
  <1> QED BY <1>1, <1>2, IntqAssumption DEF IntqTypeOK, Position, intq_empty, intq_full

\* Putting a byte appends it.
LEMMA PutRefines ==
  ASSUME IntqTypeOK, NEW b \in Byte, NEW st, ~intq_full, PutByte(b, st)
  PROVE  Queue!Put(b)
  <1> USE IntqAssumption
  <1>1. buf' = [buf EXCEPT ![head] = b] /\ head' = next(head) /\ tail' = tail
    BY Zenon DEF PutByte
  <1>2. head \in Position /\ tail \in Position /\ head' \in Position
    BY <1>1, NextPosition, Zenon DEF IntqTypeOK
  <1>3. Length \in Nat /\ Length < INTQ_BUFSIZE - 1
    BY ContentsType, EmptyAndFull DEF Position
  <1>4. Length = IF tail <= head THEN head - tail ELSE head - tail + INTQ_BUFSIZE
    BY <1>2, Distance, Zenon DEF Length
  <1>5. Length' = Length + 1
    <2>1. head' = IF head = INTQ_BUFSIZE - 1 THEN 0 ELSE head + 1
      BY <1>1, <1>2, NextPosition, Zenon
    <2>2. Length' = IF tail <= head' THEN head' - tail ELSE head' - tail + INTQ_BUFSIZE
      BY <1>1, <1>2, Distance, Zenon DEF Length
    <2> QED BY <1>2, <1>3, <1>4, <2>1, <2>2 DEF Position
  <1>6. ASSUME NEW i \in 1..Length
        PROVE  Contents'[i] = Contents[i]
    <2>1. i \in 1..INTQ_BUFSIZE /\ i \in 1..Length'
      BY <1>3, <1>5
    <2>2. PICK k \in Position : k = (tail + i - 1) % INTQ_BUFSIZE
      BY <1>2, <2>1, Place, Zenon
    <2>3. k = IF tail + i - 1 < INTQ_BUFSIZE THEN tail + i - 1 ELSE tail + i - 1 - INTQ_BUFSIZE
      BY <1>2, <2>1, <2>2, Place, Zenon
    <2>4. k # head
      BY <1>2, <1>3, <1>4, <2>3 DEF Position
    <2>5. buf'[k] = buf[k]
      BY <1>1, <1>2, <2>4, Zenon DEF IntqTypeOK
    <2>6. Contents'[i] = buf'[k] /\ Contents[i] = buf[k]
      BY <1>1, <2>1, <2>2, Zenon DEF Contents
    <2> QED BY <2>5, <2>6, Zenon
  <1>7. Contents'[Length + 1] = b
    <2>1. Length + 1 \in 1..INTQ_BUFSIZE /\ Length + 1 \in 1..Length'
      BY <1>3, <1>5
    <2>2. (tail + (Length + 1) - 1) % INTQ_BUFSIZE = head
      <3>1. PICK i \in 1..INTQ_BUFSIZE : i = Length + 1
        BY <2>1, Zenon
      <3>2. (tail + i - 1) % INTQ_BUFSIZE = IF tail + i - 1 < INTQ_BUFSIZE THEN tail + i - 1
                                            ELSE tail + i - 1 - INTQ_BUFSIZE
        BY <1>2, Place, Zenon
      <3> QED BY <1>2, <1>3, <1>4, <3>1, <3>2 DEF Position
    <2> QED BY <1>1, <1>2, <2>1, <2>2, Zenon DEF Contents, IntqTypeOK
  <1>8. Contents' = Append(Contents, b)
    <2>1. Contents \in Seq(Byte \cup {None}) /\ Len(Contents) = Length
      BY ContentsType, Zenon
    <2>2. Contents' \in Seq(Byte \cup {None}) /\ Len(Contents') = Length + 1
      <3>1. \A i \in 1..Length + 1 : Contents'[i] \in Byte \cup {None}
        BY <1>3, <1>6, <1>7, <2>1
      <3> QED BY <1>3, <1>5, <3>1 DEF Contents
    <2>3. /\ Append(Contents, b) \in Seq(Byte \cup {None})
          /\ Len(Append(Contents, b)) = Length + 1
      BY <2>1
    <2>4. \A i \in 1..Length + 1 : Contents'[i] = Append(Contents, b)[i]
      BY <1>3, <1>6, <1>7, <2>1
    <2> QED BY <2>2, <2>3, <2>4, SameSeq, Zenon
  <1>9. Len(Contents) # INTQ_BUFSIZE - 1
    BY <1>3, ContentsType
  <1> QED BY <1>8, <1>9, Zenon DEF Contents, Queue!Put, Queue!Full

\* Taking a byte removes the first.
LEMMA TakeRefines ==
  ASSUME IntqTypeOK, NEW st, ~intq_empty, TakeByte(st)
  PROVE  Queue!Get
  <1> USE IntqAssumption
  <1>1. tail' = next(tail) /\ UNCHANGED <<buf, head>>
    BY Zenon DEF TakeByte
  <1>2. head \in Position /\ tail \in Position /\ tail' \in Position
    BY <1>1, NextPosition, Zenon DEF IntqTypeOK
  <1>3. Length \in Nat /\ Length > 0 /\ Length < INTQ_BUFSIZE
    BY ContentsType, EmptyAndFull DEF Position
  <1>4. Length = IF tail <= head THEN head - tail ELSE head - tail + INTQ_BUFSIZE
    BY <1>2, Distance, Zenon DEF Length
  <1>5. tail' = IF tail = INTQ_BUFSIZE - 1 THEN 0 ELSE tail + 1
    BY <1>1, <1>2, NextPosition, Zenon
  <1>6. Length' = Length - 1
    <2>1. Length' = IF tail' <= head THEN head - tail' ELSE head - tail' + INTQ_BUFSIZE
      BY <1>1, <1>2, Distance, Zenon DEF Length
    <2> QED BY <1>2, <1>3, <1>4, <1>5, <2>1 DEF Position
  <1>7. ASSUME NEW i \in 1..Length - 1
        PROVE  Contents'[i] = Contents[i + 1]
    <2>1. i \in 1..INTQ_BUFSIZE /\ i + 1 \in 1..INTQ_BUFSIZE /\ i \in 1..Length' /\ i + 1 \in 1..Length
      BY <1>3, <1>6
    <2>2. PICK j \in 1..INTQ_BUFSIZE : j = i + 1
      BY <2>1, Zenon
    <2>3. (tail' + i - 1) % INTQ_BUFSIZE = IF tail' + i - 1 < INTQ_BUFSIZE THEN tail' + i - 1
                                           ELSE tail' + i - 1 - INTQ_BUFSIZE
      BY <1>2, <2>1, Place, Zenon
    <2>4. (tail + j - 1) % INTQ_BUFSIZE = IF tail + j - 1 < INTQ_BUFSIZE THEN tail + j - 1
                                          ELSE tail + j - 1 - INTQ_BUFSIZE
      BY <1>2, <2>2, Place, ZenonT(30)
    <2>5. (tail' + i - 1) % INTQ_BUFSIZE = (tail + j - 1) % INTQ_BUFSIZE
      BY <1>2, <1>5, <2>1, <2>2, <2>3, <2>4 DEF Position
    <2>6. /\ Contents'[i] = buf[(tail' + i - 1) % INTQ_BUFSIZE]
          /\ Contents[j] = buf[(tail + j - 1) % INTQ_BUFSIZE]
      BY <1>1, <2>1, <2>2, Zenon DEF Contents
    <2> QED BY <2>2, <2>5, <2>6, Zenon
  <1>8. Contents' = Tail(Contents)
    <2>1. Contents \in Seq(Byte \cup {None}) /\ Len(Contents) = Length
      BY ContentsType, Zenon
    <2>2. Contents' \in Seq(Byte \cup {None}) /\ Len(Contents') = Length - 1
      <3>1. \A i \in 1..Length - 1 : Contents'[i] \in Byte \cup {None}
        BY <1>3, <1>7, <2>1
      <3>2. Length' = Length - 1 /\ Length - 1 \in Nat
        BY <1>3, <1>6
      <3>3. Contents' \in [1..Length - 1 -> Byte \cup {None}]
        BY <3>1, <3>2, Zenon DEF Contents
      <3> QED BY <3>2, <3>3
    <2>3. /\ Tail(Contents) \in Seq(Byte \cup {None})
          /\ Len(Tail(Contents)) = Length - 1
          /\ \A i \in 1..Length - 1 : Tail(Contents)[i] = Contents[i + 1]
      BY <1>3, <2>1, SMTT(30)
    <2> QED BY <1>7, <2>2, <2>3, SameSeq, Zenon
  <1>9. Contents # <<>>
    BY <1>3, ContentsType
  <1> QED BY <1>8, <1>9, Zenon DEF Contents, Queue!Get, Queue!Empty

\* Every step puts a byte, takes one or leaves the bytes alone.
LEMMA StepRefines ==
  IntqInv /\ [NextIntq]_intqVars => [Queue!QueueNext]_Contents
  <1> SUFFICES ASSUME IntqInv, [NextIntq]_intqVars PROVE Queue!QueueNext \/ UNCHANGED Contents
    BY Zenon
  <1>1. IntqTypeOK
    BY Zenon DEF IntqInv
  <1>2. UNCHANGED ring => UNCHANGED Contents
    BY Zenon DEF ring, Contents, Length
  <1>3. ASSUME NEW b \in Byte, NEW st, ~intq_full, PutByte(b, st) PROVE Queue!QueueNext
    BY <1>1, <1>3, PutRefines, Zenon DEF Queue!QueueNext
  <1>4. ASSUME NEW st, ~intq_empty, TakeByte(st) PROVE Queue!QueueNext
    BY <1>1, <1>4, TakeRefines, Zenon DEF Queue!QueueNext
  <1>5. ASSUME NEW t \in Client, state[t] \in {"call", "woken"}, ~Stuck(t), Complete(t)
        PROVE  Queue!QueueNext
    <2>1. CASE t \in Reader
      BY <1>4, <1>5, <2>1, Zenon DEF Stuck, Complete
    <2>2. CASE t \notin Reader
      <3>1. byte[t] \in Byte
        BY <1>5, <2>2, Zenon DEF IntqInv, Sleeper, Client
      <3> QED BY <1>3, <1>5, <2>2, <3>1, Zenon DEF Stuck, Complete
    <2> QED BY <2>1, <2>2, Zenon
  <1>6. ASSUME NEW t \in Client, test_queue(t)
        PROVE  Queue!QueueNext \/ UNCHANGED ring
    BY <1>5, <1>6, Zenon DEF test_queue, AcquireAndWait
  <1>7. ASSUME NEW t \in Client, wait_return(t)
        PROVE  Queue!QueueNext \/ UNCHANGED ring
    BY <1>5, <1>7, Zenon DEF wait_return, AcquireAndWait
  <1>8. ASSUME NEW t \in Client, call(t) \/ lock_again(t) PROVE UNCHANGED ring
    BY <1>8, Zenon DEF call, lock_again, AcquireAndWait
  <1>9. CASE handler_putc
    BY <1>3, <1>9, Zenon DEF handler_putc
  <1>10. CASE handler_getc
    BY <1>4, <1>10, Zenon DEF handler_getc
  <1>11. CASE UNCHANGED intqVars
    BY <1>2, <1>11, Zenon DEF intqVars
  <1> QED BY <1>2, <1>6, <1>7, <1>8, <1>9, <1>10, <1>11, ZenonT(30) DEF NextIntq, IntqStep

\* Threads and interrupt handlers that share an interrupt queue see a first-in
\* first-out queue of INTQ_BUFSIZE - 1 bytes, whatever the size of the buffer and
\* however often positions wrap around.
THEOREM QueueImplemented == IntqSpec => ImplementsQueue
  <1>1. InitIntq => Contents = <<>>
    <2> SUFFICES ASSUME InitIntq PROVE Contents = <<>>
      BY Zenon
    <2>1. IntqTypeOK /\ intq_empty
      BY IntqInitInv, Zenon DEF IntqInv, InitIntq, intq_empty
    <2>2. Length = 0
      BY <2>1, EmptyAndFull, Zenon
    <2> QED BY <2>1, <2>2, ContentsType
  <1>2. InitIntq => Queue!QueueInit
    BY <1>1, Zenon DEF Contents, Queue!QueueInit
  <1>3. IntqInv /\ [NextIntq]_intqVars =>
          [Queue!QueueNext]_[i \in 1..Length |-> buf[(tail + i - 1) % INTQ_BUFSIZE]]
    BY StepRefines, Zenon DEF Contents
  <1> QED BY <1>2, <1>3, IntqInvariance, PTL DEF IntqSpec, ImplementsQueue, Queue!QueueSpec

-----------------------------------------------------------------------------
(***************************************************************************)
(* Serial.                                                                 *)
(***************************************************************************)
\* Only serial_putc with queueing puts bytes in the queue or sleeps.
SerialInv ==
  /\ txq \in Seq(Char) /\ out \in Seq(Char) /\ written \in Seq(Char)
  /\ writer \in Char \cup {NoChar}
  /\ mode # "QUEUE" => txq = <<>> /\ writer = NoChar
  /\ OutputInOrder

\* Queueing a byte after what has been written.
LEMMA AppendQueue ==
  \A a, q \in Seq(Char), e \in Char : Append(a \o q, e) = a \o Append(q, e)
  <1> SUFFICES ASSUME NEW a \in Seq(Char), NEW q \in Seq(Char), NEW e \in Char
               PROVE  Append(a \o q, e) = a \o Append(q, e)
    BY Zenon
  <1>1. Append(a \o q, e) \in Seq(Char) /\ a \o Append(q, e) \in Seq(Char)
    OBVIOUS
  <1>2. /\ Len(Append(a \o q, e)) = Len(a) + Len(q) + 1
        /\ Len(a \o Append(q, e)) = Len(a) + Len(q) + 1
    OBVIOUS
  <1>3. \A k \in 1..Len(a) + Len(q) + 1 : Append(a \o q, e)[k] = (a \o Append(q, e))[k]
    OBVIOUS
  <1> QED BY <1>1, <1>2, <1>3, SameSeq, Zenon

\* Transmitting the first byte of the queue.
LEMMA SendHead ==
  ASSUME NEW S, NEW a \in Seq(S), NEW q \in Seq(S), q # <<>>
  PROVE  /\ Head(q) \in S /\ Tail(q) \in Seq(S)
         /\ Append(a, Head(q)) \o Tail(q) = a \o q
  <1>1. Head(q) \in S /\ Tail(q) \in Seq(S) /\ Len(q) > 0 /\ Len(Tail(q)) = Len(q) - 1
    OBVIOUS
  <1>2. \A k \in 1..Len(a) + Len(q) : (Append(a, Head(q)) \o Tail(q))[k] = (a \o q)[k]
    BY <1>1
  <1>3. /\ Append(a, Head(q)) \o Tail(q) \in Seq(S) /\ a \o q \in Seq(S)
        /\ Len(Append(a, Head(q)) \o Tail(q)) = Len(a) + Len(q)
        /\ Len(a \o q) = Len(a) + Len(q)
    BY <1>1
  <1> QED BY <1>1, <1>2, <1>3, SameSeq, Zenon

\* The transmit queue, the line and the history start empty.
LEMMA SerialInitInv == InitSerial => SerialInv
  <1> SUFFICES ASSUME InitSerial PROVE SerialInv
    BY Zenon
  <1>1. txq = <<>> /\ out = <<>> /\ written = <<>> /\ writer = NoChar
    BY Zenon DEF InitSerial
  <1>2. <<>> \in Seq(Char) /\ <<>> = <<>> \o <<>>
    OBVIOUS
  <1> QED BY <1>1, <1>2, Zenon DEF SerialInv, OutputInOrder

\* Enqueue keeps the order.
LEMMA EnqueueInv ==
  ASSUME SerialInv, mode = "QUEUE", UNCHANGED mode, NEW b \in Char, Enqueue(b),
         writer' \in Char \cup {NoChar}
  PROVE  SerialInv'
  <1>1. txq' = Append(txq, b) /\ written' = Append(written, b) /\ out' = out
    BY Zenon DEF Enqueue
  <1>2. txq' \in Seq(Char) /\ written' \in Seq(Char)
    BY <1>1 DEF SerialInv
  <1>3. written' = out' \o txq'
    <2>1. out \in Seq(Char) /\ txq \in Seq(Char) /\ written = out \o txq
      BY Zenon DEF SerialInv, OutputInOrder
    <2>2. Append(out \o txq, b) = out \o Append(txq, b)
      BY <2>1, AppendQueue, Zenon
    <2> QED BY <1>1, <2>1, <2>2, Zenon
  <1> QED BY <1>1, <1>2, <1>3, Zenon DEF SerialInv, OutputInOrder

\* Polling out the first byte to make room for a new one keeps the order.
LEMMA PollOneInv ==
  ASSUME SerialInv, NEW b \in Char, tx_full, PollOne(b), written' = Append(written, b),
         mode = "QUEUE", UNCHANGED <<mode, writer>>
  PROVE  SerialInv'
  <1>1. txq \in Seq(Char) /\ out \in Seq(Char) /\ written \in Seq(Char) /\ written = out \o txq
    BY Zenon DEF SerialInv, OutputInOrder
  <1>2. txq # <<>>
    BY <1>1, SerialAssumption, Zenon DEF tx_full
  <1>3. out' = Append(out, Head(txq)) /\ txq' = Append(Tail(txq), b)
    BY Zenon DEF PollOne, putc_poll
  <1>4. Head(txq) \in Char /\ Tail(txq) \in Seq(Char)
    BY <1>1, <1>2, SendHead, Zenon
  <1>5. out' \in Seq(Char) /\ txq' \in Seq(Char) /\ written' \in Seq(Char)
    BY <1>1, <1>3, <1>4
  <1>6. out' \o txq' = Append(out' \o Tail(txq), b)
    <2>1. PICK a \in Seq(Char), q \in Seq(Char) : a = out' /\ q = Tail(txq)
      BY <1>4, <1>5, Zenon
    <2>2. Append(a \o q, b) = a \o Append(q, b)
      BY AppendQueue, Zenon
    <2> QED BY <1>3, <2>1, <2>2, Zenon
  <1>7. out' \o Tail(txq) = out \o txq
    BY <1>1, <1>2, <1>3, SendHead, Zenon
  <1> QED BY <1>1, <1>5, <1>6, <1>7, Zenon DEF SerialInv, OutputInOrder

\* Every step of the serial port keeps the order.
LEMMA SerialNextInv == SerialInv /\ [NextSerial]_serialVars => SerialInv'
  <1> SUFFICES ASSUME SerialInv, [NextSerial]_serialVars PROVE SerialInv'
    BY ZenonT(30)
  <1>1. txq \in Seq(Char) /\ out \in Seq(Char) /\ written \in Seq(Char) /\ written = out \o txq
    BY Zenon DEF SerialInv, OutputInOrder
  <1>2. ASSUME UNCHANGED <<txq, out, written, writer>>, UNCHANGED mode \/ mode' = "QUEUE"
        PROVE  SerialInv'
    BY <1>2, Zenon DEF SerialInv, OutputInOrder
  <1>3. ASSUME NEW b \in Char, serial_putc_poll(b) PROVE SerialInv'
    <2>1. /\ out' = Append(out, b) /\ written' = Append(written, b)
          /\ mode # "QUEUE" /\ UNCHANGED <<txq, writer>> /\ mode' = "POLL"
      BY <1>3, Zenon DEF serial_putc_poll, putc_poll
    <2>2. txq = <<>> /\ writer = NoChar
      BY <2>1, Zenon DEF SerialInv
    <2>3. written = out
      BY <1>1, <2>2
    <2>4. out' \in Seq(Char) /\ written' \in Seq(Char) /\ written' = out' \o <<>>
      BY <1>1, <2>1, <2>3
    <2> QED BY <1>1, <2>1, <2>2, <2>4, Zenon DEF SerialInv, OutputInOrder
  <1>4. ASSUME NEW b \in Char, serial_putc(b) PROVE SerialInv'
    <2>1. CASE Enqueue(b) /\ UNCHANGED writer
      BY <1>4, <2>1, EnqueueInv, Zenon DEF serial_putc, SerialInv
    <2>2. CASE writer' = b /\ UNCHANGED <<txq, written, out>>
      BY <1>4, <2>2, Zenon DEF serial_putc, SerialInv, OutputInOrder
    <2> QED BY <1>4, <2>1, <2>2, Zenon DEF serial_putc
  <1>5. ASSUME NEW b \in Char, serial_putc_off(b) PROVE SerialInv'
    <2>1. CASE Enqueue(b)
      BY <1>5, <2>1, EnqueueInv, Zenon DEF serial_putc_off, SerialInv
    <2>2. CASE tx_full /\ PollOne(b) /\ written' = Append(written, b)
      BY <1>5, <2>2, PollOneInv, Zenon DEF serial_putc_off
    <2> QED BY <1>5, <2>1, <2>2, Zenon DEF serial_putc_off
  <1>6. CASE serial_putc_woken
    <2>1. writer \in Char /\ writer' = NoChar /\ Enqueue(writer) /\ mode = "QUEUE" /\ mode' = mode
      BY <1>6, Zenon DEF serial_putc_woken, SerialInv
    <2> QED BY <2>1, EnqueueInv, Zenon
  <1>7. CASE serial_flush
    <2>1. out' = out \o txq /\ txq' = <<>> /\ UNCHANGED <<written, writer, mode>>
      BY <1>7, Zenon DEF serial_flush
    <2>2. out' \in Seq(Char) /\ txq' \in Seq(Char) /\ out' \o <<>> = out'
      BY <1>1, <2>1
    <2> QED BY <1>1, <2>1, <2>2, Zenon DEF SerialInv, OutputInOrder
  <1>8. CASE serial_interrupt
    <2>1. UNCHANGED <<mode, writer, written>> /\ mode = "QUEUE"
      BY <1>8, Zenon DEF serial_interrupt
    <2>2. CASE txq # <<>> /\ txq' = Tail(txq) /\ out' = Append(out, Head(txq))
      <3>1. txq' \in Seq(Char) /\ out' \in Seq(Char) /\ out' \o txq' = out \o txq
        BY <1>1, <2>2, SendHead
      <3> QED BY <1>1, <2>1, <3>1, ZenonT(30) DEF SerialInv, OutputInOrder
    <2>3. CASE txq' = txq /\ out' = out
      BY <1>2, <2>1, <2>3, Zenon
    <2> QED BY <1>8, <2>2, <2>3, Zenon DEF serial_interrupt
  <1>9. CASE serial_init_queue \/ input_getc \/ uart_sent
    BY <1>2, <1>9, Zenon DEF serial_init_queue, input_getc, uart_sent, history
  <1>10. ASSUME NEW b \in Char, keyboard_interrupt(b) \/ uart_receives(b) PROVE SerialInv'
    BY <1>2, <1>10, Zenon DEF keyboard_interrupt, uart_receives
  <1>11. CASE UNCHANGED serialVars
    BY <1>2, <1>11, Zenon DEF serialVars, history
  <1> QED BY <1>3, <1>4, <1>5, <1>6, <1>7, <1>8, <1>9, <1>10, <1>11, Zenon DEF NextSerial

\* Bytes leave the serial port in the order in which they were written, with none
\* lost and none sent twice, though some go by interrupt, some by polling and some
\* wait for room, for any size of the queue.
THEOREM OutputOrdered == SerialSpec => []OutputInOrder
  <1>1. SerialInv => OutputInOrder
    BY Zenon DEF SerialInv
  <1> QED BY <1>1, SerialInitInv, SerialNextInv, PTL DEF SerialSpec

-----------------------------------------------------------------------------
(***************************************************************************)
(* Console.                                                                *)
(***************************************************************************)
ConsoleSpec == InitConsole /\ [][NextConsole]_consoleVars

CallRecord == [pc : {"idle", "acquire", "print"}, nest : Int, printed : Int, left : Int]

ConsoleTypeOK ==
  /\ use_console_lock \in BOOLEAN
  /\ console_holder \in Printer \cup {NoPrinter}
  /\ console_lock_depth \in Int
  /\ calls \in [Printer -> CallRecord]

\* Until a panic the state of each thread's calls says whether it has the lock:
\* it has it in every call but an outermost one that is about to acquire it.
CallsOK(t) ==
  /\ calls[t].pc = "idle" => calls[t].nest = 0
  /\ calls[t].pc # "idle" => calls[t].nest >= 1
  /\ held_by(t) <=> calls[t].pc = "print" \/ (calls[t].pc = "acquire" /\ calls[t].nest > 1)
  /\ ~held_by(t) => calls[t].printed = 0

DepthOK ==
  /\ console_holder = NoPrinter => console_lock_depth = 0
  /\ \A t \in Printer :
       held_by(t) =>
         console_lock_depth = calls[t].nest - (IF calls[t].pc = "acquire" THEN 2 ELSE 1)

ConsoleInv ==
  /\ ConsoleTypeOK
  /\ use_console_lock <=> panicker = NoPrinter
  /\ use_console_lock => (\A t \in Printer : CallsOK(t)) /\ DepthOK

\* The state of the console before anything is printed.
LEMMA ConsoleInitInv == InitConsole => ConsoleInv
  <1> SUFFICES ASSUME InitConsole PROVE ConsoleInv
    BY Zenon
  <1>1. \A t \in Printer :
          calls[t] = [pc |-> "idle", nest |-> 0, printed |-> 0, left |-> MaxCallsEach]
    BY Zenon DEF InitConsole
  <1>2. ConsoleTypeOK
    BY <1>1, ConsoleAssumption DEF InitConsole, ConsoleTypeOK, CallRecord
  <1>3. (\A t \in Printer : CallsOK(t)) /\ DepthOK
    BY <1>1, ConsoleAssumption, Zenon DEF InitConsole, CallsOK, DepthOK, held_by
  <1> QED BY <1>2, <1>3, Zenon DEF InitConsole, ConsoleInv

\* Every step of a thread that prints keeps the lock and its depth right.
LEMMA ConsoleNextInv == ConsoleInv /\ [NextConsole]_consoleVars => ConsoleInv'
  <1> SUFFICES ASSUME ConsoleInv, [NextConsole]_consoleVars PROVE ConsoleInv'
    BY ZenonT(30)
  <1> USE ConsoleAssumption
  <1>1. ConsoleTypeOK
    BY Zenon DEF ConsoleInv
  <1>2. CASE UNCHANGED consoleVars
    BY <1>2, Zenon DEF consoleVars, ConsoleInv, ConsoleTypeOK, CallsOK, DepthOK, held_by
  <1>3. ASSUME NEW t \in Printer, NEW c \in CallRecord, calls' = [calls EXCEPT ![t] = c]
        PROVE  /\ calls' \in [Printer -> CallRecord] /\ calls'[t] = c
               /\ \A u \in Printer \ {t} : calls'[u] = calls[u]
    BY <1>1, <1>3, Zenon DEF ConsoleTypeOK
  <1>4. ASSUME NEW t \in Printer
        PROVE  /\ calls[t] \in CallRecord /\ calls[t].nest \in Int /\ calls[t].printed \in Int
               /\ calls[t].left \in Int
    BY <1>1, Zenon DEF ConsoleTypeOK, CallRecord
  <1>5. ASSUME NEW t \in Printer, PrintCall(t) PROVE ConsoleInv'
    <2>1. PICK c \in CallRecord :
            /\ calls' = [calls EXCEPT ![t] = c]
            /\ c.pc = "acquire" /\ c.nest = calls[t].nest + 1 /\ c.printed = calls[t].printed
      <3>1. calls' = [calls EXCEPT ![t] = [calls[t] EXCEPT !.pc = "acquire",
                                             !.nest = @ + 1, !.left = @ - 1]]
        BY <1>1, <1>5, Zenon DEF PrintCall, ConsoleTypeOK, CallRecord
      <3>2. PICK c : c = [calls[t] EXCEPT !.pc = "acquire", !.nest = @ + 1, !.left = @ - 1]
        BY Zenon
      <3>3. c = [pc |-> "acquire", nest |-> calls[t].nest + 1,
                 printed |-> calls[t].printed, left |-> calls[t].left - 1]
        BY <1>4, <3>2, ZenonT(30) DEF CallRecord
      <3>4. /\ c \in CallRecord
            /\ c.pc = "acquire"
            /\ c.nest = calls[t].nest + 1
            /\ c.printed = calls[t].printed
        BY <1>4, <3>3 DEF CallRecord
      <3> QED BY <3>1, <3>2, <3>4, Zenon
    <2>2. /\ calls' \in [Printer -> CallRecord] /\ calls'[t] = c
          /\ \A u \in Printer \ {t} : calls'[u] = calls[u]
      BY <1>3, <2>1, Zenon
    <2>3. /\ UNCHANGED <<use_console_lock, console_holder, console_lock_depth, panicker>>
          /\ calls[t].pc # "acquire"
      BY <1>5, Zenon DEF PrintCall
    <2>4. ConsoleTypeOK'
      BY <1>1, <2>2, <2>3, Zenon DEF ConsoleTypeOK
    <2>5. ASSUME use_console_lock, NEW u \in Printer PROVE CallsOK(u)'
      <3>1. CASE u = t
        BY <1>4, <2>1, <2>2, <2>3, <2>5, <3>1 DEF ConsoleInv, CallsOK, held_by, CallRecord
      <3>2. CASE u # t
        BY <2>2, <2>3, <2>5, <3>2, ZenonT(30) DEF ConsoleInv, CallsOK, held_by
      <3> QED BY <3>1, <3>2, ZenonT(30)
    <2>6. ASSUME use_console_lock PROVE DepthOK'
      BY <1>4, <2>1, <2>2, <2>3, <2>6 DEF ConsoleInv, DepthOK, CallsOK, held_by, CallRecord
    <2> QED BY <2>3, <2>4, <2>5, <2>6, Zenon DEF ConsoleInv
  <1>6. ASSUME NEW t \in Printer, acquire_console(t) PROVE ConsoleInv'
    <2>1. PICK c \in CallRecord :
            /\ calls' = [calls EXCEPT ![t] = c]
            /\ c.pc = "print" /\ c.nest = calls[t].nest /\ c.printed = calls[t].printed
      <3>1. calls' = [calls EXCEPT ![t] = [calls[t] EXCEPT !.pc = "print"]]
        BY <1>1, <1>6, Zenon DEF acquire_console, ConsoleTypeOK, CallRecord
      <3>2. PICK c : c = [calls[t] EXCEPT !.pc = "print"]
        BY Zenon
      <3>3. /\ c \in CallRecord
            /\ c.pc = "print"
            /\ c.nest = calls[t].nest
            /\ c.printed = calls[t].printed
        BY <1>4, <3>2, Zenon DEF CallRecord
      <3> QED BY <3>1, <3>2, <3>3, Zenon
    <2>2. /\ calls' \in [Printer -> CallRecord] /\ calls'[t] = c
          /\ \A u \in Printer \ {t} : calls'[u] = calls[u]
      BY <1>3, <2>1, Zenon
    <2>3. /\ UNCHANGED <<use_console_lock, panicker>> /\ calls[t].pc = "acquire"
          /\ \/ ~use_console_lock /\ UNCHANGED <<console_holder, console_lock_depth>>
             \/ /\ use_console_lock /\ held_by(t)
                /\ console_lock_depth' = console_lock_depth + 1 /\ UNCHANGED console_holder
             \/ /\ use_console_lock /\ console_holder = NoPrinter /\ console_holder' = t
                /\ UNCHANGED console_lock_depth
      BY <1>6, Zenon DEF acquire_console
    <2>4. ConsoleTypeOK'
      BY <1>1, <2>2, <2>3 DEF ConsoleTypeOK
    <2>5. ASSUME use_console_lock, NEW u \in Printer PROVE CallsOK(u)'
      <3>1. CASE u = t
        BY <1>4, <2>1, <2>2, <2>3, <2>5, <3>1, ZenonT(30) DEF ConsoleInv, CallsOK, held_by, CallRecord
      <3>2. CASE u # t
        BY <2>2, <2>3, <2>5, <3>2, SMTT(30) DEF ConsoleInv, CallsOK, held_by
      <3> QED BY <3>1, <3>2, Zenon
    <2>6. ASSUME use_console_lock PROVE DepthOK'
      BY <1>4, <2>1, <2>2, <2>3, <2>6 DEF ConsoleInv, DepthOK, CallsOK, held_by, CallRecord
    <2> QED BY <2>3, <2>4, <2>5, <2>6, Zenon DEF ConsoleInv
  <1>7. ASSUME NEW t \in Printer, putchar_have_lock(t) PROVE ConsoleInv'
    <2>1. PICK c \in CallRecord :
            /\ calls' = [calls EXCEPT ![t] = c]
            /\ c.pc = calls[t].pc /\ c.nest = calls[t].nest
      <3>1. calls' = [calls EXCEPT ![t] = [calls[t] EXCEPT !.printed = @ + 1]]
        BY <1>1, <1>7, Zenon DEF putchar_have_lock, ConsoleTypeOK, CallRecord
      <3>2. PICK c : c = [calls[t] EXCEPT !.printed = @ + 1]
        BY Zenon
      <3>3. /\ c \in CallRecord
            /\ c.pc = calls[t].pc
            /\ c.nest = calls[t].nest
        BY <1>4, <3>2 DEF CallRecord
      <3> QED BY <3>1, <3>2, <3>3, Zenon
    <2>2. /\ calls' \in [Printer -> CallRecord] /\ calls'[t] = c
          /\ \A u \in Printer \ {t} : calls'[u] = calls[u]
      BY <1>3, <2>1, Zenon
    <2>3. /\ UNCHANGED <<use_console_lock, console_holder, console_lock_depth, panicker>>
          /\ calls[t].pc = "print"
      BY <1>7, Zenon DEF putchar_have_lock
    <2>4. ConsoleTypeOK'
      BY <1>1, <2>2, <2>3, Zenon DEF ConsoleTypeOK
    <2>5. ASSUME use_console_lock, NEW u \in Printer PROVE CallsOK(u)'
      <3>1. CASE u = t
        BY <1>4, <2>1, <2>2, <2>3, <2>5, <3>1, ZenonT(30) DEF ConsoleInv, CallsOK, held_by, CallRecord
      <3>2. CASE u # t
        BY <2>2, <2>3, <2>5, <3>2, SMTT(30) DEF ConsoleInv, CallsOK, held_by
      <3> QED BY <3>1, <3>2, Zenon
    <2>6. ASSUME use_console_lock PROVE DepthOK'
      BY <1>4, <2>1, <2>2, <2>3, <2>6 DEF ConsoleInv, DepthOK, CallsOK, held_by, CallRecord
    <2> QED BY <2>3, <2>4, <2>5, <2>6, Zenon DEF ConsoleInv
  <1>8. ASSUME NEW t \in Printer, release_console(t) PROVE ConsoleInv'
    <2>1. PICK c \in CallRecord :
            /\ calls' = [calls EXCEPT ![t] = c] /\ c.nest = calls[t].nest - 1
            /\ c.pc = IF calls[t].nest = 1 THEN "idle" ELSE "print"
            /\ c.printed = IF calls[t].nest = 1 THEN 0 ELSE calls[t].printed
      <3>1. calls' = [calls EXCEPT ![t] =
                        [pc |-> IF calls[t].nest = 1 THEN "idle" ELSE "print",
                         nest |-> calls[t].nest - 1,
                         printed |-> IF calls[t].nest = 1 THEN 0 ELSE calls[t].printed,
                         left |-> calls[t].left]]
        BY <1>1, <1>8, Zenon DEF release_console, Returned, ConsoleTypeOK, CallRecord
      <3>2. PICK c : c = [pc |-> IF calls[t].nest = 1 THEN "idle" ELSE "print",
                          nest |-> calls[t].nest - 1,
                          printed |-> IF calls[t].nest = 1 THEN 0 ELSE calls[t].printed,
                          left |-> calls[t].left]
        BY ZenonT(30)
      <3>3. /\ c \in CallRecord
            /\ c.nest = calls[t].nest - 1
            /\ c.pc = IF calls[t].nest = 1 THEN "idle" ELSE "print"
            /\ c.printed = IF calls[t].nest = 1 THEN 0 ELSE calls[t].printed
        BY <1>4, <3>2 DEF CallRecord
      <3> QED BY <3>1, <3>2, <3>3, Zenon
    <2>2. /\ calls' \in [Printer -> CallRecord] /\ calls'[t] = c
          /\ \A u \in Printer \ {t} : calls'[u] = calls[u]
      BY <1>3, <2>1, Zenon
    <2>3. /\ UNCHANGED <<use_console_lock, panicker>> /\ calls[t].pc = "print"
          /\ \/ ~use_console_lock /\ UNCHANGED <<console_holder, console_lock_depth>>
             \/ /\ use_console_lock /\ console_lock_depth > 0
                /\ console_lock_depth' = console_lock_depth - 1 /\ UNCHANGED console_holder
             \/ /\ use_console_lock /\ ~(console_lock_depth > 0) /\ console_holder' = NoPrinter
                /\ UNCHANGED console_lock_depth
      BY <1>8, Zenon DEF release_console
    <2>4. ConsoleTypeOK'
      BY <1>1, <2>2, <2>3 DEF ConsoleTypeOK
    <2>5. ASSUME use_console_lock
          PROVE  console_holder = t /\ console_lock_depth = calls[t].nest - 1 /\ calls[t].nest >= 1
      BY <1>4, <2>3, <2>5, Zenon DEF ConsoleInv, CallsOK, DepthOK, held_by
    <2>6. ASSUME use_console_lock, NEW u \in Printer PROVE CallsOK(u)'
      <3>1. CASE u = t
        <4>1. CASE calls[t].nest = 1
          <5>1. c.pc = "idle" /\ c.nest = 0 /\ c.printed = 0
            BY <2>1, <4>1, SMTT(30)
          <5>2. console_holder' # t
            BY <2>3, <2>5, <2>6, <4>1, ConsoleAssumption, SMTT(30)
          <5> QED BY <2>2, <3>1, <5>1, <5>2, ZenonT(30) DEF CallsOK, held_by
        <4>2. CASE calls[t].nest # 1
          <5>1. calls[t].nest > 1
            BY <1>4, <2>5, <2>6, <4>2, SMTT(30) DEF CallRecord
          <5>2. c.pc = "print" /\ c.nest >= 1
            BY <1>4, <2>1, <4>2, <5>1, SMTT(30) DEF CallRecord
          <5>3. console_lock_depth > 0
            BY <1>4, <2>5, <2>6, <5>1 DEF CallRecord
          <5>4. console_holder' = t
            BY <2>3, <2>5, <2>6, <5>3, ZenonT(30)
          <5> QED BY <2>2, <3>1, <5>2, <5>4, ZenonT(30) DEF CallsOK, held_by
        <4> QED BY <4>1, <4>2, Zenon
      <3>2. CASE u # t
        <4>1. console_holder = t /\ (console_holder' = t \/ console_holder' = NoPrinter)
          BY <2>3, <2>5, <2>6, Zenon
        <4>2. console_holder' # u /\ console_holder # u /\ calls'[u] = calls[u]
          BY <2>2, <3>2, <4>1, ConsoleAssumption, ZenonT(30)
        <4>3. CallsOK(u)
          BY <2>6, ZenonT(30) DEF ConsoleInv
        <4> QED BY <4>2, <4>3, Zenon DEF CallsOK, held_by
      <3> QED BY <3>1, <3>2, Zenon
    <2>7. ASSUME use_console_lock PROVE DepthOK'
      BY <1>4, <2>1, <2>2, <2>3, <2>5, <2>7, SMTT(30) DEF ConsoleInv, DepthOK, held_by, CallRecord
    <2> QED BY <2>3, <2>4, <2>6, <2>7, Zenon DEF ConsoleInv
  <1>9. ASSUME NEW t \in Printer, console_panic(t) PROVE ConsoleInv'
    <2>1. PICK c \in CallRecord : calls' = [calls EXCEPT ![t] = c]
      <3>1. calls' = [calls EXCEPT ![t] = [calls[t] EXCEPT !.pc = "acquire", !.nest = 1,
                                             !.printed = 0]]
        BY <1>1, <1>9, Zenon DEF console_panic, ConsoleTypeOK, CallRecord
      <3>2. PICK c : c = [calls[t] EXCEPT !.pc = "acquire", !.nest = 1, !.printed = 0]
        BY Zenon
      <3>3. c = [pc |-> "acquire", nest |-> 1, printed |-> 0, left |-> calls[t].left]
        BY <1>4, <3>2, ZenonT(30) DEF CallRecord
      <3>4. c \in CallRecord
        BY <1>4, <3>3 DEF CallRecord
      <3> QED BY <3>1, <3>2, <3>4, Zenon
    <2>2. calls' \in [Printer -> CallRecord]
      BY <1>3, <2>1, Zenon
    <2> QED BY <1>1, <1>9, <2>2, Zenon DEF console_panic, ConsoleTypeOK, ConsoleInv
  <1> QED BY <1>2, <1>5, <1>6, <1>7, <1>8, <1>9, Zenon DEF NextConsole, ConsoleStep

\* What two threads print is never mixed, the console lock's depth is exactly how
\* deep the holder is in calls, and the assertion of putchar_have_lock holds, for
\* any number of threads and any depth of nesting.
THEOREM OutputUnmixed == ConsoleSpec => []NoMixedOutput
  <1>1. ConsoleInv => NoMixedOutput
    <2> SUFFICES ASSUME ConsoleInv, use_console_lock PROVE NoMixedOutput
      BY Zenon DEF NoMixedOutput
    <2>1. (\A t \in Printer : CallsOK(t)) /\ DepthOK /\ ConsoleTypeOK
      BY Zenon DEF ConsoleInv
    <2>2. \A t, u \in Printer : calls[t].printed > 0 /\ calls[u].printed > 0 => t = u
      BY <2>1 DEF CallsOK, held_by
    <2>3. \A t \in Printer : calls[t].pc = "print" => console_locked_by(t)
      BY <2>1, Zenon DEF CallsOK, console_locked_by
    <2>4. IF console_holder = NoPrinter THEN console_lock_depth = 0
          ELSE LET c == calls[console_holder]
               IN  console_lock_depth = c.nest - (IF c.pc = "acquire" THEN 2 ELSE 1)
      BY <2>1, Zenon DEF DepthOK, held_by, ConsoleTypeOK
    <2> QED BY <2>2, <2>3, <2>4, Zenon DEF NoMixedOutput
  <1> QED BY <1>1, ConsoleInitInv, ConsoleNextInv, PTL DEF ConsoleSpec

-----------------------------------------------------------------------------
(***************************************************************************)
(* Synch.                                                                  *)
(*                                                                         *)
(* Mutual exclusion and the fate of a signal are inductive once it is      *)
(* known what the locals of an operation under way refer to (Locals), that *)
(* the holder recorded in a lock is the thread that has it (HeldOK), and   *)
(* that no thread is on a condition's list twice.                          *)
(***************************************************************************)
TypeOK ==
  /\ value \in [Sema -> Nat]
  /\ waiters \in [Sema -> Seq(Thread)]
  /\ woken \in [Sema -> SUBSET Thread]
  /\ holder \in [Lock -> Thread \cup {NULL}]
  /\ cwaiters \in [Cond -> Seq(Thread)]
  /\ held \in [Thread -> SUBSET Lock]
  /\ pc \in [Thread -> Label]
  /\ lock \in [Thread -> Lock \cup {NULL}]
  /\ cond \in [Thread -> Cond \cup {NULL}]
  /\ signalled \in [Thread -> Thread \cup {NULL}]
  /\ next_tid \in Nat
  /\ tid \in [Thread -> Nat]
  /\ tids \in Seq(Nat)

\* The condition variable of a cond_wait or cond_broadcast under way.
InCond(t) == \/ pc[t] \in {"cond_release", "cond_block", "cond_reacquire"} \cup Broadcasting
             \/ pc[t] = "releasing" /\ cond[t] # NULL

\* What the locals of an operation under way refer to, and which locks its thread
\* has.
Locals(t) ==
  /\ pc[t] \in {"acquire", "acquired", "releasing", "cond_block", "cond_reacquire"} =>
       lock[t] \in Lock
  /\ pc[t] \in {"releasing", "cond_block", "cond_reacquire"} => lock[t] \notin held[t]
  /\ InCond(t) => cond[t] \in Cond
  /\ pc[t] \in {"cond_release"} \cup Broadcasting => LockOf[cond[t]] \in held[t]
  /\ InCond(t) /\ pc[t] \notin {"cond_release"} \cup Broadcasting =>
       lock[t] = LockOf[cond[t]]
  /\ pc[t] \in {"tid_read", "tid_write", "tid_release"} <=> TidLock \in held[t]
  /\ signalled[t] # NULL <=> pc[t] \in {"signal", "broadcast_signal"}

LocalsOK == \A t \in Thread : Locals(t)

\* lock_held_by_current_thread tells who has a lock.
HeldOK == \A l \in Lock, t \in Thread : l \in held[t] <=> holder[l] = t

ListsOK == \A c \in Cond : IsInjective(cwaiters[c])

\* Between allocate_tid's read of next_tid and its write nobody else writes it.
TidsOK ==
  /\ next_tid = Len(tids) + 1
  /\ \A n \in 1..Len(tids) : tids[n] = n
  /\ \A t \in Thread : pc[t] = "tid_write" => tid[t] = next_tid

IndInv ==
  /\ TypeOK
  /\ LocalsOK
  /\ HeldOK
  /\ MutualExclusion
  /\ NoLostSignal
  /\ ListsOK
  /\ TidsOK

-----------------------------------------------------------------------------
\* The initial state, after lock_init and cond_init, satisfies the invariant.
LEMMA InitInv == Init => IndInv
  <1> SUFFICES ASSUME Init PROVE IndInv
    BY Zenon
  <1> USE SynchAssumption
  <1>1. TypeOK
    BY DEF Init, TypeOK, Label
  <1>2. LocalsOK /\ HeldOK
    BY Zenon DEF Init, LocalsOK, Locals, HeldOK, InCond, Waiting, Broadcasting
  <1>3. MutualExclusion
    BY Zenon DEF Init, MutualExclusion, Exclusive, Owners
  <1>4. NoLostSignal /\ ListsOK
    BY EmptyRange, ZenonT(30) DEF Init, NoLostSignal, OneSignal, Listed, Signallers, Waiting, ListsOK
  <1>5. TidsOK
    BY DEF Init, TidsOK
  <1> QED BY <1>1, <1>2, <1>3, <1>4, <1>5, ZenonT(30) DEF IndInv

\* The semaphore operations keep the types of a semaphore's fields.
SemaTypeOK ==
  /\ value \in [Sema -> Nat]
  /\ waiters \in [Sema -> Seq(Thread)]
  /\ woken \in [Sema -> SUBSET Thread]

\* Every operation on a semaphore keeps the types.
LEMMA SemaType ==
  ASSUME SemaTypeOK, NEW t \in Thread, NEW s \in Sema,
         sema_block(t, s) \/ sema_take(t, s) \/ sema_up(s) \/ sema_init(s, 0)
  PROVE  SemaTypeOK'
  <1>1. CASE sema_block(t, s)
    <2>1. Append(waiters[s], t) \in Seq(Thread)
      BY DEF SemaTypeOK
    <2>2. waiters' \in [Sema -> Seq(Thread)]
      BY <1>1, <2>1, ZenonT(30) DEF sema_block, SemaTypeOK
    <2> QED BY <1>1, <2>2, ZenonT(30) DEF sema_block, SemaTypeOK
  <1>2. CASE sema_take(t, s)
    BY <1>2 DEF sema_take, SemaTypeOK
  <1>3. CASE sema_up(s)
    <2>1. waiters[s] # <<>> => Head(waiters[s]) \in Thread /\ Tail(waiters[s]) \in Seq(Thread)
      BY SMTT(30) DEF SemaTypeOK
    <2>2. value' \in [Sema -> Nat]
      BY <1>3 DEF sema_up, SemaTypeOK
    <2>3. waiters' \in [Sema -> Seq(Thread)] /\ woken' \in [Sema -> SUBSET Thread]
      BY <1>3, <2>1, ZenonT(30) DEF sema_up, SemaTypeOK
    <2> QED BY <2>2, <2>3, ZenonT(30) DEF SemaTypeOK
  <1>4. CASE sema_init(s, 0)
    BY <1>4, Zenon DEF sema_init, SemaTypeOK
  <1> QED BY <1>1, <1>2, <1>3, <1>4, ZenonT(30)

\* A thread whose own state a step leaves alone.
LEMMA LocalsFrame ==
  ASSUME NEW u \in Thread, Locals(u), pc'[u] = pc[u], lock'[u] = lock[u],
         held'[u] = held[u], cond'[u] = cond[u], signalled'[u] = signalled[u]
  PROVE  Locals(u)'
  BY Zenon DEF Locals, InCond

\* A step that leaves the conditions' lists, the signallers' hands and the
\* waiters' semaphores alone, and moves nobody into or out of cond_wait.
LEMMA SignalsFrame ==
  ASSUME NoLostSignal, cwaiters' = cwaiters, signalled' = signalled,
         \A u \in Thread : value'[u] = value[u] /\ (Waiting(u)' <=> Waiting(u))
  PROVE  NoLostSignal'
  <1> SUFFICES ASSUME NEW u \in Thread PROVE OneSignal(u)'
    BY Zenon DEF NoLostSignal
  <1>1. Listed(u)' = Listed(u) /\ Signallers(u)' = Signallers(u)
    BY Zenon DEF Listed, Signallers
  <1> QED BY <1>1, Zenon DEF NoLostSignal, OneSignal

\* A step that changes neither a lock's value nor who owns it.
LEMMA ExclusiveFrame ==
  ASSUME NEW l \in Lock, Exclusive(l), value'[l] = value[l],
         \A u \in Thread : u \in Owners(l)' <=> u \in Owners(l)
  PROVE  Exclusive(l)'
  <1>1. Owners(l)' = Owners(l)
    BY Zenon DEF Owners
  <1> QED BY <1>1, Zenon DEF Exclusive

\* A lock's semaphore counts to one.
LEMMA Counting ==
  0 + 1 = 1 /\ 1 - 1 = 0 /\ ~(0 > 0) /\ 0 # 1
  OBVIOUS

\* Thread t waits for lock l or gets it: the body of lock_acquire,
\* lock_try_acquire, allocate_tid and of the end of cond_wait.
LEMMA AcquireInv ==
  ASSUME IndInv, NEW t \in Thread, NEW l \in Lock,
         pc[t] \in {"run", "acquire", "cond_reacquire"},
         \/ sema_block(t, l) /\ Goto(t, "acquire")
         \/ sema_take(t, l) /\ Goto(t, "acquired"),
         lock' = [lock EXCEPT ![t] = l],
         UNCHANGED <<holder, held, conds, alloc>>
  PROVE  IndInv'
  <1> USE SynchAssumption
  <1>1. /\ UNCHANGED <<holder, held, cwaiters, cond, signalled, next_tid, tid, tids>>
        /\ \/ pc' = [pc EXCEPT ![t] = "acquire"] /\ value[l] = 0 /\ value' = value
           \/ pc' = [pc EXCEPT ![t] = "acquired"] /\ value[l] > 0
              /\ value' = [value EXCEPT ![l] = @ - 1]
    BY Zenon DEF conds, alloc, Goto, sema_block, sema_take
  <1>2. /\ lock'[t] = l
        /\ \A u \in Thread \ {t} : lock'[u] = lock[u] /\ pc'[u] = pc[u]
        /\ pc'[t] \in {"acquire", "acquired"}
        /\ pc'[t] = "acquire" => value' = value
        /\ pc'[t] = "acquired" => value[l] # 0 /\ value'[l] = value[l] - 1
        /\ \A s \in Sema \ {l} : value'[s] = value[s]
    <2>1. CASE pc' = [pc EXCEPT ![t] = "acquire"] /\ value[l] = 0 /\ value' = value
      BY <2>1, ZenonT(30) DEF IndInv, TypeOK
    <2>2. CASE /\ pc' = [pc EXCEPT ![t] = "acquired"] /\ value[l] > 0
               /\ value' = [value EXCEPT ![l] = @ - 1]
      BY <2>2, Counting, Zenon DEF IndInv, TypeOK
    <2> QED BY <1>1, <2>1, <2>2, Zenon
  <1>3. TypeOK'
    <2>1. SemaTypeOK'
      BY SemaType, Zenon DEF IndInv, TypeOK, SemaTypeOK
    <2>2. pc' \in [Thread -> Label] /\ lock' \in [Thread -> Lock \cup {NULL}]
      BY <1>1, Zenon DEF IndInv, TypeOK, Label
    <2> QED BY <1>1, <2>1, <2>2, ZenonT(30) DEF IndInv, TypeOK, SemaTypeOK
  <1>4. LocalsOK'
    <2>1. \A u \in Thread \ {t} : Locals(u)'
      BY <1>2, <1>1, LocalsFrame, Zenon DEF IndInv, LocalsOK
    <2>2. Locals(t)'
      <3>1. pc'[t] \in {"acquire", "acquired"} /\ lock'[t] = l
        BY <1>2, Zenon
      <3>2. signalled'[t] = NULL /\ TidLock \notin held'[t]
        BY <1>1, Zenon DEF IndInv, LocalsOK, Locals
      <3> QED BY <3>1, <3>2, Zenon DEF Locals, InCond, Broadcasting
    <2> QED BY <2>1, <2>2, Zenon DEF LocalsOK
  <1>5. HeldOK'
    BY <1>1, Zenon DEF IndInv, HeldOK
  <1>6. ASSUME NEW k \in Lock
        PROVE  Exclusive(k)'
    <2>1. ASSUME NEW u \in Thread, u # t \/ k # l \/ pc'[t] = "acquire"
          PROVE  u \in Owners(k)' <=> u \in Owners(k)
      <3>1. CASE u # t
        BY <1>2, <1>1, <3>1, Zenon DEF Owners
      <3>2. CASE u = t
        BY <1>2, <1>1, <2>1, <3>2, Zenon DEF Owners
      <3> QED BY <3>1, <3>2, Zenon
    <2>2. CASE k # l \/ pc'[t] = "acquire"
      <3>1. value'[k] = value[k]
        BY <1>2, <2>2, Zenon
      <3> QED BY <2>1, <2>2, <3>1, ExclusiveFrame, ZenonT(30) DEF IndInv, MutualExclusion
    <2>3. CASE k = l /\ pc'[t] = "acquired"
      <3>1. value[l] = 1 /\ Owners(l) = {}
        BY <1>2, <2>3, Zenon DEF IndInv, MutualExclusion, Exclusive
      <3>2. value'[l] = 0
        BY <1>2, <2>3, <3>1, Counting, ZenonT(30)
      <3>3. t \in Owners(l)'
        BY <1>2, <2>3, Zenon DEF Owners
      <3>4. Owners(l)' = {t}
        BY <3>1, <3>3, <2>1, <2>3, ZenonT(30) DEF Owners
      <3> QED BY <3>2, <3>4, <2>3, Zenon DEF Exclusive
    <2> QED BY <1>2, <2>2, <2>3, Zenon
  <1>7. NoLostSignal' /\ ListsOK'
    <2>1. \A u \in Thread : value'[u] = value[u]
      BY <1>2, Zenon
    <2>2. \A u \in Thread : Waiting(u)' <=> Waiting(u)
      BY <1>2, <1>1, Zenon DEF Waiting
    <2> QED BY <1>1, <2>1, <2>2, SignalsFrame, ZenonT(30) DEF IndInv, ListsOK
  <1>8. TidsOK'
    <2>1. \A u \in Thread : pc'[u] = "tid_write" => pc[u] = "tid_write"
      BY <1>2, Zenon
    <2> QED BY <1>1, <2>1, Zenon DEF IndInv, TidsOK
  <1> QED BY <1>3, <1>4, <1>5, <1>6, <1>7, <1>8, Zenon DEF IndInv, MutualExclusion

\* lock_acquire records the new owner as the holder.
LEMMA SetHolderInv ==
  ASSUME IndInv, NEW t \in Thread, set_holder(t)
  PROVE  IndInv'
  <1> USE SynchAssumption
  <1>1. PICK l \in Lock : l = lock[t]
    BY Zenon DEF IndInv, LocalsOK, Locals, set_holder
  <1>2. /\ UNCHANGED <<value, waiters, woken, lock, cwaiters, cond, signalled,
                       next_tid, tid, tids>>
        /\ pc[t] = "acquired"
        /\ holder' = [holder EXCEPT ![l] = t]
        /\ held' = [held EXCEPT ![t] = @ \cup {l}]
        /\ pc' = [pc EXCEPT ![t] = IF l = TidLock THEN "tid_read" ELSE "run"]
    BY <1>1, Zenon DEF set_holder, semaphores, conds, alloc, Goto
  <1>3. TypeOK'
    <2>1. pc' \in [Thread -> Label]
      BY <1>2, Zenon DEF IndInv, TypeOK, Label
    <2>2. /\ holder' \in [Lock -> Thread \cup {NULL}]
          /\ held' \in [Thread -> SUBSET Lock]
      <3>1. held[t] \cup {l} \in SUBSET Lock
        BY Zenon DEF IndInv, TypeOK
      <3> QED BY <1>2, <3>1, Zenon DEF IndInv, TypeOK
    <2> QED BY <1>2, <2>1, <2>2, Zenon DEF IndInv, TypeOK
  <1>4. LocalsOK'
    <2>1. \A u \in Thread \ {t} : Locals(u)'
      BY <1>2, LocalsFrame, Zenon DEF IndInv, TypeOK, LocalsOK
    <2>2. Locals(t)'
      <3>1. CASE l = TidLock
        BY <1>2, <3>1, ZenonT(30) DEF IndInv, TypeOK, LocalsOK, Locals, InCond, Broadcasting
      <3>2. CASE l # TidLock
        BY <1>2, <3>2, ZenonT(30) DEF IndInv, TypeOK, LocalsOK, Locals, InCond, Broadcasting
      <3> QED BY <3>1, <3>2, Zenon
    <2> QED BY <2>1, <2>2, Zenon DEF LocalsOK
  <1>5. \A u \in Thread : l \in held[u] => u = t
    <2>1. t \in Owners(l)
      BY <1>1, <1>2, ZenonT(30) DEF Owners
    <2>2. \A u \in Thread : l \in held[u] => u \in Owners(l)
      BY Zenon DEF Owners
    <2> QED BY <1>1, <2>1, <2>2, ZenonT(30) DEF IndInv, MutualExclusion, Exclusive
  <1>6. HeldOK'
    <2>1. holder'[l] = t /\ \A k \in Lock \ {l} : holder'[k] = holder[k]
      BY <1>2, ZenonT(30) DEF IndInv, TypeOK
    <2>2. held'[t] = held[t] \cup {l} /\ \A u \in Thread \ {t} : held'[u] = held[u]
      BY <1>2, Zenon DEF IndInv, TypeOK
    <2>3. ASSUME NEW k \in Lock, NEW u \in Thread
          PROVE  k \in held'[u] <=> holder'[k] = u
      <3>1. (k \in held[u] => holder[k] = u) /\ (holder[k] = u => k \in held[u])
        BY DEF IndInv, HeldOK
      <3> QED BY <1>5, <2>1, <2>2, <3>1, ZenonT(30)
    <2> QED BY <2>3, Zenon DEF HeldOK
  <1>7. ASSUME NEW k \in Lock
        PROVE  Exclusive(k)'
    <2>1. \A u \in Thread : u \in Owners(k)' <=> u \in Owners(k)
      BY <1>1, <1>2, ZenonT(30) DEF IndInv, TypeOK, Owners
    <2> QED BY <1>2, <2>1, ExclusiveFrame, ZenonT(30) DEF IndInv, MutualExclusion
  <1>8. NoLostSignal' /\ ListsOK'
    <2>1. \A u \in Thread : Waiting(u)' <=> Waiting(u)
      BY <1>2, ZenonT(30) DEF IndInv, TypeOK, Waiting
    <2> QED BY <1>2, <2>1, SignalsFrame, ZenonT(30) DEF IndInv, ListsOK
  <1>9. TidsOK'
    BY <1>2, Zenon DEF IndInv, TypeOK, TidsOK
  <1> QED BY <1>3, <1>4, <1>6, <1>7, <1>8, <1>9, ZenonT(30) DEF IndInv, MutualExclusion

\* The first half of lock_release, called by a client, by cond_wait or by
\* allocate_tid.
LEMMA ClearHolderInv ==
  ASSUME IndInv, NEW t \in Thread, NEW l \in Lock, ClearHolder(t, l),
         Goto(t, "releasing"),
         \/ pc[t] = "run" /\ cond' = [cond EXCEPT ![t] = NULL]
         \/ pc[t] = "tid_release" /\ l = TidLock /\ cond' = [cond EXCEPT ![t] = NULL]
         \/ pc[t] = "cond_release" /\ cond' = cond /\ l = LockOf[cond[t]],
         UNCHANGED <<cwaiters, signalled, alloc>>
  PROVE  IndInv'
  <1> USE SynchAssumption
  <1>1. /\ UNCHANGED <<value, waiters, woken, cwaiters, signalled, next_tid, tid, tids>>
        /\ holder[l] = t
        /\ holder' = [holder EXCEPT ![l] = NULL]
        /\ held' = [held EXCEPT ![t] = @ \ {l}]
        /\ lock' = [lock EXCEPT ![t] = l]
        /\ pc' = [pc EXCEPT ![t] = "releasing"]
    BY Zenon DEF ClearHolder, Goto, semaphores, alloc
  <1>2. cond' \in [Thread -> Cond \cup {NULL}]
    BY Zenon DEF IndInv, TypeOK
  <1>3. TypeOK'
    BY <1>1, <1>2, ZenonT(30) DEF IndInv, TypeOK, Label
  <1>4. \A u \in Thread \ {t} : cond'[u] = cond[u]
    BY ZenonT(30) DEF IndInv, TypeOK
  <1>5. \/ cond'[t] = NULL /\ ~Waiting(t)
        \/ cond'[t] = cond[t] /\ cond[t] \in Cond /\ l = LockOf[cond[t]] /\ Waiting(t)
    BY SMTT(30) DEF IndInv, TypeOK, LocalsOK, Locals, InCond, Waiting
  <1>6. LocalsOK'
    <2>1. \A u \in Thread \ {t} : Locals(u)'
      BY <1>1, <1>4, LocalsFrame, Zenon DEF IndInv, TypeOK, LocalsOK
    <2>2. Locals(t)'
      <3>1. pc'[t] = "releasing" /\ lock'[t] = l /\ l \notin held'[t]
        BY <1>1, Zenon DEF IndInv, TypeOK
      <3>2. signalled'[t] = NULL /\ TidLock \notin held'[t]
        BY <1>1, Zenon DEF IndInv, TypeOK, LocalsOK, Locals
      <3> QED BY <3>1, <3>2, <1>5, ZenonT(30) DEF Locals, InCond, Broadcasting
    <2> QED BY <2>1, <2>2, Zenon DEF LocalsOK
  <1>7. HeldOK'
    <2>1. holder'[l] = NULL /\ \A k \in Lock \ {l} : holder'[k] = holder[k]
      BY <1>1, ZenonT(30) DEF IndInv, TypeOK
    <2>2. held'[t] = held[t] \ {l} /\ \A u \in Thread \ {t} : held'[u] = held[u]
      BY <1>1, Zenon DEF IndInv, TypeOK
    <2>3. ASSUME NEW k \in Lock, NEW u \in Thread
          PROVE  k \in held'[u] <=> holder'[k] = u
      <3>1. (k \in held[u] => holder[k] = u) /\ (holder[k] = u => k \in held[u])
        BY Zenon DEF IndInv, HeldOK
      <3>2. CASE k = l
        <4>1. holder'[k] # u
          BY <2>1, <3>2, Zenon
        <4>2. k \notin held'[u]
          BY <1>1, <2>2, <3>1, <3>2, ZenonT(30)
        <4> QED BY <4>1, <4>2, Zenon
      <3>3. CASE k # l
        BY <2>1, <2>2, <3>1, <3>3, ZenonT(30)
      <3> QED BY <3>2, <3>3, Zenon
    <2> QED BY <2>3, Zenon DEF HeldOK
  <1>8. ASSUME NEW k \in Lock
        PROVE  Exclusive(k)'
    <2>1. l \in held[t]
      BY <1>1, Zenon DEF IndInv, HeldOK
    <2>2. \A u \in Thread : u \in Owners(k)' <=> u \in Owners(k)
      BY <1>1, <2>1, ZenonT(30) DEF IndInv, TypeOK, Owners
    <2> QED BY <1>1, <2>2, ExclusiveFrame, ZenonT(30) DEF IndInv, MutualExclusion
  <1>9. NoLostSignal' /\ ListsOK'
    <2>1. \A u \in Thread \ {t} : Waiting(u)' <=> Waiting(u)
      BY <1>1, <1>4, ZenonT(30) DEF IndInv, TypeOK, Waiting
    <2>2. Waiting(t)' <=> Waiting(t)
      BY <1>1, <1>5, ZenonT(30) DEF IndInv, TypeOK, Waiting
    <2> QED BY <1>1, <2>1, <2>2, SignalsFrame, Zenon DEF IndInv, ListsOK
  <1>10. TidsOK'
    BY <1>1, ZenonT(30) DEF IndInv, TypeOK, TidsOK
  <1> QED BY <1>3, <1>6, <1>7, <1>8, <1>9, <1>10, ZenonT(30) DEF IndInv, MutualExclusion

\* The second half of lock_release frees the lock.
LEMMA ReleaseUpInv ==
  ASSUME IndInv, NEW t \in Thread, release_up(t)
  PROVE  IndInv'
  <1> USE SynchAssumption
  <1>1. PICK l \in Lock : l = lock[t] /\ l \notin held[t]
    BY Zenon DEF IndInv, LocalsOK, Locals, release_up
  <1>2. /\ UNCHANGED <<holder, held, lock, cwaiters, cond, signalled,
                       next_tid, tid, tids>>
        /\ pc[t] = "releasing"
        /\ pc' = [pc EXCEPT ![t] = IF cond[t] # NULL THEN "cond_block" ELSE "run"]
        /\ sema_up(l) /\ value' = [value EXCEPT ![l] = @ + 1]
    BY <1>1, Zenon DEF release_up, sema_up, locks, conds, alloc, Goto
  <1>3. TypeOK'
    <2>1. SemaTypeOK'
      BY <1>1, <1>2, SemaType, Zenon DEF IndInv, TypeOK, SemaTypeOK
    <2> QED BY <1>2, <2>1, Zenon DEF IndInv, TypeOK, SemaTypeOK, Label
  <1>4. LocalsOK'
    <2>1. \A u \in Thread \ {t} : Locals(u)'
      BY <1>2, LocalsFrame, Zenon DEF IndInv, TypeOK, LocalsOK
    <2>2. Locals(t)'
      <3>1. CASE cond[t] = NULL
        BY <1>2, <3>1, ZenonT(30) DEF IndInv, TypeOK, LocalsOK, Locals, InCond, Broadcasting
      <3>2. CASE cond[t] # NULL
        BY <1>2, <3>2, ZenonT(30) DEF IndInv, TypeOK, LocalsOK, Locals, InCond, Broadcasting
      <3> QED BY <3>1, <3>2, Zenon
    <2> QED BY <2>1, <2>2, Zenon DEF LocalsOK
  <1>5. HeldOK'
    BY <1>2, Zenon DEF IndInv, HeldOK
  <1>6. ASSUME NEW k \in Lock
        PROVE  Exclusive(k)'
    <2>1. ASSUME NEW u \in Thread, u # t \/ k # l
          PROVE  u \in Owners(k)' <=> u \in Owners(k)
      BY <1>1, <1>2, <2>1, Zenon DEF IndInv, TypeOK, Owners
    <2>2. CASE k # l
      <3>1. value'[k] = value[k]
        BY <1>1, <1>2, <2>2, Zenon DEF IndInv, TypeOK
      <3> QED BY <2>1, <2>2, <3>1, ExclusiveFrame, ZenonT(30) DEF IndInv, MutualExclusion
    <2>3. CASE k = l
      <3>1. t \in Owners(l) /\ t \notin Owners(l)'
        BY <1>1, <1>2, Zenon DEF IndInv, TypeOK, Owners
      <3>2. value[l] = 0 /\ Owners(l) = {t}
        BY <1>1, <3>1, Zenon DEF IndInv, MutualExclusion, Exclusive
      <3>3. value'[l] = 1
        <4>1. value'[l] = value[l] + 1
          BY <1>1, <1>2, Zenon DEF IndInv, TypeOK
        <4> QED BY <3>2, <4>1, Counting, Zenon
      <3>4. Owners(l)' = {}
        <4>1. \A u \in Thread : u \notin Owners(l)'
          BY <2>1, <2>3, <3>1, <3>2, ZenonT(30)
        <4> QED BY <4>1, Zenon DEF Owners
      <3> QED BY <2>3, <3>3, <3>4, Zenon DEF Exclusive
    <2> QED BY <2>2, <2>3, Zenon
  <1>7. NoLostSignal' /\ ListsOK'
    <2>1. \A u \in Thread : value'[u] = value[u]
      BY <1>1, <1>2, ZenonT(30) DEF IndInv, TypeOK
    <2>2. \A u \in Thread : Waiting(u)' <=> Waiting(u)
      BY <1>2, ZenonT(30) DEF IndInv, TypeOK, Waiting
    <2> QED BY <1>2, <2>1, <2>2, SignalsFrame, ZenonT(30) DEF IndInv, ListsOK
  <1>8. TidsOK'
    BY <1>2, ZenonT(30) DEF IndInv, TypeOK, TidsOK
  <1> QED BY <1>3, <1>4, <1>5, <1>6, <1>7, <1>8, Zenon DEF IndInv, MutualExclusion

\* A step that changes no lock, no value of a lock's semaphore, and moves only t,
\* neither into nor out of the windows in which it owns a lock it does not hold.
LEMMA ExclusiveSame ==
  ASSUME IndInv, NEW t \in Thread, held' = held, lock' = lock,
         \A l \in Lock : value'[l] = value[l],
         \A u \in Thread \ {t} : pc'[u] = pc[u],
         pc[t] \notin {"acquired", "releasing"}, pc'[t] \notin {"acquired", "releasing"}
  PROVE  MutualExclusion'
  <1> SUFFICES ASSUME NEW l \in Lock PROVE Exclusive(l)'
    BY Zenon DEF MutualExclusion
  <1>1. \A u \in Thread : u \in Owners(l)' <=> u \in Owners(l)
    BY Zenon DEF Owners
  <1> QED BY <1>1, ExclusiveFrame, Zenon DEF IndInv, MutualExclusion

\* cond_wait initializes the caller's semaphore and puts it on the list.
LEMMA CondWaitInv ==
  ASSUME IndInv, NEW t \in Thread, NEW c \in Cond, cond_wait(t, c)
  PROVE  IndInv'
  <1> USE SynchAssumption
  <1>1. /\ UNCHANGED <<holder, held, lock, signalled, next_tid, tid, tids>>
        /\ pc[t] = "run" /\ LockOf[c] \in held[t]
        /\ sema_init(t, 0) /\ value' = [value EXCEPT ![t] = 0]
        /\ cwaiters' = [cwaiters EXCEPT ![c] = Append(@, t)]
        /\ cond' = [cond EXCEPT ![t] = c]
        /\ pc' = [pc EXCEPT ![t] = "cond_release"]
    BY Zenon DEF cond_wait, Monitor, sema_init, locks, alloc, Goto
  <1>2. value[t] = 0 /\ Listed(t) = {} /\ Signallers(t) = {}
    BY <1>1, Zenon DEF IndInv, NoLostSignal, OneSignal, Waiting
  <1>3. value' = value
    BY <1>1, <1>2, Zenon DEF IndInv, TypeOK
  <1>4. /\ Append(cwaiters[c], t) \in Seq(Thread)
        /\ IsInjective(Append(cwaiters[c], t))
        /\ Range(Append(cwaiters[c], t)) = Range(cwaiters[c]) \cup {t}
    <2>1. t \notin Range(cwaiters[c]) /\ IsInjective(cwaiters[c]) /\ cwaiters[c] \in Seq(Thread)
      BY <1>2, Zenon DEF Listed, IndInv, TypeOK, ListsOK
    <2> QED BY <2>1, AppendRange, Zenon
  <1>5. TypeOK'
    <2>1. SemaTypeOK'
      BY <1>1, SemaType, ZenonT(30) DEF IndInv, TypeOK, SemaTypeOK
    <2>2. cwaiters' \in [Cond -> Seq(Thread)]
      BY <1>1, <1>4, Zenon DEF IndInv, TypeOK
    <2> QED BY <1>1, <2>1, <2>2, Zenon DEF IndInv, TypeOK, SemaTypeOK, Label
  <1>6. LocalsOK'
    <2>1. \A u \in Thread \ {t} : Locals(u)'
      BY <1>1, LocalsFrame, ZenonT(30) DEF IndInv, TypeOK, LocalsOK
    <2>2. Locals(t)'
      BY <1>1, ZenonT(30) DEF IndInv, TypeOK, LocalsOK, Locals, InCond, Broadcasting
    <2> QED BY <2>1, <2>2, Zenon DEF LocalsOK
  <1>7. HeldOK'
    BY <1>1, Zenon DEF IndInv, HeldOK
  <1>8. MutualExclusion'
    BY <1>1, <1>3, ExclusiveSame, ZenonT(30) DEF IndInv, TypeOK
  <1>9. ListsOK'
    BY <1>1, <1>4, Zenon DEF IndInv, TypeOK, ListsOK
  <1>10. ASSUME NEW u \in Thread
         PROVE  OneSignal(u)'
    <2>1. Signallers(u)' = Signallers(u)
      BY <1>1, Zenon DEF Signallers
    <2>2. CASE u = t
      <3>1. Listed(t)' = {c}
        <4>1. c \in Listed(t)' /\ \A d \in Cond \ {c} : d \in Listed(t)' <=> d \in Listed(t)
          BY <1>1, <1>4 DEF IndInv, TypeOK, Listed
        <4>2. Listed(t)' \subseteq Cond
          BY Zenon DEF Listed
        <4> QED BY <1>2, <4>1, <4>2, ZenonT(30)
      <3>2. Waiting(t)'
        BY <1>1, ZenonT(30) DEF IndInv, TypeOK, Waiting
      <3> QED BY <1>2, <1>3, <2>1, <2>2, <3>1, <3>2, ZenonT(30) DEF OneSignal
    <2>3. CASE u # t
      <3>1. Listed(u)' = Listed(u)
        BY <1>1, <1>4, <2>3, ZenonT(30) DEF IndInv, TypeOK, Listed
      <3>2. Waiting(u)' <=> Waiting(u)
        BY <1>1, <2>3, ZenonT(30) DEF IndInv, TypeOK, Waiting
      <3> QED BY <1>3, <2>1, <3>1, <3>2, Zenon DEF IndInv, NoLostSignal, OneSignal
    <2> QED BY <2>2, <2>3, Zenon
  <1>11. TidsOK'
    BY <1>1, Zenon DEF IndInv, TypeOK, TidsOK
  <1> QED BY <1>5, <1>6, <1>7, <1>8, <1>9, <1>10, <1>11, Zenon DEF IndInv, NoLostSignal

\* cond_wait waits for its own semaphore or, signalled, goes on.
LEMMA CondBlockInv ==
  ASSUME IndInv, NEW t \in Thread, cond_wait_block(t)
  PROVE  IndInv'
  <1> USE SynchAssumption
  <1>1. /\ UNCHANGED <<holder, held, lock, cwaiters, cond, signalled,
                       next_tid, tid, tids>>
        /\ pc[t] = "cond_block"
        /\ sema_block(t, t) \/ sema_take(t, t)
        /\ \/ pc' = [pc EXCEPT ![t] = "cond_block"] /\ value' = value
           \/ /\ pc' = [pc EXCEPT ![t] = "cond_reacquire"]
              /\ value[t] > 0 /\ value' = [value EXCEPT ![t] = @ - 1]
    BY ZenonT(30) DEF cond_wait_block, SemaDown, sema_block, sema_take, locks, conds, alloc, Goto
  <1>2. pc'[t] \in {"cond_block", "cond_reacquire"}
        /\ \A u \in Thread \ {t} : pc'[u] = pc[u] /\ value'[u] = value[u]
    BY <1>1 DEF IndInv, TypeOK
  <1>3. TypeOK'
    <2>1. SemaTypeOK'
      BY <1>1, SemaType, Zenon DEF IndInv, TypeOK, SemaTypeOK
    <2> QED BY <1>1, <2>1, Zenon DEF IndInv, TypeOK, SemaTypeOK, Label
  <1>4. LocalsOK'
    <2>1. \A u \in Thread \ {t} : Locals(u)'
      BY <1>1, <1>2, LocalsFrame, ZenonT(30) DEF IndInv, LocalsOK
    <2>2. Locals(t)'
      BY <1>1, <1>2, ZenonT(30) DEF IndInv, LocalsOK, Locals, InCond, Broadcasting
    <2> QED BY <2>1, <2>2, Zenon DEF LocalsOK
  <1>5. HeldOK' /\ ListsOK'
    BY <1>1, Zenon DEF IndInv, HeldOK, ListsOK
  <1>6. MutualExclusion'
    <2>1. \A l \in Lock : value'[l] = value[l]
      BY <1>1 DEF IndInv, TypeOK
    <2> QED BY <1>1, <1>2, <2>1, ExclusiveSame, ZenonT(30)
  <1>7. ASSUME NEW u \in Thread
        PROVE  OneSignal(u)'
    <2>1. Signallers(u)' = Signallers(u) /\ Listed(u)' = Listed(u)
      BY <1>1, Zenon DEF Signallers, Listed
    <2>2. CASE u # t \/ pc'[t] = "cond_block"
      <3>1. value'[u] = value[u] /\ (Waiting(u)' <=> Waiting(u))
        BY <1>1, <1>2, <2>2, ZenonT(30) DEF IndInv, TypeOK, Waiting
      <3> QED BY <2>1, <3>1, ZenonT(30) DEF IndInv, NoLostSignal, OneSignal
    <2>3. CASE u = t /\ pc'[t] = "cond_reacquire"
      <3>0. value[t] > 0 /\ value' = [value EXCEPT ![t] = @ - 1]
        BY <1>1, <2>3, Zenon DEF IndInv, TypeOK
      <3>1. value[t] = 1 /\ Listed(t) = {} /\ Signallers(t) = {}
        BY <3>0, Counting, Zenon DEF IndInv, NoLostSignal, OneSignal
      <3>2. value'[t] = 0
        <4>1. value'[t] = value[t] - 1
          BY <3>0, Zenon DEF IndInv, TypeOK
        <4> QED BY <3>1, <4>1, Counting, ZenonT(30)
      <3>3. ~Waiting(t)'
        BY <2>3, Zenon DEF Waiting
      <3> QED BY <2>1, <2>3, <3>1, <3>2, <3>3, Zenon DEF OneSignal
    <2> QED BY <1>2, <2>2, <2>3, ZenonT(30)
  <1>8. TidsOK'
    BY <1>1, <1>2, Zenon DEF IndInv, TidsOK
  <1> QED BY <1>3, <1>4, <1>5, <1>6, <1>7, <1>8, ZenonT(30) DEF IndInv, NoLostSignal

\* cond_signal, or a turn of cond_broadcast, takes the first waiter.
LEMMA PopWaiterInv ==
  ASSUME IndInv, NEW t \in Thread, NEW c \in Cond,
         \/ pc[t] = "run" /\ Goto(t, "signal")
         \/ pc[t] = "broadcast" /\ Goto(t, "broadcast_signal"),
         PopWaiter(t, c),
         UNCHANGED <<semaphores, locks, cond, alloc>>
  PROVE  IndInv'
  <1> USE SynchAssumption
  <1>1. /\ UNCHANGED <<value, waiters, woken, holder, held, lock, cond,
                       next_tid, tid, tids>>
        /\ cwaiters[c] # <<>>
        /\ signalled' = [signalled EXCEPT ![t] = Head(cwaiters[c])]
        /\ cwaiters' = [cwaiters EXCEPT ![c] = Tail(@)]
        /\ \/ pc[t] = "run" /\ pc' = [pc EXCEPT ![t] = "signal"]
           \/ pc[t] = "broadcast" /\ pc' = [pc EXCEPT ![t] = "broadcast_signal"]
    BY Zenon DEF PopWaiter, semaphores, locks, alloc, Goto
  <1>2. cwaiters[c] \in Seq(Thread) /\ IsInjective(cwaiters[c])
    BY ZenonT(30) DEF IndInv, TypeOK, ListsOK
  <1>3. PICK w \in Thread : w = Head(cwaiters[c])
    BY <1>1, <1>2
  <1>4. /\ w \in Range(cwaiters[c])
        /\ Tail(cwaiters[c]) \in Seq(Thread) /\ IsInjective(Tail(cwaiters[c]))
        /\ Range(Tail(cwaiters[c])) = Range(cwaiters[c]) \ {w}
    BY <1>1, <1>2, <1>3, TailRange, ZenonT(30)
  <1>5. /\ \A u \in Thread \ {t} : pc'[u] = pc[u] /\ signalled'[u] = signalled[u]
        /\ signalled'[t] = w
        /\ \/ pc[t] = "run" /\ pc'[t] = "signal"
           \/ pc[t] = "broadcast" /\ pc'[t] = "broadcast_signal"
        /\ cwaiters'[c] = Tail(cwaiters[c])
        /\ \A d \in Cond \ {c} : cwaiters'[d] = cwaiters[d]
    BY <1>1, <1>3 DEF IndInv, TypeOK
  <1>6. signalled[t] = NULL
    BY <1>5, Zenon DEF IndInv, LocalsOK, Locals
  <1>7. TypeOK'
    <2>1. cwaiters' \in [Cond -> Seq(Thread)]
      BY <1>1, <1>4, ZenonT(30) DEF IndInv, TypeOK
    <2>2. signalled' \in [Thread -> Thread \cup {NULL}]
      BY <1>1, <1>3, Zenon DEF IndInv, TypeOK
    <2>3. pc' \in [Thread -> Label]
      <3>1. CASE pc' = [pc EXCEPT ![t] = "signal"]
        BY <3>1, Zenon DEF IndInv, TypeOK, Label
      <3>2. CASE pc' = [pc EXCEPT ![t] = "broadcast_signal"]
        BY <3>2, Zenon DEF IndInv, TypeOK, Label
      <3> QED BY <1>1, <3>1, <3>2, ZenonT(30)
    <2> QED BY <1>1, <2>1, <2>2, <2>3, ZenonT(30) DEF IndInv, TypeOK
  <1>8. LocalsOK'
    <2>1. \A u \in Thread \ {t} : Locals(u)'
      BY <1>1, <1>5, LocalsFrame, ZenonT(30) DEF IndInv, LocalsOK
    <2>2. Locals(t)'
      <3>1. CASE pc[t] = "run"
        <4>1. TidLock \notin held[t]
          BY <3>1, Zenon DEF IndInv, LocalsOK, Locals
        <4> QED BY <1>1, <1>3, <1>5, <3>1, <4>1, ZenonT(30) DEF Locals, InCond, Broadcasting
      <3>2. CASE pc[t] = "broadcast"
        BY <1>1, <1>5, <3>2, Zenon DEF IndInv, LocalsOK, Locals, InCond, Broadcasting
      <3> QED BY <1>5, <3>1, <3>2, ZenonT(30)
    <2> QED BY <2>1, <2>2, Zenon DEF LocalsOK
  <1>9. HeldOK'
    BY <1>1, ZenonT(30) DEF IndInv, HeldOK
  <1>10. ListsOK'
    BY <1>4, <1>5, Zenon DEF IndInv, ListsOK
  <1>11. MutualExclusion'
    BY <1>1, <1>5, ExclusiveSame, ZenonT(30)
  <1>12. \A u \in Thread : Waiting(u)' <=> Waiting(u)
    BY <1>1, <1>5, Zenon DEF Waiting
  <1>13. ASSUME NEW u \in Thread
         PROVE  OneSignal(u)'
    <2>1. CASE u = w
      <3>1. value[w] = 0 /\ Signallers(w) = {} /\ Listed(w) = {c} /\ Waiting(w)
        <4>1. c \in Listed(w)
          BY <1>4, ZenonT(30) DEF Listed
        <4> QED BY <4>1 DEF IndInv, NoLostSignal, OneSignal
      <3>2. Listed(w)' = {}
        BY <1>4, <1>5, <3>1 DEF Listed
      <3>3. Signallers(w)' = {t}
        <4>1. \A v \in Thread : signalled[v] # w
          BY <3>1, Zenon DEF Signallers
        <4>2. \A v \in Thread : signalled'[v] = w <=> v = t
          BY <1>5, <4>1, Zenon
        <4> QED BY <4>2, Zenon DEF Signallers
      <3> QED BY <1>1, <1>12, <2>1, <3>1, <3>2, <3>3, ZenonT(30) DEF OneSignal
    <2>2. CASE u # w
      <3>1. Listed(u)' = Listed(u)
        BY <1>4, <1>5, <2>2, Zenon DEF Listed
      <3>2. Signallers(u)' = Signallers(u)
        BY <1>5, <1>6, <2>2, Zenon DEF Signallers
      <3> QED BY <1>1, <1>12, <3>1, <3>2, ZenonT(30) DEF IndInv, NoLostSignal, OneSignal
    <2> QED BY <2>1, <2>2, Zenon
  <1>14. TidsOK'
    BY <1>1, <1>5, ZenonT(30) DEF IndInv, TidsOK
  <1> QED BY <1>7, <1>8, <1>9, <1>10, <1>11, <1>13, <1>14, ZenonT(30) DEF IndInv, NoLostSignal

\* cond_signal ups the semaphore of the waiter it has taken, which still waits.
LEMMA SignalUpInv ==
  ASSUME IndInv, NEW t \in Thread, signal_up(t)
  PROVE  IndInv'
  <1> USE SynchAssumption
  <1>1. PICK w \in Thread : w = signalled[t]
    BY Zenon DEF IndInv, TypeOK, LocalsOK, Locals, signal_up
  <1>2. /\ UNCHANGED <<holder, held, lock, cwaiters, cond, next_tid, tid, tids>>
        /\ sema_up(w) /\ value' = [value EXCEPT ![w] = @ + 1]
        /\ signalled' = [signalled EXCEPT ![t] = NULL]
        /\ \/ pc[t] = "signal" /\ pc' = [pc EXCEPT ![t] = "run"]
           \/ pc[t] = "broadcast_signal" /\ pc' = [pc EXCEPT ![t] = "broadcast"]
    BY <1>1, ZenonT(30) DEF signal_up, sema_up, locks, alloc, Goto
  <1>3. /\ \A u \in Thread \ {t} : pc'[u] = pc[u] /\ signalled'[u] = signalled[u]
        /\ signalled'[t] = NULL
        /\ \/ pc[t] = "signal" /\ pc'[t] = "run"
           \/ pc[t] = "broadcast_signal" /\ pc'[t] = "broadcast"
        /\ value'[w] = value[w] + 1
        /\ \A s \in Sema \ {w} : value'[s] = value[s]
    BY <1>2 DEF IndInv, TypeOK
  <1>4. TypeOK'
    <2>1. SemaTypeOK'
      BY <1>2, SemaType, Zenon DEF IndInv, TypeOK, SemaTypeOK
    <2>2. signalled' \in [Thread -> Thread \cup {NULL}] /\ pc' \in [Thread -> Label]
      BY <1>2, Zenon DEF IndInv, TypeOK, Label
    <2> QED BY <1>2, <2>1, <2>2, Zenon DEF IndInv, TypeOK, SemaTypeOK
  <1>5. LocalsOK'
    <2>1. \A u \in Thread \ {t} : Locals(u)'
      BY <1>2, <1>3, LocalsFrame, ZenonT(30) DEF IndInv, LocalsOK
    <2>2. Locals(t)'
      BY <1>2, <1>3, Zenon DEF IndInv, LocalsOK, Locals, InCond, Broadcasting
    <2> QED BY <2>1, <2>2, Zenon DEF LocalsOK
  <1>6. HeldOK' /\ ListsOK'
    BY <1>2, Zenon DEF IndInv, HeldOK, ListsOK
  <1>7. MutualExclusion'
    <2>1. \A l \in Lock : value'[l] = value[l]
      BY <1>3, Zenon
    <2> QED BY <1>2, <1>3, <2>1, ExclusiveSame, ZenonT(30)
  <1>8. \A u \in Thread : Listed(u)' = Listed(u) /\ (Waiting(u)' <=> Waiting(u))
    BY <1>2, <1>3, Zenon DEF Listed, Waiting
  <1>9. ASSUME NEW u \in Thread
        PROVE  OneSignal(u)'
    <2>1. CASE u = w
      <3>1. t \in Signallers(w)
        BY <1>1, Zenon DEF Signallers
      <3>2. value[w] = 0 /\ Signallers(w) = {t} /\ Listed(w) = {} /\ Waiting(w)
        BY <3>1, ZenonT(30) DEF IndInv, NoLostSignal, OneSignal
      <3>3. Signallers(w)' = {}
        <4>1. \A v \in Thread : signalled[v] = w => v = t
          BY <3>2, Zenon DEF Signallers
        <4>2. w # NULL
          BY SynchAssumption, Zenon
        <4>3. \A v \in Thread : signalled'[v] # w
          BY <1>3, <4>1, <4>2, Zenon
        <4> QED BY <4>3, Zenon DEF Signallers
      <3>4. value'[w] = 1
        BY <1>3, <3>2, Counting, Zenon
      <3>5. Listed(w)' = {} /\ Waiting(w)'
        BY <1>8, <3>2, Zenon
      <3> QED BY <2>1, <3>3, <3>4, <3>5, ZenonT(30) DEF OneSignal
    <2>2. CASE u # w
      <3>1. Signallers(u)' = Signallers(u)
        BY <1>1, <1>3, <2>2, ZenonT(30) DEF Signallers
      <3>2. value'[u] = value[u]
        BY <1>3, <2>2, Zenon
      <3> QED BY <1>8, <3>1, <3>2, Zenon DEF IndInv, NoLostSignal, OneSignal
    <2> QED BY <2>1, <2>2, ZenonT(30)
  <1>10. TidsOK'
    BY <1>2, <1>3, Zenon DEF IndInv, TidsOK
  <1> QED BY <1>4, <1>5, <1>6, <1>7, <1>9, <1>10, ZenonT(30) DEF IndInv, NoLostSignal

\* cond_broadcast begins or ends, and allocate_tid reads next_tid: only t's own
\* locals change.
LEMMA LocalStepInv ==
  ASSUME IndInv, NEW t \in Thread,
         \/ \E c \in Cond : cond_broadcast(t, c)
         \/ /\ pc[t] = "broadcast" /\ Goto(t, "run")
            /\ UNCHANGED <<semaphores, locks, conds, alloc>>
         \/ tid_read(t)
  PROVE  IndInv'
  <1> USE SynchAssumption
  <1>1. /\ UNCHANGED <<value, waiters, woken, holder, held, lock, cwaiters, signalled,
                       next_tid, tids>>
        /\ \/ /\ pc[t] = "run" /\ pc' = [pc EXCEPT ![t] = "broadcast"]
              /\ \E c \in Cond : LockOf[c] \in held[t] /\ cond' = [cond EXCEPT ![t] = c]
              /\ tid' = tid
           \/ /\ pc[t] = "broadcast" /\ pc' = [pc EXCEPT ![t] = "run"]
              /\ UNCHANGED <<cond, tid>>
           \/ /\ pc[t] = "tid_read" /\ pc' = [pc EXCEPT ![t] = "tid_write"]
              /\ cond' = cond /\ tid' = [tid EXCEPT ![t] = next_tid]
    BY ZenonT(30) DEF cond_broadcast, Monitor, tid_read, Goto, semaphores, locks, conds, alloc
  <1>2. /\ \A u \in Thread \ {t} : pc'[u] = pc[u] /\ cond'[u] = cond[u] /\ tid'[u] = tid[u]
        /\ \/ /\ pc[t] = "run" /\ pc'[t] = "broadcast"
              /\ cond'[t] \in Cond /\ LockOf[cond'[t]] \in held[t]
           \/ pc[t] = "broadcast" /\ pc'[t] = "run"
           \/ pc[t] = "tid_read" /\ pc'[t] = "tid_write" /\ tid'[t] = next_tid
    BY <1>1 DEF IndInv, TypeOK
  <1>3. TypeOK'
    <2>1. \E x \in Label : pc' = [pc EXCEPT ![t] = x]
      BY <1>1, Zenon DEF Label
    <2>2. cond' = cond \/ \E c \in Cond : cond' = [cond EXCEPT ![t] = c]
      BY <1>1, Zenon
    <2>3. tid' = tid \/ tid' = [tid EXCEPT ![t] = next_tid]
      BY <1>1, ZenonT(30)
    <2>4. pc' \in [Thread -> Label]
      BY <2>1 DEF IndInv, TypeOK
    <2>5. cond' \in [Thread -> Cond \cup {NULL}]
      BY <2>2, Zenon DEF IndInv, TypeOK
    <2>6. tid' \in [Thread -> Nat]
      <3>1. tid \in [Thread -> Nat] /\ next_tid \in Nat
        BY Zenon DEF IndInv, TypeOK
      <3> QED BY <2>3, <3>1, Zenon
    <2> QED BY <1>1, <2>4, <2>5, <2>6, Zenon DEF IndInv, TypeOK
  <1>4. LocalsOK'
    <2>1. \A u \in Thread \ {t} : Locals(u)'
      BY <1>1, <1>2, LocalsFrame, ZenonT(30) DEF IndInv, LocalsOK
    <2>2. signalled'[t] = NULL
      BY <1>1, <1>2, Zenon DEF IndInv, LocalsOK, Locals
    <2>3. pc[t] = "tid_read" <=> TidLock \in held[t]
      BY <1>2, Zenon DEF IndInv, LocalsOK, Locals
    <2>4. Locals(t)'
      BY <1>1, <1>2, <2>2, <2>3, ZenonT(30) DEF Locals, InCond, Broadcasting
    <2> QED BY <2>1, <2>4, Zenon DEF LocalsOK
  <1>5. HeldOK' /\ ListsOK'
    BY <1>1, Zenon DEF IndInv, HeldOK, ListsOK
  <1>6. MutualExclusion'
    BY <1>1, <1>2, ExclusiveSame, ZenonT(30)
  <1>7. NoLostSignal'
    <2>1. \A u \in Thread : Waiting(u)' <=> Waiting(u)
      BY <1>2, Zenon DEF Waiting
    <2> QED BY <1>1, <2>1, SignalsFrame, Zenon DEF IndInv
  <1>8. TidsOK'
    BY <1>1, <1>2, Zenon DEF IndInv, TidsOK
  <1> QED BY <1>3, <1>4, <1>5, <1>6, <1>7, <1>8, ZenonT(30) DEF IndInv

\* allocate_tid, which has tid_lock, writes next_tid and returns the tid it read.
LEMMA TidWriteInv ==
  ASSUME IndInv, NEW t \in Thread, tid_write(t)
  PROVE  IndInv'
  <1> USE SynchAssumption
  <1>1. /\ UNCHANGED <<value, waiters, woken, holder, held, lock, cwaiters, cond,
                       signalled, tid>>
        /\ pc[t] = "tid_write" /\ pc' = [pc EXCEPT ![t] = "tid_release"]
        /\ next_tid' = tid[t] + 1 /\ tids' = Append(tids, tid[t])
    BY Zenon DEF tid_write, Goto, semaphores, locks, conds
  <1>2. pc'[t] = "tid_release" /\ \A u \in Thread \ {t} : pc'[u] = pc[u]
    BY <1>1, Zenon DEF IndInv, TypeOK
  <1>3. tid[t] = Len(tids) + 1 /\ tids \in Seq(Nat) /\ tid[t] \in Nat
    BY <1>1, Zenon DEF IndInv, TypeOK, TidsOK
  <1>4. TypeOK'
    <2>1. pc' \in [Thread -> Label]
      BY <1>1, ZenonT(30) DEF IndInv, TypeOK, Label
    <2>2. next_tid' \in Nat /\ tids' \in Seq(Nat)
      BY <1>1, <1>3
    <2> QED BY <1>1, <2>1, <2>2, ZenonT(30) DEF IndInv, TypeOK
  <1>5. LocalsOK'
    <2>1. \A u \in Thread \ {t} : Locals(u)'
      BY <1>1, <1>2, LocalsFrame, ZenonT(30) DEF IndInv, LocalsOK
    <2>2. Locals(t)'
      BY <1>1, <1>2, Zenon DEF IndInv, LocalsOK, Locals, InCond, Broadcasting
    <2> QED BY <2>1, <2>2, Zenon DEF LocalsOK
  <1>6. HeldOK' /\ ListsOK'
    BY <1>1, Zenon DEF IndInv, HeldOK, ListsOK
  <1>7. MutualExclusion'
    BY <1>1, <1>2, ExclusiveSame, ZenonT(30)
  <1>8. NoLostSignal'
    <2>1. \A u \in Thread : Waiting(u)' <=> Waiting(u)
      BY <1>1, <1>2, ZenonT(30) DEF Waiting
    <2> QED BY <1>1, <2>1, SignalsFrame, ZenonT(30) DEF IndInv
  <1>9. \A u \in Thread \ {t} : pc[u] # "tid_write"
    <2>1. \A u \in Thread : pc[u] = "tid_write" => u \in Owners(TidLock)
      BY Zenon DEF IndInv, LocalsOK, Locals, Owners
    <2> QED BY <1>1, <2>1, Zenon DEF IndInv, MutualExclusion, Exclusive
  <1>10. TidsOK'
    <2>1. next_tid' = Len(tids') + 1
      BY <1>1, <1>3
    <2>2. \A n \in 1..Len(tids') : tids'[n] = n
      <3>1. tids' = Append(tids, Len(tids) + 1) /\ \A n \in 1..Len(tids) : tids[n] = n
        BY <1>1, <1>3, Zenon DEF IndInv, TidsOK
      <3> QED BY <1>3, <3>1
    <2> QED BY <1>2, <1>9, <2>1, <2>2, ZenonT(30) DEF TidsOK
  <1> QED BY <1>4, <1>5, <1>6, <1>7, <1>8, <1>10, ZenonT(30) DEF IndInv

\* Every step, of every thread, preserves the invariant.
LEMMA NextInv ==
  ASSUME IndInv, [Next]_vars
  PROVE  IndInv'
  <1> USE SynchAssumption
  <1>1. ASSUME NEW t \in Thread, Call(t)
        PROVE  IndInv'
    <2>1. ASSUME NEW l \in UserLock, lock_acquire(t, l) \/ lock_try_acquire(t, l)
          PROVE  IndInv'
      BY <2>1, AcquireInv, Zenon DEF UserLock, lock_acquire, lock_try_acquire, SemaDown
    <2>2. ASSUME NEW l \in UserLock, lock_release(t, l)
          PROVE  IndInv'
      BY <2>2, ClearHolderInv, Zenon DEF UserLock, lock_release
    <2>3. ASSUME NEW c \in Cond, cond_wait(t, c)
          PROVE  IndInv'
      BY <2>3, CondWaitInv, Zenon
    <2>4. ASSUME NEW c \in Cond, cond_signal(t, c)
          PROVE  IndInv'
      BY <2>4, PopWaiterInv, Zenon DEF cond_signal, Monitor
    <2>5. ASSUME NEW c \in Cond, cond_broadcast(t, c)
          PROVE  IndInv'
      BY <2>5, LocalStepInv, Zenon
    <2>6. CASE allocate_tid(t)
      BY <2>6, AcquireInv, Zenon DEF allocate_tid, SemaDown
    <2> QED BY <1>1, <2>1, <2>2, <2>3, <2>4, <2>5, <2>6, ZenonT(30) DEF Call
  <1>2. ASSUME NEW t \in Thread, Step(t)
        PROVE  IndInv'
    <2>1. CASE acquire_loop(t)
      <3>1. /\ lock[t] \in Lock
            /\ lock' = [lock EXCEPT ![t] = lock[t]]
        BY <2>1 DEF acquire_loop, locks, IndInv, TypeOK, LocalsOK, Locals
      <3> QED BY <2>1, <3>1, AcquireInv, ZenonT(30) DEF acquire_loop, SemaDown, locks
    <2>2. CASE set_holder(t)
      BY <2>2, SetHolderInv, Zenon
    <2>3. CASE release_up(t)
      BY <2>3, ReleaseUpInv, Zenon
    <2>4. CASE cond_wait_release(t)
      <3>1. LockOf[cond[t]] \in Lock
        BY <2>4, Zenon DEF cond_wait_release, IndInv, LocalsOK, Locals, InCond
      <3> QED BY <2>4, <3>1, ClearHolderInv, Zenon DEF cond_wait_release, conds
    <2>5. CASE cond_wait_block(t)
      BY <2>5, CondBlockInv, Zenon
    <2>6. CASE broadcast_loop(t)
      <3>1. cond[t] \in Cond
        BY <2>6, Zenon DEF broadcast_loop, IndInv, LocalsOK, Locals, InCond, Broadcasting
      <3>2. CASE PopWaiter(t, cond[t])
        BY <2>6, <3>1, <3>2, PopWaiterInv, ZenonT(30) DEF broadcast_loop, PopWaiter
      <3>3. CASE ~PopWaiter(t, cond[t])
        BY <2>6, <3>3, LocalStepInv, Zenon DEF broadcast_loop, conds
      <3> QED BY <3>2, <3>3, Zenon
    <2>7. CASE signal_up(t)
      BY <2>7, SignalUpInv, Zenon
    <2>8. CASE tid_read(t)
      BY <2>8, LocalStepInv, Zenon
    <2>9. CASE tid_write(t)
      BY <2>9, TidWriteInv, Zenon
    <2>10. CASE tid_release(t)
      BY <2>10, ClearHolderInv, Zenon DEF tid_release
    <2> QED BY <1>2, <2>1, <2>2, <2>3, <2>4, <2>5, <2>6, <2>7, <2>8, <2>9, <2>10, ZenonT(30) DEF Step
  <1>3. CASE UNCHANGED vars
    <2>1. UNCHANGED <<value, waiters, woken, holder, held, lock, cwaiters, cond,
                      signalled, next_tid, tid, tids, pc>>
      BY <1>3, Zenon DEF vars, semaphores, locks, conds, alloc
    <2>2. TypeOK' /\ HeldOK' /\ ListsOK' /\ TidsOK'
      BY <2>1, Zenon DEF IndInv, TypeOK, HeldOK, ListsOK, TidsOK
    <2>3. LocalsOK'
      BY <2>1, LocalsFrame, ZenonT(30) DEF IndInv, LocalsOK
    <2>4. MutualExclusion'
      BY <2>1 DEF IndInv, MutualExclusion, Exclusive, Owners
    <2>5. NoLostSignal'
      BY <2>1, SignalsFrame, Zenon DEF IndInv, Waiting
    <2> QED BY <2>2, <2>3, <2>4, <2>5, ZenonT(30) DEF IndInv
  <1> QED BY <1>1, <1>2, <1>3, ZenonT(30) DEF Next

-----------------------------------------------------------------------------
\* The invariant holds in every reachable state.
THEOREM Invariance == Spec => []IndInv
  BY InitInv, NextInv, PTL DEF Spec

\* A lock is free or owned by exactly one thread, for any number of threads,
\* wherever they are preempted in lock_acquire, lock_release and cond_wait.
THEOREM LocksExclude == Spec => []MutualExclusion
  <1>1. IndInv => MutualExclusion
    BY Zenon DEF IndInv
  <1> QED BY <1>1, Invariance, PTL

\* A thread in cond_wait is on the condition's list, in one signaller's hands or
\* has its semaphore up, exactly one of them, and no other thread is in any.
THEOREM SignalsReach == Spec => []NoLostSignal
  <1>1. IndInv => NoLostSignal
    BY Zenon DEF IndInv
  <1> QED BY <1>1, Invariance, PTL

\* What lock_acquire and lock_release assert of their caller, where the caller is
\* cond_wait, cond_broadcast's cond_signal or allocate_tid.
LocksAsserted ==
  \A t \in Thread :
    /\ pc[t] \in {"cond_release"} \cup Broadcasting => holder[LockOf[cond[t]]] = t
    /\ pc[t] = "cond_reacquire" => holder[lock[t]] # t
    /\ pc[t] = "run" => holder[TidLock] # t
    /\ pc[t] = "tid_release" => holder[TidLock] = t

\* The assertions on lock_held_by_current_thread inside cond_wait, cond_broadcast
\* and allocate_tid never fail.
THEOREM AssertionsHold == Spec => []LocksAsserted
  <1>1. IndInv => LocksAsserted
    <2> SUFFICES ASSUME IndInv, NEW t \in Thread
                 PROVE  /\ pc[t] \in {"cond_release"} \cup Broadcasting =>
                             holder[LockOf[cond[t]]] = t
                        /\ pc[t] = "cond_reacquire" => holder[lock[t]] # t
                        /\ pc[t] = "run" => holder[TidLock] # t
                        /\ pc[t] = "tid_release" => holder[TidLock] = t
      BY Zenon DEF LocksAsserted
    <2>1. /\ Locals(t)
          /\ \A l \in Lock : l \in held[t] <=> holder[l] = t
          /\ held[t] \subseteq Lock
      BY ZenonT(30) DEF IndInv, LocalsOK, HeldOK, TypeOK
    <2> QED BY <2>1, SynchAssumption, Zenon DEF Locals
  <1> QED BY <1>1, Invariance, PTL

\* No two threads get the same tid.
TidsUnique == IsInjective(tids)

\* allocate_tid's unprotected-looking increment, next_tid++, never hands a tid out
\* twice, because tid_lock is held from the read to the write.
THEOREM TidsDiffer == Spec => []TidsUnique
  <1>1. IndInv => TidsUnique
    <2>1. IndInv => tids \in Seq(Nat) /\ \A n \in 1..Len(tids) : tids[n] = n
      BY Zenon DEF IndInv, TypeOK, TidsOK
    <2> QED BY <2>1 DEF TidsUnique, IsInjective
  <1> QED BY <1>1, Invariance, PTL

=============================================================================
