----------------------------- MODULE IdeProofs -----------------------------
(***************************************************************************)
(* Proofs about Ide, for any number of threads and sectors and one or two  *)
(* disks: what a read returns, and that the channel implements BlockDevice. *)
(*                                                                         *)
(* Phase counts the steps of all three functions alike, so that 2 is the   *)
(* select step, 3 the issue step and 7 the last one.                       *)
(***************************************************************************)
EXTENDS Ide, TLAPS

Op(t) == req[t].op

Phase(t) == IF req[t] = None THEN 0
            ELSE IF Op(t) = "identify" THEN pos[t] + 1 ELSE pos[t]

IdeType ==
  /\ lock_holder \in Caller \cup {None}
  /\ expecting_interrupt \in BOOLEAN /\ panicked \in BOOLEAN
  /\ completion_wait \in Nat
  /\ is_ata \in [Disk -> BOOLEAN]
  /\ registered \subseteq Disk
  /\ req \in [Caller -> Request \cup {None}]
  /\ pos \in [Caller -> 1..7]
  /\ DOMAIN buffers = Caller
  /\ status \in Status
  /\ irq \in BOOLEAN
  /\ last \in [Addr -> Data]
  /\ faults \in [faulty : BOOLEAN, slow : BOOLEAN, max : Nat, spurious : Nat]

\* One thread at a time works on the channel: the one that holds the lock or, at
\* boot, the one that identifies a disk while nobody else makes requests.
OneAtWork ==
  /\ \A t \in Caller :
       /\ req[t] = None => pos[t] = 1
       /\ req[t] # None /\ Op(t) = "identify" =>
            t = Main /\ pos[t] <= 6 /\ req[t].addr[1] \in ToIdentify
       /\ lock_holder = t <=> (Phase(t) >= 2 /\ Op(t) # "identify")
  /\ ToIdentify # {} => \A t \in Caller \ {Main} : req[t] = None

\* What the disk may be doing while a request is in each of its phases.
Fits(t) ==
  /\ regs = req[t].addr
  /\ Phase(t) = 3 => status = "ready"
  /\ Op(t) = "read" =>
       /\ Phase(t) \in {4, 5} => status \in {"reading", "has_data", "ready"}
       /\ Phase(t) = 6 => status = "has_data"
       /\ status = "has_data" => data = contents[regs]
       /\ Phase(t) = 7 => status = "ready" /\ buffers[t] = last[regs]
  /\ Op(t) = "write" =>
       /\ Phase(t) = 4 => status \in {"writing", "wants_data", "ready"}
       /\ Phase(t) = 5 => status = "wants_data"
       /\ Phase(t) \in {6, 7} => status \in {"storing", "ready"}
       /\ status = "storing" => data = req[t].data
  /\ Op(t) = "identify" =>
       /\ Phase(t) \in {4, 5} => status \in {"identifying", "has_data", "ready"}
       /\ Phase(t) = 6 => status = "has_data"
       /\ Phase(t) = 7 => status = "ready"

\* The disk holds, or is about to store, what was last sent to each sector.
Kept ==
  /\ contents \in [Addr -> Data] /\ data \in Data \cup {None}
  /\ status = "storing" => regs \in Addr
  /\ \A a \in Addr :
       last[a] = IF status = "storing" /\ regs = a THEN data ELSE contents[a]

\* The protocol: between requests the disk is idle, or stores what it was sent.
Protocol ==
  /\ \A t \in Caller : Phase(t) >= 3 => Fits(t)
  /\ (\A t \in Caller : Phase(t) < 3) => status \in {"ready", "storing"}
  /\ Kept

\* Without spurious interrupts: an interrupt is pending or counted exactly when
\* the disk has done what the request waits for.
Signalled == irq \/ completion_wait = 1
Idle == ~irq /\ completion_wait = 0

Awaits(t) ==
  /\ Op(t) # "write" =>
       /\ Phase(t) = 4 => (Signalled <=> ~BSY)
       /\ Phase(t) >= 5 => Idle /\ ~BSY
  /\ Op(t) = "write" =>
       /\ Phase(t) \in {4, 6} => (Signalled <=> status = "ready")
       /\ Phase(t) \in {5, 7} => Idle
       /\ Phase(t) = 7 => status = "ready"

Counted ==
  /\ completion_wait <= 1 /\ ~(irq /\ completion_wait = 1)
  /\ (\A t \in Caller : Phase(t) < 3) => status = "ready"
  /\ (\A t \in Caller : Phase(t) < 4) => Idle
  /\ \A t \in Caller : Phase(t) >= 4 => expecting_interrupt /\ Awaits(t)

\* A poll that gives up matters only after a spurious interrupt.
Sound == faults.spurious = 0 \/ ~faults.slow

IdeInv ==
  /\ IdeType
  /\ OneAtWork
  /\ Sound => Protocol
  /\ faults.spurious = 0 => Counted

-----------------------------------------------------------------------------
\* What each kind of request carries.
LEMMA RequestKinds ==
  ASSUME NEW r \in Request
  PROVE  /\ r.op \in {"identify", "read", "write"}
         /\ r.op = "identify" => r.addr \in Disk \X {None}
         /\ r.op # "identify" => r.addr \in Addr
         /\ r.op = "write" => r.data \in Data
  BY Zenon DEF Request

\* An address is a sector of a disk.
LEMMA AddrPair ==
  \A a \in Addr : \E d \in Disk, s \in Sector : a = <<d, s>> /\ a[1] = d /\ a[2] = s
  BY DEF Addr

\* The phase after each one.
LEMMA Digits ==
  /\ 1 + 1 = 2 /\ 2 + 1 = 3 /\ 3 + 1 = 4 /\ 4 + 1 = 5 /\ 5 + 1 = 6 /\ 6 + 1 = 7
  /\ \A n \in 1..7 : n < 3 \/ n \in 3..7
  /\ 0 < 3
  OBVIOUS

\* Which step of which function each phase is.
LEMMA Phases ==
  ASSUME IdeType, OneAtWork, NEW t \in Caller, req[t] # None
  PROVE  /\ Op(t) \in {"identify", "read", "write"}
         /\ Phase(t) \in 1..7 /\ (Op(t) = "identify" => Phase(t) >= 2)
         /\ At(t, "acquire") <=> Phase(t) = 1
         /\ At(t, "select") <=> Phase(t) = 2
         /\ At(t, "issue") <=> Phase(t) = 3
         /\ At(t, "wait") <=> Phase(t) = IF Op(t) = "write" THEN 6 ELSE 4
         /\ At(t, "poll") <=> Phase(t) = IF Op(t) = "write" THEN 4 ELSE 5
         /\ At(t, "input") <=> Op(t) # "write" /\ Phase(t) = 6
         /\ At(t, "output") <=> Op(t) = "write" /\ Phase(t) = 5
         /\ At(t, "release") <=> Op(t) # "identify" /\ Phase(t) = 7
         /\ At(t, "register") <=> Op(t) = "identify" /\ Phase(t) = 7
  <1>1. req[t] \in Request /\ Op(t) \in {"identify", "read", "write"}
    BY RequestKinds, Zenon DEF IdeType, Op
  <1>2. pos[t] \in 1..7 /\ (Op(t) = "identify" => pos[t] <= 6)
    BY Zenon DEF IdeType, OneAtWork
  <1>3. Phase(t) = IF Op(t) = "identify" THEN pos[t] + 1 ELSE pos[t]
    BY Zenon DEF Phase
  <1>4. CASE Op(t) = "read"
    <2>1. \A s : At(t, s) <=> ide_read[pos[t]] = s
      BY <1>4, Zenon DEF At, Op, Program
    <2>2. Phase(t) = pos[t] /\ pos[t] \in {1, 2, 3, 4, 5, 6, 7}
      BY <1>2, <1>3, <1>4
    <2> QED BY <1>4, <2>1, <2>2 DEF ide_read
  <1>5. CASE Op(t) = "write"
    <2>1. \A s : At(t, s) <=> ide_write[pos[t]] = s
      BY <1>5, Zenon DEF At, Op, Program
    <2>2. Phase(t) = pos[t] /\ pos[t] \in {1, 2, 3, 4, 5, 6, 7}
      BY <1>2, <1>3, <1>5
    <2> QED BY <1>5, <2>1, <2>2 DEF ide_write
  <1>6. CASE Op(t) = "identify"
    <2>1. \A s : At(t, s) <=> identify_ata_device[pos[t]] = s
      BY <1>6, Zenon DEF At, Op, Program
    <2>2. Phase(t) = pos[t] + 1 /\ pos[t] \in {1, 2, 3, 4, 5, 6}
      BY <1>2, <1>3, <1>6
    <2> QED BY <1>6, <2>1, <2>2 DEF identify_ata_device
  <1> QED BY <1>1, <1>4, <1>5, <1>6, Zenon

\* While a thread works on the channel, the others have no request or wait for
\* the lock.
LEMMA Alone ==
  ASSUME IdeType, OneAtWork, NEW t \in Caller, NEW u \in Caller,
         Phase(t) >= 2, u # t
  PROVE  Phase(u) \in {0, 1}
  <1>1. ASSUME NEW x \in Caller, req[x] # None
        PROVE  Phase(x) \in 1..7 /\ (Op(x) = "identify" => x = Main /\ ToIdentify # {})
    BY <1>1, Phases, Zenon DEF OneAtWork
  <1>2. ASSUME NEW x \in Caller, req[x] = None
        PROVE  Phase(x) = 0
    BY <1>2, Zenon DEF Phase
  <1>3. req[t] # None /\ (req[u] = None \/ Phase(u) \in 1..7)
    BY <1>1, <1>2
  <1>4. CASE req[u] # None /\ (Op(t) = "identify" \/ Op(u) = "identify")
    <2>1. ToIdentify # {} /\ (t = Main \/ u = Main)
      BY <1>1, <1>3, <1>4, Zenon
    <2> QED BY <1>3, <1>4, <2>1, Zenon DEF OneAtWork
  <1>5. CASE req[u] # None /\ Op(t) # "identify" /\ Op(u) # "identify"
    <2>1. lock_holder = t
      BY <1>5, Zenon DEF OneAtWork
    <2>2. ~(Phase(u) >= 2)
      BY <1>5, <2>1, Zenon DEF OneAtWork
    <2> QED BY <1>3, <1>5, <2>2
  <1> QED BY <1>2, <1>4, <1>5, Zenon

-----------------------------------------------------------------------------
\* What a step changes in the phases.
LEMMA Advancing ==
  ASSUME IdeType, OneAtWork, NEW t \in Caller, req[t] # None, Phase(t) <= 6,
         Advance(t), req' = req
  PROVE  /\ pos' \in [Caller -> 1..7]
         /\ Phase(t)' = Phase(t) + 1 /\ Op(t)' = Op(t)
         /\ \A u \in Caller \ {t} : Phase(u)' = Phase(u) /\ Op(u)' = Op(u)
  <1>1. pos \in [Caller -> 1..7] /\ (Op(t) = "identify" => pos[t] <= 5)
    BY DEF IdeType, Phase
  <1>2. pos[t] <= 6
    BY DEF Phase, IdeType
  <1> QED BY <1>1, <1>2 DEF Advance, Phase, Op

\* Who works on the channel does not change when its holder moves on.
LEMMA AdvancingWork ==
  ASSUME IdeType, OneAtWork, NEW t \in Caller, Phase(t) \in 2..6,
         Advance(t), UNCHANGED <<req, lock_holder, is_ata, registered>>
  PROVE  OneAtWork'
  <1>1. req[t] # None
    BY DEF Phase
  <1>2. /\ Phase(t)' = Phase(t) + 1 /\ Op(t)' = Op(t)
        /\ \A u \in Caller \ {t} : Phase(u)' = Phase(u) /\ Op(u)' = Op(u)
    BY <1>1, Advancing
  <1>3. ToIdentify' = ToIdentify
    BY Zenon DEF ToIdentify
  <1>4. \A u \in Caller : lock_holder' = u <=> (Phase(u)' >= 2 /\ Op(u)' # "identify")
    BY <1>1, <1>2 DEF OneAtWork
  <1>5. ASSUME NEW u \in Caller
        PROVE  /\ req'[u] = None => pos'[u] = 1
               /\ req'[u] # None /\ Op(u)' = "identify" =>
                    u = Main /\ pos'[u] <= 6 /\ req'[u].addr[1] \in ToIdentify'
    <2>1. CASE u = t
      BY <1>1, <1>2, <1>3, <2>1 DEF OneAtWork, Advance, IdeType, Op, Phase
    <2>2. CASE u # t
      BY <1>2, <1>3, <2>2, Zenon DEF OneAtWork, Advance, IdeType, Op
    <2> QED BY <2>1, <2>2, Zenon
  <1> QED BY <1>3, <1>4, <1>5, Zenon DEF OneAtWork

\* A call that returns is at no phase any more, and the others stay where they are.
LEMMA Finishing ==
  ASSUME IdeType, OneAtWork, NEW t \in Caller, Finish(t)
  PROVE  /\ req' \in [Caller -> Request \cup {None}] /\ pos' \in [Caller -> 1..7]
         /\ DOMAIN buffers' = Caller
         /\ Phase(t)' = 0
         /\ \A u \in Caller \ {t} : Phase(u)' = Phase(u) /\ Op(u)' = Op(u)
                                      /\ req'[u] = req[u] /\ pos'[u] = pos[u]
  BY DEF IdeType, Finish, Phase, Op

\* When the holder returns, nobody works on the channel.
LEMMA FinishingWork ==
  ASSUME IdeType, OneAtWork, NEW t \in Caller, Phase(t) >= 2, Finish(t),
         \/ Op(t) # "identify" /\ lock_holder' = None /\ UNCHANGED <<is_ata, registered>>
         \/ /\ Op(t) = "identify" /\ lock_holder' = lock_holder
            /\ is_ata' \in [Disk -> BOOLEAN] /\ registered' \subseteq Disk
            /\ ToIdentify' \subseteq ToIdentify
  PROVE  OneAtWork' /\ \A u \in Caller : Phase(u)' \in {0, 1}
  <1>1. ASSUME NEW u \in Caller \ {t}
        PROVE  /\ Phase(u)' = Phase(u) /\ Op(u)' = Op(u) /\ Phase(u) \in {0, 1}
               /\ req'[u] = req[u] /\ pos'[u] = pos[u]
    BY Alone, Finishing, Zenon
  <1>2. Phase(t)' = 0 /\ req'[t] = None /\ pos'[t] = 1
    BY Finishing, Zenon DEF Finish, IdeType
  <1>3. ToIdentify' \subseteq ToIdentify
    BY Zenon DEF ToIdentify
  <1>4. \A u \in Caller : lock_holder' # u
    <2>1. CASE Op(t) # "identify"
      BY <2>1, IdeAssumption, Zenon
    <2>2. CASE Op(t) = "identify"
      <3>1. lock_holder' = lock_holder
        BY <2>2, Zenon
      <3>2. ASSUME NEW u \in Caller
            PROVE  lock_holder # u
        <4>1. CASE u = t
          BY <2>2, <4>1, Zenon DEF OneAtWork
        <4>2. CASE u # t
          BY <1>1, <4>2 DEF OneAtWork
        <4> QED BY <4>1, <4>2, Zenon
      <3> QED BY <3>1, <3>2, Zenon
    <2> QED BY <2>1, <2>2, Zenon
  <1>5. ASSUME NEW u \in Caller
        PROVE  /\ req'[u] = None => pos'[u] = 1
               /\ ~(req'[u] # None /\ Op(u)' = "identify")
               /\ ~(Phase(u)' >= 2)
    <2>1. CASE u = t
      BY <1>2, <2>1
    <2>2. CASE u # t
      <3>1. req[u] # None /\ Op(u) = "identify" => Phase(u) >= 2
        BY Phases, Zenon
      <3> QED BY <1>1, <2>2, <3>1 DEF OneAtWork
    <2> QED BY <2>1, <2>2, Zenon
  <1>6. \A u \in Caller : Phase(u)' \in {0, 1}
    BY <1>1, <1>2, Zenon
  <1>7. ToIdentify' # {} => \A u \in Caller \ {Main} : req'[u] = None
    BY <1>1, <1>2, <1>3, Zenon DEF OneAtWork
  <1> QED BY <1>4, <1>5, <1>6, <1>7, Zenon DEF OneAtWork

\* Phases do not change while the calls' locals do not.
LEMMA SamePhases ==
  ASSUME UNCHANGED <<req, pos>>
  PROVE  \A u \in Caller : Phase(u)' = Phase(u) /\ Op(u)' = Op(u)
  BY Zenon DEF Phase, Op

\* Nor does who works on the channel.
LEMMA SameWork ==
  ASSUME OneAtWork, UNCHANGED <<req, pos, lock_holder, is_ata, registered>>
  PROVE  OneAtWork'
  <1>1. ToIdentify' = ToIdentify
    BY Zenon DEF ToIdentify
  <1> QED BY <1>1, SamePhases, Zenon DEF OneAtWork, Op

-----------------------------------------------------------------------------
(* Steps of a request. *)

\* lock_acquire waits for the holder, and ide_init has no lock to wait for.
LEMMA AcquireInv ==
  ASSUME IdeInv, NEW t \in Caller, lock_acquire(t)
  PROVE  IdeInv'
  <1>1. req[t] # None /\ Phase(t) = 1 /\ Op(t) # "identify"
    BY Phases DEF IdeInv, lock_acquire, At
  <1>2. /\ pos' \in [Caller -> 1..7] /\ Phase(t)' = 2 /\ Op(t)' = Op(t)
        /\ \A u \in Caller \ {t} : Phase(u)' = Phase(u) /\ Op(u)' = Op(u)
    BY <1>1, Advancing DEF IdeInv, lock_acquire
  <1>3. IdeType'
    BY <1>2, Zenon DEF IdeInv, IdeType, lock_acquire, disk
  <1>4. ASSUME NEW u \in Caller
        PROVE  Phase(u) \in {0, 1}
    <2>1. Phase(u) \in 0..7
      BY Phases DEF IdeInv, Phase
    <2>2. ~(Phase(u) >= 2 /\ Op(u) # "identify")
      BY IdeAssumption, Zenon DEF IdeInv, OneAtWork, lock_acquire
    <2>3. ~(Phase(u) >= 2 /\ Op(u) = "identify")
      <3> SUFFICES ASSUME Phase(u) >= 2, Op(u) = "identify" PROVE FALSE
        BY Zenon
      <3>1. u = Main /\ ToIdentify # {} /\ req[u] # None
        BY DEF IdeInv, OneAtWork, Phase
      <3> QED BY <1>1, <3>1, Zenon DEF IdeInv, OneAtWork
    <2> QED BY <2>1, <2>2, <2>3
  <1>5. OneAtWork'
    <2>1. ToIdentify' = ToIdentify
      BY Zenon DEF lock_acquire, ToIdentify
    <2>2. \A u \in Caller : lock_holder' = u <=> (Phase(u)' >= 2 /\ Op(u)' # "identify")
      BY <1>1, <1>2, <1>4 DEF lock_acquire
    <2>3. ASSUME NEW u \in Caller
          PROVE  /\ req'[u] = None => pos'[u] = 1
                 /\ req'[u] # None /\ Op(u)' = "identify" =>
                      u = Main /\ pos'[u] <= 6 /\ req'[u].addr[1] \in ToIdentify'
      <3>1. CASE u = t
        BY <1>1, <1>2, <3>1, Zenon DEF lock_acquire
      <3>2. CASE u # t
        BY <2>1, <3>2, Zenon DEF lock_acquire, Advance, IdeInv, IdeType, OneAtWork, Op
      <3> QED BY <3>1, <3>2, Zenon
    <2> QED BY <2>1, <2>2, <2>3, Zenon DEF IdeInv, OneAtWork, lock_acquire
  <1>6. \A u \in Caller : Phase(u) \in 0..2 /\ Phase(u)' \in 0..2
    BY <1>2, <1>4
  <1>7. Sound' => Protocol'
    BY <1>6 DEF IdeInv, Sound, Protocol, Kept, lock_acquire, disk
  <1>8. faults'.spurious = 0 => Counted'
    BY <1>6 DEF IdeInv, Counted, Idle, lock_acquire, disk
  <1> QED BY <1>3, <1>5, <1>7, <1>8, Zenon DEF IdeInv

\* What a thread that works and goes on to its next step leaves alone.
LEMMA Working_on ==
  ASSUME IdeInv, NEW t \in Caller, req[t] # None, Phase(t) \in 2..6, Advance(t),
         UNCHANGED <<req, lock_holder, is_ata, registered>>
  PROVE  /\ OneAtWork' /\ pos' \in [Caller -> 1..7]
         /\ Phase(t)' = Phase(t) + 1 /\ Op(t)' = Op(t)
         /\ \A u \in Caller \ {t} : Phase(u) \in {0, 1} /\ Phase(u)' \in {0, 1}
         /\ \A u \in Caller : Phase(u)' >= 3 => u = t
         /\ \A u \in Caller : Phase(u) >= 3 => u = t
  <1>1. /\ pos' \in [Caller -> 1..7]
        /\ Phase(t)' = Phase(t) + 1 /\ Op(t)' = Op(t)
        /\ \A u \in Caller \ {t} : Phase(u)' = Phase(u)
    BY Advancing DEF IdeInv
  <1>2. \A u \in Caller \ {t} : Phase(u) \in {0, 1}
    BY Alone DEF IdeInv
  <1>3. OneAtWork'
    BY AdvancingWork, Zenon DEF IdeInv
  <1>4. ASSUME NEW u \in Caller, Phase(u) >= 3 \/ Phase(u)' >= 3
        PROVE  u = t
    BY <1>1, <1>2, <1>4
  <1> QED BY <1>1, <1>2, <1>3, <1>4, Zenon

\* select_sector writes the address registers of an idle disk.
LEMMA SelectInv ==
  ASSUME IdeInv, NEW t \in Caller, select_sector(t)
  PROVE  IdeInv'
  <1>1. req[t] # None /\ Phase(t) = 2
    BY Phases, Zenon DEF IdeInv, select_sector, At
  <1>2. /\ OneAtWork' /\ pos' \in [Caller -> 1..7] /\ Phase(t)' = 3 /\ Op(t)' = Op(t)
        /\ \A u \in Caller \ {t} : Phase(u) \in {0, 1} /\ Phase(u)' \in {0, 1}
        /\ \A u \in Caller : Phase(u)' >= 3 => u = t
    BY <1>1, Working_on DEF select_sector, code
  <1>3. IdeType'
    BY <1>2, Zenon DEF IdeInv, IdeType, select_sector, wait_until_idle, code
  <1>4. ASSUME Sound' PROVE Protocol'
    <2>1. Protocol /\ status \in {"ready", "storing"}
      BY <1>1, <1>2, <1>4 DEF IdeInv, Sound, Protocol, select_sector
    <2>2. status = "ready" /\ status' = "ready" /\ regs' = req'[t].addr
      <3>1. CASE ~faults.slow
        BY <2>1, <3>1, Zenon DEF select_sector, wait_until_idle, BSY
      <3>2. CASE faults.slow
        <4>1. faults.spurious = 0
          BY <1>4, <3>2, Zenon DEF Sound, select_sector
        <4> QED BY <1>1, <1>2, <4>1 DEF IdeInv, Counted, select_sector
      <3> QED BY <3>1, <3>2, Zenon
    <2>3. Fits(t)'
      BY <1>2, <2>2 DEF Fits
    <2>4. Kept'
      BY <2>1, <2>2, Zenon DEF Protocol, Kept, select_sector
    <2> QED BY <1>2, <2>2, <2>3, <2>4, Zenon DEF Protocol
  <1>5. ASSUME faults'.spurious = 0 PROVE Counted'
    <2>1. Counted
      BY <1>5, Zenon DEF IdeInv, select_sector
    <2>2. \A u \in Caller : Phase(u) \in 0..2 /\ Phase(u)' \in 0..3
      BY <1>1, <1>2
    <2>3. completion_wait = 0 /\ irq' = FALSE /\ completion_wait' = 0
      BY <2>1, <2>2 DEF Counted, Idle, select_sector, wait_until_idle, code
    <2> QED BY <1>2, <2>2, <2>3 DEF Counted, Idle
  <1> QED BY <1>2, <1>3, <1>4, <1>5, Zenon DEF IdeInv

\* issue_pio_command makes the disk busy and expects one interrupt.
LEMMA IssueInv ==
  ASSUME IdeInv, NEW t \in Caller, issue_pio_command(t)
  PROVE  IdeInv'
  <1>1. req[t] # None /\ Phase(t) = 3 /\ Op(t) \in {"identify", "read", "write"}
    BY Phases, Zenon DEF IdeInv, issue_pio_command, At
  <1>2. /\ OneAtWork' /\ pos' \in [Caller -> 1..7] /\ Phase(t)' = 4 /\ Op(t)' = Op(t)
        /\ \A u \in Caller \ {t} : Phase(u) \in {0, 1} /\ Phase(u)' \in {0, 1}
        /\ \A u \in Caller : Phase(u)' >= 3 => u = t
    BY <1>1, Working_on DEF issue_pio_command
  <1>3. status' = (IF status = "ready" THEN Command(Op(t)) ELSE "confused") /\ status' \in Status
    BY <1>1, Zenon DEF issue_pio_command, Op, Command, Status
  <1>4. IdeType'
    BY <1>2, <1>3, Zenon DEF IdeInv, IdeType, issue_pio_command
  <1>5. ASSUME Sound PROVE status = "ready" /\ status' = Command(Op(t)) /\ Protocol'
    <2>1. Protocol /\ Fits(t) /\ status = "ready"
      BY <1>1, <1>5 DEF IdeInv, Protocol, Fits
    <2>2. status' = Command(Op(t))
      BY <1>3, <2>1, Zenon
    <2>3. Fits(t)'
      BY <1>1, <1>2, <2>1, <2>2 DEF Fits, Command, issue_pio_command, Op
    <2>4. Kept'
      BY <1>1, <2>1, <2>2, Zenon DEF Protocol, Kept, Command, issue_pio_command
    <2> QED BY <1>2, <2>1, <2>2, <2>3, <2>4 DEF Protocol
  <1>6. ASSUME faults.spurious = 0 PROVE Counted'
    <2>1. \A u \in Caller : Phase(u) \in 0..3
      BY <1>1, <1>2
    <2>2. Idle /\ Idle' /\ completion_wait' = 0
      BY <1>6, <2>1 DEF IdeInv, Counted, Idle, issue_pio_command
    <2>3. status' = Command(Op(t))
      BY <1>5, <1>6, Zenon DEF Sound
    <2>4. ~Signalled' /\ BSY' /\ status' # "ready"
      BY <1>1, <2>2, <2>3 DEF Signalled, Idle, BSY, Command
    <2>5. Awaits(t)' /\ expecting_interrupt'
      BY <1>2, <2>4 DEF Awaits, issue_pio_command
    <2> QED BY <1>2, <2>2, <2>5 DEF Counted, Idle
  <1> QED BY <1>2, <1>4, <1>5, <1>6, Zenon DEF IdeInv, Sound, issue_pio_command

\* A wait on completion_wait ends once the interrupt handler has upped it.
LEMMA WaitInv ==
  ASSUME IdeInv, NEW t \in Caller, wait_completion(t)
  PROVE  IdeInv'
  <1>1. /\ req[t] # None /\ Op(t) \in {"identify", "read", "write"}
        /\ Phase(t) = IF Op(t) = "write" THEN 6 ELSE 4
    BY Phases, Zenon DEF IdeInv, wait_completion, At
  <1>2. /\ OneAtWork' /\ pos' \in [Caller -> 1..7] /\ Phase(t)' = Phase(t) + 1 /\ Op(t)' = Op(t)
        /\ \A u \in Caller \ {t} : Phase(u) \in {0, 1} /\ Phase(u)' \in {0, 1}
        /\ \A u \in Caller : Phase(u)' >= 3 => u = t
    BY <1>1, Working_on DEF wait_completion
  <1>3. IdeType'
    BY <1>2 DEF IdeInv, IdeType, wait_completion, disk
  <1>4. ASSUME Sound PROVE Protocol'
    <2>1. Protocol /\ Fits(t)
      BY <1>1, <1>4, SMTT(30) DEF IdeInv, Protocol
    <2>2. Fits(t)'
      BY <1>1, <1>2, <2>1 DEF Fits, wait_completion, disk, Op
    <2>3. Kept'
      BY <2>1, Zenon DEF Protocol, Kept, wait_completion, disk
    <2> QED BY <1>1, <1>2, <2>2, <2>3 DEF Protocol
  <1>5. ASSUME faults.spurious = 0 PROVE Counted'
    <2>1. Counted /\ Awaits(t) /\ expecting_interrupt
      BY <1>1, <1>5 DEF IdeInv, Counted
    <2>2. completion_wait = 1 /\ ~irq
      BY <2>1 DEF Counted, wait_completion, IdeInv, IdeType
    <2>3. Idle' /\ completion_wait' = 0 /\ ~irq' /\ status' = status
      BY <2>2 DEF Idle, wait_completion, disk
    <2>4. Awaits(t)' /\ expecting_interrupt'
      BY <1>1, <1>2, <2>1, <2>2, <2>3 DEF Awaits, Signalled, BSY, wait_completion
    <2> QED BY <1>1, <1>2, <2>3, <2>4 DEF Counted
  <1> QED BY <1>2, <1>3, <1>4, <1>5, Zenon DEF IdeInv, Sound, wait_completion

\* wait_while_busy finds the disk ready, gives up on it or panics.
LEMMA PollInv ==
  ASSUME IdeInv, NEW t \in Caller, wait_while_busy(t)
  PROVE  IdeInv'
  <1>1. /\ req[t] # None /\ Op(t) \in {"identify", "read", "write"}
        /\ Phase(t) = IF Op(t) = "write" THEN 4 ELSE 5
    BY Phases, Zenon DEF IdeInv, wait_while_busy, At
  <1>2. CASE DRQ /\ Advance(t) /\ UNCHANGED <<is_ata, panicked, req, buffers>>
    <2>1. /\ OneAtWork' /\ pos' \in [Caller -> 1..7] /\ Phase(t)' = Phase(t) + 1 /\ Op(t)' = Op(t)
          /\ \A u \in Caller \ {t} : Phase(u) \in {0, 1} /\ Phase(u)' \in {0, 1}
          /\ \A u \in Caller : Phase(u)' >= 3 => u = t
      BY <1>1, <1>2, Working_on DEF wait_while_busy
    <2>2. IdeType'
      BY <1>2, <2>1, Zenon DEF IdeInv, IdeType, wait_while_busy, disk
    <2>3. ASSUME Sound PROVE Protocol'
      <3>1. Protocol /\ Fits(t)
        BY <1>1, <2>3 DEF IdeInv, Protocol
      <3>2. status' = status /\ status \in {"has_data", "wants_data"}
        BY <1>2, ZenonT(30) DEF DRQ, wait_while_busy, disk
      <3>3. Fits(t)'
        BY <1>1, <1>2, <2>1, <3>1, <3>2 DEF Fits, wait_while_busy, disk, Op
      <3>4. Kept'
        BY <3>1, Zenon DEF Protocol, Kept, wait_while_busy, disk
      <3> QED BY <1>1, <2>1, <3>3, <3>4 DEF Protocol
    <2>4. ASSUME faults.spurious = 0 PROVE Counted'
      <3>1. Counted /\ Awaits(t) /\ expecting_interrupt /\ status # "ready"
        BY <1>1, <1>2, <2>4 DEF IdeInv, Counted, DRQ
      <3>2. completion_wait \in {0, 1} /\ Idle
        BY <1>1, <3>1 DEF Counted, Awaits, Signalled, Idle, IdeInv, IdeType
      <3>3. Idle' /\ completion_wait' = 0 /\ status' = status
        BY <3>2, Zenon DEF Idle, wait_while_busy, disk
      <3>4. Awaits(t)' /\ expecting_interrupt'
        <4>1. expecting_interrupt' /\ (BSY' <=> BSY)
          BY <3>1, <3>3, Zenon DEF BSY, wait_while_busy
        <4>2. ~BSY \/ Op(t) = "write"
          BY <1>1, <3>1 DEF Awaits
        <4>3. /\ Op(t)' = Op(t)
              /\ Op(t) # "write" => Phase(t)' = 6
              /\ Op(t) = "write" => Phase(t)' = 5
          BY <1>1, <2>1
        <4> QED BY <3>3, <4>1, <4>2, <4>3 DEF Awaits
      <3> QED BY <1>1, <2>1, <3>3, <3>4 DEF Counted, Idle
    <2> QED BY <2>1, <2>2, <2>3, <2>4, ZenonT(30) DEF IdeInv, Sound, wait_while_busy
  <1>3. CASE /\ ~DRQ /\ req[t].op = "identify"
             /\ is_ata' = [is_ata EXCEPT ![req[t].addr[1]] = FALSE]
             /\ Finish(t)
             /\ UNCHANGED panicked
    <2>1. /\ is_ata' \in [Disk -> BOOLEAN] /\ ToIdentify' \subseteq ToIdentify
          /\ Op(t) = "identify" /\ Phase(t) = 5
      BY <1>1, <1>3, ZenonT(30) DEF IdeInv, IdeType, ToIdentify, Op, wait_while_busy
    <2>2. OneAtWork' /\ \A u \in Caller : Phase(u)' \in {0, 1}
      BY <1>1, <1>3, <2>1, FinishingWork DEF IdeInv, IdeType, wait_while_busy
    <2>3. IdeType'
      BY <1>3, <2>1, Finishing, ZenonT(30) DEF IdeInv, IdeType, wait_while_busy, disk
    <2>4. ASSUME Sound PROVE Protocol' /\ status' = "ready"
      <3>1. Protocol /\ Fits(t) /\ status \in {"identifying", "has_data", "ready"}
        BY <1>1, <2>1, <2>4 DEF IdeInv, Protocol, Fits
      <3>2. status = "ready"
        <4>1. CASE faults.spurious = 0
          BY <1>1, <1>3, <2>1, <3>1, <4>1 DEF IdeInv, Counted, Awaits, BSY, DRQ
        <4>2. CASE ~faults.slow
          BY <1>3, <3>1, <4>2, Zenon DEF wait_while_busy, BSY, DRQ
        <4> QED BY <2>4, <4>1, <4>2, ZenonT(30) DEF Sound
      <3> QED BY <2>2, <3>1, <3>2, SMTT(30) DEF Protocol, Kept, wait_while_busy, disk
    <2>5. ASSUME faults.spurious = 0 PROVE Counted'
      <3>1. Idle /\ completion_wait = 0
        BY <1>1, <2>1, <2>5 DEF IdeInv, Counted, Awaits, Idle
      <3>2. Idle' /\ completion_wait' = 0
        BY <3>1, Zenon DEF Idle, wait_while_busy, disk
      <3>3. status' = "ready"
        BY <2>4, <2>5, Zenon DEF Sound
      <3>4. \A u \in Caller : ~(Phase(u)' >= 4)
        BY <2>2
      <3>5. 0 <= 1 /\ 0 # 1
        OBVIOUS
      <3> QED BY <3>2, <3>3, <3>4, <3>5, Zenon DEF Counted
    <2> QED BY <2>2, <2>3, <2>4, <2>5, Zenon DEF IdeInv, Sound, wait_while_busy
  <1>4. CASE /\ ~DRQ /\ req[t].op # "identify" /\ panicked' = TRUE
             /\ UNCHANGED <<is_ata, requests>>
    <2>1. IdeType' /\ OneAtWork'
      BY <1>4, SameWork, Zenon DEF IdeInv, IdeType, wait_while_busy, disk, requests
    <2>2. \A u \in Caller : Phase(u)' = Phase(u) /\ Op(u)' = Op(u)
      BY <1>4, SamePhases, ZenonT(30) DEF requests
    <2>3. Sound => Protocol'
      BY <1>4, <2>2 DEF IdeInv, Protocol, Fits, Kept, wait_while_busy, disk, requests
    <2>4. faults.spurious = 0 => Counted'
      BY <1>4, <2>2, Zenon DEF IdeInv, Counted, Awaits, Idle, Signalled, BSY, wait_while_busy, disk
    <2> QED BY <2>1, <2>3, <2>4, Zenon DEF IdeInv, Sound, wait_while_busy
  <1> QED BY <1>2, <1>3, <1>4, Zenon DEF wait_while_busy

\* input_sector takes the sector from the disk into the caller's buffer.
LEMMA InputInv ==
  ASSUME IdeInv, NEW t \in Caller, input_sector(t)
  PROVE  IdeInv'
  <1>1. req[t] # None /\ Op(t) \in {"identify", "read"} /\ Phase(t) = 6
    BY Phases, Zenon DEF IdeInv, input_sector, At
  <1>2. /\ OneAtWork' /\ pos' \in [Caller -> 1..7] /\ Phase(t)' = 7 /\ Op(t)' = Op(t)
        /\ \A u \in Caller \ {t} : Phase(u) \in {0, 1} /\ Phase(u)' \in {0, 1}
        /\ \A u \in Caller : Phase(u)' >= 3 => u = t
    BY <1>1, Working_on DEF input_sector, code
  <1>3. IdeType'
    BY <1>2, ZenonT(30) DEF IdeInv, IdeType, input_sector, code, Status
  <1>4. ASSUME Sound PROVE Protocol' /\ status' = "ready"
    <2>1. Protocol /\ Fits(t) /\ status = "has_data"
      BY <1>1, <1>4 DEF IdeInv, Protocol, Fits
    <2>2. status' = "ready" /\ buffers'[t] = data /\ regs' = req'[t].addr
      BY <2>1, Zenon DEF input_sector, IdeInv, IdeType, Fits
    <2>3. Op(t) = "read" => regs \in Addr /\ buffers'[t] = last'[regs']
      <3>1. Op(t) = "read" => regs \in Addr
        BY <1>1, <2>1, RequestKinds, ZenonT(30) DEF Fits, IdeInv, IdeType, Op
      <3> QED BY <2>1, <2>2, <3>1, Zenon DEF Protocol, Kept, Fits, input_sector
    <2>4. Fits(t)'
      BY <1>1, <1>2, <2>2, <2>3 DEF Fits
    <2>5. Kept'
      BY <2>1, <2>2, Zenon DEF Protocol, Kept, input_sector
    <2> QED BY <1>2, <2>2, <2>4, <2>5, Zenon DEF Protocol
  <1>5. ASSUME faults.spurious = 0 PROVE Counted'
    <2>1. expecting_interrupt /\ Idle
      BY <1>1, <1>5 DEF IdeInv, Counted, Awaits
    <2>2. status' = "ready" /\ Idle' /\ completion_wait' = 0 /\ expecting_interrupt'
      BY <1>4, <1>5, <2>1, Zenon DEF Sound, Idle, input_sector, code
    <2> QED BY <1>1, <1>2, <2>2 DEF Counted, Awaits, Idle, BSY
  <1> QED BY <1>2, <1>3, <1>4, <1>5, Zenon DEF IdeInv, Sound, input_sector

\* output_sector gives the caller's sector to the disk.
LEMMA OutputInv ==
  ASSUME IdeInv, NEW t \in Caller, output_sector(t)
  PROVE  IdeInv'
  <1>1. req[t] # None /\ Op(t) = "write" /\ Phase(t) = 5
    BY Phases, Zenon DEF IdeInv, output_sector, At
  <1>2. /\ OneAtWork' /\ pos' \in [Caller -> 1..7] /\ Phase(t)' = 6 /\ Op(t)' = Op(t)
        /\ \A u \in Caller \ {t} : Phase(u) \in {0, 1} /\ Phase(u)' \in {0, 1}
        /\ \A u \in Caller : Phase(u)' >= 3 => u = t
    BY <1>1, Working_on DEF output_sector, code
  <1>3. req[t].addr \in Addr /\ req[t].data \in Data
    BY <1>1, RequestKinds, Zenon DEF IdeInv, IdeType, Op
  <1>4. IdeType'
    <2>1. status' \in Status
      BY Zenon DEF output_sector, Status
    <2>2. last' \in [Addr -> Data]
      BY <1>3, Zenon DEF IdeInv, IdeType, output_sector
    <2> QED BY <1>2, <2>1, <2>2, Zenon DEF IdeInv, IdeType, output_sector, code
  <1>5. ASSUME Sound PROVE Protocol' /\ status = "wants_data" /\ status' = "storing"
    <2>1. Protocol /\ Fits(t) /\ status = "wants_data"
      BY <1>1, <1>5 DEF IdeInv, Protocol, Fits
    <2>2. status' = "storing" /\ regs' = req'[t].addr /\ data' = req'[t].data
      BY <2>1, ZenonT(30) DEF output_sector, Fits
    <2>3. Fits(t)'
      BY <1>1, <1>2, <2>2 DEF Fits
    <2>4. Kept'
      BY <1>3, <1>4, <2>1, <2>2, Zenon DEF Protocol, Kept, output_sector, IdeInv, IdeType
    <2> QED BY <1>2, <2>1, <2>2, <2>3, <2>4, ZenonT(30) DEF Protocol
  <1>6. ASSUME faults.spurious = 0 PROVE Counted'
    <2>1. expecting_interrupt /\ Idle
      BY <1>1, <1>6 DEF IdeInv, Counted, Awaits
    <2>2. status' = "storing" /\ Idle' /\ completion_wait' = 0 /\ expecting_interrupt'
      BY <1>5, <1>6, <2>1, Zenon DEF Sound, Idle, output_sector, code
    <2> QED BY <1>1, <1>2, <2>2 DEF Counted, Awaits, Idle, Signalled
  <1> QED BY <1>2, <1>4, <1>5, <1>6, Zenon DEF IdeInv, Sound, output_sector

\* lock_release ends ide_read and ide_write.
LEMMA ReleaseInv ==
  ASSUME IdeInv, NEW t \in Caller, lock_release(t)
  PROVE  IdeInv'
  <1>1. req[t] # None /\ Op(t) \in {"read", "write"} /\ Phase(t) = 7
    BY Phases, Zenon DEF IdeInv, lock_release, At
  <1>2. OneAtWork' /\ \A u \in Caller : Phase(u)' \in {0, 1}
    BY <1>1, FinishingWork DEF IdeInv, lock_release
  <1>3. IdeType'
    BY Finishing, ZenonT(30) DEF IdeInv, IdeType, lock_release, disk
  <1>4. Sound => Protocol'
    BY <1>1, <1>2 DEF IdeInv, Protocol, Fits, Kept, lock_release, disk
  <1>5. ASSUME faults.spurious = 0 PROVE Counted'
    <2>1. Idle /\ status = "ready"
      <3>1. Idle /\ (Op(t) = "write" => status = "ready")
        BY <1>1, <1>5, SMTT(30) DEF IdeInv, Counted, Awaits
      <3>2. Op(t) = "read" => status = "ready"
        BY <1>1, <1>5 DEF IdeInv, Sound, Protocol, Fits
      <3> QED BY <1>1, <3>1, <3>2, Zenon
    <2> QED BY <1>2, <2>1 DEF Counted, Idle, lock_release, disk
  <1> QED BY <1>2, <1>3, <1>4, <1>5, Zenon DEF IdeInv, Sound, lock_release

\* block_register ends identify_ata_device.
LEMMA RegisterInv ==
  ASSUME IdeInv, NEW t \in Caller, block_register(t)
  PROVE  IdeInv'
  <1>1. req[t] # None /\ Op(t) = "identify" /\ Phase(t) = 7
    BY Phases, Zenon DEF IdeInv, block_register, At
  <1>2. req[t].addr[1] \in Disk
    BY <1>1, RequestKinds, ZenonT(30) DEF IdeInv, IdeType, Op
  <1>3. /\ is_ata' \in [Disk -> BOOLEAN] /\ registered' \subseteq Disk
        /\ ToIdentify' \subseteq ToIdentify
    BY <1>2, Zenon DEF IdeInv, IdeType, ToIdentify, block_register
  <1>4. OneAtWork' /\ \A u \in Caller : Phase(u)' \in {0, 1}
    BY <1>1, <1>3, FinishingWork DEF IdeInv, block_register
  <1>5. IdeType'
    BY <1>3, Finishing, ZenonT(30) DEF IdeInv, IdeType, block_register, disk
  <1>6. Sound => Protocol' /\ status = "ready"
    BY <1>1, <1>4, SMTT(30) DEF IdeInv, Protocol, Fits, Kept, block_register, disk
  <1>7. ASSUME faults.spurious = 0 PROVE Counted'
    <2>1. Idle /\ status = "ready"
      BY <1>1, <1>6, <1>7 DEF IdeInv, Sound, Counted, Awaits
    <2> QED BY <1>4, <2>1 DEF Counted, Idle, block_register, disk
  <1> QED BY <1>4, <1>5, <1>6, <1>7, Zenon DEF IdeInv, Sound, block_register

-----------------------------------------------------------------------------
(* The interrupt handler, the disks and new requests. *)

\* interrupt_handler ups completion_wait only for an interrupt that is expected.
LEMMA HandlerInv ==
  ASSUME IdeInv, interrupt_handler
  PROVE  IdeInv'
  <1>1. \A u \in Caller : Phase(u)' = Phase(u) /\ Op(u)' = Op(u)
    BY SamePhases, Zenon DEF interrupt_handler, requests
  <1>2. OneAtWork'
    BY SameWork, Zenon DEF IdeInv, interrupt_handler, requests
  <1>3. IdeType'
    <2>1. completion_wait' \in Nat
      <3>1. completion_wait' = completion_wait + 1 \/ completion_wait' = completion_wait + 0
        BY ZenonT(30) DEF interrupt_handler
      <3> QED BY <3>1 DEF IdeInv, IdeType
    <2> QED BY <2>1, Zenon DEF IdeInv, IdeType, interrupt_handler, requests
  <1>4. Sound => Protocol'
    BY <1>1 DEF IdeInv, Protocol, Fits, Kept, interrupt_handler, requests
  <1>5. ASSUME faults.spurious = 0 PROVE Counted'
    <2>1. Counted /\ completion_wait = 0
      BY <1>5 DEF IdeInv, IdeType, Counted, interrupt_handler
    <2>2. PICK t \in Caller : ~(Phase(t) < 4)
      BY <2>1, ZenonT(30) DEF Counted, Idle, interrupt_handler
    <2>3. Phase(t) \in 0..7
      BY Phases DEF IdeInv, Phase
    <2>4. Phase(t) >= 4 /\ expecting_interrupt /\ Awaits(t)
      BY <2>1, <2>2, <2>3 DEF Counted
    <2>5. irq' = FALSE /\ completion_wait' = 1 /\ status' = status
      BY <2>1, <2>4 DEF interrupt_handler
    <2>6. \A u \in Caller \ {t} : Phase(u) \in {0, 1}
      BY <2>3, <2>4, Alone DEF IdeInv
    <2>7. Awaits(t)'
      BY <1>1, <2>4, <2>5, Zenon DEF Awaits, Signalled, Idle, BSY, interrupt_handler
    <2> QED BY <1>1, <2>1, <2>3, <2>4, <2>5, <2>6, <2>7 DEF Counted, interrupt_handler
  <1> QED BY <1>2, <1>3, <1>4, <1>5, Zenon DEF IdeInv, Sound, interrupt_handler

\* A disk that works on a command does so for one thread.
LEMMA WorksFor ==
  ASSUME IdeInv, Sound, status \notin {"ready", "storing"}
  PROVE  \E t \in Caller : /\ Phase(t) \in 3..7 /\ Fits(t)
                           /\ Op(t) \in {"identify", "read", "write"}
                           /\ req[t] \in Request
                           /\ \A u \in Caller \ {t} : Phase(u) \in {0, 1}
  <1>1. PICK t \in Caller : ~(Phase(t) < 3)
    BY Zenon DEF IdeInv, Protocol
  <1>2. req[t] # None
    BY <1>1 DEF Phase
  <1>3. Phase(t) \in 3..7 /\ Op(t) \in {"identify", "read", "write"}
    BY <1>1, <1>2, Phases DEF IdeInv
  <1>4. Fits(t)
    BY <1>3 DEF IdeInv, Protocol
  <1>5. \A u \in Caller \ {t} : Phase(u) \in {0, 1}
    BY <1>3, Alone DEF IdeInv
  <1> QED BY <1>2, <1>3, <1>4, <1>5, Zenon DEF IdeInv, IdeType

\* The disk has read a sector, or wants one.
LEMMA DiskReadyInv ==
  ASSUME IdeInv, disk_ready
  PROVE  IdeInv'
  <1>1. \A u \in Caller : Phase(u)' = Phase(u) /\ Op(u)' = Op(u)
    BY SamePhases, Zenon DEF disk_ready, requests
  <1>2. OneAtWork'
    BY SameWork, Zenon DEF IdeInv, disk_ready, requests, code
  <1>3. status \in {"reading", "writing", "identifying"}
    BY Zenon DEF disk_ready
  <1>4. ASSUME Sound
        PROVE  /\ Protocol'
               /\ faults.spurious = 0 => Counted'
    <2>1. PICK t \in Caller : /\ Phase(t) \in 3..7 /\ Fits(t)
                              /\ Op(t) \in {"identify", "read", "write"}
                              /\ req[t] \in Request
                              /\ \A u \in Caller \ {t} : Phase(u) \in {0, 1}
      BY <1>3, <1>4, WorksFor, ZenonT(30)
    <2>2. /\ Phase(t) \in {4, 5}
          /\ status = "reading" <=> Op(t) = "read"
          /\ status = "writing" <=> Op(t) = "write"
          /\ status = "identifying" <=> Op(t) = "identify"
          /\ Op(t) = "write" => Phase(t) = 4
      BY <1>3, <2>1 DEF Fits
    <2>3. Op(t) # "identify" => regs \in Addr
      BY <2>1, RequestKinds, Zenon DEF Fits, Op
    <2>5. Fits(t)'
      BY <1>1, <2>1, <2>2, Zenon DEF Fits, disk_ready, requests
    <2>6. Kept'
      BY <1>3, <1>4, <2>2, <2>3, Zenon DEF IdeInv, Protocol, Kept, disk_ready
    <2>7. Protocol'
      BY <1>1, <2>1, <2>2, <2>5, <2>6 DEF Protocol
    <2>8. ASSUME faults.spurious = 0 PROVE Counted'
      <3>1. Counted /\ Awaits(t) /\ expecting_interrupt
        BY <2>2, <2>8, SMTT(30) DEF IdeInv, Counted
      <3>2. Idle /\ Phase(t) = 4
        BY <1>3, <2>1, <2>2, <3>1 DEF Awaits, Counted, Signalled, Idle, BSY, IdeInv, IdeType
      <3>3. completion_wait' = 0 /\ expecting_interrupt'
        BY <3>1, <3>2, Zenon DEF Idle, disk_ready, code
      <3>4. Awaits(t)'
        BY <1>1, <2>2, <3>2, <3>3 DEF Awaits, Signalled, Idle, BSY, disk_ready
      <3> QED BY <1>1, <2>1, <3>2, <3>3, <3>4 DEF Counted
    <2> QED BY <2>7, <2>8, Zenon
  <1>5. IdeType'
    BY Zenon DEF IdeInv, IdeType, disk_ready, requests, code, Status
  <1> QED BY <1>2, <1>4, <1>5, Zenon DEF IdeInv, Sound, disk_ready

\* The disk has stored the sector it was sent.
LEMMA DiskStoredInv ==
  ASSUME IdeInv, disk_stored
  PROVE  IdeInv'
  <1>1. \A u \in Caller : Phase(u)' = Phase(u) /\ Op(u)' = Op(u)
    BY SamePhases, Zenon DEF disk_stored, requests
  <1>2. OneAtWork'
    BY SameWork, Zenon DEF IdeInv, disk_stored, requests, code
  <1>3. IdeType'
    BY Zenon DEF IdeInv, IdeType, disk_stored, requests, code, Status
  <1>4. ASSUME Sound PROVE Protocol'
    <2>1. Protocol /\ regs \in Addr
      BY <1>4, ZenonT(30) DEF IdeInv, Protocol, Kept, disk_stored
    <2>2. data \in Data
      BY <2>1 DEF IdeInv, IdeType, Protocol, Kept, disk_stored
    <2>3. Kept'
      BY <2>1, <2>2, Zenon DEF Protocol, Kept, disk_stored
    <2>4. ASSUME NEW t \in Caller, Phase(t)' >= 3
          PROVE  Fits(t)'
      <3>1. Fits(t)
        BY <1>1, <2>1, <2>4, ZenonT(30) DEF Protocol
      <3>2. req[t] # None
        BY <1>1, <2>4 DEF Phase
      <3>3. Phase(t) \in 3..7 /\ Op(t) \in {"identify", "read", "write"}
        BY <1>1, <2>4, <3>2, Phases, SMTT(30) DEF IdeInv
      <3>4. Op(t) = "write" /\ Phase(t) \in {6, 7}
        BY <3>1, <3>3 DEF Fits, disk_stored
      <3> QED BY <1>1, <3>1, <3>4, Zenon DEF Fits, disk_stored, requests
    <2> QED BY <2>3, <2>4, Zenon DEF Protocol, disk_stored
  <1>5. ASSUME faults.spurious = 0 PROVE Counted'
    <2>1. Counted /\ Protocol
      BY <1>5, Zenon DEF IdeInv, Sound
    <2>2. PICK t \in Caller : ~(Phase(t) < 3)
      BY <2>1, ZenonT(30) DEF Counted, disk_stored
    <2>3. Phase(t) \in 3..7 /\ Op(t) \in {"identify", "read", "write"}
      BY <2>2, Phases DEF IdeInv, Phase
    <2>4. Fits(t)
      BY <2>1, <2>3, SMTT(30) DEF Protocol
    <2>5. Op(t) = "write" /\ Phase(t) \in {6, 7}
      BY <2>3, <2>4 DEF Fits, disk_stored
    <2>6. Awaits(t) /\ expecting_interrupt
      BY <2>1, <2>5, SMTT(30) DEF Counted
    <2>7. Phase(t) = 6 /\ Idle
      BY <2>1, <2>5, <2>6 DEF Awaits, Counted, Signalled, Idle, disk_stored, IdeInv, IdeType
    <2>8. \A u \in Caller \ {t} : Phase(u) \in {0, 1}
      BY <2>3, Alone DEF IdeInv
    <2>9. Awaits(t)' /\ expecting_interrupt' /\ completion_wait' = 0
      BY <1>1, <2>5, <2>6, <2>7, Zenon DEF Awaits, Signalled, Idle, disk_stored, code
    <2> QED BY <1>1, <2>7, <2>8, <2>9 DEF Counted
  <1> QED BY <1>2, <1>3, <1>4, <1>5, Zenon DEF IdeInv, Sound, disk_stored

\* The disk fails a command.
LEMMA DiskFailsInv ==
  ASSUME IdeInv, disk_fails
  PROVE  IdeInv'
  <1>1. \A u \in Caller : Phase(u)' = Phase(u) /\ Op(u)' = Op(u)
    BY SamePhases, Zenon DEF disk_fails, requests
  <1>2. OneAtWork'
    BY SameWork, Zenon DEF IdeInv, disk_fails, requests, code
  <1>3. IdeType'
    BY Zenon DEF IdeInv, IdeType, disk_fails, requests, code, Status
  <1>4. ASSUME Sound
        PROVE  Protocol' /\ (faults.spurious = 0 => Counted')
    <2>1. PICK t \in Caller : /\ Phase(t) \in 3..7 /\ Fits(t)
                              /\ Op(t) \in {"identify", "read", "write"}
                              /\ req[t] \in Request
                              /\ \A u \in Caller \ {t} : Phase(u) \in {0, 1}
      BY <1>4, WorksFor, Zenon DEF disk_fails
    <2>2. Phase(t) \in {4, 5} /\ (Op(t) = "write" => Phase(t) = 4)
      <3>1. status \in {"reading", "identifying", "writing"}
        BY Zenon DEF disk_fails
      <3>2. Phase(t) \in {3, 4, 5, 6, 7}
        BY <2>1
      <3> QED BY <2>1, <3>1, <3>2, Zenon DEF Fits
    <2>3. Fits(t)'
      BY <1>1, <2>1, <2>2, Zenon DEF Fits, disk_fails, requests
    <2>4. Kept'
      BY <1>4, Zenon DEF IdeInv, Protocol, Kept, disk_fails
    <2>5. Protocol'
      BY <1>1, <2>1, <2>2, <2>3, <2>4 DEF Protocol
    <2>6. ASSUME faults.spurious = 0 PROVE Counted'
      <3>1. Counted /\ Awaits(t) /\ expecting_interrupt
        BY <2>2, <2>6 DEF IdeInv, Counted
      <3>2. Idle /\ Phase(t) = 4
        <4>1. BSY /\ status # "ready"
          BY Zenon DEF disk_fails, BSY
        <4>2. completion_wait \in {0, 1}
          BY <3>1 DEF Counted, IdeInv, IdeType
        <4>3. Phase(t) = 4
          <5>1. Phase(t) = 5 => Phase(t) >= 5
            OBVIOUS
          <5> QED BY <2>1, <2>2, <3>1, <4>1, <5>1, Zenon DEF Awaits
        <4>4. ~Signalled
          BY <2>1, <3>1, <4>1, <4>3, Zenon DEF Awaits
        <4> QED BY <4>2, <4>3, <4>4, Zenon DEF Signalled, Idle
      <3>3. completion_wait' = 0 /\ expecting_interrupt'
        BY <3>1, <3>2, Zenon DEF Idle, disk_fails, code
      <3>4. Awaits(t)'
        BY <1>1, <2>2, <3>2, <3>3 DEF Awaits, Signalled, Idle, BSY, disk_fails
      <3> QED BY <1>1, <2>1, <3>2, <3>3, <3>4 DEF Counted
    <2> QED BY <2>5, <2>6, Zenon
  <1> QED BY <1>2, <1>3, <1>4, Zenon DEF IdeInv, Sound, disk_fails

\* An interrupt that no command caused.
LEMMA SpuriousInv ==
  ASSUME IdeInv, spurious_interrupt
  PROVE  IdeInv'
  <1>1. \A u \in Caller : Phase(u)' = Phase(u) /\ Op(u)' = Op(u)
    BY SamePhases, Zenon DEF spurious_interrupt, requests
  <1>2. OneAtWork'
    BY SameWork, Zenon DEF IdeInv, spurious_interrupt, requests, code
  <1>3. PICK n \in Nat : n = faults.spurious
    BY Zenon DEF IdeInv, IdeType
  <1>4. faults' = [faults EXCEPT !.spurious = n + 1]
    BY <1>3, Zenon DEF spurious_interrupt
  <1>5. /\ faults' \in [faulty : BOOLEAN, slow : BOOLEAN, max : Nat, spurious : Nat]
        /\ faults'.spurious # 0 /\ faults'.slow = faults.slow
    BY <1>3, <1>4 DEF IdeInv, IdeType
  <1>6. IdeType'
    BY <1>5, Zenon DEF IdeInv, IdeType, spurious_interrupt, requests, code
  <1>7. Sound' => Protocol'
    BY <1>1, <1>5 DEF IdeInv, Sound, Protocol, Fits, Kept, spurious_interrupt, requests
  <1> QED BY <1>2, <1>5, <1>6, <1>7, Zenon DEF IdeInv

\* Only registered disks are used, and only by ide_init while others remain to be
\* identified.
LEMMA BeginInv ==
  ASSUME IdeInv, NEW t \in Caller, NEW r \in Request, Begin(t, r),
         r.op = "identify" => t = Main /\ r.addr[1] \in ToIdentify,
         t = Main \/ ToIdentify = {}
  PROVE  IdeInv'
  <1>1. r # None /\ req[t] = None /\ pos[t] = 1 /\ Phase(t) = 0
    BY IdeAssumption, ZenonT(30) DEF Begin, IdeInv, OneAtWork, Phase
  <1>2. /\ req'[t] = r /\ Op(t)' = r.op
        /\ Phase(t)' = IF r.op = "identify" THEN 2 ELSE 1
    BY <1>1 DEF Begin, Phase, Op, IdeInv, IdeType
  <1>3. \A u \in Caller \ {t} : req'[u] = req[u] /\ Phase(u)' = Phase(u) /\ Op(u)' = Op(u)
    BY Zenon DEF Begin, Phase, Op, IdeInv, IdeType
  <1>4. ToIdentify' = ToIdentify
    BY Zenon DEF Begin, ToIdentify, code
  <1>5. IdeType'
    BY ZenonT(30) DEF IdeInv, IdeType, Begin, code, disk
  <1>6. OneAtWork'
    <2>1. lock_holder # t
      BY <1>1, SMTT(30) DEF IdeInv, OneAtWork
    <2>2. \A u \in Caller : lock_holder' = u <=> (Phase(u)' >= 2 /\ Op(u)' # "identify")
      BY <1>1, <1>2, <1>3, <2>1 DEF IdeInv, OneAtWork, Begin, code
    <2>3. ASSUME NEW u \in Caller
          PROVE  /\ req'[u] = None => pos'[u] = 1
                 /\ req'[u] # None /\ Op(u)' = "identify" =>
                      u = Main /\ pos'[u] <= 6 /\ req'[u].addr[1] \in ToIdentify'
      <3>1. CASE u = t
        BY <1>1, <1>2, <1>4, <3>1 DEF Begin
      <3>2. CASE u # t
        BY <1>3, <1>4, <3>2, ZenonT(30) DEF IdeInv, OneAtWork, Begin
      <3> QED BY <3>1, <3>2, ZenonT(30)
    <2>4. ToIdentify' # {} => \A u \in Caller \ {Main} : req'[u] = None
      BY <1>3, <1>4, Zenon DEF IdeInv, OneAtWork
    <2> QED BY <2>2, <2>3, <2>4, Zenon DEF OneAtWork
  <1>7. Sound => Protocol'
    BY <1>1, <1>2, <1>3 DEF IdeInv, Protocol, Fits, Kept, Begin, disk
  <1>8. ASSUME faults.spurious = 0 PROVE Counted'
    <2>1. \A u \in Caller : Phase(u)' >= 4 => Awaits(u)' /\ expecting_interrupt'
      BY <1>1, <1>2, <1>3, <1>8, SMTT(30) DEF IdeInv, Counted, Awaits, Signalled, Idle, BSY, Begin, code, disk
    <2>2. /\ (\A u \in Caller : Phase(u)' < 3) => \A u \in Caller : Phase(u) < 3
          /\ (\A u \in Caller : Phase(u)' < 4) => \A u \in Caller : Phase(u) < 4
      BY <1>1, <1>3
    <2> QED BY <1>8, <2>1, <2>2, ZenonT(30) DEF IdeInv, Counted, Idle, Begin, code, disk
  <1> QED BY <1>5, <1>6, <1>7, <1>8, Zenon DEF IdeInv, Sound, Begin

\* A thread calls ide_read, ide_write or identify_ata_device.
LEMMA NewRequestInv ==
  ASSUME IdeInv, NewRequest
  PROVE  IdeInv'
  <1>1. ASSUME NEW d \in Disk, identify(d)
        PROVE  IdeInv'
    <2>1. PICK r : r = [op |-> "identify", addr |-> <<d, None>>]
      BY Zenon
    <2>2. r \in Request /\ r.op = "identify" /\ r.addr[1] = d
      BY <2>1, Zenon DEF Request
    <2> QED BY <1>1, <2>1, <2>2, BeginInv, IdeAssumption, Zenon DEF identify
  <1>2. ASSUME NEW t \in Caller, NEW d \in Disk, NEW s \in Sector, block_read(t, d, s)
        PROVE  IdeInv'
    <2>1. PICK r : r = [op |-> "read", addr |-> <<d, s>>]
      BY Zenon
    <2>2. r \in Request /\ r.op # "identify"
      BY <2>1, Zenon DEF Request, Addr
    <2> QED BY <1>2, <2>1, <2>2, BeginInv, Zenon DEF block_read, MayCall
  <1>3. ASSUME NEW t \in Caller, NEW d \in Disk, NEW s \in Sector, NEW x \in Data,
               block_write(t, d, s, x)
        PROVE  IdeInv'
    <2>1. PICK r : r = [op |-> "write", addr |-> <<d, s>>, data |-> x]
      BY Zenon
    <2>2. r \in Request /\ r.op # "identify"
      BY <2>1, Zenon DEF Request, Addr
    <2> QED BY <1>3, <2>1, <2>2, BeginInv, Zenon DEF block_write, MayCall
  <1> QED BY <1>1, <1>2, <1>3, Zenon DEF NewRequest

\* The state after ide_init has set the channel up.
LEMMA InitIdeInv ==
  ASSUME InitIde
  PROVE  IdeInv
  <1>1. \A t \in Caller : Phase(t) = 0 /\ req[t] = None /\ pos[t] = 1
    BY Zenon DEF InitIde, Phase
  <1>2. faults \in [faulty : BOOLEAN, slow : BOOLEAN, max : Nat, spurious : {0}]
    BY IdeAssumption, Zenon DEF InitIde
  <1>3. IdeType
    <2>1. faults \in [faulty : BOOLEAN, slow : BOOLEAN, max : Nat, spurious : Nat]
      BY <1>2
    <2>2. /\ req \in [Caller -> Request \cup {None}] /\ pos \in [Caller -> 1..7]
          /\ DOMAIN buffers = Caller /\ last \in [Addr -> Data]
          /\ is_ata \in [Disk -> BOOLEAN] /\ registered \subseteq Disk
      BY SMTT(30) DEF InitIde
    <2> QED BY <2>1, <2>2, Zenon DEF InitIde, IdeType, Status
  <1>4. OneAtWork
    BY <1>1, IdeAssumption DEF InitIde, OneAtWork
  <1>5. Protocol
    BY <1>1 DEF InitIde, Protocol, Kept
  <1>6. Counted
    BY <1>1 DEF InitIde, Counted, Idle
  <1> QED BY <1>3, <1>4, <1>5, <1>6, Zenon DEF IdeInv

\* Every step keeps the invariant.
LEMMA NextIdeInv ==
  ASSUME IdeInv, [NextIde]_ideVars
  PROVE  IdeInv'
  <1>1. CASE UNCHANGED ideVars
    <2>1. OneAtWork' /\ \A u \in Caller : Phase(u)' = Phase(u) /\ Op(u)' = Op(u)
      BY <1>1, SameWork, SamePhases, Zenon DEF IdeInv, ideVars, requests, code
    <2>2. IdeType'
      BY <1>1, ZenonT(30) DEF IdeInv, IdeType, ideVars, requests, code, disk
    <2>3. Sound => Protocol'
      BY <1>1, <2>1 DEF IdeInv, Protocol, Fits, Kept, ideVars, requests, disk
    <2>4. faults.spurious = 0 => Counted'
      BY <1>1, <2>1, Zenon DEF IdeInv, Counted, Awaits, Signalled, Idle, BSY, ideVars, code, disk
    <2> QED BY <1>1, <2>1, <2>2, <2>3, <2>4, Zenon DEF IdeInv, Sound, ideVars
  <1>2. ASSUME NEW t \in Caller, ChannelStep(t)
        PROVE  IdeInv'
    BY <1>2, AcquireInv, SelectInv, IssueInv, WaitInv, PollInv, InputInv, OutputInv,
       ReleaseInv, RegisterInv, Zenon DEF ChannelStep
  <1>3. CASE Handler \/ DiskStep \/ disk_fails \/ spurious_interrupt
    BY <1>3, HandlerInv, DiskReadyInv, DiskStoredInv, DiskFailsInv, SpuriousInv, Zenon
       DEF Handler, DiskStep
  <1> QED BY <1>1, <1>2, <1>3, NewRequestInv, Zenon DEF NextIde

\* A read returns the data last sent to its sector, by whichever thread, and no
\* command, input_sector or output_sector meets a disk in the wrong state, for any
\* number of threads, sectors, failed commands and spurious interrupts.
THEOREM ReadsSeeWrites == IdeSpec => []ReadsCurrent
  <1>1. IdeInv => ReadsCurrent
    <2> SUFFICES ASSUME IdeInv, ~faults.slow
                 PROVE  /\ status # "confused"
                        /\ \A t \in Caller :
                             At(t, "release") /\ req[t].op = "read" =>
                               buffers[t] = last[req[t].addr]
      BY Zenon DEF ReadsCurrent
    <2>1. Protocol
      BY ZenonT(30) DEF IdeInv, Sound
    <2>2. status # "confused"
      <3> SUFFICES ASSUME status = "confused" PROVE FALSE
        BY Zenon
      <3>1. PICK t \in Caller : Phase(t) \in 3..7 /\ Fits(t)
                                /\ Op(t) \in {"identify", "read", "write"}
        BY WorksFor, Zenon DEF Sound
      <3> QED BY <3>1 DEF Fits
    <2>3. ASSUME NEW t \in Caller, At(t, "release"), req[t].op = "read"
          PROVE  buffers[t] = last[req[t].addr]
      <3>1. req[t] # None /\ Phase(t) = 7 /\ Op(t) = "read"
        BY <2>3, Phases, Zenon DEF At, Op, IdeInv
      <3> QED BY <2>1, <3>1 DEF Protocol, Fits
    <2> QED BY <2>2, <2>3, Zenon
  <1> QED BY <1>1, InitIdeInv, NextIdeInv, PTL DEF IdeSpec

-----------------------------------------------------------------------------
(***************************************************************************)
(* The channel implements the device of BlockDevice.                       *)
(***************************************************************************)
\* A request has taken effect, and what it has returned, by its phase.
Done(t) ==
  /\ req[t] # None
  /\ \/ Op(t) = "read" /\ (Phase(t) = 7 \/ (Phase(t) >= 2 /\ status = "has_data"))
     \/ Op(t) = "write" /\ Phase(t) \in {6, 7} /\ status = "ready"

Answer(t) == IF Done(t) /\ Op(t) = "read"
             THEN IF Phase(t) = 7 THEN buffers[t] ELSE data
             ELSE None

\* The same by phases.
DoneWhen(t) ==
  /\ Op(t) = "identify" => ~Done(t)
  /\ Op(t) = "read" /\ Phase(t) \in {2, 3, 4, 5, 6} => (Done(t) <=> status = "has_data")
  /\ Op(t) = "read" /\ Phase(t) = 7 => Done(t)
  /\ Op(t) = "write" /\ Phase(t) \in {1, 2, 3, 4, 5} => ~Done(t)
  /\ Op(t) = "write" /\ Phase(t) \in {6, 7} => (Done(t) <=> status = "ready")

Mapped ==
  /\ Served = {t \in Caller : Done(t)}
  /\ Results = [t \in Caller |-> Answer(t)]

DoneKnown == \A t \in Caller : req[t] # None => DoneWhen(t)

\* What DoneWhen says follows from Done.
LEMMA Known == DoneKnown
  <1> SUFFICES ASSUME NEW t \in Caller, req[t] # None PROVE DoneWhen(t)
    BY Zenon DEF DoneKnown
  <1>1. PICK n : n = Phase(t)
    BY Zenon
  <1>2. n \in {2, 3, 4, 5, 6} => n >= 2 /\ n # 7
    OBVIOUS
  <1>3. n \in {1, 2, 3, 4, 5} => n \notin {6, 7}
    OBVIOUS
  <1> QED BY <1>1, <1>2, <1>3, Zenon DEF DoneWhen, Done

\* The same for use before a step, and after it.
LEMMA Doing == \A t \in Caller : req[t] # None => DoneWhen(t)
  BY Known, Zenon DEF DoneKnown

LEMMA NextDoing == \A t \in Caller : req'[t] # None => DoneWhen(t)'
  <1>1. DoneKnown'
    BY Known, PTL
  <1> QED BY <1>1, Zenon DEF DoneKnown

\* What the refinement mapping is, by phases.
LEMMA Mapping == IdeInv => Mapped
  <1> SUFFICES ASSUME IdeInv PROVE Mapped
    BY Zenon
  <1>1. ASSUME NEW t \in Caller
        PROVE  /\ HasServed(t) <=> Done(t)
               /\ Done(t) => (At(t, "release") <=> Phase(t) = 7)
    <2>1. CASE req[t] = None
      BY <2>1, Zenon DEF HasServed, Outcome, Done
    <2>2. CASE req[t] # None
      <3>1. lock_holder = t <=> (Phase(t) >= 2 /\ Op(t) # "identify")
        BY Zenon DEF IdeInv, OneAtWork
      <3>2. /\ Op(t) \in {"identify", "read", "write"} /\ Phase(t) \in 1..7
            /\ At(t, "wait") <=> Phase(t) = IF Op(t) = "write" THEN 6 ELSE 4
            /\ At(t, "release") <=> Op(t) # "identify" /\ Phase(t) = 7
        BY <2>2, Phases, Zenon DEF IdeInv
      <3> QED BY <2>2, <3>1, <3>2, Zenon DEF HasServed, Outcome, Done, Op
    <2> QED BY <2>1, <2>2, Zenon
  <1>2. Served = {t \in Caller : Done(t)}
    BY <1>1, Zenon DEF Served
  <1>3. ASSUME NEW t \in Caller
        PROVE  (IF HasServed(t) /\ req[t].op = "read"
                THEN IF At(t, "release") THEN buffers[t] ELSE data ELSE None) = Answer(t)
    BY <1>1, Zenon DEF Answer, Op
  <1>4. Results = [t \in Caller |-> Answer(t)]
    BY <1>3, Zenon DEF Results
  <1> QED BY <1>2, <1>4, Zenon DEF Mapped

\* The same after a step.
LEMMA NextMapped == IdeInv' => Mapped'
  BY Mapping, PTL

\* A step that its callers cannot see.
LEMMA Unseen ==
  ASSUME IdeInv, IdeInv', contents' = contents,
         \A u \in Caller : /\ Requested(u)' = Requested(u)
                           /\ Done(u)' <=> Done(u)
                           /\ Answer(u)' = Answer(u)
  PROVE  UNCHANGED Device!dvars
  <1>1. Mapped /\ Mapped'
    BY Mapping, NextMapped, Zenon
  <1>2. Served' = Served
    BY <1>1, Zenon DEF Mapped
  <1>3. Results' = Results
    BY <1>1, Zenon DEF Mapped
  <1>4. Requests' = Requests
    BY Zenon DEF Requests
  <1>5. Sectors' = Sectors
    BY Zenon DEF Sectors
  <1> QED BY <1>2, <1>3, <1>4, <1>5, Zenon DEF Device!dvars

\* A step of t that callers cannot see, the others being outside the channel.
LEMMA StepUnseen ==
  ASSUME IdeInv, IdeInv', NEW t \in Caller, contents' = contents,
         \A u \in Caller \ {t} : /\ req'[u] = req[u]
                                 /\ Phase(u) \in {0, 1} /\ Phase(u)' \in {0, 1},
         Requested(t)' = Requested(t), Done(t)' <=> Done(t), Answer(t)' = Answer(t)
  PROVE  UNCHANGED Device!dvars
  <1>1. ASSUME NEW u \in Caller \ {t}
        PROVE  /\ Requested(u)' = Requested(u) /\ ~Done(u) /\ ~Done(u)'
               /\ Answer(u)' = Answer(u)
    <2>1. Requested(u)' = Requested(u)
      BY ZenonT(30) DEF Requested, Outcome
    <2>2. ~Done(u) /\ ~Done(u)'
      BY DEF Done
    <2> QED BY <2>1, <2>2, Zenon DEF Answer
  <1> QED BY <1>1, Unseen, Zenon

\* The steps that only move a request forward.
LEMMA AcquireUnseen ==
  ASSUME IdeInv, IdeInv', faults.spurious = 0, NEW t \in Caller, lock_acquire(t)
  PROVE  UNCHANGED Device!dvars
  <1>1. req[t] # None /\ Phase(t) = 1
    BY Phases, Zenon DEF IdeInv, lock_acquire, At
  <1>2. /\ Phase(t)' = 2 /\ Op(t)' = Op(t)
        /\ \A u \in Caller \ {t} : Phase(u)' = Phase(u) /\ Op(u)' = Op(u)
    BY <1>1, Advancing DEF IdeInv, lock_acquire
  <1>3. lock_holder' = t /\ req' = req
    BY ZenonT(30) DEF lock_acquire
  <1>5. ASSUME NEW u \in Caller \ {t}
        PROVE  Phase(u) \in {0, 1}
    <2>1. req[u] # None => Phase(u) \in 1..7 /\ Op(u) \in {"identify", "read", "write"}
      BY Phases, Zenon DEF IdeInv
    <2>2. ~(Phase(u) >= 2 /\ Op(u) # "identify")
      BY IdeAssumption, Zenon DEF IdeInv, OneAtWork, lock_acquire
    <2>3. ~(req[u] # None /\ Op(u) = "identify")
      BY <1>1, Phases, Zenon DEF IdeInv, OneAtWork
    <2> QED BY <2>1, <2>2, <2>3 DEF Phase
  <1>6. status = "ready" /\ status' = "ready"
    <2>1. \A u \in Caller : Phase(u) < 3
      BY <1>1, <1>5, SMTT(30)
    <2> QED BY <2>1, Zenon DEF IdeInv, Counted, lock_acquire, disk
  <1>7. ~Done(t) /\ ~Done(t)'
    BY <1>1, <1>2, <1>6 DEF Done
  <1> QED BY <1>2, <1>3, <1>5, <1>7, StepUnseen, Zenon
          DEF Requested, Outcome, Answer, lock_acquire, disk

\* Callers do not see the command being issued.
LEMMA SelectUnseen ==
  ASSUME IdeInv, IdeInv', faults.spurious = 0, NEW t \in Caller,
         select_sector(t) \/ issue_pio_command(t)
  PROVE  UNCHANGED Device!dvars
  <1>1. req[t] # None /\ Phase(t) \in {2, 3}
    BY Phases, ZenonT(30) DEF IdeInv, select_sector, issue_pio_command, At
  <1>2. /\ Phase(t)' = Phase(t) + 1 /\ Op(t)' = Op(t) /\ req' = req /\ contents' = contents
        /\ \A u \in Caller \ {t} : Phase(u) \in {0, 1} /\ Phase(u)' \in {0, 1}
    BY <1>1, Working_on DEF select_sector, issue_pio_command, code, disk
  <1>3. ~Done(t)
    <2>1. Phase(t) = 3 => status = "ready"
      BY <1>1, <1>2, SMTT(30) DEF IdeInv, Sound, Protocol, Fits
    <2>2. Phase(t) = 2 => status = "ready"
      BY <1>1, <1>2 DEF IdeInv, Counted
    <2> QED BY <1>1, <2>1, <2>2, Doing, ZenonT(30) DEF Done, DoneWhen
  <1>4. ~Done(t)'
    <2>1. Protocol' /\ Counted'
      BY ZenonT(30) DEF IdeInv, Sound, select_sector, issue_pio_command
    <2>2. Phase(t)' = 3 => status' = "ready"
      BY <1>1, <1>2, <2>1 DEF Protocol, Fits
    <2>3. CASE issue_pio_command(t)
      <3>1. Phase(t) = 3
        BY <2>3, <1>1, Phases, ZenonT(30) DEF IdeInv, issue_pio_command
      <3>2. status = "ready"
        BY <1>1, <3>1 DEF IdeInv, Sound, Protocol, Fits
      <3>3. status' # "has_data"
        BY <2>3, <3>2, <1>1, Phases, Zenon DEF issue_pio_command, Command, IdeInv, Op
      <3>4. Phase(t)' = 4 /\ req'[t] # None
        BY <1>1, <1>2, <3>1, Digits, Zenon
      <3> QED BY <3>3, <3>4, NextDoing, Zenon DEF Done, DoneWhen
    <2>4. CASE select_sector(t)
      <3>1. Phase(t) = 2
        BY <2>4, <1>1, Phases, Zenon DEF IdeInv, select_sector
      <3>2. Phase(t)' = 3 /\ req'[t] # None
        BY <1>1, <1>2, <3>1, Digits, Zenon
      <3> QED BY <3>2, <2>2, NextDoing, Zenon DEF Done, DoneWhen
    <2> QED BY <2>3, <2>4, Zenon
  <1> QED BY <1>2, <1>3, <1>4, StepUnseen, Zenon DEF Requested, Outcome, Answer

\* They do not see the wait for the interrupt.
LEMMA WaitUnseen ==
  ASSUME IdeInv, IdeInv', faults.spurious = 0, NEW t \in Caller, wait_completion(t)
  PROVE  UNCHANGED Device!dvars
  <1>1. /\ req[t] # None /\ Op(t) \in {"identify", "read", "write"}
        /\ Phase(t) = IF Op(t) = "write" THEN 6 ELSE 4
    BY Phases, ZenonT(30) DEF IdeInv, wait_completion, At
  <1>2. /\ Phase(t)' = Phase(t) + 1 /\ Op(t)' = Op(t) /\ req' = req /\ contents' = contents
        /\ status' = status /\ data' = data
        /\ \A u \in Caller \ {t} : Phase(u) \in {0, 1} /\ Phase(u)' \in {0, 1}
    BY <1>1, Working_on DEF wait_completion, disk
  <1>3. /\ Op(t) = "write" => Phase(t) = 6 /\ Phase(t)' = 7
        /\ Op(t) # "write" => Phase(t) = 4 /\ Phase(t)' = 5
        /\ req'[t] # None
    BY <1>1, <1>2, Digits, Zenon
  <1>4. Done(t)' <=> Done(t)
    BY <1>1, <1>2, <1>3, Doing, NextDoing, Zenon DEF DoneWhen
  <1>5. Answer(t)' = Answer(t)
    <2>1. 4 # 7 /\ 5 # 7
      OBVIOUS
    <2> QED BY <1>2, <1>3, <1>4, <2>1, Zenon DEF Answer
  <1> QED BY <1>2, <1>4, <1>5, StepUnseen, Zenon DEF Requested, Outcome

\* They do not see the polling of the status register.
LEMMA PollUnseen ==
  ASSUME IdeInv, IdeInv', faults.spurious = 0, NEW t \in Caller, wait_while_busy(t)
  PROVE  UNCHANGED Device!dvars
  <1>1. /\ req[t] # None /\ Op(t) \in {"identify", "read", "write"}
        /\ Phase(t) = IF Op(t) = "write" THEN 4 ELSE 5
    BY Phases, Zenon DEF IdeInv, wait_while_busy, At
  <1>2. contents' = contents /\ status' = status /\ data' = data
    BY Zenon DEF wait_while_busy, disk
  <1>3. CASE DRQ /\ Advance(t) /\ UNCHANGED <<is_ata, panicked, req, buffers>>
    <2>1. /\ Phase(t)' = Phase(t) + 1 /\ Op(t)' = Op(t) /\ req' = req
          /\ \A u \in Caller \ {t} : Phase(u) \in {0, 1} /\ Phase(u)' \in {0, 1}
      <3>1. Phase(t) \in 2..6
        BY <1>1
      <3>2. Advance(t) /\ UNCHANGED <<req, lock_holder, is_ata, registered>>
        BY <1>3, Zenon DEF wait_while_busy
      <3>3. req' = req
        BY <1>3, Zenon
      <3> QED BY <1>1, <3>1, <3>2, <3>3, Working_on, Zenon
    <2>2. /\ Op(t) = "write" => Phase(t) = 4 /\ Phase(t)' = 5
          /\ Op(t) # "write" => Phase(t) = 5 /\ Phase(t)' = 6
          /\ req'[t] # None
      BY <1>1, <2>1, Digits, Zenon
    <2>3. Done(t)' <=> Done(t)
      BY <1>1, <1>2, <2>1, <2>2, Doing, NextDoing, Zenon DEF DoneWhen
    <2>4. Answer(t)' = Answer(t)
      <3>1. 5 # 7 /\ 6 # 7
        OBVIOUS
      <3> QED BY <1>2, <2>1, <2>2, <2>3, <3>1, Zenon DEF Answer
    <2> QED BY <1>2, <2>1, <2>3, <2>4, StepUnseen, Zenon DEF Requested, Outcome
  <1>4. CASE req[t].op = "identify" /\ Finish(t)
    <2>1. /\ Phase(t)' = 0 /\ req'[t] = None
          /\ \A u \in Caller \ {t} : /\ req'[u] = req[u] /\ Phase(u) \in {0, 1}
                                     /\ Phase(u)' \in {0, 1}
      <3>1. Phase(t)' = 0 /\ \A u \in Caller \ {t} : req'[u] = req[u] /\ Phase(u)' = Phase(u)
        BY <1>4, Finishing, Zenon DEF IdeInv
      <3>2. req'[t] = None
        BY <1>4, ZenonT(30) DEF Finish, IdeInv, IdeType
      <3>3. \A u \in Caller \ {t} : Phase(u) \in {0, 1}
        BY <1>1, Alone DEF IdeInv
      <3> QED BY <3>1, <3>2, <3>3, Zenon
    <2>2. ~Done(t) /\ ~Done(t)'
      BY <1>4, <2>1, Zenon DEF Done, Op
    <2>3. Requested(t) = None /\ Requested(t)' = None
      BY <1>4, <2>1, Zenon DEF Requested, Outcome
    <2> QED BY <1>2, <2>1, <2>2, <2>3, StepUnseen, Zenon DEF Answer
  <1>5. CASE UNCHANGED <<is_ata, requests>>
    BY <1>2, <1>5, SamePhases, Unseen, ZenonT(30) DEF requests, Requested, Outcome, Done, Answer
  <1> QED BY <1>3, <1>4, <1>5, Zenon DEF wait_while_busy

\* They do not see the transfer of the sector.
LEMMA TransferUnseen ==
  ASSUME IdeInv, IdeInv', faults.spurious = 0, NEW t \in Caller,
         input_sector(t) \/ output_sector(t)
  PROVE  UNCHANGED Device!dvars
  <1>1. /\ req[t] # None /\ Op(t) \in {"identify", "read", "write"}
        /\ Phase(t) = IF Op(t) = "write" THEN 5 ELSE 6
    BY Phases, Zenon DEF IdeInv, input_sector, output_sector, At
  <1>2. /\ Phase(t)' = Phase(t) + 1 /\ Op(t)' = Op(t) /\ req' = req /\ contents' = contents
        /\ \A u \in Caller \ {t} : Phase(u) \in {0, 1} /\ Phase(u)' \in {0, 1}
    BY <1>1, Working_on, SMTT(30) DEF input_sector, output_sector, code
  <1>3. Fits(t)
    BY <1>1 DEF IdeInv, Sound, Protocol
  <1>4. CASE Op(t) = "write"
    <2>1. status' = "storing" /\ status = "wants_data"
      BY <1>1, <1>3, <1>4, Phases, Zenon DEF Fits, input_sector, output_sector, IdeInv
    <2>2. ~Done(t) /\ ~Done(t)'
      BY <1>1, <1>2, <1>4, <2>1, Zenon DEF Done
    <2> QED BY <1>2, <2>2, StepUnseen, Zenon DEF Requested, Outcome, Answer
  <1>5. CASE Op(t) # "write"
    <2>1. status = "has_data" /\ buffers'[t] = data
      BY <1>1, <1>3, <1>5, Phases, Zenon DEF Fits, input_sector, output_sector, IdeInv, IdeType
    <2>2. Phase(t) = 6 /\ Phase(t)' = 7 /\ req'[t] # None
      BY <1>1, <1>2, <1>5, Digits, Zenon
    <2>3. Done(t)' <=> Done(t)
      BY <1>1, <1>2, <1>5, <2>1, <2>2, Doing, NextDoing, Zenon DEF DoneWhen
    <2>4. Answer(t)' = Answer(t)
      <3>1. 6 # 7
        OBVIOUS
      <3> QED BY <1>2, <2>1, <2>2, <2>3, <3>1, Zenon DEF Answer
    <2> QED BY <1>2, <2>3, <2>4, StepUnseen, Zenon DEF Requested, Outcome
  <1> QED BY <1>4, <1>5, Zenon

\* They do not see the end of an identification.
LEMMA RegisterUnseen ==
  ASSUME IdeInv, IdeInv', NEW t \in Caller, block_register(t)
  PROVE  UNCHANGED Device!dvars
  <1>1. req[t] # None /\ Op(t) = "identify" /\ Phase(t) = 7
    BY Phases, Zenon DEF IdeInv, block_register, At
  <1>2. /\ Phase(t)' = 0 /\ req'[t] = None
        /\ \A u \in Caller \ {t} : /\ req'[u] = req[u] /\ Phase(u) \in {0, 1}
                                   /\ Phase(u)' \in {0, 1}
    <2>1. Phase(t)' = 0 /\ \A u \in Caller \ {t} : req'[u] = req[u] /\ Phase(u)' = Phase(u)
      BY Finishing, Zenon DEF IdeInv, block_register
    <2>2. req'[t] = None
      BY Zenon DEF Finish, IdeInv, IdeType, block_register
    <2>3. \A u \in Caller \ {t} : Phase(u) \in {0, 1}
      BY <1>1, Alone DEF IdeInv
    <2> QED BY <2>1, <2>2, <2>3, Zenon
  <1>3. ~Done(t) /\ ~Done(t)'
    BY <1>1, <1>2, Zenon DEF Done
  <1>4. Requested(t) = None /\ Requested(t)' = None
    BY <1>1, <1>2, Zenon DEF Requested, Outcome, Op
  <1> QED BY <1>2, <1>3, <1>4, StepUnseen, Zenon DEF Answer, block_register, disk

\* A call is an Invoke, and a return a Return.
LEMMA BeginSeen ==
  ASSUME IdeInv, IdeInv', NEW t \in Caller, NEW r \in Request, Begin(t, r)
  PROVE  Device!DiskNext \/ UNCHANGED Device!dvars
  <1>1. r # None /\ req[t] = None /\ Phase(t) = 0
    BY IdeAssumption, ZenonT(30) DEF Begin, Phase
  <1>2. /\ req'[t] = r /\ Op(t)' = r.op
        /\ Phase(t)' = IF r.op = "identify" THEN 2 ELSE 1
    BY <1>1 DEF Begin, Phase, Op, IdeInv, IdeType, OneAtWork
  <1>3. ASSUME NEW u \in Caller \ {t}
        PROVE  /\ Requested(u)' = Requested(u) /\ (Done(u)' <=> Done(u))
               /\ Answer(u)' = Answer(u)
    <2>1. req'[u] = req[u] /\ Phase(u)' = Phase(u) /\ Op(u)' = Op(u)
      BY Zenon DEF Begin, Phase, Op, IdeInv, IdeType
    <2>2. UNCHANGED <<status, data, buffers>>
      BY Zenon DEF Begin, disk
    <2>3. Done(u)' <=> Done(u)
      BY <2>1, <2>2, ZenonT(30) DEF Done
    <2> QED BY <2>1, <2>2, <2>3, Zenon DEF Requested, Outcome, Answer
  <1>4. ~Done(t) /\ ~Done(t)'
    BY <1>1, <1>2, RequestKinds DEF Done
  <1>5. contents' = contents
    BY Zenon DEF Begin, disk
  <1>6. CASE r.op = "identify"
    <2>1. Requested(t) = None /\ Requested(t)' = None
      BY <1>1, <1>2, <1>6, Zenon DEF Requested, Outcome
    <2> QED BY <1>3, <1>4, <1>5, <2>1, Unseen, Zenon DEF Answer
  <1>7. CASE r.op # "identify"
    <2>1. PICK q : q = Requested(t)'
      BY Zenon
    <2>2. r.addr[1] \in Disk /\ r.addr[2] \in Sector
      BY <1>7, RequestKinds, Zenon DEF Addr
    <2>3. q \in Device!Request
      <3>1. CASE r.op = "read"
        BY <1>1, <1>2, <2>1, <2>2, <3>1, Zenon DEF Requested, Outcome, Device!Request
      <3>2. CASE r.op = "write"
        <4>1. r.data \in Data
          BY <3>2, RequestKinds, Zenon
        <4> QED BY <1>1, <1>2, <2>1, <2>2, <3>2, <4>1, Zenon DEF Requested, Outcome, Device!Request
      <3> QED BY <1>7, <3>1, <3>2, RequestKinds, Zenon
    <2>4. Mapped /\ Mapped'
      BY Mapping, NextMapped, Zenon
    <2>5. Served' = Served
      BY <1>3, <1>4, <2>4, Zenon DEF Mapped
    <2>6. Results' = Results
      <3>1. \A u \in Caller : Answer(u)' = Answer(u)
        BY <1>3, <1>4, Zenon DEF Answer
      <3> QED BY <2>4, <3>1, Zenon DEF Mapped
    <2>7. Requests[t] = None /\ Requests' = [Requests EXCEPT ![t] = q]
      <3>1. Requested(t) = None
        BY <1>1, Zenon DEF Requested, Outcome
      <3> QED BY <1>3, <2>1, <3>1, Zenon DEF Requests
    <2>8. Sectors' = Sectors
      BY <1>5, Zenon DEF Sectors
    <2>9. Device!Invoke(t, q)
      BY <2>5, <2>6, <2>7, <2>8, Zenon DEF Device!Invoke
    <2> QED BY <2>3, <2>9, Zenon DEF Device!DiskNext
  <1> QED BY <1>6, <1>7, Zenon

\* ide_read and ide_write return to their callers.
LEMMA ReleaseSeen ==
  ASSUME IdeInv, IdeInv', faults.spurious = 0, NEW t \in Caller, lock_release(t)
  PROVE  Device!Return(t)
  <1>1. req[t] # None /\ Op(t) \in {"read", "write"} /\ Phase(t) = 7
    BY Phases, ZenonT(30) DEF IdeInv, lock_release, At
  <1>2. Done(t)
    BY <1>1 DEF IdeInv, Counted, Awaits, Done
  <1>3. Phase(t)' = 0 /\ \A u \in Caller \ {t} : req'[u] = req[u] /\ Phase(u)' = Phase(u)
    BY Finishing, Zenon DEF IdeInv, lock_release
  <1>4. req'[t] = None
    BY Zenon DEF Finish, IdeInv, IdeType, lock_release
  <1>5. ASSUME NEW u \in Caller \ {t}
        PROVE  /\ Requested(u)' = Requested(u) /\ ~Done(u) /\ ~Done(u)'
    <2>1. Phase(u) \in {0, 1} /\ Phase(u)' \in {0, 1}
      BY <1>1, <1>3, Alone, SMTT(30) DEF IdeInv
    <2>2. ~Done(u) /\ ~Done(u)'
      BY <2>1 DEF Done
    <2> QED BY <1>3, <2>2, ZenonT(30) DEF Requested, Outcome
  <1>6. ~Done(t)' /\ Requested(t)' = None
    BY <1>4, Zenon DEF Done, Requested, Outcome
  <1>7. Mapped /\ Mapped'
    BY Mapping, NextMapped, Zenon
  <1>8. t \in Served /\ Served' = Served \ {t}
    BY <1>2, <1>5, <1>6, <1>7, Zenon DEF Mapped
  <1>9. Results' = [Results EXCEPT ![t] = None]
    BY <1>5, <1>6, <1>7, Zenon DEF Mapped, Answer
  <1>10. Requests' = [Requests EXCEPT ![t] = None]
    BY <1>5, <1>6, Zenon DEF Requests
  <1>11. Sectors' = Sectors
    BY Zenon DEF Sectors, lock_release, disk
  <1> QED BY <1>8, <1>9, <1>10, <1>11, Zenon DEF Device!Return

\* The interrupt handler and a failed command are not seen.
LEMMA HandlerUnseen ==
  ASSUME IdeInv, IdeInv', interrupt_handler
  PROVE  UNCHANGED Device!dvars
  <1>1. \A u \in Caller : Phase(u)' = Phase(u) /\ Op(u)' = Op(u)
    BY SamePhases, Zenon DEF interrupt_handler, requests
  <1>2. UNCHANGED <<req, buffers, status, data, contents>>
    BY Zenon DEF interrupt_handler, requests
  <1>3. \A u \in Caller : Requested(u)' = Requested(u) /\ (Done(u)' <=> Done(u))
    BY <1>1, <1>2, Zenon DEF Requested, Outcome, Done
  <1>4. \A u \in Caller : Answer(u)' = Answer(u)
    BY <1>1, <1>2, <1>3, Zenon DEF Answer
  <1> QED BY <1>2, <1>3, <1>4, Unseen, Zenon

\* They do not see a failure of the disk by itself: the driver panics when it polls.
LEMMA FailureUnseen ==
  ASSUME IdeInv, IdeInv', faults.spurious = 0, disk_fails
  PROVE  UNCHANGED Device!dvars
  <1>1. \A u \in Caller : Phase(u)' = Phase(u) /\ Op(u)' = Op(u)
    BY SamePhases, Zenon DEF disk_fails, requests
  <1>2. PICK t \in Caller : /\ Phase(t) \in 3..7 /\ Fits(t)
                            /\ Op(t) \in {"identify", "read", "write"}
                            /\ req[t] \in Request
                            /\ \A u \in Caller \ {t} : Phase(u) \in {0, 1}
    BY WorksFor, Zenon DEF disk_fails, Sound
  <1>3. Phase(t) \in {4, 5} /\ (Op(t) = "write" => Phase(t) = 4)
    <2>1. status \in {"reading", "identifying", "writing"}
      BY Zenon DEF disk_fails
    <2>2. Phase(t) \in {3, 4, 5, 6, 7}
      BY <1>2, SMTT(30)
    <2> QED BY <1>2, <2>1, <2>2, Zenon DEF Fits
  <1>4. ~Done(t) /\ ~Done(t)'
    BY <1>1, <1>3 DEF Done, disk_fails
  <1>5. req' = req /\ contents' = contents
    BY Zenon DEF disk_fails, requests
  <1> QED BY <1>1, <1>2, <1>4, <1>5, StepUnseen, Zenon DEF Requested, Outcome, Answer

\* A request is served when the disk has read or stored its sector.
LEMMA ReadySeen ==
  ASSUME IdeInv, IdeInv', faults.spurious = 0, disk_ready
  PROVE  Device!DiskNext \/ UNCHANGED Device!dvars
  <1>1. \A u \in Caller : Phase(u)' = Phase(u) /\ Op(u)' = Op(u)
    BY SamePhases, Zenon DEF disk_ready, requests
  <1>2. PICK t \in Caller : /\ Phase(t) \in 3..7 /\ Fits(t)
                            /\ Op(t) \in {"identify", "read", "write"}
                            /\ req[t] \in Request
                            /\ \A u \in Caller \ {t} : Phase(u) \in {0, 1}
    BY WorksFor, Zenon DEF disk_ready, Sound
  <1>3. /\ Phase(t) \in {4, 5} /\ (Op(t) = "write" => Phase(t) = 4)
        /\ status = "reading" <=> Op(t) = "read"
    <2>1. status \in {"reading", "identifying", "writing"}
      BY Zenon DEF disk_ready
    <2>2. Phase(t) \in {3, 4, 5, 6, 7}
      BY <1>2
    <2>3. CASE Op(t) = "read"
      BY <1>2, <2>1, <2>2, <2>3, Zenon DEF Fits
    <2>4. CASE Op(t) = "write"
      BY <1>2, <2>1, <2>2, <2>4, Zenon DEF Fits
    <2>5. CASE Op(t) = "identify"
      BY <1>2, <2>1, <2>2, <2>5, Zenon DEF Fits
    <2> QED BY <1>2, <2>3, <2>4, <2>5, Zenon
  <1>4. req' = req /\ contents' = contents /\ req[t] # None
    BY <1>2, IdeAssumption, ZenonT(30) DEF disk_ready, requests
  <1>5. ~Done(t)
    BY <1>3 DEF Done, disk_ready
  <1>6. CASE Op(t) # "read"
    <2>1. ~Done(t)'
      BY <1>1, <1>3, <1>6 DEF Done
    <2> QED BY <1>1, <1>2, <1>4, <1>5, <2>1, StepUnseen, ZenonT(30) DEF Requested, Outcome, Answer
  <1>7. CASE Op(t) = "read"
    <2>1. /\ regs = req[t].addr /\ regs \in Addr
          /\ status' = "has_data" /\ data' = contents[regs]
      BY <1>2, <1>3, <1>7, RequestKinds, Zenon DEF Fits, disk_ready, Op
    <2>2. PICK d \in Disk, s \in Sector : regs = <<d, s>> /\ regs[1] = d /\ regs[2] = s
      BY <2>1, AddrPair, ZenonT(30)
    <2>3. /\ Requests[t].op = "read" /\ Requests[t].disk = d /\ Requests[t].sector = s
          /\ Requests[t] \in Device!Request
      <3>1. req[t].addr[1] = d /\ req[t].addr[2] = s
        BY <2>1, <2>2, Zenon
      <3>2. Requested(t) = [op |-> "read", disk |-> d, sector |-> s]
        BY <1>4, <1>7, <3>1, Zenon DEF Requested, Outcome, Op
      <3>3. Requests[t] = [op |-> "read", disk |-> d, sector |-> s]
        BY <3>2, Zenon DEF Requests
      <3> QED BY <3>3 DEF Device!Request
    <2>4. Requests[t] # None
      BY <2>3, DeviceAssumption, Zenon
    <2>5. Done(t)' /\ Answer(t)' = Sectors[d][s]
      <3>1. Phase(t)' \in {4, 5} /\ Op(t)' = "read" /\ req'[t] # None
        BY <1>1, <1>3, <1>4, <1>7, Zenon
      <3>2. Done(t)'
        BY <2>1, <3>1, NextDoing, Zenon DEF DoneWhen
      <3>3. 4 # 7 /\ 5 # 7
        OBVIOUS
      <3>4. Answer(t)' = data'
        BY <3>1, <3>2, <3>3, Zenon DEF Answer
      <3>5. Sectors[d][s] = contents[<<d, s>>]
        BY ZenonT(30) DEF Sectors
      <3> QED BY <2>1, <2>2, <3>2, <3>4, <3>5, Zenon
    <2>6. ASSUME NEW u \in Caller \ {t}
          PROVE  ~Done(u) /\ ~Done(u)' /\ Requested(u)' = Requested(u)
      BY <1>1, <1>2, <1>4 DEF Done, Requested, Outcome
    <2>7. Mapped /\ Mapped'
      BY Mapping, NextMapped, Zenon
    <2>8. t \notin Served /\ Served' = Served \cup {t}
      BY <1>5, <2>5, <2>6, <2>7, Zenon DEF Mapped
    <2>9. Results' = [Results EXCEPT ![t] = Sectors[d][s]]
      <3>1. \A u \in Caller \ {t} : Answer(u)' = Answer(u)
        BY <2>6, Zenon DEF Answer
      <3> QED BY <2>5, <2>7, <3>1, Zenon DEF Mapped
    <2>10. Requests' = Requests
      BY <1>4, Zenon DEF Requests, Requested, Outcome
    <2>11. Sectors' = Sectors
      BY <1>4, Zenon DEF Sectors
    <2>12. Device!Serve(t)
      BY <2>3, <2>4, <2>8, <2>9, <2>10, <2>11, Zenon DEF Device!Serve
    <2> QED BY <2>12, Zenon DEF Device!DiskNext
  <1> QED BY <1>6, <1>7, Zenon

\* A write is served when the disk has stored its sector.
LEMMA StoredSeen ==
  ASSUME IdeInv, IdeInv', faults.spurious = 0, disk_stored
  PROVE  Device!DiskNext
  <1>1. \A u \in Caller : Phase(u)' = Phase(u) /\ Op(u)' = Op(u)
    BY SamePhases, Zenon DEF disk_stored, requests
  <1>2. Counted /\ Protocol /\ status = "storing" /\ status' = "ready"
    BY Zenon DEF IdeInv, Sound, disk_stored
  <1>3. PICK t \in Caller : ~(Phase(t) < 3)
    BY <1>2, Zenon DEF Counted
  <1>4. req[t] # None /\ req[t] \in Request
    BY <1>3, Digits, Zenon DEF Phase, IdeInv, IdeType
  <1>5. Phase(t) \in 3..7 /\ Op(t) \in {"identify", "read", "write"}
    BY <1>3, <1>4, Phases, Digits, ZenonT(30) DEF IdeInv
  <1>6. Fits(t) /\ Op(t) = "write" /\ Phase(t) \in {6, 7}
    BY <1>2, <1>5 DEF Protocol, Fits
  <1>7. \A u \in Caller \ {t} : Phase(u) \in {0, 1}
    BY <1>5, Alone DEF IdeInv
  <1>8. /\ regs = req[t].addr /\ regs \in Addr /\ data = req[t].data
        /\ data \in Data
    BY <1>2, <1>4, <1>6, RequestKinds, Zenon DEF Fits, Op
  <1>9. PICK d \in Disk, s \in Sector : regs = <<d, s>> /\ regs[1] = d /\ regs[2] = s
    BY <1>8, AddrPair, ZenonT(30)
  <1>10. /\ Requests[t].op = "write" /\ Requests[t].disk = d /\ Requests[t].sector = s
         /\ Requests[t].data = data /\ Requests[t] \in Device!Request
    <2>1. req[t].addr[1] = d /\ req[t].addr[2] = s
      BY <1>8, <1>9, Zenon
    <2>2. Requested(t) = [op |-> "write", disk |-> d, sector |-> s, data |-> data]
      BY <1>4, <1>6, <1>8, <2>1, Zenon DEF Requested, Outcome, Op
    <2>3. Requests[t] = [op |-> "write", disk |-> d, sector |-> s, data |-> data]
      BY <2>2, Zenon DEF Requests
    <2> QED BY <1>8, <2>3 DEF Device!Request
  <1>11. Requests[t] # None
    BY <1>10, DeviceAssumption, Zenon
  <1>12. ~Done(t) /\ Done(t)'
    BY <1>1, <1>2, <1>4, <1>6, Zenon DEF Done, disk_stored, requests
  <1>13. req' = req
    BY ZenonT(30) DEF disk_stored, requests
  <1>14. ASSUME NEW u \in Caller \ {t}
         PROVE  ~Done(u) /\ ~Done(u)'
    BY <1>1, <1>7 DEF Done
  <1>15. Mapped /\ Mapped'
    BY Mapping, NextMapped, Zenon
  <1>16. t \notin Served /\ Served' = Served \cup {t}
    BY <1>12, <1>14, <1>15, Zenon DEF Mapped
  <1>17. Results' = Results
    <2>1. \A u \in Caller : Answer(u) = None /\ Answer(u)' = None
      BY <1>1, <1>6, <1>14, Zenon DEF Answer
    <2> QED BY <1>15, <2>1, Zenon DEF Mapped
  <1>18. Requests' = Requests
    BY <1>13, Zenon DEF Requests, Requested, Outcome
  <1>19. Sectors' = [Sectors EXCEPT ![d][s] = data]
    <2>1. contents \in [Addr -> Data] /\ contents' = [contents EXCEPT ![<<d, s>>] = data]
      BY <1>2, <1>9, Zenon DEF Protocol, Kept, disk_stored
    <2>2. \A e \in Disk, r \in Sector :
            contents'[<<e, r>>] = IF e = d /\ r = s THEN data ELSE contents[<<e, r>>]
      BY <2>1, Zenon DEF Addr
    <2>3. \A e \in Disk \ {d} : Sectors'[e] = Sectors[e]
      BY <2>2, Zenon DEF Sectors
    <2>4. Sectors'[d] = [Sectors[d] EXCEPT ![s] = data]
      BY <2>2, Zenon DEF Sectors
    <2>5. Sectors' = [e \in Disk |-> Sectors'[e]] /\ Sectors = [e \in Disk |-> Sectors[e]]
      BY Zenon DEF Sectors
    <2> QED BY <2>3, <2>4, <2>5, Zenon
  <1>20. Device!Serve(t)
    BY <1>10, <1>11, <1>16, <1>17, <1>18, <1>19, Zenon DEF Device!Serve
  <1> QED BY <1>20, Zenon DEF Device!DiskNext

\* Every step is one of the block device or is not seen.
LEMMA DeviceStep ==
  ASSUME IdeInv, IdeInv', [NextIde]_ideVars
  PROVE  [faults'.spurious = 0 => Device!DiskNext]_(Device!dvars)
  <1> SUFFICES ASSUME faults'.spurious = 0
               PROVE  Device!DiskNext \/ UNCHANGED Device!dvars
    BY Zenon
  <1>1. CASE UNCHANGED ideVars
    <2>1. \A u \in Caller : Phase(u)' = Phase(u) /\ Op(u)' = Op(u)
      BY <1>1, SamePhases, Zenon DEF ideVars, requests
    <2>2. UNCHANGED <<req, buffers, status, data, contents>>
      BY <1>1, Zenon DEF ideVars, requests, disk
    <2>3. \A u \in Caller : Requested(u)' = Requested(u) /\ (Done(u)' <=> Done(u))
      BY <2>1, <2>2, Zenon DEF Requested, Outcome, Done
    <2>4. \A u \in Caller : Answer(u)' = Answer(u)
      BY <2>1, <2>2, <2>3, Zenon DEF Answer
    <2> QED BY <2>2, <2>3, <2>4, Unseen, Zenon
  <1>2. CASE spurious_interrupt
    <2>1. PICK n \in Nat : n = faults.spurious
      BY Zenon DEF IdeInv, IdeType
    <2>2. faults' = [faults EXCEPT !.spurious = n + 1]
      BY <1>2, <2>1, Zenon DEF spurious_interrupt
    <2>3. faults'.spurious = n + 1
      BY <2>2, Zenon DEF IdeInv, IdeType
    <2> QED BY <2>1, <2>3
  <1>3. ASSUME NEW t \in Caller, ChannelStep(t)
        PROVE  Device!DiskNext \/ UNCHANGED Device!dvars
    <2>1. faults.spurious = 0
      BY <1>3, Zenon DEF ChannelStep, lock_acquire, select_sector, issue_pio_command, wait_completion,
                  wait_while_busy, input_sector, output_sector, lock_release, block_register
    <2>2. CASE lock_release(t)
      BY <2>1, <2>2, ReleaseSeen, Zenon DEF Device!DiskNext
    <2> QED BY <1>3, <2>1, <2>2, AcquireUnseen, SelectUnseen, WaitUnseen, PollUnseen,
               TransferUnseen, RegisterUnseen, Zenon DEF ChannelStep
  <1>4. CASE Handler
    BY <1>4, HandlerUnseen, Zenon DEF Handler
  <1>5. CASE DiskStep \/ disk_fails
    <2>1. faults.spurious = 0
      BY <1>5, Zenon DEF DiskStep, disk_ready, disk_stored, disk_fails
    <2> QED BY <1>5, <2>1, ReadySeen, StoredSeen, FailureUnseen, Zenon DEF DiskStep
  <1>6. CASE NewRequest
    <2>1. ASSUME NEW d \in Disk, identify(d)
          PROVE  Device!DiskNext \/ UNCHANGED Device!dvars
      <3>1. [op |-> "identify", addr |-> <<d, None>>] \in Request
        BY Zenon DEF Request
      <3> QED BY <2>1, <3>1, BeginSeen, IdeAssumption, Zenon DEF identify
    <2>2. ASSUME NEW t \in Caller, NEW d \in Disk, NEW s \in Sector, block_read(t, d, s)
          PROVE  Device!DiskNext \/ UNCHANGED Device!dvars
      <3>1. [op |-> "read", addr |-> <<d, s>>] \in Request
        BY Zenon DEF Request, Addr
      <3> QED BY <2>2, <3>1, BeginSeen, Zenon DEF block_read
    <2>3. ASSUME NEW t \in Caller, NEW d \in Disk, NEW s \in Sector, NEW x \in Data,
                 block_write(t, d, s, x)
          PROVE  Device!DiskNext \/ UNCHANGED Device!dvars
      <3>1. [op |-> "write", addr |-> <<d, s>>, data |-> x] \in Request
        BY Zenon DEF Request, Addr
      <3> QED BY <2>3, <3>1, BeginSeen, Zenon DEF block_write
    <2> QED BY <1>6, <2>1, <2>2, <2>3, Zenon DEF NewRequest
  <1> QED BY <1>1, <1>2, <1>3, <1>4, <1>5, <1>6, Zenon DEF NextIde

\* Requests of any number of threads to any number of sectors of the two disks of
\* a channel, though each takes a lock, a command, an interrupt and a poll, behave
\* as if they happened at once, failed commands and polls that give up included,
\* until the first interrupt that no command caused.
THEOREM DeviceImplemented == IdeSpec => ImplementsDevice
  <1>1. InitIde => Device!DiskInit
    <2> SUFFICES ASSUME InitIde PROVE Device!DiskInit
      BY Zenon
    <2>1. \A t \in Caller : req[t] = None
      BY Zenon DEF InitIde
    <2>2. Requests = [t \in Caller |-> None] /\ Served = {}
      BY <2>1, Zenon DEF Requests, Requested, Served, HasServed, Outcome
    <2>3. Results = [t \in Caller |-> None]
      BY <2>1, Zenon DEF Results, HasServed, Outcome
    <2>4. Sectors \in [Disk -> [Sector -> Data]]
      BY Zenon DEF InitIde, Sectors, Addr
    <2> QED BY <2>2, <2>3, <2>4, Zenon DEF Device!DiskInit
  <1>2. IdeInv /\ IdeInv' /\ [NextIde]_ideVars =>
          [faults'.spurious = 0 => Device!DiskNext]_(Device!dvars)
    BY DeviceStep, Zenon
  <1> QED BY <1>1, <1>2, InitIdeInv, NextIdeInv, PTL DEF IdeSpec, ImplementsDevice

=============================================================================
