-------------------------------- MODULE Ide --------------------------------
(***************************************************************************)
(* One ATA channel of devices/ide.c with its two disks, under the block    *)
(* layer of devices/block.c.                                               *)
(*                                                                         *)
(* The code runs with interrupts on, so other threads, the handler and the *)
(* disk may act between any two of its steps.  A request is a program of   *)
(* such steps; pos is how far its thread has come.  The channel's lock is  *)
(* that of Synch.                                                          *)
(*                                                                         *)
(* The disk is an external component.  A command makes it busy.  For a     *)
(* read it then offers data and interrupts; for a write it asks for data   *)
(* and interrupts when they are stored.  It fails a command by clearing    *)
(* BSY without setting DRQ.  Both disks of the channel share its registers,*)
(* and one works at a time.                                                *)
(***************************************************************************)
EXTENDS Integers, Sequences

CONSTANTS
  Caller,
  Main,         \* the thread that runs ide_init
  Disk,         \* d->dev_no of the disks on the channel
  Sector,
  Data,
  None,
  Faults        \* the ways in which the disks may misbehave

Addr == Disk \X Sector
Request ==
  [op : {"identify"}, addr : Disk \X {None}]
    \cup [op : {"read"}, addr : Addr]
    \cup [op : {"write"}, addr : Addr, data : Data]

ASSUME IdeAssumption ==
  /\ Main \in Caller
  /\ Disk \subseteq {0, 1}
  /\ None \notin Caller \cup Data \cup Request
  /\ Faults \subseteq [faulty : BOOLEAN, slow : BOOLEAN, max : Nat, spurious : {0}]

VARIABLES
  lock_holder,          \* channel.lock
  expecting_interrupt,  \* channel.expecting_interrupt
  completion_wait,      \* channel.completion_wait: its value
  is_ata,               \* ata_disk.is_ata
  registered,           \* the disks known to the block layer
  req,                  \* each thread's request, or None
  pos,                  \* the next step of each thread's request
  buffers,              \* the callers' buffers
  panicked,
  regs,                 \* the sector that the channel's registers select
  status,               \* the disk: what the status register shows
  data,                 \* the disk: its sector buffer
  irq,                  \* the disk: is its interrupt line asserted?
  contents,             \* the disk: its sectors
  faults,               \* may the disks fail commands, may a poll's time run out
                        \* while one is at work, how many interrupts may come that
                        \* no command caused (max), and have come so far (spurious)
  last                  \* history: the data last sent to each sector

code == <<lock_holder, expecting_interrupt, completion_wait, is_ata, registered,
          panicked>>
disk == <<status, data, irq, contents>>
requests == <<req, pos, buffers>>
ideVars == <<code, requests, disk, regs, faults, last>>

\* The status register: BSY while the disk works, DRQ while it wants or has data.
Status == {"ready", "reading", "has_data", "writing", "wants_data", "storing",
          "identifying", "confused"}
BSY == status \in {"reading", "writing", "storing", "identifying"}
DRQ == status \in {"has_data", "wants_data"}

-----------------------------------------------------------------------------
(***************************************************************************)
(* The steps of each function, in order.                                   *)
(***************************************************************************)
ide_read_NoPoll == <<"acquire", "select", "issue", "wait", "input", "release">>

ide_read ==
  <<"acquire", "select", "issue", "wait", "poll", "input", "release">>

ide_write ==
  <<"acquire", "select", "issue", "poll", "output", "wait", "release">>

identify_ata_device == <<"select", "issue", "wait", "poll", "input", "register">>

Program(op) == CASE op = "read" -> ide_read
                 [] op = "write" -> ide_write
                 [] op = "identify" -> identify_ata_device

At(t, step) == req[t] # None /\ Program(req[t].op)[pos[t]] = step

Advance(t) == pos' = [pos EXCEPT ![t] = @ + 1]

Finish(t) ==
  /\ req' = [req EXCEPT ![t] = None]
  /\ pos' = [pos EXCEPT ![t] = 1]
  /\ buffers' = [buffers EXCEPT ![t] = None]

Begin(t, r) ==
  /\ req[t] = None
  /\ req' = [req EXCEPT ![t] = r]
  /\ UNCHANGED <<code, pos, buffers, disk, regs, faults, last>>

-----------------------------------------------------------------------------
(***************************************************************************)
(* Calls.  ide_init runs in one thread, before the others use the disks;   *)
(* check_device_type has already found out which disks there are.          *)
(***************************************************************************)
ToIdentify == {d \in Disk : is_ata[d]} \ registered

identify(d) ==
  /\ d \in ToIdentify /\ \A e \in ToIdentify : d <= e
  /\ Begin(Main, [op |-> "identify", addr |-> <<d, None>>])

MayCall(t, d) == d \in registered /\ (t = Main \/ ToIdentify = {})

block_read(t, d, s) == MayCall(t, d) /\ Begin(t, [op |-> "read", addr |-> <<d, s>>])

block_write(t, d, s, x) ==
  /\ MayCall(t, d)
  /\ Begin(t, [op |-> "write", addr |-> <<d, s>>, data |-> x])

-----------------------------------------------------------------------------
(***************************************************************************)
(* Steps of a request.                                                     *)
(***************************************************************************)
lock_acquire_Unlocked(t) ==
  /\ At(t, "acquire")
  /\ lock_holder' = t /\ Advance(t)
  /\ UNCHANGED <<expecting_interrupt, completion_wait, is_ata, registered, panicked,
                 req, buffers, disk, regs, faults, last>>

lock_acquire(t) ==
  /\ At(t, "acquire")
  /\ lock_holder = None
  /\ lock_holder' = t /\ Advance(t)
  /\ UNCHANGED <<expecting_interrupt, completion_wait, is_ata, registered, panicked,
                 req, buffers, disk, regs, faults, last>>

lock_release(t) ==
  /\ At(t, "release")
  /\ lock_holder' = None /\ Finish(t)
  /\ UNCHANGED <<expecting_interrupt, completion_wait, is_ata, registered, panicked,
                 disk, regs, faults, last>>

wait_until_idle == ((~BSY /\ ~DRQ) \/ faults.slow) /\ irq' = FALSE

select_sector(t) ==
  /\ At(t, "select")
  /\ wait_until_idle
  /\ regs' = req[t].addr
  /\ Advance(t)
  /\ UNCHANGED <<code, req, buffers, status, data, contents, faults, last>>

Command(op) == CASE op = "read" -> "reading"
                 [] op = "write" -> "writing"
                 [] op = "identify" -> "identifying"

issue_pio_command_Unexpected(t) ==
  /\ At(t, "issue")
  /\ status' = IF status = "ready" THEN Command(req[t].op) ELSE "confused"
  /\ Advance(t)
  /\ UNCHANGED <<code, req, buffers, data, irq, contents, regs, faults, last>>

issue_pio_command(t) ==
  /\ At(t, "issue")
  /\ expecting_interrupt' = TRUE
  /\ status' = IF status = "ready" THEN Command(req[t].op) ELSE "confused"
  /\ Advance(t)
  /\ UNCHANGED <<lock_holder, completion_wait, is_ata, registered, panicked, req,
                 buffers, data, irq, contents, regs, faults, last>>

\* sema_down of completion_wait.
wait_completion(t) ==
  /\ At(t, "wait")
  /\ completion_wait > 0
  /\ completion_wait' = completion_wait - 1
  /\ Advance(t)
  /\ UNCHANGED <<lock_holder, expecting_interrupt, is_ata, registered, panicked, req,
                 buffers, disk, regs, faults, last>>

\* The alternate status register leaves the interrupt pending.  Without data, or
\* when the time runs out, a read or a write panics, and a disk that is being
\* identified is ignored.
wait_while_busy(t) ==
  /\ At(t, "poll")
  /\ ~BSY \/ faults.slow
  /\ \/ /\ DRQ
        /\ Advance(t)
        /\ UNCHANGED <<is_ata, panicked, req, buffers>>
     \/ /\ ~DRQ /\ req[t].op = "identify"
        /\ is_ata' = [is_ata EXCEPT ![req[t].addr[1]] = FALSE]
        /\ Finish(t)
        /\ UNCHANGED panicked
     \/ /\ ~DRQ /\ req[t].op # "identify"
        /\ panicked' = TRUE
        /\ UNCHANGED <<is_ata, requests>>
  /\ UNCHANGED <<lock_holder, expecting_interrupt, completion_wait, registered, disk,
                 regs, faults, last>>

\* Data read when the disk offers none are undefined.
input_sector(t) ==
  /\ At(t, "input")
  /\ IF status = "has_data"
     THEN status' = "ready" /\ buffers' = [buffers EXCEPT ![t] = data]
     ELSE status' = "confused" /\ buffers' = [buffers EXCEPT ![t] = None]
  /\ Advance(t)
  /\ UNCHANGED <<code, req, data, irq, contents, regs, faults, last>>

output_sector(t) ==
  /\ At(t, "output")
  /\ status' = IF status = "wants_data" THEN "storing" ELSE "confused"
  /\ data' = req[t].data
  /\ last' = [last EXCEPT ![req[t].addr] = req[t].data]
  /\ Advance(t)
  /\ UNCHANGED <<code, req, buffers, irq, contents, regs, faults>>

\* The end of identify_ata_device: disks over 1 GB are ignored.
block_register(t) ==
  /\ At(t, "register")
  /\ LET d == req[t].addr[1] IN
       \/ registered' = registered \cup {d} /\ UNCHANGED is_ata
       \/ is_ata' = [is_ata EXCEPT ![d] = FALSE] /\ UNCHANGED registered
  /\ Finish(t)
  /\ UNCHANGED <<lock_holder, expecting_interrupt, completion_wait, panicked, disk,
                 regs, faults, last>>

interrupt_handler ==
  /\ irq
  /\ irq' = FALSE
  /\ completion_wait' = completion_wait + IF expecting_interrupt THEN 1 ELSE 0
  /\ UNCHANGED <<lock_holder, expecting_interrupt, is_ata, registered, panicked,
                 requests, status, data, contents, regs, faults, last>>

-----------------------------------------------------------------------------
(***************************************************************************)
(* The disks.                                                              *)
(***************************************************************************)
disk_ready ==
  /\ \/ /\ status \in {"reading", "identifying"}
        /\ status' = "has_data" /\ irq' = TRUE
        /\ data' = IF status = "reading" THEN contents[regs] ELSE None
     \/ /\ status = "writing"
        /\ status' = "wants_data"
        /\ UNCHANGED <<irq, data>>
  /\ UNCHANGED <<code, requests, contents, regs, faults, last>>

disk_stored ==
  /\ status = "storing"
  /\ contents' = [contents EXCEPT ![regs] = data]
  /\ status' = "ready" /\ irq' = TRUE
  /\ UNCHANGED <<code, requests, data, regs, faults, last>>

disk_fails ==
  /\ faults.faulty
  /\ status \in {"reading", "writing", "identifying"}
  /\ status' = "ready" /\ irq' = TRUE
  /\ UNCHANGED <<code, requests, data, contents, regs, faults, last>>

spurious_interrupt ==
  /\ faults.spurious < faults.max
  /\ ~irq /\ irq' = TRUE
  /\ faults' = [faults EXCEPT !.spurious = @ + 1]
  /\ UNCHANGED <<code, requests, status, data, contents, regs, last>>

-----------------------------------------------------------------------------
InitIde ==
  /\ lock_holder = None /\ expecting_interrupt = FALSE /\ completion_wait = 0
  /\ is_ata \in [Disk -> BOOLEAN] /\ registered = {}
  /\ req = [t \in Caller |-> None] /\ pos = [t \in Caller |-> 1]
  /\ buffers = [t \in Caller |-> None]
  /\ panicked = FALSE
  /\ regs = None /\ status = "ready" /\ data = None /\ irq = FALSE
  /\ contents \in [Addr -> Data]
  /\ faults \in Faults
  /\ last = contents

ChannelStep(t) ==
  /\ ~panicked
  /\ \/ lock_acquire(t) \/ select_sector(t) \/ issue_pio_command(t)
     \/ wait_completion(t) \/ wait_while_busy(t)
     \/ input_sector(t) \/ output_sector(t)
     \/ lock_release(t) \/ block_register(t)

NewRequest ==
  /\ ~panicked
  /\ \/ \E d \in Disk : identify(d)
     \/ \E t \in Caller, d \in Disk, s \in Sector :
          block_read(t, d, s) \/ \E x \in Data : block_write(t, d, s, x)

Handler == ~panicked /\ interrupt_handler

DiskStep == disk_ready \/ disk_stored

NextIde ==
  \/ \E t \in Caller : ChannelStep(t)
  \/ NewRequest
  \/ Handler
  \/ DiskStep \/ disk_fails \/ spurious_interrupt

\* Threads that can run do, the disk finishes what it does, and a pending
\* interrupt is delivered.
IdeFairness ==
  /\ \A t \in Caller : WF_ideVars(ChannelStep(t))
  /\ WF_ideVars(Handler)
  /\ WF_ideVars(DiskStep)

IdeSpec == InitIde /\ [][NextIde]_ideVars /\ IdeFairness

-----------------------------------------------------------------------------
(***************************************************************************)
(* Properties.                                                             *)
(***************************************************************************)
\* The code never issues a command to a disk that is at work, and moves data only
\* when the disk has or wants them, though nothing tests that at those lines; so a
\* read returns the data last sent to its sector, by whichever thread, spurious
\* interrupts and failed commands or not.  Only a poll that gives up breaks this.
ReadsCurrent ==
  ~faults.slow =>
    /\ status # "confused"
    /\ \A t \in Caller :
         At(t, "release") /\ req[t].op = "read" => buffers[t] = last[req[t].addr]

Working(t) == req[t] # None /\ ~At(t, "acquire")

\* A request that has the channel, or that identifies a disk at boot, finishes:
\* the interrupt it waits for is neither lost nor taken by another.
RequestFinishes ==
  \A t \in Caller : Working(t) /\ ~faults.slow ~> (~Working(t) \/ panicked)

\* The requests of the block layer's callers.
Outcome(t) == req[t] # None /\ req[t].op # "identify"

Requested(t) ==
  IF ~Outcome(t) THEN None
  ELSE IF req[t].op = "read"
  THEN [op |-> "read", disk |-> req[t].addr[1], sector |-> req[t].addr[2]]
  ELSE [op |-> "write", disk |-> req[t].addr[1], sector |-> req[t].addr[2],
        data |-> req[t].data]

HasServed(t) ==
  /\ Outcome(t)
  /\ \/ /\ req[t].op = "read"
        /\ At(t, "release") \/ (lock_holder = t /\ status = "has_data")
     \/ /\ req[t].op = "write"
        /\ At(t, "wait") \/ At(t, "release")
        /\ status = "ready"

Sectors == [d \in Disk |-> [s \in Sector |-> contents[<<d, s>>]]]
Requests == [t \in Caller |-> Requested(t)]
Served == {t \in Caller : HasServed(t)}
Results == [t \in Caller |-> IF HasServed(t) /\ req[t].op = "read"
                             THEN IF At(t, "release") THEN buffers[t] ELSE data
                             ELSE None]

Device == INSTANCE BlockDevice WITH
  Thread <- Caller, NULL <- None,
  contents <- Sectors, call <- Requests, served <- Served, result <- Results

ASSUME DeviceAssumption == None \notin Device!Request

\* Seen by its callers, a channel is a block device: each read and write takes
\* effect at once, between its call and its return, until an interrupt comes that
\* no command caused.
ImplementsDevice ==
  Device!DiskInit /\ [][faults'.spurious = 0 => Device!DiskNext]_(Device!dvars)

=============================================================================
