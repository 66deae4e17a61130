------------------------------ MODULE Process ------------------------------
(***************************************************************************)
(* User processes: the kernel's main thread runs them one after the other  *)
(* (run_task in threads/init.c), process_execute, start_process, load,     *)
(* process_wait and process_exit in userprog/process.c, the page           *)
(* directories of userprog/pagedir.c, the system call and exception        *)
(* handlers that end a process, and the part of a thread switch that       *)
(* activates an address space and frees the thread that died.              *)
(*                                                                         *)
(* One step is the code up to the next place where another thread could    *)
(* see a difference.  The timer can preempt the running thread between any *)
(* two steps.  A process is named by the page of its struct thread.  Page  *)
(* 0 is the null pointer and, as a page directory, init_page_dir.          *)
(***************************************************************************)
EXTENDS Integers, Sequences, FiniteSets, Functions

CONSTANTS
  Main,          \* the thread that runs main
  Idle,          \* the idle thread
  KernelPages,   \* numbers of kernel pool pages to try
  UserPages,     \* numbers of user pool pages to try
  Executable,    \* the programs `run' can name
  PdNo(_),       \* pd_no: the page table a user page belongs to
  StackPage,     \* the user page just below PHYS_BASE
  MaxTasks       \* bound: how many programs are run

\* A program header, once checked: a segment to load, which is not empty, one to
\* ignore, or one that makes load give up.
Segment == [type : {"load"}, pages : Seq(Nat) \ {<<>>}]
             \cup [type : {"ignore", "reject"}]

\* The user pages that load may map.
Loadable == {g \in UNION {Range(e.segments) : e \in Executable} : g.type = "load"}
UserPage == {StackPage} \cup UNION {Range(g.pages) : g \in Loadable}

ASSUME ProcessAssumption ==
  /\ Main # Idle /\ {Main, Idle} \cap Nat = {}
  /\ KernelPages \subseteq Nat /\ UserPages \subseteq Nat
  /\ Executable \subseteq
       [exists : BOOLEAN, header : BOOLEAN, segments : Seq(Segment)]
  /\ StackPage \in Nat
  /\ \A u \in UserPage : PdNo(u) \in Nat

Null == 0

VARIABLES
  pool,        \* free pages, of the kernel pool and of the user pool
  total,       \* their number at boot
  procs,       \* process threads, by the page of their struct thread
  spaces,      \* user mappings, by page of the page directory
  main,        \* the main thread
  current,     \* the running thread
  ready,       \* ready_list
  io,          \* processes waiting for the disk
  cr3,         \* the active page directory
  esp0,        \* the thread on whose stack the CPU enters the kernel
  temporary,   \* value of the semaphore temporary; -1 before sema_init
  panicked     \* an assertion failed

vars == <<pool, total, procs, spaces, main, current, ready, io, cr3, esp0,
          temporary, panicked>>
cpu == <<current, ready, io, cr3, esp0>>

Pagedir(t) == IF t \in DOMAIN procs THEN procs[t].pagedir ELSE Null

\* Where a scan of S in ascending order stops.
IsFirst(x, S) == x \in S /\ \A y \in S : x <= y

\* palloc takes the first free page.
HasPage(k) == \E p \in pool[k] : IsFirst(p, pool[k])
Page(k) == CHOOSE p \in pool[k] : IsFirst(p, pool[k])
Take(k) == pool' = [pool EXCEPT ![k] = @ \ {Page(k)}]
Free(k, p) == pool' = [pool EXCEPT ![k] = @ \cup {p}]

-----------------------------------------------------------------------------
(* Thread switches.                                                        *)

pagedir_activate(pd) == cr3' = pd
tss_update(t) == esp0' = t

\* thread_schedule_tail in the new thread: process_activate.
SwitchTo(t) ==
  /\ current' = t
  /\ tss_update(t)
  /\ pagedir_activate(Pagedir(t))

NextThread(queue) == IF queue = <<>> THEN Idle ELSE Head(queue)
Rest(queue) == IF queue = <<>> THEN <<>> ELSE Tail(queue)

\* The timer interrupt makes the running thread yield.
Preempt ==
  /\ current # Idle /\ ready # <<>> /\ ~panicked
  /\ ready' = Append(Tail(ready), current)
  /\ SwitchTo(Head(ready))
  /\ UNCHANGED <<pool, total, procs, spaces, main, io, temporary, panicked>>

\* A process that reads from the disk waits for it; the disk interrupt makes
\* it ready again.
WaitForDisk ==
  /\ current \in DOMAIN procs /\ ~panicked
  /\ procs[current].pc \in {"open", "segment", "read"}
  /\ io' = io \cup {current}
  /\ ready' = Rest(ready)
  /\ SwitchTo(NextThread(ready))
  /\ UNCHANGED <<pool, total, procs, spaces, main, temporary, panicked>>

DiskDone ==
  /\ \E t \in io : io' = io \ {t} /\ ready' = Append(ready, t)
  /\ UNCHANGED <<pool, total, procs, spaces, main, current, cr3, esp0, temporary, panicked>>

\* The idle thread blocks as soon as another thread is ready.
LeaveIdle ==
  /\ current = Idle /\ ready # <<>>
  /\ ready' = Tail(ready)
  /\ SwitchTo(Head(ready))
  /\ UNCHANGED <<pool, total, procs, spaces, main, io, temporary, panicked>>

-----------------------------------------------------------------------------
(* The main thread: run_actions, run_task, process_execute, process_wait.  *)

InMain(label) == current = Main /\ main.pc = label /\ ~panicked

\* Mutant: the semaphore is not initialised.
process_execute_NoInit ==
  /\ InMain("next") /\ main.tasks < MaxTasks
  /\ IF HasPage("kernel")
       THEN /\ Take("kernel")
            /\ main' = [main EXCEPT !.pc = "create", !.fn = Page("kernel"),
                                    !.tasks = @ + 1]
       ELSE /\ main' = [main EXCEPT !.pc = "wait", !.started = FALSE, !.tasks = @ + 1]
            /\ UNCHANGED pool
  /\ UNCHANGED <<total, procs, spaces, cpu, temporary, panicked>>

\* process_execute: sema_init and the copy of the file name.
process_execute ==
  /\ InMain("next") /\ main.tasks < MaxTasks
  /\ temporary' = 0
  /\ IF HasPage("kernel")
       THEN /\ Take("kernel")
            /\ main' = [main EXCEPT !.pc = "create", !.fn = Page("kernel"),
                                    !.tasks = @ + 1]
       ELSE /\ main' = [main EXCEPT !.pc = "wait", !.started = FALSE, !.tasks = @ + 1]
            /\ UNCHANGED pool
  /\ UNCHANGED <<total, procs, spaces, cpu, panicked>>

NewProcess(fn, exe) ==
  [pc |-> "pagedir", pagedir |-> Null, fn |-> fn, exe |-> exe, seg |-> 1, pg |-> 1,
   kpage |-> Null, pd |-> Null, file |-> FALSE, ok |-> FALSE]

\* thread_create for start_process; without a page the copy is given back.
thread_create(exe) ==
  /\ InMain("create")
  /\ IF HasPage("kernel")
       THEN LET t == Page("kernel")
            IN  /\ Take("kernel")
                /\ procs' = [x \in DOMAIN procs \cup {t} |->
                               IF x = t THEN NewProcess(main.fn, exe) ELSE procs[x]]
                /\ ready' = Append(ready, t)
                /\ main' = [main EXCEPT !.pc = "wait", !.fn = Null, !.started = TRUE]
       ELSE /\ Free("kernel", main.fn)
            /\ main' = [main EXCEPT !.pc = "wait", !.fn = Null, !.started = FALSE]
            /\ UNCHANGED <<procs, ready>>
  /\ UNCHANGED <<total, spaces, current, io, cr3, esp0, temporary, panicked>>

\* process_wait: sema_down on `temporary', whatever the thread id.
process_wait ==
  /\ InMain("wait")
  /\ IF temporary > 0
       THEN /\ temporary' = temporary - 1
            /\ main' = [main EXCEPT !.pc = "next", !.started = FALSE]
            /\ UNCHANGED cpu
       ELSE /\ main' = [main EXCEPT !.pc = "blocked"]
            /\ ready' = Rest(ready)
            /\ SwitchTo(NextThread(ready))
            /\ UNCHANGED <<io, temporary>>
  /\ UNCHANGED <<pool, total, procs, spaces, panicked>>

\* sema_up on `temporary'.  Before any sema_init its list is not a list.
SemaUp(pc) ==
  /\ panicked' = (temporary = -1)
  /\ temporary' = temporary + 1
  /\ main' = [main EXCEPT !.pc = pc]
  /\ ready' = IF main.pc = "blocked" THEN Append(ready, Main) ELSE ready

\* After the last action main powers the machine off, or exits like any
\* other thread and so enters process_exit.
MainEnds ==
  /\ InMain("next")
  /\ \/ /\ main' = [main EXCEPT !.pc = "off"]
        /\ UNCHANGED <<temporary, ready, panicked>>
     \/ SemaUp("off")
  /\ UNCHANGED <<pool, total, procs, spaces, current, io, cr3, esp0>>

-----------------------------------------------------------------------------
(* A process in start_process and load.                                    *)

InProc(label) ==
  /\ current \in DOMAIN procs /\ ~panicked
  /\ procs[current].pc = label

Me == procs[current]
Goto(label) == procs' = [procs EXCEPT ![current].pc = label]

\* The pages of the program header that load is at, in order.
Segments == Me.exe.segments
AtStack == Me.seg > Len(Segments)
AtPage == IF AtStack THEN StackPage ELSE Segments[Me.seg].pages[Me.pg]

\* A page directory in page pd, without user mappings.
pagedir_create(pd) ==
  spaces' = [x \in DOMAIN spaces \cup {pd} |->
               IF x = pd THEN [pts |-> <<>>, map |-> <<>>] ELSE spaces[x]]

load_pagedir ==
  /\ InProc("pagedir")
  /\ IF HasPage("kernel")
       THEN LET pd == Page("kernel")
            IN  /\ Take("kernel")
                /\ procs' = [procs EXCEPT ![current].pagedir = pd,
                                          ![current].pc = "activate"]
                /\ pagedir_create(pd)
       ELSE Goto("close") /\ UNCHANGED <<pool, spaces>>
  /\ UNCHANGED <<total, main, cpu, temporary, panicked>>

load_activate ==
  /\ InProc("activate")
  /\ pagedir_activate(Me.pagedir)
  /\ tss_update(current)
  /\ Goto("open")
  /\ UNCHANGED <<pool, total, spaces, main, current, ready, io, temporary, panicked>>

\* Open the file and verify the executable header.
load_open ==
  /\ InProc("open")
  /\ procs' = [procs EXCEPT ![current].file = Me.exe.exists,
                            ![current].pc = IF Me.exe.header THEN "segment" ELSE "close"]
  /\ UNCHANGED <<pool, total, spaces, main, cpu, temporary, panicked>>

\* One turn of the loop over the program headers.
load_header ==
  /\ InProc("segment")
  /\ IF AtStack THEN Goto("page")
     ELSE CASE Segments[Me.seg].type = "load"   -> Goto("page")
            [] Segments[Me.seg].type = "ignore" ->
                 procs' = [procs EXCEPT ![current].seg = @ + 1]
            [] Segments[Me.seg].type = "reject" -> Goto("close")
  /\ UNCHANGED <<pool, total, spaces, main, cpu, temporary, panicked>>

\* load_segment and setup_stack: get a page for the next user page.
load_get_page ==
  /\ InProc("page")
  /\ IF HasPage("user")
       THEN /\ Take("user")
            /\ procs' = [procs EXCEPT ![current].kpage = Page("user"),
                                      ![current].pc = "read"]
       ELSE Goto("close") /\ UNCHANGED pool
  /\ UNCHANGED <<total, spaces, main, cpu, temporary, panicked>>

Drop ==
  /\ Free("user", Me.kpage)
  /\ procs' = [procs EXCEPT ![current].kpage = Null, ![current].pc = "close"]

\* Reading the file can come back short.  The stack is not read.
load_read ==
  /\ InProc("read")
  /\ \/ Goto("install") /\ UNCHANGED pool
     \/ ~AtStack /\ Drop
  /\ UNCHANGED <<total, spaces, main, cpu, temporary, panicked>>

\* Where load goes once the page it was at is mapped.
Installed ==
  LET last == ~AtStack /\ Me.pg = Len(Segments[Me.seg].pages)
  IN  [Me EXCEPT !.kpage = Null,
                 !.pc = IF AtStack THEN "close" ELSE IF last THEN "segment" ELSE "page",
                 !.ok = AtStack,
                 !.seg = IF last THEN @ + 1 ELSE @,
                 !.pg = IF last \/ AtStack THEN 1 ELSE @ + 1]

With(f, x, y) == [z \in DOMAIN f \cup {x} |-> IF z = x THEN y ELSE f[z]]

pagedir_get_page(s, u) == u \in DOMAIN s.map

\* lookup_page finds or creates the page table of u; it needs a page for it.
NewTable(s, u) == PdNo(u) \notin DOMAIN s.pts
lookup_page(s, u) == NewTable(s, u) => HasPage("kernel")

pagedir_set_page(u) ==
  LET new == NewTable(spaces[Me.pagedir], u)
  IN  /\ spaces' = [spaces EXCEPT
                      ![Me.pagedir].map = With(@, u, Me.kpage),
                      ![Me.pagedir].pts =
                        IF new THEN With(@, PdNo(u), Page("kernel")) ELSE @]
      /\ IF new THEN Take("kernel") ELSE UNCHANGED pool

\* Mutant: a page that cannot be installed is forgotten.
install_page_Leaks ==
  LET s == spaces[Me.pagedir]
      u == AtPage
  IN  /\ InProc("install")
      /\ IF pagedir_get_page(s, u) \/ ~lookup_page(s, u)
           THEN /\ procs' = [procs EXCEPT ![current].kpage = Null, ![current].pc = "close"]
                /\ UNCHANGED <<pool, spaces>>
           ELSE /\ procs' = [procs EXCEPT ![current] = Installed]
                /\ pagedir_set_page(u)
      /\ UNCHANGED <<total, main, cpu, temporary, panicked>>

\* install_page, and what load_segment and setup_stack do if it fails.
install_page ==
  LET s == spaces[Me.pagedir]
      u == AtPage
  IN  /\ InProc("install")
      /\ IF pagedir_get_page(s, u) \/ ~lookup_page(s, u)
           THEN Drop /\ UNCHANGED spaces
           ELSE /\ procs' = [procs EXCEPT ![current] = Installed]
                /\ pagedir_set_page(u)
      /\ UNCHANGED <<total, main, cpu, temporary, panicked>>

\* load closes the file and start_process frees the copy of the name.
load_done ==
  /\ InProc("close")
  /\ procs' = [procs EXCEPT ![current].file = FALSE, ![current].pc = "free_copy"]
  /\ UNCHANGED <<pool, total, spaces, main, cpu, temporary, panicked>>

start_process ==
  /\ InProc("free_copy")
  /\ Free("kernel", Me.fn)
  /\ procs' = [procs EXCEPT ![current].fn = Null,
                            ![current].pc = IF Me.ok THEN "user" ELSE "exit"]
  /\ UNCHANGED <<total, spaces, main, cpu, temporary, panicked>>

\* syscall_handler: exit ends the process, other calls do nothing.
syscall_handler ==
  /\ InProc("user")
  /\ Goto("exit")
  /\ UNCHANGED <<pool, total, spaces, main, cpu, temporary, panicked>>

\* page_fault turns interrupts on again and kills the process, as the other
\* exceptions of user code do.
page_fault ==
  /\ InProc("user")
  /\ Goto("kill")
  /\ UNCHANGED <<pool, total, spaces, main, cpu, temporary, panicked>>

kill ==
  /\ InProc("kill")
  /\ Goto("exit")
  /\ UNCHANGED <<pool, total, spaces, main, cpu, temporary, panicked>>

-----------------------------------------------------------------------------
(* thread_exit and process_exit.                                           *)

\* Mutant: the page directory is forgotten only once it is destroyed.
process_exit_Order ==
  /\ InProc("exit")
  /\ procs' = [procs EXCEPT ![current].pd = Me.pagedir,
                            ![current].pc = IF Me.pagedir = Null THEN "up" ELSE "base"]
  /\ UNCHANGED <<pool, total, spaces, main, cpu, temporary, panicked>>

process_exit ==
  /\ InProc("exit")
  /\ procs' = [procs EXCEPT ![current].pd = Me.pagedir, ![current].pagedir = Null,
                            ![current].pc = IF Me.pagedir = Null THEN "up" ELSE "base"]
  /\ UNCHANGED <<pool, total, spaces, main, cpu, temporary, panicked>>

exit_activate ==
  /\ InProc("base")
  /\ pagedir_activate(Null)
  /\ Goto("destroy")
  /\ UNCHANGED <<pool, total, spaces, main, current, ready, io, esp0, temporary, panicked>>

Without(f, x) == [z \in DOMAIN f \ {x} |-> f[z]]

\* pagedir_destroy, one page at a time: the user pages of a page table, then
\* the table, then the next; the page directory last.
pagedir_destroy ==
  LET s == spaces[Me.pd]
      Last == /\ DOMAIN s.pts = {}
              /\ Free("kernel", Me.pd)
              /\ spaces' = Without(spaces, Me.pd)
              /\ procs' = [procs EXCEPT ![current].pd = Null, ![current].pc = "up"]
      FreePage(u) == /\ Free("user", s.map[u])
                     /\ spaces' = [spaces EXCEPT ![Me.pd].map = Without(@, u)]
      FreeTable(n) == /\ Free("kernel", s.pts[n])
                      /\ spaces' = [spaces EXCEPT ![Me.pd].pts = Without(@, n)]
      Pages(n) == {u \in DOMAIN s.map : PdNo(u) = n}
      Table(n) == /\ IsFirst(n, DOMAIN s.pts)
                  /\ \/ \E u \in Pages(n) : IsFirst(u, Pages(n)) /\ FreePage(u)
                     \/ Pages(n) = {} /\ FreeTable(n)
                  /\ UNCHANGED procs
  IN  /\ InProc("destroy")
      /\ Last \/ \E n \in DOMAIN s.pts : Table(n)
      /\ UNCHANGED <<total, main, cpu, temporary, panicked>>

\* Mutant: process_exit tells its waiter only if a program was loaded.
exit_up_OnlyLoaded ==
  /\ InProc("up")
  /\ IF Me.ok THEN SemaUp(IF main.pc = "blocked" THEN "wait" ELSE main.pc)
     ELSE UNCHANGED <<main, ready, temporary, panicked>>
  /\ Goto("die")
  /\ UNCHANGED <<pool, total, spaces, current, io, cr3, esp0>>

exit_up ==
  /\ InProc("up")
  /\ SemaUp(IF main.pc = "blocked" THEN "wait" ELSE main.pc)
  /\ Goto("die")
  /\ UNCHANGED <<pool, total, spaces, current, io, cr3, esp0>>

\* The end of thread_exit: with interrupts off, the next thread runs
\* thread_schedule_tail, which frees the page of the one that died.
thread_exit ==
  /\ InProc("die")
  /\ procs' = Without(procs, current)
  /\ Free("kernel", current)
  /\ ready' = Rest(ready)
  /\ SwitchTo(NextThread(ready))
  /\ UNCHANGED <<total, spaces, main, io, temporary, panicked>>

-----------------------------------------------------------------------------
Init ==
  /\ \E k \in KernelPages, u \in UserPages :
       total = [kernel |-> k, user |-> u]
  /\ pool = [k \in {"kernel", "user"} |-> 1..total[k]]
  /\ procs = <<>> /\ spaces = <<>>
  /\ main = [pc |-> "next", fn |-> Null, tasks |-> 0, started |-> FALSE]
  /\ current = Main /\ ready = <<>> /\ io = {}
  /\ cr3 = Null /\ esp0 = Main
  /\ temporary = -1
  /\ panicked = FALSE

MainStep ==
  \/ process_execute
  \/ \E e \in Executable : thread_create(e)
  \/ process_wait
  \/ MainEnds

LoadStep ==
  \/ load_pagedir \/ load_activate \/ load_open \/ load_header
  \/ load_get_page \/ load_read \/ install_page \/ load_done \/ start_process

ExitStep ==
  kill \/ process_exit \/ exit_activate \/ pagedir_destroy \/ exit_up \/ thread_exit

Next ==
  \/ Preempt \/ LeaveIdle \/ WaitForDisk \/ DiskDone
  \/ MainStep \/ LoadStep \/ syscall_handler \/ page_fault \/ ExitStep

(***************************************************************************)
(* A thread that is scheduled again and again makes progress: it has a     *)
(* time slice each time.  The disk answers.  A program need not end.       *)
(***************************************************************************)
Fairness ==
  /\ SF_vars(MainStep) /\ SF_vars(LoadStep) /\ SF_vars(ExitStep)
  /\ WF_vars(LeaveIdle) /\ WF_vars(DiskDone)

Spec == Init /\ [][Next]_vars /\ Fairness

-----------------------------------------------------------------------------
(* Properties.                                                             *)

\* The CPU never runs on a page directory that has been freed, and while a
\* thread has an address space that it has entered it runs in that one, with
\* its own kernel stack in the TSS.  Between any two steps of load and of
\* process_exit the timer may switch away and back, which is what the order
\* of the three assignments in process_exit is about.
ActiveSpaceValid ==
  /\ cr3 # Null => cr3 \in DOMAIN spaces
  /\ esp0 = current
  /\ current \in DOMAIN procs /\ Me.pc \notin {"activate", "base"} => cr3 = Me.pagedir
  /\ current \notin DOMAIN procs => cr3 = Null

KernelOwned ==
  <<DOMAIN procs, DOMAIN spaces,
    {main.fn} \ {Null},
    {procs[t].fn : t \in DOMAIN procs} \ {Null},
    UNION {{spaces[d].pts[i] : i \in DOMAIN spaces[d].pts} : d \in DOMAIN spaces}>>

UserOwned ==
  <<{procs[t].kpage : t \in DOMAIN procs} \ {Null},
    UNION {{spaces[d].map[u] : u \in DOMAIN spaces[d].map} : d \in DOMAIN spaces}>>

\* sets is a partition of the pages of pool k that are allocated.
Accounts(k, sets) ==
  /\ \A i, j \in DOMAIN sets : i # j => sets[i] \cap sets[j] = {}
  /\ UNION {sets[i] : i \in DOMAIN sets} = 1..total[k] \ pool[k]

\* Every allocated page has one owner at every moment, on every path that
\* ends a load early, so that nothing is left when a process is gone: the
\* copy of the name, the struct thread, the page directory, its page tables
\* and user pages, and the page load holds in its hand.  A page directory is
\* the one of a process that will still destroy it.
PagesAccounted ==
  /\ Accounts("kernel", KernelOwned)
  /\ Accounts("user", UserOwned)
  /\ DOMAIN spaces =
       (UNION {{procs[t].pagedir, procs[t].pd} : t \in DOMAIN procs}) \ {Null}

\* The kernel stops on the uninitialised semaphore only if main exits without
\* having run any program.
PanicsOnlyUnused == panicked => main.tasks = 0

\* process_wait returns once the program it waits for has ended or could not
\* be loaded, wherever the new thread is preempted and even if it is gone
\* before process_wait is called.
WaitReturns ==
  main.started /\ main.pc \in {"wait", "blocked"} ~>
    main.pc = "next" \/ \E t \in DOMAIN procs : procs[t].pc = "user"

=============================================================================
