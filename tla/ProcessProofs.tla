--------------------------- MODULE ProcessProofs ---------------------------
(***************************************************************************)
(* Proofs about Process, continued from AddressSpaceProofs: the steps of   *)
(* the scheduler and of main keep the inductive invariant, and what        *)
(* follows from it.                                                        *)
(***************************************************************************)
EXTENDS AddressSpaceProofs

-----------------------------------------------------------------------------
(***************************************************************************)
(* Thread switches.                                                        *)
(***************************************************************************)
\* A step that moves no page and leaves the processes as they are.
LEMMA PagesSame ==
  ASSUME IndInv, UNCHANGED <<total, pool, spaces, procs>>, main'.fn = main.fn
  PROVE  PagesInv'
  <1>1. Fn' = Fn /\ Kp' = Kp /\ Pts' = Pts /\ Map' = Map
    BY Zenon DEF Fn, Kp, Pts, Map
  <1>2. Kernel' = Kernel /\ User' = User
    BY <1>1, Zenon DEF Kernel, User
  <1> QED BY <1>1, <1>2, Zenon DEF IndInv, PagesInv

\* A struct thread's page is neither main's nor the idle thread's.
LEMMA ThreadNames ==
  ASSUME IndInv
  PROVE  DOMAIN procs \subseteq Nat \ {0} /\ Main \notin DOMAIN procs /\ Idle \notin DOMAIN procs
  <1>1. DOMAIN procs \subseteq Nat \ {0}
    BY PoolPages, Owners DEF IndInv
  <1> QED BY <1>1, ProcessAssumption, Zenon

\* thread_schedule_tail activates the new thread's address space, which exists.
LEMMA Switched ==
  ASSUME IndInv, spaces' = spaces, DOMAIN procs' \subseteq DOMAIN procs,
         \A t \in DOMAIN procs' : procs'[t] = procs[t],
         NEW n \in DOMAIN procs' \cup {Main, Idle}, SwitchTo(n)
  PROVE  ActiveSpaceValid'
  <1>1. current' = n /\ esp0' = n /\ cr3' = Pagedir(n)
    BY Zenon DEF SwitchTo, tss_update, pagedir_activate
  <1>2. CASE n \in DOMAIN procs'
    <2>1. n \in DOMAIN procs /\ procs'[n] = procs[n] /\ cr3' = procs[n].pagedir
      BY <1>1, <1>2, Zenon DEF Pagedir
    <2>2. procs[n].pagedir # Null => procs[n].pagedir \in Dirs(procs[n])
      BY Zenon DEF Dirs
    <2>3. \A x \in Dirs(procs[n]) : x \in DOMAIN spaces
      BY <2>1, Zenon DEF IndInv, PagesInv
    <2> QED BY <1>1, <1>2, <2>1, <2>2, <2>3, Zenon DEF ActiveSpaceValid, Me
  <1>3. CASE n \notin DOMAIN procs'
    <2>1. n \notin DOMAIN procs
      BY <1>3, ThreadNames, Zenon
    <2>2. cr3' = Null
      BY <1>1, <2>1, Zenon DEF Pagedir
    <2> QED BY <1>1, <1>3, <2>2, Zenon DEF ActiveSpaceValid
  <1> QED BY <1>2, <1>3, Zenon

\* next_thread_to_run takes the first thread off the ready list.
LEMMA NextReady ==
  ASSUME IndInv, NEW n, NEW q, n = NextThread(ready), q = Rest(ready)
  PROVE  /\ n \in DOMAIN procs \cup {Main, Idle} /\ (n # current \/ n = Idle)
         /\ q \in Seq(DOMAIN procs \cup {Main}) /\ IsInjective(q)
         /\ Range(q) \subseteq Range(ready) /\ n \notin Range(q)
         /\ n = Idle \/ n \in Range(ready)
         /\ n \notin io
  <1>1. /\ ready \in Seq(DOMAIN procs \cup {Main}) /\ IsInjective(ready)
        /\ current \notin Range(ready) /\ io \cap Range(ready) = {} /\ io \subseteq DOMAIN procs
    BY Zenon DEF IndInv, TypeInv, SchedInv
  <1>2. CASE ready = <<>>
    <2>1. n = Idle /\ q = <<>>
      BY <1>2, Zenon DEF NextThread, Rest
    <2>2. q \in Seq(DOMAIN procs \cup {Main})
      BY <2>1
    <2> QED BY <1>1, <1>2, <2>1, <2>2, EmptyRange, ThreadNames, Zenon
  <1>3. CASE ready # <<>>
    <2>1. n = Head(ready) /\ q = Tail(ready)
      BY <1>3, Zenon DEF NextThread, Rest
    <2>2. /\ Range(q) = Range(ready) \ {n} /\ IsInjective(q) /\ n \in Range(ready)
          /\ n \in DOMAIN procs \cup {Main} /\ q \in Seq(DOMAIN procs \cup {Main})
      BY <1>1, <1>3, <2>1, TailRange
    <2> QED BY <1>1, <2>2, Zenon
  <1> QED BY <1>2, <1>3, Zenon

\* A step that moves no page and leaves the processes as they are keeps the
\* invariant if it keeps the parts about main, the queues and the CPU.
LEMMA SwitchStep ==
  ASSUME IndInv, UNCHANGED <<total, pool, spaces, procs>>,
         temporary' \in Int, panicked' \in BOOLEAN,
         main' \in MainRec, main'.fn = main.fn, MainInv',
         ready' \in Seq(DOMAIN procs \cup {Main}), SchedInv', ActiveSpaceValid'
  PROVE  IndInv'
  <1>1. PagesInv'
    BY PagesSame, Zenon
  <1>2. TypeInv'
    BY Zenon DEF IndInv, TypeInv
  <1> QED BY <1>1, <1>2, Zenon DEF IndInv

\* MainInv depends on the scheduler through main only.
LEMMA MainKept ==
  ASSUME IndInv, UNCHANGED <<main, procs, temporary, panicked>>
  PROVE  /\ main' \in MainRec /\ main'.fn = main.fn /\ MainInv'
         /\ temporary' \in Int /\ panicked' \in BOOLEAN
  BY Zenon DEF IndInv, TypeInv, MainInv, PanicsOnlyUnused

\* The thread that yields goes to the end of the ready list.
LEMMA PreemptInv ==
  ASSUME IndInv, Preempt
  PROVE  IndInv'
  <1>1. /\ UNCHANGED <<pool, total, procs, spaces, main, io, temporary, panicked>>
        /\ current # Idle /\ ready # <<>> /\ SwitchTo(Head(ready))
        /\ ready' = Append(Tail(ready), current) /\ current' = Head(ready)
    BY Zenon DEF Preempt, SwitchTo
  <1>2. PICK n, q : n = NextThread(ready) /\ q = Rest(ready)
    BY Zenon
  <1>3. n = Head(ready) /\ q = Tail(ready)
    BY <1>1, <1>2, Zenon DEF NextThread, Rest
  <1>4. /\ ready \in Seq(DOMAIN procs \cup {Main}) /\ IsInjective(ready)
        /\ current \notin Range(ready) /\ io \subseteq DOMAIN procs \ ({current} \cup Range(ready))
        /\ main.pc = "blocked" => current # Main /\ Main \notin Range(ready)
        /\ current \in DOMAIN procs \cup {Main}
    BY <1>1, Zenon DEF IndInv, TypeInv, SchedInv
  <1>5. /\ n \in Range(ready) /\ Range(q) = Range(ready) \ {n} /\ IsInjective(q)
        /\ q \in Seq(DOMAIN procs \cup {Main}) /\ n \in DOMAIN procs \cup {Main}
    BY <1>1, <1>3, <1>4, TailRange, Zenon
  <1>6. PICK w : w = Append(q, current)
    BY Zenon
  <1>7. /\ w \in Seq(DOMAIN procs \cup {Main}) /\ Range(w) = Range(q) \cup {current}
        /\ IsInjective(w)
    BY <1>4, <1>5, <1>6, AppendRange
  <1>8. ready' = w /\ current' = n
    BY <1>1, <1>3, <1>6, Zenon
  <1>9. SchedInv'
    BY <1>1, <1>4, <1>5, <1>7, <1>8, Zenon DEF SchedInv
  <1>10. ActiveSpaceValid'
    <2>1. SwitchTo(n) /\ n \in DOMAIN procs' \cup {Main, Idle}
      BY <1>1, <1>3, <1>5, Zenon
    <2> QED BY <1>1, <2>1, Switched, Zenon
  <1> QED BY <1>1, <1>7, <1>8, <1>9, <1>10, MainKept, SwitchStep, Zenon

\* The idle thread leaves the CPU to the first ready thread.
LEMMA LeaveIdleInv ==
  ASSUME IndInv, LeaveIdle
  PROVE  IndInv'
  <1>1. /\ UNCHANGED <<pool, total, procs, spaces, main, io, temporary, panicked>>
        /\ current = Idle /\ ready # <<>> /\ SwitchTo(Head(ready))
        /\ ready' = Tail(ready) /\ current' = Head(ready)
    BY Zenon DEF LeaveIdle, SwitchTo
  <1>2. /\ ready \in Seq(DOMAIN procs \cup {Main}) /\ IsInjective(ready)
        /\ io \subseteq DOMAIN procs \ ({current} \cup Range(ready))
        /\ main.pc = "blocked" => Main \notin Range(ready)
    BY Zenon DEF IndInv, TypeInv, SchedInv
  <1>3. PICK n, q : n = Head(ready) /\ q = Tail(ready)
    BY Zenon
  <1>4. /\ n \in Range(ready) /\ Range(q) = Range(ready) \ {n} /\ IsInjective(q)
        /\ q \in Seq(DOMAIN procs \cup {Main}) /\ n \in DOMAIN procs \cup {Main}
    BY <1>1, <1>2, <1>3, TailRange, Zenon
  <1>5. SchedInv'
    BY <1>1, <1>2, <1>3, <1>4, Zenon DEF SchedInv
  <1>6. ActiveSpaceValid'
    <2>1. SwitchTo(n) /\ n \in DOMAIN procs' \cup {Main, Idle}
      BY <1>1, <1>3, <1>4, Zenon
    <2> QED BY <1>1, <2>1, Switched, Zenon
  <1> QED BY <1>1, <1>3, <1>4, <1>5, <1>6, MainKept, SwitchStep, Zenon

\* A process that waits for the disk is on no other queue.
LEMMA WaitForDiskInv ==
  ASSUME IndInv, WaitForDisk
  PROVE  IndInv'
  <1>1. PICK n, q : n = NextThread(ready) /\ q = Rest(ready)
    BY Zenon
  <1>2. /\ UNCHANGED <<pool, total, procs, spaces, main, temporary, panicked>>
        /\ current \in DOMAIN procs /\ SwitchTo(n)
        /\ io' = io \cup {current} /\ ready' = q /\ current' = n
    BY <1>1, Zenon DEF WaitForDisk, SwitchTo
  <1>3. /\ current \notin Range(ready) /\ io \subseteq DOMAIN procs \ ({current} \cup Range(ready))
        /\ main.pc = "blocked" => Main \notin Range(ready)
    BY Zenon DEF IndInv, SchedInv
  <1>4. /\ n \in DOMAIN procs \cup {Main, Idle} /\ n # current
        /\ q \in Seq(DOMAIN procs \cup {Main}) /\ IsInjective(q)
        /\ Range(q) \subseteq Range(ready) /\ n \notin Range(q)
        /\ n = Idle \/ n \in Range(ready)
        /\ n \notin io
    BY <1>1, <1>2, NextReady, ThreadNames, Zenon
  <1>5. SchedInv'
    BY <1>2, <1>3, <1>4, ProcessAssumption, Zenon DEF SchedInv
  <1>6. ActiveSpaceValid'
    <2>1. n \in DOMAIN procs' \cup {Main, Idle}
      BY <1>2, <1>4, Zenon
    <2> QED BY <1>2, <2>1, Switched, Zenon
  <1> QED BY <1>2, <1>4, <1>5, <1>6, MainKept, SwitchStep, Zenon

\* The disk interrupt moves a process to the ready list.
LEMMA DiskDoneInv ==
  ASSUME IndInv, DiskDone
  PROVE  IndInv'
  <1>1. PICK t \in io : io' = io \ {t} /\ ready' = Append(ready, t)
    BY Zenon DEF DiskDone
  <1>2. UNCHANGED <<pool, total, procs, spaces, main, current, cr3, esp0, temporary, panicked>>
    BY Zenon DEF DiskDone
  <1>3. /\ ready \in Seq(DOMAIN procs \cup {Main}) /\ IsInjective(ready)
        /\ current \in DOMAIN procs \cup {Main, Idle} /\ current \notin Range(ready)
        /\ io \subseteq DOMAIN procs \ ({current} \cup Range(ready))
        /\ main.pc = "blocked" => current # Main /\ Main \notin Range(ready)
    BY Zenon DEF IndInv, TypeInv, SchedInv
  <1>4. t \in DOMAIN procs /\ t # current /\ t \notin Range(ready) /\ t # Main
    BY <1>1, <1>3, ThreadNames, Zenon
  <1>5. PICK w : w = Append(ready, t)
    BY Zenon
  <1>6. /\ w \in Seq(DOMAIN procs \cup {Main}) /\ Range(w) = Range(ready) \cup {t}
        /\ IsInjective(w)
    BY <1>3, <1>4, <1>5, AppendRange
  <1>7. SchedInv'
    BY <1>1, <1>2, <1>3, <1>4, <1>5, <1>6, Zenon DEF SchedInv
  <1>8. ActiveSpaceValid'
    BY <1>2, Zenon DEF IndInv, ActiveSpaceValid, Me
  <1> QED BY <1>1, <1>2, <1>5, <1>6, <1>7, <1>8, MainKept, SwitchStep, ZenonT(30)

-----------------------------------------------------------------------------
(***************************************************************************)
(* The end of a process.                                                   *)
(***************************************************************************)
\* sema_up in process_exit finds the semaphore initialised, since a program
\* was run, and makes main ready if it waits.
LEMMA ExitUpInv ==
  ASSUME IndInv, exit_up
  PROVE  IndInv'
  <1>1. /\ Me \in ProcRec /\ LocalOK(Me) /\ Me.pc = "up" /\ cr3 = Me.pagedir
        /\ cr3 # Null => cr3 \in DOMAIN spaces
        /\ current \in DOMAIN procs
    BY Running DEF exit_up
  <1>2. UNCHANGED <<pool, total, spaces, current, io, cr3, esp0>>
    BY Zenon DEF exit_up
  <1>3. /\ main \in MainRec /\ temporary \in Int /\ temporary # -1 /\ temporary >= -1
        /\ main.tasks # 0 /\ (main.fn # Null <=> main.pc = "create")
    BY <1>1, Zenon DEF IndInv, TypeInv, MainInv
  <1>4. PICK k : k = IF main.pc = "blocked" THEN "wait" ELSE main.pc
    BY Zenon
  <1>5. /\ panicked' = (temporary = -1) /\ temporary' = temporary + 1
        /\ main' = [main EXCEPT !.pc = k]
        /\ ready' = IF main.pc = "blocked" THEN Append(ready, Main) ELSE ready
    BY <1>4, Zenon DEF exit_up, SemaUp
  <1>6. panicked' = FALSE /\ temporary' \in Int /\ temporary' >= 0 /\ temporary' # -1
    <2>1. panicked' = FALSE
      BY <1>3, <1>5, Zenon
    <2>2. temporary' \in Int /\ temporary' >= 0 /\ temporary' # -1
      BY <1>3, <1>5
    <2> QED BY <2>1, <2>2, Zenon
  <1>7. /\ main' \in MainRec /\ main'.pc = k /\ main'.fn = main.fn /\ main'.tasks = main.tasks
        /\ k # "blocked" /\ (k = "create" <=> main.pc = "create")
    BY <1>3, <1>4, <1>5, Zenon DEF MainRec
  <1>8. MainInv'
    BY <1>3, <1>6, <1>7 DEF MainInv, PanicsOnlyUnused
  <1>9. PICK r : r = [Me EXCEPT !.pc = "die"]
    BY Zenon
  <1>10. /\ r \in ProcRec /\ r.pc = "die" /\ r.pagedir = Me.pagedir /\ r.pd = Me.pd
         /\ r.fn = Me.fn /\ r.kpage = Me.kpage
    BY <1>1, <1>9, Zenon DEF ProcRec, ProcLabel
  <1>11. LocalOK(r) /\ Dirs(r) = Dirs(Me)
    BY <1>1, <1>10, Zenon DEF LocalOK, LocalAt, Entered, Dirs
  <1>12. procs' = [procs EXCEPT ![current] = r]
    BY <1>9, Zenon DEF exit_up, Goto, Me
  <1>13. PagesInv'
    BY <1>1, <1>2, <1>7, <1>10, <1>11, <1>12, PagesKept, Zenon
  <1>14. /\ DOMAIN procs' = DOMAIN procs /\ procs'[current] = r
         /\ \A t \in DOMAIN procs' : procs'[t] \in ProcRec /\ LocalOK(procs'[t])
         /\ procs' \in [DOMAIN procs' -> ProcRec]
    BY <1>1, <1>10, <1>11, <1>12, Zenon DEF IndInv, TypeInv
  <1>15. /\ ready' \in Seq(DOMAIN procs \cup {Main}) /\ IsInjective(ready')
         /\ Range(ready') \subseteq Range(ready) \cup {Main}
    <2>1. /\ ready \in Seq(DOMAIN procs \cup {Main}) /\ IsInjective(ready)
          /\ main.pc = "blocked" => Main \notin Range(ready)
      BY Zenon DEF IndInv, TypeInv, SchedInv
    <2>2. CASE main.pc = "blocked"
      <3>1. PICK w : w = Append(ready, Main)
        BY Zenon
      <3>2. /\ w \in Seq(DOMAIN procs \cup {Main}) /\ IsInjective(w)
            /\ Range(w) = Range(ready) \cup {Main}
        BY <2>1, <2>2, <3>1, AppendRange
      <3> QED BY <1>5, <2>2, <3>1, <3>2, Zenon
    <2>3. CASE main.pc # "blocked"
      BY <1>5, <2>1, <2>3, Zenon
    <2> QED BY <2>2, <2>3, Zenon
  <1>16. SchedInv'
    <2>1. /\ current \notin Range(ready) /\ io \subseteq DOMAIN procs \ ({current} \cup Range(ready))
          /\ current # Main /\ Main \notin DOMAIN procs
      BY <1>1, ThreadNames, Zenon DEF IndInv, SchedInv
    <2>2. current' \notin Range(ready') /\ IsInjective(ready')
      BY <1>2, <1>15, <2>1, Zenon
    <2>3. io' \subseteq DOMAIN procs' \ ({current'} \cup Range(ready'))
      BY <1>2, <1>14, <1>15, <2>1, Zenon
    <2> QED BY <1>1, <1>2, <1>7, <1>14, <2>2, <2>3, Zenon DEF SchedInv
  <1>17. ActiveSpaceValid'
    BY <1>1, <1>2, <1>10, <1>14, ZenonT(30) DEF IndInv, ActiveSpaceValid, Me
  <1>18. TypeInv'
    BY <1>2, <1>6, <1>7, <1>14, <1>15, ZenonT(30) DEF IndInv, TypeInv
  <1>19. \A d \in DOMAIN spaces' : SpaceOK(spaces'[d])
    BY <1>2, Zenon DEF IndInv
  <1> QED BY <1>8, <1>13, <1>14, <1>16, <1>17, <1>18, <1>19, ZenonT(30) DEF IndInv

\* A thread is gone, and a thread is new.
Gone(c) ==
  /\ DOMAIN procs' = DOMAIN procs \ {c}
  /\ \A t \in DOMAIN procs \ {c} : procs'[t] = procs[t]

Created(t, r) ==
  /\ DOMAIN procs' = DOMAIN procs \cup {t} /\ procs'[t] = r
  /\ \A x \in DOMAIN procs : procs'[x] = procs[x]

\* The page of the struct thread goes back when the process owns nothing else.
LEMMA FreedThread ==
  ASSUME IndInv, NEW c \in DOMAIN procs, Gone(c),
         UNCHANGED <<total, main, spaces>>, Free("kernel", c),
         procs[c].fn = Null, procs[c].kpage = Null, Dirs(procs[c]) = {}
  PROVE  PagesInv' /\ pool' \in [{"kernel", "user"} -> SUBSET Nat]
  <1>1. TypeInv /\ PagesInv
    BY Zenon DEF IndInv
  <1>2. /\ DOMAIN procs' = DOMAIN procs \ {c}
        /\ \A t \in DOMAIN procs \ {c} : procs'[t] = procs[t]
    BY Zenon DEF Gone
  <1>3. Pts' = Pts /\ Map' = Map
    BY Zenon DEF Pts, Map
  <1>4. Held(Fn') = Held(Fn) /\ OneHolder(Fn') /\ Held(Kp') = Held(Kp) /\ OneHolder(Kp')
    <2>1. OneHolder(Fn) /\ OneHolder(Kp)
      BY <1>1, Zenon DEF PagesInv
    <2>2. /\ DOMAIN Fn = DOMAIN procs /\ DOMAIN Fn' = DOMAIN procs \ {c}
          /\ DOMAIN Kp = DOMAIN procs /\ DOMAIN Kp' = DOMAIN procs \ {c}
          /\ Fn[c] = Null /\ Kp[c] = Null
          /\ \A t \in DOMAIN procs \ {c} : Fn'[t] = Fn[t] /\ Kp'[t] = Kp[t]
      BY <1>2, Zenon DEF Fn, Kp
    <2>3. PICK f, g, h, k : f = Fn /\ g = Fn' /\ h = Kp /\ k = Kp'
      BY Zenon
    <2>4. /\ \A u : (u \in DOMAIN f /\ f[u] # Null) <=> (u \in DOMAIN g /\ g[u] # Null)
          /\ \A u \in DOMAIN f \cap DOMAIN g : g[u] = f[u]
      BY <2>2, <2>3, Zenon
    <2>5. /\ \A u : (u \in DOMAIN h /\ h[u] # Null) <=> (u \in DOMAIN k /\ k[u] # Null)
          /\ \A u \in DOMAIN h \cap DOMAIN k : k[u] = h[u]
      BY <2>2, <2>3, Zenon
    <2>6. Held(g) = Held(f) /\ OneHolder(g)
      BY <2>1, <2>3, <2>4, HoldSame, Zenon
    <2>7. Held(k) = Held(h) /\ OneHolder(k)
      BY <2>1, <2>3, <2>5, HoldSame, Zenon
    <2> QED BY <2>3, <2>6, <2>7, Zenon
  <1>5. /\ pool' \in [{"kernel", "user"} -> SUBSET Nat]
        /\ pool'["user"] = pool["user"] /\ pool'["kernel"] = pool["kernel"] \cup {c}
    <2>1. c \in Nat
      BY ThreadNames, Zenon
    <2> QED BY <1>1, <2>1, Zenon DEF Free, TypeInv
  <1>6. Partition(Kernel', 1..total'["kernel"])
    <2>1. Partition(Kernel, 1..total["kernel"]) /\ total' = total
      BY <1>1, Zenon DEF PagesInv
    <2>2. Kernel'[2] = Kernel[2] /\ Kernel'[3] = Kernel[3] /\ Kernel'[5] = Kernel[5]
      BY <1>3, Owners, OwnersNext, Zenon
    <2>3. Kernel'[4] = Kernel[4]
      BY <1>4, Owners, OwnersNext, Zenon
    <2>4. \A k \in (1..6) \ {1, 6} : k \in {2, 3, 4, 5}
      OBVIOUS
    <2>5. c \in Kernel[1] /\ Kernel'[1] = Kernel[1] \ {c} /\ Kernel'[6] = Kernel[6] \cup {c}
      BY <1>2, <1>5, Owners, OwnersNext, Zenon
    <2>6. \A k \in (1..6) \ {1, 6} : Kernel'[k] = Kernel[k]
      BY <2>2, <2>3, <2>4, Zenon
    <2> QED BY <2>1, <2>5, <2>6, KernelMove
  <1>7. Partition(User', 1..total'["user"])
    <2>1. User' = User
      BY <1>3, <1>4, <1>5, Zenon DEF User
    <2> QED BY <1>1, <2>1, Zenon DEF PagesInv
  <1>8. /\ \A t, u \in DOMAIN procs' : Dirs(procs'[t]) \cap Dirs(procs'[u]) # {} => t = u
        /\ DOMAIN spaces' = UNION {Dirs(procs'[t]) : t \in DOMAIN procs'}
    <2>1. /\ \A t, u \in DOMAIN procs : Dirs(procs[t]) \cap Dirs(procs[u]) # {} => t = u
          /\ \A x : x \in DOMAIN spaces <=> \E t \in DOMAIN procs : x \in Dirs(procs[t])
      BY <1>1, Zenon DEF PagesInv
    <2>2. \A t, u \in DOMAIN procs' : Dirs(procs'[t]) \cap Dirs(procs'[u]) # {} => t = u
      BY <1>2, <2>1, Zenon
    <2>3. \A x : x \in DOMAIN spaces <=> \E t \in DOMAIN procs' : x \in Dirs(procs'[t])
      BY <1>2, <2>1, Zenon
    <2>4. \A x : x \in UNION {Dirs(procs'[t]) : t \in DOMAIN procs'} <=>
                 \E t \in DOMAIN procs' : x \in Dirs(procs'[t])
      BY Zenon
    <2> QED BY <2>2, <2>3, <2>4, Zenon
  <1> QED BY <1>1, <1>3, <1>4, <1>5, <1>6, <1>7, <1>8, ZenonT(30) DEF PagesInv

\* The thread that died is on no queue, and the next one does not use its page.
LEMMA ThreadExitInv ==
  ASSUME IndInv, thread_exit
  PROVE  IndInv'
  <1>1. Me \in ProcRec /\ LocalOK(Me) /\ Me.pc = "die" /\ current \in DOMAIN procs
    BY Running, Zenon DEF thread_exit
  <1>2. PICK n, q : n = NextThread(ready) /\ q = Rest(ready)
    BY Zenon
  <1>3. /\ procs' = Without(procs, current) /\ Free("kernel", current)
        /\ ready' = q /\ SwitchTo(n) /\ current' = n
        /\ UNCHANGED <<total, spaces, main, io, temporary, panicked>>
    BY <1>2, Zenon DEF thread_exit, SwitchTo
  <1>4. /\ procs[current].fn = Null /\ procs[current].kpage = Null /\ Dirs(procs[current]) = {}
    BY <1>1, Zenon DEF LocalOK, LocalAt, Entered, Dirs, Me
  <1>5. PagesInv' /\ pool' \in [{"kernel", "user"} -> SUBSET Nat]
    <2>1. Gone(current)
      BY <1>3, Zenon DEF Gone, Without
    <2> QED BY <1>1, <1>3, <1>4, <2>1, FreedThread, Zenon
  <1>6. /\ DOMAIN procs' = DOMAIN procs \ {current}
        /\ \A t \in DOMAIN procs' : procs'[t] = procs[t]
        /\ \A t \in DOMAIN procs' : procs'[t] \in ProcRec /\ LocalOK(procs'[t])
        /\ procs' \in [DOMAIN procs' -> ProcRec]
    BY <1>3, Zenon DEF Without, IndInv, TypeInv
  <1>7. /\ current \notin Range(ready) /\ io \subseteq DOMAIN procs \ ({current} \cup Range(ready))
        /\ main.pc = "blocked" => Main \notin Range(ready)
    BY Zenon DEF IndInv, SchedInv
  <1>8. /\ n \in DOMAIN procs \cup {Main, Idle} /\ n # current
        /\ q \in Seq(DOMAIN procs \cup {Main}) /\ IsInjective(q)
        /\ Range(q) \subseteq Range(ready) /\ n \notin Range(q)
        /\ n = Idle \/ n \in Range(ready)
        /\ n \notin io
    BY <1>1, <1>2, NextReady, ThreadNames, Zenon
  <1>9. q \in Seq(DOMAIN procs' \cup {Main})
    <2>1. current \notin Range(q)
      BY <1>7, <1>8, Zenon
    <2>2. \A i \in 1..Len(q) : q[i] \in DOMAIN procs' \cup {Main}
      <3>1. \A i \in 1..Len(q) : q[i] \in DOMAIN procs \cup {Main} /\ q[i] # current
        BY <1>8, <2>1, InRange
      <3> QED BY <1>6, <3>1, Zenon
    <2> QED BY <1>8, <2>2
  <1>10. SchedInv'
    BY <1>3, <1>6, <1>7, <1>8, ProcessAssumption, Zenon DEF SchedInv
  <1>11. MainInv'
    BY <1>1, <1>3, Zenon DEF IndInv, MainInv, PanicsOnlyUnused
  <1>12. ActiveSpaceValid'
    <2>1. n \in DOMAIN procs' \cup {Main, Idle}
      BY <1>6, <1>8, Zenon
    <2> QED BY <1>3, <1>6, <2>1, Switched, Zenon
  <1>13. TypeInv'
    BY <1>3, <1>5, <1>6, <1>9, Zenon DEF IndInv, TypeInv
  <1>14. \A d \in DOMAIN spaces' : SpaceOK(spaces'[d])
    BY <1>3, Zenon DEF IndInv
  <1> QED BY <1>5, <1>6, <1>10, <1>11, <1>12, <1>13, <1>14, ZenonT(30) DEF IndInv

-----------------------------------------------------------------------------
(***************************************************************************)
(* The steps of main.                                                      *)
(***************************************************************************)
\* What holds when main runs.
LEMMA MainRuns ==
  ASSUME IndInv, NEW l, InMain(l)
  PROVE  /\ current = Main /\ main.pc = l /\ main \in MainRec /\ main.tasks \in Nat
         /\ current \notin DOMAIN procs /\ cr3 = Null
         /\ (main.fn # Null <=> l = "create")
         /\ l \in {"create", "wait", "blocked"} => main.tasks # 0 /\ temporary >= 0
  <1>1. current = Main /\ main.pc = l /\ main \in MainRec
    BY Zenon DEF InMain, IndInv, TypeInv
  <1>2. main.tasks \in Nat
    BY <1>1, Zenon DEF MainRec
  <1>3. current \notin DOMAIN procs /\ cr3 = Null
    BY <1>1, ThreadNames, Zenon DEF IndInv, ActiveSpaceValid
  <1>4. /\ main.fn # Null <=> l = "create"
        /\ l \in {"create", "wait", "blocked"} => main.tasks # 0
        /\ main.tasks # 0 => temporary # -1
        /\ temporary >= -1 /\ temporary \in Int
    BY <1>1, Zenon DEF IndInv, MainInv, TypeInv
  <1> QED BY <1>1, <1>2, <1>3, <1>4

\* process_execute takes a page for the copy of the file name.
LEMMA GotCopy ==
  ASSUME IndInv, UNCHANGED <<total, procs, spaces>>, main.fn = Null,
         HasPage("kernel"), Take("kernel"), main'.fn = Page("kernel")
  PROVE  PagesInv' /\ pool' \in [{"kernel", "user"} -> SUBSET Nat]
  <1>1. TypeInv /\ PagesInv
    BY Zenon DEF IndInv
  <1>2. PICK p : p = Page("kernel")
    BY Zenon
  <1>3. p \in pool["kernel"] /\ p # Null
    BY <1>1, <1>2, FreshKernel, Zenon
  <1>4. /\ pool' \in [{"kernel", "user"} -> SUBSET Nat]
        /\ pool'["user"] = pool["user"] /\ pool'["kernel"] = pool["kernel"] \ {p}
    BY <1>1, <1>2, Zenon DEF Take, Page, TypeInv
  <1>5. Fn' = Fn /\ Kp' = Kp /\ Pts' = Pts /\ Map' = Map
    BY Zenon DEF Fn, Kp, Pts, Map
  <1>6. User' = User
    BY <1>4, <1>5, Zenon DEF User
  <1>7. Partition(Kernel', 1..total'["kernel"])
    <2>1. Partition(Kernel, 1..total["kernel"]) /\ total' = total
      BY <1>1, Zenon DEF PagesInv
    <2>2. /\ Kernel'[1] = Kernel[1] /\ Kernel'[2] = Kernel[2]
          /\ Kernel'[4] = Kernel[4] /\ Kernel'[5] = Kernel[5]
      BY <1>5, Owners, OwnersNext, Zenon
    <2>3. \A k \in (1..6) \ {6, 3} : k \in {1, 2, 4, 5}
      OBVIOUS
    <2>4. p \in Kernel[6] /\ Kernel'[6] = Kernel[6] \ {p} /\ Kernel'[3] = Kernel[3] \cup {p}
      BY <1>2, <1>3, <1>4, Owners, OwnersNext
    <2>5. \A k \in (1..6) \ {6, 3} : Kernel'[k] = Kernel[k]
      BY <2>2, <2>3, Zenon
    <2> QED BY <2>1, <2>4, <2>5, KernelMove
  <1> QED BY <1>1, <1>4, <1>5, <1>6, <1>7, Zenon DEF PagesInv

\* Without a page for the thread, thread_create's caller gives the copy back.
LEMMA GaveCopy ==
  ASSUME IndInv, UNCHANGED <<total, procs, spaces>>, main.fn # Null,
         Free("kernel", main.fn), main'.fn = Null
  PROVE  PagesInv' /\ pool' \in [{"kernel", "user"} -> SUBSET Nat]
  <1>1. TypeInv /\ PagesInv
    BY Zenon DEF IndInv
  <1>2. PICK p : p = main.fn
    BY Zenon
  <1>3. p \in Nat
    BY <1>1, <1>2, Zenon DEF TypeInv, MainRec
  <1>4. /\ pool' \in [{"kernel", "user"} -> SUBSET Nat]
        /\ pool'["user"] = pool["user"] /\ pool'["kernel"] = pool["kernel"] \cup {p}
    BY <1>1, <1>2, <1>3, Zenon DEF Free, TypeInv
  <1>5. Fn' = Fn /\ Kp' = Kp /\ Pts' = Pts /\ Map' = Map
    BY Zenon DEF Fn, Kp, Pts, Map
  <1>6. User' = User
    BY <1>4, <1>5, Zenon DEF User
  <1>7. Partition(Kernel', 1..total'["kernel"])
    <2>1. Partition(Kernel, 1..total["kernel"]) /\ total' = total
      BY <1>1, Zenon DEF PagesInv
    <2>2. /\ Kernel'[1] = Kernel[1] /\ Kernel'[2] = Kernel[2]
          /\ Kernel'[4] = Kernel[4] /\ Kernel'[5] = Kernel[5]
      BY <1>5, Owners, OwnersNext, Zenon
    <2>3. \A k \in (1..6) \ {3, 6} : k \in {1, 2, 4, 5}
      OBVIOUS
    <2>4. p \in Kernel[3] /\ Kernel'[3] = Kernel[3] \ {p} /\ Kernel'[6] = Kernel[6] \cup {p}
      BY <1>2, <1>4, Owners, OwnersNext, Zenon
    <2>5. \A k \in (1..6) \ {3, 6} : Kernel'[k] = Kernel[k]
      BY <2>2, <2>3, Zenon
    <2> QED BY <2>1, <2>4, <2>5, KernelMove
  <1> QED BY <1>1, <1>4, <1>5, <1>6, <1>7, ZenonT(30) DEF PagesInv

\* A step of main that changes neither the processes nor the queues.
LEMMA MainQuiet ==
  ASSUME IndInv, NEW l, InMain(l), UNCHANGED <<total, procs, spaces, current, ready, io, cr3, esp0>>,
         PagesInv', pool' \in [{"kernel", "user"} -> SUBSET Nat],
         temporary' \in Int, panicked' \in BOOLEAN,
         main' \in MainRec, main'.pc # "blocked", MainInv'
  PROVE  IndInv'
  <1>1. TypeInv'
    BY Zenon DEF IndInv, TypeInv
  <1>2. SchedInv'
    BY Zenon DEF IndInv, SchedInv
  <1>3. ActiveSpaceValid'
    BY Zenon DEF IndInv, ActiveSpaceValid, Me
  <1> QED BY <1>1, <1>2, <1>3, Zenon DEF IndInv

\* process_execute starts with sema_init, so that no later sema_up is too early.
LEMMA ProcessExecuteInv ==
  ASSUME IndInv, process_execute
  PROVE  IndInv'
  <1>1. /\ InMain("next") /\ main \in MainRec /\ main.tasks \in Nat /\ main.fn = Null
        /\ main.pc = "next" /\ ~panicked
    BY MainRuns, Zenon DEF process_execute, InMain
  <1>2. UNCHANGED <<total, procs, spaces, current, ready, io, cr3, esp0, panicked>> /\ temporary' = 0
    BY Zenon DEF process_execute, cpu
  <1>3. temporary' \in Int /\ panicked' \in BOOLEAN /\ ~panicked'
    BY <1>1, <1>2 DEF IndInv, TypeInv
  <1> PICK k \in Nat \ {0} : k = main.tasks + 1
    BY <1>1
  <1>4. CASE HasPage("kernel")
    <2>1. PICK p : p = Page("kernel")
      BY Zenon
    <2>2. Take("kernel") /\ main' = [main EXCEPT !.pc = "create", !.fn = p, !.tasks = k]
      BY <1>4, <2>1, Zenon DEF process_execute
    <2>3. p \in Nat /\ p # Null
      BY <1>4, <2>1, FreshKernel, Zenon DEF IndInv
    <2>4. /\ main' \in MainRec /\ main'.pc = "create" /\ main'.fn = p
          /\ main'.tasks = k
      BY <1>1, <2>2, <2>3, Zenon DEF MainRec
    <2>5. main'.tasks # 0
      BY <2>4, Zenon
    <2>6. MainInv'
      BY <1>2, <1>3, <2>3, <2>4, <2>5 DEF MainInv, PanicsOnlyUnused
    <2>7. PagesInv' /\ pool' \in [{"kernel", "user"} -> SUBSET Nat]
      BY <1>1, <1>2, <1>4, <2>1, <2>2, <2>4, GotCopy, ZenonT(30)
    <2> QED BY <1>1, <1>2, <1>3, <2>4, <2>6, <2>7, MainQuiet, ZenonT(30)
  <1>5. CASE ~HasPage("kernel")
    <2>1. pool' = pool /\ main' = [main EXCEPT !.pc = "wait", !.started = FALSE, !.tasks = k]
      BY <1>5, Zenon DEF process_execute
    <2>2. /\ main' \in MainRec /\ main'.pc = "wait" /\ main'.fn = main.fn
          /\ main'.tasks = k
      BY <1>1, <2>1, Zenon DEF MainRec
    <2>3. main'.tasks # 0
      BY <2>2, Zenon
    <2>4. MainInv'
      BY <1>1, <1>2, <1>3, <2>2, <2>3 DEF MainInv, PanicsOnlyUnused
    <2>5. PagesInv'
      BY <1>2, <2>1, <2>2, PagesSame, Zenon
    <2>6. pool' \in [{"kernel", "user"} -> SUBSET Nat]
      BY <2>1, Zenon DEF IndInv, TypeInv
    <2> QED BY <1>1, <1>2, <1>3, <2>2, <2>4, <2>5, <2>6, MainQuiet, ZenonT(30)
  <1> QED BY <1>4, <1>5, Zenon

\* process_wait takes the signal, or gives up the CPU.
LEMMA ProcessWaitInv ==
  ASSUME IndInv, process_wait
  PROVE  IndInv'
  <1>1. /\ InMain("wait") /\ main \in MainRec /\ main.fn = Null /\ main.tasks # 0
        /\ current = Main /\ temporary >= 0 /\ temporary \in Int /\ ~panicked
    BY MainRuns, Zenon DEF process_wait, InMain, IndInv, TypeInv
  <1>2. UNCHANGED <<pool, total, procs, spaces, panicked>>
    BY Zenon DEF process_wait
  <1>3. panicked' \in BOOLEAN /\ ~panicked' /\ pool' \in [{"kernel", "user"} -> SUBSET Nat]
    BY <1>1, <1>2, Zenon DEF IndInv, TypeInv
  <1>4. CASE temporary > 0
    <2>1. /\ temporary' = temporary - 1 /\ main' = [main EXCEPT !.pc = "next", !.started = FALSE]
          /\ UNCHANGED <<current, ready, io, cr3, esp0>>
      BY <1>4, Zenon DEF process_wait, cpu
    <2>2. /\ main' \in MainRec /\ main'.pc = "next" /\ main'.fn = main.fn
          /\ main'.tasks = main.tasks
      BY <1>1, <2>1, Zenon DEF MainRec
    <2>3. temporary' \in Int /\ temporary' >= 0 /\ temporary' # -1 /\ temporary' >= -1
      BY <1>1, <1>4, <2>1
    <2>4. MainInv'
      BY <1>1, <1>3, <2>2, <2>3, Zenon DEF MainInv, PanicsOnlyUnused
    <2>5. PagesInv'
      BY <1>2, <2>2, PagesSame, Zenon
    <2> QED BY <1>1, <1>2, <1>3, <2>1, <2>2, <2>3, <2>4, <2>5, MainQuiet, ZenonT(30)
  <1>5. CASE ~(temporary > 0)
    <2>1. PICK n, q : n = NextThread(ready) /\ q = Rest(ready)
      BY ZenonT(30)
    <2>2. /\ main' = [main EXCEPT !.pc = "blocked"] /\ ready' = q /\ SwitchTo(n)
          /\ current' = n /\ UNCHANGED <<io, temporary>>
      BY <1>5, <2>1, Zenon DEF process_wait, SwitchTo
    <2>3. /\ main' \in MainRec /\ main'.pc = "blocked" /\ main'.fn = main.fn
          /\ main'.tasks = main.tasks
      BY <1>1, <2>2, Zenon DEF MainRec
    <2>4. MainInv'
      BY <1>1, <1>2, <1>3, <2>2, <2>3, ZenonT(30) DEF IndInv, MainInv, PanicsOnlyUnused
    <2>5. /\ current \notin Range(ready) /\ io \subseteq DOMAIN procs \ ({current} \cup Range(ready))
      BY Zenon DEF IndInv, SchedInv
    <2>6. /\ n \in DOMAIN procs \cup {Main, Idle} /\ (n # current \/ n = Idle)
          /\ q \in Seq(DOMAIN procs \cup {Main}) /\ IsInjective(q)
          /\ Range(q) \subseteq Range(ready) /\ n \notin Range(q) /\ n \notin io
      BY <2>1, NextReady, Zenon
    <2>7. SchedInv'
      BY <1>1, <1>2, <2>2, <2>5, <2>6, ProcessAssumption, ZenonT(30) DEF SchedInv
    <2>8. ActiveSpaceValid'
      <3>1. n \in DOMAIN procs' \cup {Main, Idle}
        BY <1>2, <2>6, Zenon
      <3> QED BY <1>2, <2>2, <3>1, Switched, Zenon
    <2> QED BY <1>1, <1>2, <1>3, <2>2, <2>3, <2>4, <2>6, <2>7, <2>8, SwitchStep, Zenon
  <1> QED BY <1>4, <1>5, Zenon

\* main's own process_exit finds no semaphore only if it ran no program.
LEMMA MainEndsInv ==
  ASSUME IndInv, MainEnds
  PROVE  IndInv'
  <1>1. /\ InMain("next") /\ main \in MainRec /\ main.fn = Null /\ main.pc = "next"
        /\ temporary \in Int /\ temporary >= -1 /\ ~panicked
    BY MainRuns, Zenon DEF MainEnds, InMain, IndInv, TypeInv, MainInv
  <1>2. /\ UNCHANGED <<pool, total, procs, spaces, current, ready, io, cr3, esp0>>
        /\ main' = [main EXCEPT !.pc = "off"]
        /\ \/ UNCHANGED <<temporary, panicked>>
           \/ panicked' = (temporary = -1) /\ temporary' = temporary + 1
    BY <1>1, Zenon DEF MainEnds, SemaUp
  <1>3. /\ main' \in MainRec /\ main'.pc = "off" /\ main'.fn = Null
        /\ main'.tasks = main.tasks
    BY <1>1, <1>2, Zenon DEF MainRec
  <1>4. PagesInv'
    BY <1>1, <1>2, <1>3, PagesSame, ZenonT(30)
  <1>5. /\ pool' \in [{"kernel", "user"} -> SUBSET Nat]
        /\ temporary = -1 => main.tasks = 0
        /\ main.tasks = 0 => DOMAIN procs = {}
        /\ panicked \in BOOLEAN
    BY <1>2, Zenon DEF IndInv, TypeInv, MainInv
  <1>6. /\ temporary' \in Int /\ temporary' >= -1
        /\ temporary' = -1 => temporary = -1
    BY <1>1, <1>2
  <1>7. panicked' \in BOOLEAN /\ (panicked' => temporary = -1)
    <2>1. CASE panicked' = panicked
      BY <1>1, <1>5, <2>1, Zenon
    <2>2. CASE panicked' = (temporary = -1)
      BY <2>2, Zenon
    <2> QED BY <1>2, <2>1, <2>2, Zenon
  <1>8. MainInv'
    BY <1>2, <1>3, <1>5, <1>6, <1>7, ZenonT(30) DEF MainInv, PanicsOnlyUnused
  <1> QED BY <1>1, <1>2, <1>3, <1>4, <1>5, <1>6, <1>7, <1>8, MainQuiet, ZenonT(30)

\* thread_create takes the page of the struct thread, and the copy of the file
\* name passes from main to the new process.
LEMMA MadeThread ==
  ASSUME IndInv, UNCHANGED <<total, spaces>>, main.fn # Null, main'.fn = Null,
         HasPage("kernel"), Take("kernel"), NEW t, t = Page("kernel"),
         NEW r, Created(t, r), r.fn = main.fn, r.kpage = Null, Dirs(r) = {}
  PROVE  PagesInv' /\ pool' \in [{"kernel", "user"} -> SUBSET Nat]
  <1>1. TypeInv /\ PagesInv
    BY Zenon DEF IndInv
  <1>2. t \in Nat /\ t # Null /\ t \in pool["kernel"] /\ t \notin DOMAIN procs
    BY <1>1, FreshKernel, Zenon
  <1>3. /\ pool' \in [{"kernel", "user"} -> SUBSET Nat]
        /\ pool'["user"] = pool["user"] /\ pool'["kernel"] = pool["kernel"] \ {t}
    BY <1>1, Zenon DEF Take, Page, TypeInv
  <1>4. /\ DOMAIN procs' = DOMAIN procs \cup {t} /\ procs'[t] = r
        /\ \A x \in DOMAIN procs : procs'[x] = procs[x]
    BY Zenon DEF Created
  <1>5. Pts' = Pts /\ Map' = Map
    BY Zenon DEF Pts, Map
  <1>6. PICK p : p = main.fn
    BY Zenon
  <1>7. p \in Kernel[3] /\ p \notin Held(Fn) /\ p # Null
    <2>1. p \in Kernel[3] /\ Kernel[4] = Held(Fn)
      BY <1>6, Owners, Zenon
    <2>2. Kernel[3] \cap Kernel[4] = {}
      BY <1>1, PoolPages
    <2> QED BY <1>6, <2>1, <2>2, Zenon
  <1>8. /\ DOMAIN Fn = DOMAIN procs /\ DOMAIN Fn' = DOMAIN procs \cup {t}
        /\ DOMAIN Kp = DOMAIN procs /\ DOMAIN Kp' = DOMAIN procs \cup {t}
        /\ Fn'[t] = p /\ Kp'[t] = Null
        /\ \A x \in DOMAIN procs : Fn'[x] = Fn[x] /\ Kp'[x] = Kp[x]
    BY <1>4, <1>6, Zenon DEF Fn, Kp
  <1>9. OneHolder(Fn) /\ OneHolder(Kp)
    BY <1>1, Zenon DEF PagesInv
  <1>10. Held(Fn') = Held(Fn) \cup {p} /\ OneHolder(Fn')
    <2>1. PICK f, g : f = Fn /\ g = Fn'
      BY Zenon
    <2>2. /\ p # Null /\ p \notin Held(f) /\ OneHolder(f) /\ DOMAIN g = DOMAIN f \cup {t}
          /\ (t \in DOMAIN f => f[t] = Null) /\ g[t] = p
          /\ \A u \in DOMAIN f \ {t} : g[u] = f[u]
      BY <1>2, <1>7, <1>8, <1>9, <2>1, ZenonT(30)
    <2>3. Held(g) = Held(f) \cup {p} /\ OneHolder(g)
      BY <2>2, HoldAdd
    <2> QED BY <2>1, <2>3, Zenon
  <1>11. Held(Kp') = Held(Kp) /\ OneHolder(Kp')
    <2>1. PICK f, g : f = Kp /\ g = Kp'
      BY Zenon
    <2>2. /\ \A u : (u \in DOMAIN f /\ f[u] # Null) <=> (u \in DOMAIN g /\ g[u] # Null)
          /\ \A u \in DOMAIN f \cap DOMAIN g : g[u] = f[u]
      BY <1>2, <1>8, <2>1, Zenon
    <2>3. Held(g) = Held(f) /\ OneHolder(g)
      BY <1>9, <2>1, <2>2, HoldSame, ZenonT(30)
    <2> QED BY <2>1, <2>3, Zenon
  <1>12. Partition(User', 1..total'["user"])
    <2>1. User' = User
      BY <1>3, <1>5, <1>11, Zenon DEF User
    <2> QED BY <1>1, <2>1, Zenon DEF PagesInv
  <1>13. Partition(Kernel', 1..total'["kernel"])
    <2>1. Partition(Kernel, 1..total["kernel"]) /\ total' = total
      BY <1>1, Zenon DEF PagesInv
    <2>2. PICK A, B : A = Kernel /\ B = Kernel'
      BY Zenon
    <2>3. DOMAIN A = 1..6 /\ DOMAIN B = 1..6
      BY <2>2 DEF Kernel
    <2>4. PICK M : M = [k \in 1..6 |-> IF k = 6 THEN A[6] \ {t}
                                       ELSE IF k = 1 THEN A[1] \cup {t} ELSE A[k]]
      BY Zenon
    <2>5. Partition(M, 1..total["kernel"])
      <3>1. t \in A[6]
        BY <1>2, <2>2, Owners, ZenonT(30)
      <3>2. /\ DOMAIN M = DOMAIN A /\ M[6] = A[6] \ {t} /\ M[1] = A[1] \cup {t}
            /\ \A k \in DOMAIN A \ {6, 1} : M[k] = A[k]
        BY <2>3, <2>4
      <3>3. 6 \in DOMAIN A /\ 1 \in DOMAIN A
        BY <2>3
      <3> QED BY <2>1, <2>2, <3>1, <3>2, <3>3, Move, SMTT(30)
    <2>6. Partition(B, 1..total["kernel"])
      <3>1. /\ DOMAIN B = DOMAIN M /\ 3 \in DOMAIN M /\ 4 \in DOMAIN M
            /\ M[3] = A[3] /\ M[4] = A[4]
        BY <2>3, <2>4
      <3>2. p \in M[3]
        BY <1>7, <2>2, <3>1, Zenon
      <3>3. B[3] = M[3] \ {p}
        BY <1>6, <2>2, <3>1, Owners, OwnersNext, ZenonT(30)
      <3>4. B[4] = M[4] \cup {p}
        BY <1>10, <2>2, <3>1, Owners, OwnersNext, ZenonT(30)
      <3>5. B[1] = M[1] /\ B[6] = M[6]
        <4>1. M[1] = A[1] \cup {t} /\ M[6] = A[6] \ {t}
          BY <2>4
        <4> QED BY <1>3, <1>4, <2>2, <4>1, Owners, OwnersNext, SMTT(30)
      <3>6. B[2] = M[2] /\ B[5] = M[5]
        <4>1. M[2] = A[2] /\ M[5] = A[5]
          BY <2>4
        <4> QED BY <1>5, <2>2, <4>1, Owners, OwnersNext, ZenonT(30)
      <3>7. \A k \in DOMAIN M \ {3, 4} : k \in {1, 2, 5, 6}
        BY <2>3, <3>1
      <3>8. \A k \in DOMAIN M \ {3, 4} : B[k] = M[k]
        BY <3>5, <3>6, <3>7, Zenon
      <3> QED BY <2>5, <3>1, <3>2, <3>3, <3>4, <3>8, Move, SMTT(30)
    <2> QED BY <2>1, <2>2, <2>6, Zenon
  <1>14. /\ \A x, u \in DOMAIN procs' : Dirs(procs'[x]) \cap Dirs(procs'[u]) # {} => x = u
         /\ DOMAIN spaces' = UNION {Dirs(procs'[x]) : x \in DOMAIN procs'}
    <2>1. /\ \A x, u \in DOMAIN procs : Dirs(procs[x]) \cap Dirs(procs[u]) # {} => x = u
          /\ \A y : y \in DOMAIN spaces <=> \E x \in DOMAIN procs : y \in Dirs(procs[x])
      BY <1>1, Zenon DEF PagesInv
    <2>2. Dirs(procs'[t]) = {} /\ \A x \in DOMAIN procs : Dirs(procs'[x]) = Dirs(procs[x])
      BY <1>4, Zenon
    <2>3. \A x, u \in DOMAIN procs' : Dirs(procs'[x]) \cap Dirs(procs'[u]) # {} => x = u
      BY <1>4, <2>1, <2>2, Zenon
    <2>4. \A y : y \in DOMAIN spaces <=> \E x \in DOMAIN procs' : y \in Dirs(procs'[x])
      BY <1>4, <2>1, <2>2, Zenon
    <2>5. \A y : y \in UNION {Dirs(procs'[x]) : x \in DOMAIN procs'} <=>
                 \E x \in DOMAIN procs' : y \in Dirs(procs'[x])
      BY Zenon
    <2> QED BY <2>3, <2>4, <2>5, Zenon
  <1> QED BY <1>1, <1>3, <1>5, <1>10, <1>11, <1>12, <1>13, <1>14, ZenonT(30) DEF PagesInv

\* thread_create adds a process that is ready, or the copy goes back.
LEMMA ThreadCreateInv ==
  ASSUME IndInv, NEW e \in Executable, thread_create(e)
  PROVE  IndInv'
  <1>1. /\ InMain("create") /\ main \in MainRec /\ main.fn # Null /\ main.tasks # 0
        /\ current = Main /\ cr3 = Null /\ temporary >= 0 /\ temporary \in Int /\ ~panicked
    BY MainRuns, Zenon DEF thread_create, InMain, IndInv, TypeInv
  <1>2. UNCHANGED <<total, spaces, current, io, cr3, esp0, temporary, panicked>>
    BY Zenon DEF thread_create
  <1>3. panicked' \in BOOLEAN /\ ~panicked' /\ temporary' \in Int
    BY <1>1, <1>2, Zenon DEF IndInv, TypeInv
  <1>4. CASE HasPage("kernel")
    <2>1. PICK t, r : t = Page("kernel") /\ r = NewProcess(main.fn, e)
      BY Zenon
    <2>2. /\ Take("kernel") /\ ready' = Append(ready, t)
          /\ procs' = [x \in DOMAIN procs \cup {t} |-> IF x = t THEN r ELSE procs[x]]
          /\ main' = [main EXCEPT !.pc = "wait", !.fn = Null, !.started = TRUE]
      BY <1>4, <2>1, Zenon DEF thread_create
    <2>3. /\ main' \in MainRec /\ main'.pc = "wait" /\ main'.fn = Null
          /\ main'.tasks = main.tasks
      BY <1>1, <2>2, Zenon DEF MainRec, Null
    <2>4. t \in Nat /\ t # Null /\ t \notin DOMAIN procs
      BY <1>4, <2>1, FreshKernel, Zenon DEF IndInv
    <2>5. /\ r \in ProcRec /\ r.pc = "pagedir" /\ r.pagedir = Null /\ r.pd = Null
          /\ r.fn = main.fn /\ r.kpage = Null /\ r.pg = 1
      <3>1. main.fn \in Nat
        BY <1>1, Zenon DEF MainRec
      <3> QED BY <2>1, <3>1 DEF NewProcess, ProcRec, ProcLabel, Null
    <2>6. LocalOK(r) /\ Dirs(r) = {}
      BY <1>1, <2>5, Zenon DEF LocalOK, LocalAt, Entered, Dirs
    <2>7. PagesInv' /\ pool' \in [{"kernel", "user"} -> SUBSET Nat]
      <3>1. Created(t, r)
        BY <2>2, <2>4, Zenon DEF Created
      <3> QED BY <1>1, <1>2, <1>4, <2>1, <2>2, <2>3, <2>5, <2>6, <3>1, MadeThread, ZenonT(30)
    <2>8. /\ DOMAIN procs' = DOMAIN procs \cup {t}
          /\ \A x \in DOMAIN procs' : procs'[x] \in ProcRec /\ LocalOK(procs'[x])
          /\ procs' \in [DOMAIN procs' -> ProcRec]
      BY <2>2, <2>4, <2>5, <2>6, ZenonT(30) DEF IndInv, TypeInv
    <2>9. /\ ready \in Seq(DOMAIN procs \cup {Main}) /\ IsInjective(ready)
          /\ current \notin Range(ready)
          /\ io \subseteq DOMAIN procs \ ({current} \cup Range(ready))
      BY Zenon DEF IndInv, TypeInv, SchedInv
    <2>10. t # Main /\ t \notin Range(ready)
      <3>1. t # Main
        BY <2>4, ProcessAssumption, Zenon
      <3>2. \A x \in Range(ready) : x \in DOMAIN procs \cup {Main}
        BY <2>9, InRange
      <3> QED BY <2>4, <3>1, <3>2, Zenon
    <2>11. ready \in Seq(DOMAIN procs' \cup {Main})
      BY <2>8, <2>9
    <2>12. PICK w : w = Append(ready, t)
      BY Zenon
    <2>13. /\ w \in Seq(DOMAIN procs' \cup {Main}) /\ Range(w) = Range(ready) \cup {t}
           /\ IsInjective(w)
      BY <2>8, <2>9, <2>10, <2>11, <2>12, AppendRange, SMTT(30)
    <2>14. SchedInv'
      BY <1>1, <1>2, <2>2, <2>3, <2>4, <2>8, <2>9, <2>10, <2>12, <2>13, ZenonT(30) DEF SchedInv
    <2>15. MainInv'
      BY <1>1, <1>2, <1>3, <2>3, ZenonT(30) DEF IndInv, MainInv, PanicsOnlyUnused
    <2>16. ActiveSpaceValid'
      <3>1. current' \notin DOMAIN procs'
        BY <1>1, <1>2, <2>8, <2>10, ThreadNames, ZenonT(30)
      <3> QED BY <1>1, <1>2, <3>1, ZenonT(30) DEF IndInv, ActiveSpaceValid
    <2>17. TypeInv'
      BY <1>2, <1>3, <2>2, <2>3, <2>7, <2>8, <2>12, <2>13, ZenonT(30) DEF IndInv, TypeInv
    <2>18. \A d \in DOMAIN spaces' : SpaceOK(spaces'[d])
      BY <1>2, ZenonT(30) DEF IndInv
    <2> QED BY <2>7, <2>8, <2>14, <2>15, <2>16, <2>17, <2>18, ZenonT(30) DEF IndInv
  <1>5. CASE ~HasPage("kernel")
    <2>1. /\ Free("kernel", main.fn) /\ UNCHANGED <<procs, ready>>
          /\ main' = [main EXCEPT !.pc = "wait", !.fn = Null, !.started = FALSE]
      BY <1>5, Zenon DEF thread_create
    <2>2. /\ main' \in MainRec /\ main'.pc = "wait" /\ main'.fn = Null
          /\ main'.tasks = main.tasks
      BY <1>1, <2>1, Zenon DEF MainRec, Null
    <2>3. MainInv'
      BY <1>1, <1>2, <1>3, <2>1, <2>2, ZenonT(30) DEF IndInv, MainInv, PanicsOnlyUnused
    <2>4. PagesInv' /\ pool' \in [{"kernel", "user"} -> SUBSET Nat]
      BY <1>1, <1>2, <2>1, <2>2, GaveCopy, ZenonT(30)
    <2> QED BY <1>1, <1>2, <1>3, <2>1, <2>2, <2>3, <2>4, MainQuiet, ZenonT(30)
  <1> QED BY <1>4, <1>5, Zenon

-----------------------------------------------------------------------------
(***************************************************************************)
(* The invariant holds.                                                    *)
(***************************************************************************)
\* Every step keeps the invariant.
LEMMA NextInv == IndInv /\ [Next]_vars => IndInv'
  <1> SUFFICES ASSUME IndInv, [Next]_vars PROVE IndInv'
    BY Zenon
  <1>1. CASE Preempt
    BY <1>1, PreemptInv, Zenon
  <1>2. CASE LeaveIdle
    BY <1>2, LeaveIdleInv, Zenon
  <1>3. CASE WaitForDisk
    BY <1>3, WaitForDiskInv, Zenon
  <1>4. CASE DiskDone
    BY <1>4, DiskDoneInv, Zenon
  <1>5. CASE MainStep
    BY <1>5, ProcessExecuteInv, ThreadCreateInv, ProcessWaitInv, MainEndsInv, ZenonT(30) DEF MainStep
  <1>6. CASE LoadStep
    BY <1>6, LoadPagedirInv, LoadActivateInv, LoadOpenInv, LoadHeaderInv, LoadGetPageInv,
       LoadReadInv, InstallPageInv, LoadDoneInv, StartProcessInv, Zenon DEF LoadStep
  <1>7. CASE syscall_handler \/ page_fault
    BY <1>7, EndInv, Zenon
  <1>8. CASE ExitStep
    BY <1>8, EndInv, ProcessExitInv, ExitActivateInv, PagedirDestroyInv, ExitUpInv, ThreadExitInv, ZenonT(30)
       DEF ExitStep
  <1>9. CASE UNCHANGED vars
    <2>1. UNCHANGED <<pool, total, procs, spaces, main, current, ready, io, cr3, esp0,
                      temporary, panicked>>
      BY <1>9, Zenon DEF vars
    <2>2. SchedInv' /\ ActiveSpaceValid' /\ ready' \in Seq(DOMAIN procs \cup {Main})
      BY <2>1, Zenon DEF IndInv, TypeInv, SchedInv, ActiveSpaceValid, Me
    <2> QED BY <2>1, <2>2, MainKept, SwitchStep, Zenon
  <1> QED BY <1>1, <1>2, <1>3, <1>4, <1>5, <1>6, <1>7, <1>8, <1>9, ZenonT(30) DEF Next

\* The pages of the kernel and of the processes have one owner each, at every
\* point where the timer can switch threads in load and in process_exit.
THEOREM Invariance == Spec => []IndInv
  BY InitInv, NextInv, PTL DEF Spec

\* The page directory that thread_schedule_tail, load or process_exit has put
\* into CR3 exists, and is the one of the process that runs: process_exit
\* leaves its page directory before it destroys it, wherever it is preempted.
THEOREM SpacesValid == Spec => []ActiveSpaceValid
  <1>1. IndInv => ActiveSpaceValid
    BY Zenon DEF IndInv
  <1> QED BY <1>1, Invariance, PTL

\* The semaphore `temporary' is signalled before any sema_init only by a main
\* thread that ends without having run a program: a process is never the one
\* that stops the kernel in process_exit.
THEOREM StopsOnlyUnused == Spec => []PanicsOnlyUnused
  <1>1. IndInv => PanicsOnlyUnused
    BY Zenon DEF IndInv, MainInv
  <1> QED BY <1>1, Invariance, PTL

\* No page is lost and none has two owners, whatever the size of the pools:
\* when palloc fails in load, in install_page or in thread_create, what was
\* taken before is given back, and pagedir_destroy and thread_schedule_tail
\* return all that a process had.
THEOREM PagesOwned == Spec => []PagesAccounted
  <1>1. ASSUME IndInv PROVE PagesAccounted
    <2>1. DOMAIN spaces = UNION {Dirs(procs[t]) : t \in DOMAIN procs}
      BY <1>1, Zenon DEF IndInv, PagesInv
    <2>2. PICK D : D = UNION {{procs[t].pagedir, procs[t].pd} : t \in DOMAIN procs}
      BY Zenon
    <2>3. \A x : x \in DOMAIN spaces <=> \E t \in DOMAIN procs : x \in Dirs(procs[t])
      BY <2>1, Zenon
    <2>4. \A x : x \in D <=> \E t \in DOMAIN procs : x \in {procs[t].pagedir, procs[t].pd}
      BY <2>2, Zenon
    <2>5. \A x : x \in DOMAIN spaces <=> x \in D /\ x # Null
      BY <2>3, <2>4, Zenon DEF Dirs
    <2>6. DOMAIN spaces = D \ {Null}
      BY <2>5, Zenon
    <2>7. Accounts("kernel", KernelOwned) /\ Accounts("user", UserOwned)
      BY <1>1, OwnedKernel, OwnedUser, Zenon
    <2> QED BY <2>2, <2>6, <2>7, Zenon DEF PagesAccounted
  <1> QED BY <1>1, Invariance, PTL

=============================================================================
