------------------------------ MODULE Console ------------------------------
(***************************************************************************)
(* lib/kernel/console.c: calls that print from several threads, from       *)
(* interrupt handlers and after a panic, with the console lock that a      *)
(* thread may take again while it has it.  What a call prints is a number  *)
(* of characters; nest is how many calls of a thread are under way, one    *)
(* inside the other (a debug message printed by a function that printing   *)
(* itself uses).  A handler prints without the lock, between any two       *)
(* characters of a thread, and leaves nothing behind in this state.        *)
(***************************************************************************)
EXTENDS Integers, FiniteSets

CONSTANTS Printer, MaxNest, MaxPrinted, MaxCallsEach, NoPrinter

ASSUME ConsoleAssumption ==
  /\ NoPrinter \notin Printer
  /\ MaxNest \in Nat /\ MaxPrinted \in Nat /\ MaxCallsEach \in Nat

VARIABLES
  use_console_lock,
  console_holder,      \* console_lock
  console_lock_depth,
  calls,               \* of each thread: its nested calls and where it is
  panicker             \* who is in debug_panic, if anyone

consoleVars == <<use_console_lock, console_holder, console_lock_depth, calls, panicker>>

InitConsole ==
  /\ use_console_lock = TRUE
  /\ console_holder = NoPrinter
  /\ console_lock_depth = 0
  /\ calls = [t \in Printer |-> [pc |-> "idle", nest |-> 0, printed |-> 0, left |-> MaxCallsEach]]
  /\ panicker = NoPrinter

\* After a panic interrupts are off: only the thread that panicked goes on.
Runs(t) == panicker \in {NoPrinter, t}
held_by(t) == console_holder = t

\* A thread calls vprintf, puts, putbuf or putchar, perhaps from inside one.
PrintCall(t) ==
  /\ Runs(t)
  /\ calls[t].pc # "acquire" /\ calls[t].nest < MaxNest /\ calls[t].left > 0
  /\ calls' = [calls EXCEPT ![t].pc = "acquire", ![t].nest = @ + 1, ![t].left = @ - 1]
  /\ UNCHANGED <<use_console_lock, console_holder, console_lock_depth, panicker>>

\* Mutant: the lock is acquired without asking who holds it.
acquire_console_Always(t) ==
  /\ Runs(t) /\ calls[t].pc = "acquire"
  /\ IF ~use_console_lock THEN UNCHANGED <<console_holder, console_lock_depth>>
     ELSE /\ console_holder = NoPrinter
          /\ console_holder' = t
          /\ UNCHANGED console_lock_depth
  /\ calls' = [calls EXCEPT ![t].pc = "print"]
  /\ UNCHANGED <<use_console_lock, panicker>>

\* The test and the call of lock_acquire need not be one step: no other thread
\* can make this thread the holder or take the lock from it.
acquire_console(t) ==
  /\ Runs(t) /\ calls[t].pc = "acquire"
  /\ IF ~use_console_lock THEN UNCHANGED <<console_holder, console_lock_depth>>
     ELSE IF held_by(t)
       THEN /\ console_lock_depth' = console_lock_depth + 1
            /\ UNCHANGED console_holder
     ELSE /\ console_holder = NoPrinter
          /\ console_holder' = t
          /\ UNCHANGED console_lock_depth
  /\ calls' = [calls EXCEPT ![t].pc = "print"]
  /\ UNCHANGED <<use_console_lock, panicker>>

console_locked_by(t) == ~use_console_lock \/ held_by(t)

\* putchar_have_lock; its assertion is part of NoMixedOutput.
putchar_have_lock(t) ==
  /\ Runs(t) /\ calls[t].pc = "print" /\ calls[t].printed < MaxPrinted
  /\ calls' = [calls EXCEPT ![t].printed = @ + 1]
  /\ UNCHANGED <<use_console_lock, console_holder, console_lock_depth, panicker>>

Returned(t) ==
  calls' = [calls EXCEPT ![t] =
              [pc |-> IF @.nest = 1 THEN "idle" ELSE "print", nest |-> @.nest - 1,
               printed |-> IF @.nest = 1 THEN 0 ELSE @.printed, left |-> @.left]]

\* Mutant: the end of an inner call gives the lock back.
release_console_Inner(t) ==
  /\ Runs(t) /\ calls[t].pc = "print"
  /\ IF ~use_console_lock THEN UNCHANGED <<console_holder, console_lock_depth>>
     ELSE /\ console_holder' = NoPrinter
          /\ UNCHANGED console_lock_depth
  /\ Returned(t)
  /\ UNCHANGED <<use_console_lock, panicker>>

release_console(t) ==
  /\ Runs(t) /\ calls[t].pc = "print"
  /\ IF ~use_console_lock THEN UNCHANGED <<console_holder, console_lock_depth>>
     ELSE IF console_lock_depth > 0
       THEN /\ console_lock_depth' = console_lock_depth - 1
            /\ UNCHANGED console_holder
       ELSE /\ console_holder' = NoPrinter
            /\ UNCHANGED console_lock_depth
  /\ Returned(t)
  /\ UNCHANGED <<use_console_lock, panicker>>

\* debug_panic of a running thread, wherever it is: console_panic, and the call
\* that prints the message; the calls it was in never return.
console_panic(t) ==
  /\ panicker = NoPrinter /\ calls[t].pc # "acquire"
  /\ panicker' = t
  /\ use_console_lock' = FALSE
  /\ calls' = [calls EXCEPT ![t].pc = "acquire", ![t].nest = 1, ![t].printed = 0]
  /\ UNCHANGED <<console_holder, console_lock_depth>>

ConsoleStep(t) == acquire_console(t) \/ release_console(t)
NextConsole ==
  \E t \in Printer : PrintCall(t) \/ ConsoleStep(t) \/ putchar_have_lock(t) \/ console_panic(t)

-----------------------------------------------------------------------------
\* What two threads print is never mixed: while one has printed part of a call
\* no other has, however calls are nested; the lock and its depth tell exactly
\* how deep the holder is in calls, so it is free again when the last one ends;
\* and whoever prints satisfies the assertion of putchar_have_lock.
NoMixedOutput ==
  use_console_lock =>
    /\ \A t, u \in Printer :
          calls[t].printed > 0 /\ calls[u].printed > 0 => t = u
    /\ \A t \in Printer : calls[t].pc = "print" => console_locked_by(t)
    /\ IF console_holder = NoPrinter THEN console_lock_depth = 0
       ELSE LET c == calls[console_holder]
            IN  console_lock_depth = c.nest - (IF c.pc = "acquire" THEN 2 ELSE 1)

\* Every call that is to print gets to, nested or not, and the message of a panic is
\* printed whoever held the lock; after a panic only its own thread matters.
PrintsFinish ==
  \A t \in Printer : calls[t].pc = "acquire" ~>
                       calls[t].pc = "print" \/ panicker \notin {NoPrinter, t}
=============================================================================
