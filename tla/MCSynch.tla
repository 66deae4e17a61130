------------------------------ MODULE MCSynch ------------------------------
(* Threads a, b, c; one monitor lock with one condition variable, tid_lock. *)
EXTENDS Synch

CONSTANTS a, b, c, l, tl, v

MCThread == {a, b, c}
MCSema == {a, b, c, l, tl}
MCLockOf == [x \in {v} |-> l]

=============================================================================
