----------------------------- MODULE MCThreads -----------------------------
(***************************************************************************)
(* Instances of Threads for TLC.                                           *)
(***************************************************************************)
EXTENDS Threads, TLC

CONSTANTS main, idle, a, b, boot, s1

MCThreadSmall == {main, idle, a}
MCThread == {main, idle, a, b}

\* The pages other than the two fixed ones are interchangeable.
Symmetry == Permutations({a, b})
=============================================================================
