------------------------------- MODULE MCIde -------------------------------
(* A channel with two disks of one sector, slow and faulty or with an       *)
(* interrupt too many.                                                      *)
EXTENDS Ide

SomeFaults == {[faulty |-> TRUE, slow |-> TRUE, max |-> 0, spurious |-> 0],
               [faulty |-> TRUE, slow |-> FALSE, max |-> 1, spurious |-> 0]}
=============================================================================
