------------------------------ MODULE MCMalloc ------------------------------
(* Pages of 20 bytes with a header of 9: arenas of 3 x 3 and 1 x 6 bytes. *)
EXTENDS Malloc

MCSizes == {3, 5, 15}
MCProducts == {<<1, 3>>}

=============================================================================
