------------------------------ MODULE MCPalloc ------------------------------
(* A pool of a few pages, used by a few threads. *)
EXTENDS Palloc

CONSTANTS a, b, c

MCThread == {a, b, c}

=============================================================================
