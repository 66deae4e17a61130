----------------------------- MODULE MCFileSys -----------------------------
(* Sectors of 2 cells.  The free map takes 3 cells in 2 sectors, one whole *)
(* and one partial; 4 sectors are left for files.                          *)
EXTENDS FileSys

MCData == {<<1>>, <<1, 1, 1>>}

\* Names and handles are only compared.
Symmetry == Permutations(ValidName) \cup Permutations(Handle)

=============================================================================
