----------------------------- MODULE MCOpenFiles -----------------------------
(* OpenFiles for TLC: the processes are alike. *)
EXTENDS OpenFiles, TLC

CONSTANTS p1, p2

MCProcs  == {p1, p2}
Symmetry == Permutations(MCProcs)
==============================================================================
