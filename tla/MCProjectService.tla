------------------------- MODULE MCProjectService -------------------------
(* Projects and calls in flight are interchangeable.                     *)
EXTENDS ProjectService, TLC

Symmetry == Permutations(Paths) \cup Permutations(Tasks)
===========================================================================
