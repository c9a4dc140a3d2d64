----------------------------- MODULE MCRenderer -----------------------------
(* Entities and camera positions are interchangeable.                      *)
EXTENDS Renderer, TLC

Symmetry == Permutations(Entity) \cup Permutations(Camera)
=============================================================================
