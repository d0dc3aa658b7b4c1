--------------------------- MODULE MCContainment ---------------------------
(* Containment for TLC: its symmetry. *)
EXTENDS Containment, TLC

Symmetry == Permutations(Assets) \cup Permutations(Names) \cup Permutations(Requests)
=============================================================================
