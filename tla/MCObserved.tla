----------------------------- MODULE MCObserved -----------------------------
(* Observed for TLC. *)
EXTENDS Observed, TLC

Symmetry == Permutations(Requests) \cup Permutations(States)
=============================================================================
