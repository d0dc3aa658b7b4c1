----------------------------- MODULE MCCabling -----------------------------
(***************************************************************************)
(* TLC instance of Cabling and CableTrace.  Ports: 1 of a switch; the      *)
(* front ports 2, 3 and the rear port 4 of panel a; the front ports 5, 6,  *)
(* 9 and the rear port 7 of panel b; 8 of a core router.                   *)
(***************************************************************************)
EXTENDS CableTrace

MCAssetOf == <<"switch", "a", "a", "a", "b", "b", "b", "core", "b">>

Cable(n, x, y, g) == [id |-> n, a |-> x, b |-> y, brk |-> g]
Strand(n, f, r, k) == [id |-> n, front |-> f, rear |-> r, position |-> k]

(* Nothing is patched. *)
EmptyPlant == {[links |-> {}, strands |-> {}]}

MCPlants ==
  EmptyPlant \cup
  {
    \* two strands of one trunk converge on a second panel
    [links |-> {Cable(1, 1, 4, 0), Cable(2, 2, 5, 0), Cable(3, 3, 6, 0), Cable(4, 7, 8, 0)},
     strands |-> {Strand(5, 2, 4, 1), Strand(6, 3, 4, 2), Strand(7, 5, 7, 1), Strand(8, 6, 7, 2)}],
    \* a cable from one front port to the other: the strands loop
    [links |-> {Cable(1, 2, 3, 0), Cable(2, 4, 7, 0)},
     strands |-> {Strand(3, 2, 4, 1), Strand(4, 3, 4, 2), Strand(5, 9, 7, 1)}],
    \* a breakout cable lands on two panels
    [links |-> {Cable(1, 1, 4, 1), Cable(2, 1, 7, 1), Cable(3, 2, 8, 0)},
     strands |-> {Strand(4, 2, 4, 1), Strand(5, 5, 7, 2)}] }

MCSymmetry == Permutations(Requests) \cup Permutations(Media)
=============================================================================
