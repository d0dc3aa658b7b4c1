------------------------------- MODULE Forest -------------------------------
(***************************************************************************)
(* What the containment tree promises its callers, with no closure table,  *)
(* no versions and no requests: assets hang from parents, and "what is     *)
(* inside what" is always the walk up those parents.  CreateAsset adds a   *)
(* leaf; ReparentAsset moves an asset with everything inside it, and never *)
(* into itself; nothing else changes where anything is.                    *)
(***************************************************************************)
EXTENDS Naturals, FiniteSets

CONSTANTS Assets, Null

VARIABLES nodes,    \* assets there are
          up,       \* [Assets -> parent or Null]
          inside    \* pairs <<a, b>>: b is a, or is somewhere inside a

vars == <<nodes, up, inside>>

(* b and everything it is inside of, found by walking the parents. *)
Walk(parents, b) ==
  LET step[d \in 0..Cardinality(Assets)] ==
        IF d = 0 THEN {b}
        ELSE step[d - 1] \cup ({parents[c] : c \in step[d - 1]} \ {Null})
  IN step[Cardinality(Assets)]

Containment(present, parents) == UNION {Walk(parents, b) \X {b} : b \in present}

Init ==
  /\ nodes = {}
  /\ up = [a \in Assets |-> Null]
  /\ inside = {}

Add(a, p) ==
  /\ a \notin nodes /\ p \in nodes \cup {Null}
  /\ nodes' = nodes \cup {a}
  /\ up' = [up EXCEPT ![a] = p]
  /\ inside' = Containment(nodes', up')

Move(a, p) ==
  /\ a \in nodes /\ p \in nodes \cup {Null}
  /\ p = Null \/ a \notin Walk(up, p)
  /\ nodes' = nodes
  /\ up' = [up EXCEPT ![a] = p]
  /\ inside' = Containment(nodes, up')

Next == \E a \in Assets, p \in Assets \cup {Null} : Add(a, p) \/ Move(a, p)

Spec == Init /\ [][Next]_vars
=============================================================================
