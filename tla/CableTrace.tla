----------------------------- MODULE CableTrace -----------------------------
(***************************************************************************)
(* The tracer of internal/store/cabling.go (loadPlant, trace, expand) on   *)
(* the cables and strands of Cabling, and what its answers promise.  A     *)
(* node of the tree is the path of ports that leads to it and the outcome  *)
(* of a leaf ("" inside); the budget is threaded through the walk.         *)
(***************************************************************************)
EXTENDS Cabling, SequencesExt

CONSTANTS HopLimit,   \* traceHopLimit (64 in the code)
          NodeBudget  \* traceNodeBudget (512 in the code)

----------------------------------------------------------------------------
(* plant: where the cable of a port leads (0: none), the far sides of its     *)
(* strands in the order of position, and the ports that are known.  A port    *)
(* with several cables keeps the one whose row is read last, and the query    *)
(* has no order.                                                              *)
Far(l, p) == IF p = l.a THEN l.b ELSE l.a

StrandsInOrder(p) ==
  LET before(t, u) == t.position < u.position \/ (t.position = u.position /\ t.front < u.front)
  IN [i \in 1..Cardinality(Strands(p)) |->
        LET t == SetToSortSeq(Strands(p), before)[i] IN IF p = t.front THEN t.rear ELSE t.front]

loadPlant ==
  LET shared == {p \in Ports : Cardinality(Cables(p)) > 1}
      last == {f \in [shared -> links] : \A p \in shared : f[p] \in Cables(p)}
      cable(f) == [p \in Ports |-> IF Cables(p) = {} THEN 0
                                   ELSE IF p \in shared THEN Far(f[p], p)
                                   ELSE Far(CHOOSE l \in links : l \in Cables(p), p)]
      through == [p \in Ports |-> StrandsInOrder(p)]
      iface == {p \in Ports : asset[AssetOf[p]].life # "retired"}
  IN {[cable |-> cable(f), through |-> through, iface |-> iface] : f \in last}

(* A node that is a leaf, with the budget as it is. *)
Leaf(path, outcome, left) == [nodes |-> {[path |-> path, outcome |-> outcome]}, left |-> left]

RECURSIVE expand(_, _, _)

(* The children that are followed, one after the other. *)
Follow(plant, path, others, start) ==
  FoldLeft(LAMBDA done, other :
             LET sub == IF other \in plant.iface
                          THEN expand(plant, Append(path, other), done.left)
                          ELSE Leaf(Append(path, other), "unknown", done.left)
             IN [nodes |-> done.nodes \cup sub.nodes, left |-> sub.left],
           start, others)

(* Mutant: strands that lead back are filtered out unless nothing is left. *)
StrandLoopsDropped(path, on) ==
  IF \A i \in 1..Len(on) : on[i] \in ToSet(path) THEN on ELSE <<>>

(* The strands of a port that lead back onto the path. *)
StrandLoops(path, on) == SelectSeq(on, LAMBDA other : other \in ToSet(path))

(* The port a branch came from (0: it is at its start). *)
Previous(path) == IF Len(path) > 1 THEN path[Len(path) - 1] ELSE 0

expand(plant, path, left) ==
  LET current == Last(path)
      previous == Previous(path)
      far == plant.cable[current]
      on == SelectSeq(plant.through[current], LAMBDA other : other # previous)
      loops == StrandLoops(path, on)
      rest == SelectSeq(on, LAMBDA other : other \notin ToSet(path))
      inside == [path |-> path, outcome |-> ""]
  IN IF Len(path) - 1 >= HopLimit THEN Leaf(path, "hop_limit", left)
     ELSE IF left <= 0 THEN Leaf(path, "node_budget", left)
     ELSE IF far # 0 /\ far \notin ToSet(path)
       THEN IF far \in plant.iface
              THEN Follow(plant, path, <<far>>, [nodes |-> {inside}, left |-> left - 1])
              ELSE Leaf(path, "unknown", left)
     ELSE IF Len(loops) + Len(rest) > 0
       THEN Follow(plant, path, rest,
              [nodes |-> {inside} \cup {[path |-> Append(path, loops[i]), outcome |-> "looped"] :
                                          i \in 1..Len(loops)},
               left |-> left - Len(loops) - Len(rest)])
     ELSE Leaf(path, IF far # 0 /\ far # previous THEN "looped"
                     ELSE IF Len(path) = 1 THEN "unpatched"
                     ELSE "complete", left)

trace(plant, start) == expand(plant, <<start>>, NodeBudget - 1)

Leaves(t) == {n \in t.nodes : n.outcome # ""}
Stopped(t) == \E n \in t.nodes : n.outcome \in {"hop_limit", "node_budget"}
----------------------------------------------------------------------------
(* What the traces of the plant as it is promise; requests are at rest, which *)
(* leaves out no plant.                                                       *)
AtRest == \A r \in Requests : req[r] = Idle

EveryTrace(P(_, _, _)) ==
  AtRest => \A plant \in loadPlant : \A p \in plant.iface : P(plant, p, trace(plant, p))

(* The reference, level by level: a run leaves a port by its cable, unless it *)
(* has been there, and else by every strand but the one it came by; where it  *)
(* meets itself or a port that is not known it ends.                          *)
Onward(plant, w) ==
  LET far == plant.cable[Last(w)]
  IN IF ~IsInjective(w) \/ Last(w) \notin plant.iface THEN {}
     ELSE IF far # 0 /\ far \notin ToSet(w) THEN {far} \cap plant.iface
     ELSE ToSet(plant.through[Last(w)]) \ {Previous(w)}

Runs(plant, start) ==
  LET level[n \in 0..Cardinality(Ports)] ==
        IF n = 0 THEN {<<start>>}
        ELSE UNION {{Append(w, x) : x \in Onward(plant, w)} : w \in level[n - 1]}
  IN UNION {level[n] : n \in 0..Cardinality(Ports)}

(* A trace that no limit stopped holds every run there is and no other:       *)
(* strands that converge on one panel are all followed (visited is per        *)
(* branch), none is dropped because a sibling loops, and a strand that leads  *)
(* back onto the path is there, and said to loop (cabling.go:390-457).        *)
TraceIsExact ==
  EveryTrace(LAMBDA plant, p, t : ~Stopped(t) =>
    /\ {n.path : n \in t.nodes} = Runs(plant, p)
    /\ \A n \in t.nodes : ~IsInjective(n.path) => n.outcome = "looped")

(* Where nothing breaks out, a run reads the same from both ends: it does not *)
(* loop, and traced from its far end it leads back to where it started; the   *)
(* cable or strand by which it came is neither a continuation nor a loop      *)
(* (cabling.go:331-336).                                                      *)
OneToOne(plant) == \A p \in Ports : Cardinality(Cables(p)) <= 1 /\ Len(plant.through[p]) <= 1
IsEnd(plant, p) == plant.cable[p] = 0 \/ plant.through[p] = <<>>
RunsBothWays ==
  EveryTrace(LAMBDA plant, p, t : OneToOne(plant) /\ IsEnd(plant, p) =>
    \A n \in Leaves(t) :
      /\ n.outcome # "looped"
      /\ n.outcome = "complete" =>
           \E m \in Leaves(trace(plant, Last(n.path))) :
             m.outcome = "complete" /\ Last(m.path) = p)

(* The tree is bounded by the budget plus the fan-out of the one node that    *)
(* crossed zero (cabling.go:120-129), whatever the plant.                     *)
TraceIsBounded ==
  EveryTrace(LAMBDA plant, p, t :
    \E q \in Ports : t.left >= 0 - Len(plant.through[q]))

(* What TracePath shows of a plant is all of it that the limits allow, the    *)
(* same from either end, and no more than the budget (plant.trace, expand).   *)
TraceIsTrue == TraceIsExact /\ RunsBothWays /\ TraceIsBounded

(* A trace shows every cable of the port it starts from, each strand of a     *)
(* breakout cable among them (cabling.go:243).                                *)
TraceShowsEveryCable ==
  EveryTrace(LAMBDA plant, p, t :
    \A l \in Cables(p) : Far(l, p) \in plant.iface =>
      \E n \in t.nodes : n.path = <<p, Far(l, p)>>)
=============================================================================
