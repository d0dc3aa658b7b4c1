------------------------------- MODULE Power -------------------------------
(***************************************************************************)
(* The power chain of the estate of Reach (internal/store/power_findings.go *)
(* and power_sources.go): inputs of assets, feeds, panels and supplies.     *)
(* Two reports are computed from it, by two walks in opposite directions:  *)
(* what an asset's inputs share, going up, and what a failure takes, going *)
(* down; the second one is what a simulation is started with.              *)
(***************************************************************************)
EXTENDS Reach

CONSTANT SupplyDepthLimit  \* supplyDepthLimit (32 in the code)

NotRetired(rows) == {x \in rows : x.life # "retired"}
Row(rows, id) == CHOOSE x \in rows : x.id = id

Ids(rows) == {x.id : x \in rows}

(* What the tables guarantee: keys are unique and no two tables share one,   *)
(* an input names a feed and a feed a panel, and a chain of supplies ends    *)
(* (requireNoSupplyCycle) before the walks do: supplyDepthLimit is there for *)
(* a chain no estate has.                                                    *)
PowerTables(e) ==
  /\ IsFiniteSet(e.input)
  /\ \A rows \in {e.source, e.panel, e.feed} : \A x, y \in rows : x.id = y.id => x = y
  /\ Ids(e.source) \cap Ids(e.panel) = {}
  /\ (Ids(e.source) \cup Ids(e.panel)) \cap Ids(e.feed) = {}
  /\ None \notin Ids(e.source) \cup Ids(e.panel) \cup Ids(e.feed)
  /\ \A i \in e.input : i.feed \in Ids(e.feed)
  /\ \A f \in e.feed : f.panel \in Ids(e.panel)
  /\ \E height \in [Ids(NotRetired(e.source)) -> 1..SupplyDepthLimit] :
       \A s, p \in NotRetired(e.source) : s.parent = p.id => height[s.id] < height[p.id]

ASSUME ChainsAssumption ==
  SupplyDepthLimit \in Nat /\ \A e \in Topologies : PowerTables(e)

Supplies == NotRetired(t.source)
PanelOf(i) == Row(t.panel, Row(t.feed, i.feed).panel)

(* The inputs of an asset that is there, whatever they draw from ... *)
Inputs == {i \in NotRetired(t.input) : t.life[i.asset] # "retired"}

(* ... and the chain that PowerFindings traces *)
PowerLinks == {i \in Inputs : Row(t.feed, i.feed).life # "retired" /\ PanelOf(i).life # "retired"}

(* supplyPath: feed, panel, supplies, up to the first that is not there *)
SupplyPath(i) ==
  LET climb[n \in 0..SupplyDepthLimit] ==
        IF n = 0 THEN [path |-> <<i.feed, PanelOf(i).id>>, cur |-> PanelOf(i).source]
        ELSE LET below == climb[n - 1] IN
             IF below.cur \notin Ids(Supplies) THEN below
             ELSE [path |-> Append(below.path, below.cur), cur |-> Row(t.source, below.cur).parent]
  IN climb[SupplyDepthLimit].path

(* lowestSharedAncestor: the first node of one input's path on all of them   *)
SharedAncestor(inputs) ==
  LET path == SupplyPath(CHOOSE i \in inputs : TRUE)
      shared == {n \in DOMAIN path : \A i \in inputs : path[n] \in Range(SupplyPath(i))}
  IN IF shared = {} THEN None ELSE path[Min(shared)]

(* SharingIsAFault: a supply that dies at once with everything below it *)
SharingIsAFault(kind) == kind \in {"ups", "transfer_switch"}

(* PowerFindings, for one asset: what it shares and how bad that is.         *)
PowerFinding(a) ==
  LET inputs == {i \in PowerLinks : i.asset = a}
      shared == SharedAncestor(inputs)
      carries == \E i \in t.instance : a \in Range(t.up[i.host])
  IN IF Cardinality(inputs) >= 2 /\ shared # None
       THEN {[kind |-> "false_redundancy", node |-> shared,
              fault |-> \A s \in Supplies : s.id = shared => SharingIsAFault(s.kind)]}
     ELSE IF Cardinality(inputs) = 1 /\ carries
       THEN {[kind |-> "single_fed", node |-> i.feed, fault |-> TRUE] : i \in inputs}
     ELSE {}

(* Mutant: an asset is down when it loses one of its inputs. *)
AssetsLosingOneInput(feeds) == {i.asset : i \in {j \in Inputs : j.feed \in feeds}}

(* AssetsLosingPower: those that lose every input they have. *)
AssetsLosingPower(feeds) ==
  {i.asset : i \in {j \in Inputs : \A k \in Inputs : k.asset = j.asset => k.feed \in feeds}}

(* AssetsLosingSupply: the supplies below, level by level, and their feeds. *)
AssetsLosingSupply(sources) ==
  LET fed[n \in 0..SupplyDepthLimit] ==
        IF n = 0 THEN sources
        ELSE LET above == fed[n - 1] IN above \cup Ids({s \in Supplies : s.parent \in above})
      failed == fed[SupplyDepthLimit]
      lost == {f \in NotRetired(t.feed) : /\ Row(t.panel, f.panel).life # "retired"
                                          /\ Row(t.panel, f.panel).source \in failed}
  IN AssetsLosingPower(Ids(lost))

----------------------------------------------------------------------------
(* The pages of a supply and of a feed start a simulation with what they take. *)
Takes(assets) ==
  /\ Cardinality(gone) < MaxNamed /\ ~(assets \subseteq gone)
  /\ gone' = gone \cup assets
  /\ UNCHANGED <<t, cut>>

LoseSupply == \E s \in Supplies : Takes(AssetsLosingSupply({s.id}))
LoseFeed == \E f \in NotRetired(t.feed) : Takes(AssetsLosingPower({f.id}))

PowerNext == ReachNext \/ LoseSupply \/ LoseFeed
PowerSpec == ReachInit /\ [][PowerNext]_reachVars

----------------------------------------------------------------------------
(* What the failure of one node takes. *)
TakenBy(node) ==
  IF node \in Ids(Supplies) THEN AssetsLosingSupply({node})
  ELSE AssetsLosingPower(Ids({f \in NotRetired(t.feed) : node \in {f.id, f.panel}}))

(* The two reports tell one story.  An asset whose inputs are said to         *)
(* converge on a node (PowerFindings) goes down when that node fails          *)
(* (AssetsLosingPower, AssetsLosingSupply) and not when one that is lower on  *)
(* its way fails; an asset with several inputs that one supply or feed takes  *)
(* down has a finding.  AssetsLosingPower counts an input whose feed or panel *)
(* is retired and PowerFindings does not: assets with such an input are left  *)
(* out.                                                                       *)
PowerTellsOneStory ==
  gone = {} /\ cut = {} =>
    \A a \in {i.asset : i \in Inputs} :
      (\A i \in Inputs : i.asset = a => i \in PowerLinks) =>
        /\ \A f \in PowerFinding(a) :
             /\ a \in TakenBy(f.node)
             /\ \A i \in {j \in PowerLinks : j.asset = a} : LET path == SupplyPath(i) IN
                  \A n, k \in DOMAIN path : n < k /\ path[k] = f.node => a \notin TakenBy(path[n])
        /\ \A node \in Ids(NotRetired(t.feed)) \cup Ids(Supplies) :
             a \in TakenBy(node) /\ Cardinality({i \in Inputs : i.asset = a}) > 1 =>
               PowerFinding(a) # {}
=============================================================================
