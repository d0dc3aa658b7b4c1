------------------------------- MODULE Impact -------------------------------
(***************************************************************************)
(* The outage simulation (internal/impact/engine.go): cluster HA, the      *)
(* capacity phase and the propagation of statuses along dependencies and   *)
(* through routes, for one estate and an outage that grows between         *)
(* analyses.                                                               *)
(*                                                                         *)
(* Statuses are their ranks.  What the network leaves of a dependency or   *)
(* of a pool member is found again by every analysis, from the hosts that  *)
(* the outage leaves alive; module Reach has that computation, here it is  *)
(* any of Networks.  An endpoint is its service; a pool is the set of its  *)
(* members, because its verdict only asks whether all or some of them      *)
(* serve.  An instance stands for the guest it runs on; host says which    *)
(* cluster member the guest is inside.                                     *)
(***************************************************************************)
EXTENDS Availability, Sequences

CONSTANTS Routes, Instances, Hosts,
          Estates,        \* the estates that may be analysed
          Networks,       \* what the reach model may say of an outage
          MaxIterations   \* maxIterations

Natures == {"hard", "soft", "startup", "async", "optional"}
Reach == {"ok", "degraded", "down"}

(* outlasted: the window is longer than tolerance_seconds.  A consumer or a  *)
(* provider that is not in the graph is None.                                *)
Dependency ==
  [consumer : Services \cup {None}, provider : Services \cup Routes \cup {None},
   nature : Natures, outlasted : BOOLEAN, reach : Reach]
Route == [frontend : Services \cup {None}, members : SUBSET [service : Services, reach : Reach]]
Instance ==
  [service : Services, role : {"primary", "standby", "replica"},
   shard : Nat \cup {None}, disabled : BOOLEAN, host : Hosts \cup {None}]
Cluster == [members : SUBSET Hosts, restart : BOOLEAN, min : Nat]
Estate ==
  [deps : Seq(Dependency), routes : [Routes -> Route],
   policy : [Services -> Policy], instance : [Instances -> Instance],
   clusters : SUBSET Cluster]

(* reachOfDep by the dependency's place, routeMemberReach by the services of *)
(* the pool, whose endpoints may fare differently.                           *)
Network == [dep : Seq(Reach), member : [Routes -> [Services -> (SUBSET Reach) \ {{}}]]]

ASSUME NetworksAssumption == Networks \subseteq Network
ASSUME EstatesAssumption == Estates \subseteq Estate
ASSUME NamesAssumption == Services \cap Routes = {} /\ None \notin Services \cup Routes
ASSUME IterationsAssumption == MaxIterations \in Nat \ {0}
ASSUME FinitenessAssumption == IsFiniteSet(Services) /\ IsFiniteSet(Instances) /\ IsFiniteSet(Hosts)

VARIABLES g,            \* the estate, with the network as last found
          named,        \* guests the outage names
          failed,       \* hosts the outage names
          pc,           \* "idle" between analyses, "round" inside one
          statuses,
          via,          \* the provider that last worsened a service
          wontRestart,  \* the first unmet startup dependency
          routeStatus,  \* routes as this round sees them
          next,         \* the dependency the round is at
          changed,
          round,        \* 0 until this outage has been analysed
          answered,     \* the answer before this one
          eased         \* the network has since got better somewhere

vars == <<g, named, failed, pc, statuses, via, wontRestart, routeStatus, next, changed, round, answered,
          eased>>

Fault == [via : Services \cup Routes, net : BOOLEAN]

ASSUME NoneAssumption == None \notin Fault

TypeOK ==
  /\ g \in Estate
  /\ named \subseteq Instances /\ failed \subseteq Hosts
  /\ pc \in {"idle", "round"}
  /\ statuses \in [Services -> Statuses] /\ answered \in [Services -> Statuses]
  /\ via \in [Services -> Services \cup Routes \cup {None}]
  /\ wontRestart \in [Services -> Fault \cup {None}]
  /\ routeStatus \in [Routes -> [status : Statuses, bare : Statuses]]
  /\ next \in 1..(Len(g.deps) + 1)
  /\ changed \in BOOLEAN
  /\ round \in 0..MaxIterations
  /\ eased \in BOOLEAN

----------------------------------------------------------------------------
(* Phase 1: the outage, expanded by containment, less what HA restarts. *)

Inside(i) == g.instance[i].host \in failed
Condemned == named \cup {i \in Instances : Inside(i)}

(* Mutant: the members counted against the floor are the failed ones. *)
CanRelocateFailed(c) ==
  c.restart /\ Cardinality(c.members \cap failed) >= (IF c.min > 1 THEN c.min ELSE 1)

(* CanRelocate, of the members that are left *)
CanRelocate(c) ==
  c.restart /\ Cardinality(c.members \ failed) >= (IF c.min > 1 THEN c.min ELSE 1)

(* applyClusterHA: every guest inside a failed member of a cluster that can  *)
(* carry it, whatever else condemned the guest.                              *)
Revived ==
  {i \in Instances : Inside(i) /\ \E c \in g.clusters : g.instance[i].host \in c.members /\ CanRelocate(c)}

(* in.DownInstanceIDs as Analyse rebuilds it. *)
DownInstances == Condemned \ Revived

----------------------------------------------------------------------------
(* Phase 2: what a service's own instances make of it. *)

Of(s) == {i \in Instances : g.instance[i].service = s /\ ~g.instance[i].disabled}

(* A shard nobody named is the instance's role. *)
ShardOf(i) == IF g.instance[i].shard = None THEN g.instance[i].role ELSE g.instance[i].shard

(* InstanceHealth *)
Health(instances) ==
  {[id |-> i, role |-> g.instance[i].role, shard |-> ShardOf(i)] : i \in instances}

(* phaseCapacity *)
Capacity == [s \in Services |-> Evaluate(g.policy[s], Health(Of(s)), Health(Of(s) \ DownInstances))]

----------------------------------------------------------------------------
(* computeDepReach, computeRouteMemberReach: the estate with what network n  *)
(* leaves of its dependencies and its pool members.  A dependency nothing is *)
(* known of is as good as reachable.                                         *)
UnderNetwork(e, n) ==
  [e EXCEPT
     !.deps = [i \in DOMAIN e.deps |->
       [e.deps[i] EXCEPT !.reach = IF i \in DOMAIN n.dep THEN n.dep[i] ELSE "ok"]],
     !.routes = [r \in Routes |->
       [e.routes[r] EXCEPT !.members =
         UNION {{[service |-> m.service, reach |-> x] : x \in n.member[r][m.service]} : m \in e.routes[r].members}]]]

(* Reach b is no better than a was. *)
NoBetter(a, b) == a = "ok" \/ a = b \/ b = "down"
Follows(m, n) == m.service = n.service /\ NoBetter(m.reach, n.reach)

(* Nothing fares better in the network of f than in that of e. *)
NetworkNoBetter(e, f) ==
  /\ \A i \in DOMAIN e.deps : NoBetter(e.deps[i].reach, f.deps[i].reach)
  /\ \A r \in Routes :
       /\ \A m \in e.routes[r].members : \E n \in f.routes[r].members : Follows(m, n)
       /\ \A n \in f.routes[r].members : \E m \in e.routes[r].members : Follows(m, n)

----------------------------------------------------------------------------
(* Phase 3: routes and dependencies. *)

(* Seam 2: what the network leaves of a provider's status *)
Downgrade(status, reach) ==
  CASE reach = "down"     -> Down
    [] reach = "degraded" -> Worse(status, Degraded)
    [] reach = "ok"       -> status

(* tallyMember, poolVerdict; an empty pool says nothing *)
PoolVerdict(members) ==
  IF \A m \in members : m = OK THEN OK
  ELSE IF \A m \in members : m = Down THEN Down
  ELSE Degraded

(* routeStatuses, for one route *)
RouteHealth(r, st) ==
  LET front == IF r.frontend = None THEN OK ELSE st[r.frontend] IN
  [status |-> Worse(front, PoolVerdict({Downgrade(st[m.service], m.reach) : m \in r.members})),
   bare   |-> Worse(front, PoolVerdict({st[m.service] : m \in r.members}))]

RouteStatuses(st) == [r \in Routes |-> RouteHealth(g.routes[r], st)]

(* Mutant: route health is not derived again from the last round's statuses. *)
NextRoundStale(st) == routeStatus

(* "Provider health is recomputed each round" *)
NextRound(st) == RouteStatuses(st)

(* providerHealth, as it is with no network effect and as the consumer sees it *)
Own(d, st, rs) == IF d.provider \in Routes THEN rs[d.provider].bare ELSE st[d.provider]
Seen(d, st, rs) ==
  Downgrade(IF d.provider \in Routes THEN rs[d.provider].status ELSE st[d.provider], d.reach)

(* Dependency.Propagate: the status to merge into the consumer *)
Propagate(d, provider) ==
  CASE d.nature = "hard" -> provider
    [] d.nature = "soft" -> IF provider = Down THEN Degraded ELSE OK
    [] d.nature = "async" -> IF provider = Down /\ d.outlasted THEN Degraded ELSE OK
    [] OTHER -> OK

(* Propagation.WontRestart *)
Unmet(d, seen, own) == d.nature = "startup" /\ seen = Down

Skipped(d) == d.consumer = None \/ d.provider = None

----------------------------------------------------------------------------
Nobody == [s \in Services |-> None]

Init ==
  /\ g \in Estates
  /\ named = {} /\ failed = {} /\ pc = "idle"
  /\ statuses = [s \in Services |-> OK] /\ answered = statuses
  /\ via = Nobody /\ wontRestart = Nobody
  /\ routeStatus = RouteStatuses(statuses)
  /\ next = 1 /\ changed = FALSE /\ round = 0 /\ eased = FALSE

(* The outage grows: one more guest is named, or one more host *)
(* that has guests.                                                         *)
Lose(i) ==
  /\ pc = "idle" /\ i \notin named
  /\ named' = named \cup {i}
  /\ round' = 0
  /\ UNCHANGED <<g, failed, pc, statuses, via, wontRestart, routeStatus, next, changed, answered, eased>>

LoseHost(h) ==
  /\ pc = "idle" /\ h \notin failed /\ (\E i \in Instances : g.instance[i].host = h)
  /\ failed' = failed \cup {h}
  /\ round' = 0
  /\ UNCHANGED <<g, named, pc, statuses, via, wontRestart, routeStatus, next, changed, answered, eased>>

(* Analyse: cluster HA and phaseCapacity, what the network leaves, then the  *)
(* first round of phasePropagate.                                            *)
Analyse ==
  /\ pc = "idle"
  /\ pc' = "round" /\ next' = 1 /\ changed' = FALSE /\ round' = 1
  /\ statuses' = Capacity
  /\ \E n \in Networks :
       /\ g' = UnderNetwork(g, n)
       /\ routeStatus' = [r \in Routes |-> RouteHealth(UnderNetwork(g, n).routes[r], Capacity)]
       /\ eased' = ~NetworkNoBetter(g, UnderNetwork(g, n))
  /\ via' = Nobody /\ wontRestart' = Nobody
  /\ answered' = statuses
  /\ UNCHANGED <<named, failed>>

(* Mutant: the edge is named whether or not it worsened the consumer. *)
NameEdgeAlways(d, merged) == via' = [via EXCEPT ![d.consumer] = d.provider]

(* via follows the edge that worsened the consumer. *)
NameEdge(d, merged) ==
  via' = IF merged # statuses[d.consumer] THEN [via EXCEPT ![d.consumer] = d.provider] ELSE via

(* Mutant: every unmet startup dependency counts as news, round after round. *)
ApplyDepAnyFault ==
  /\ pc = "round" /\ next <= Len(g.deps)
  /\ LET d == g.deps[next]
         c == d.consumer
         seen == Seen(d, statuses, routeStatus)
         own == Own(d, statuses, routeStatus)
         merged == Worse(statuses[c], Propagate(d, seen))
         newFault == Unmet(d, seen, own)
     IN IF Skipped(d) THEN UNCHANGED <<statuses, via, wontRestart, changed>>
        ELSE /\ statuses' = [statuses EXCEPT ![c] = merged]
             /\ NameEdge(d, merged)
             /\ wontRestart' = IF newFault
                  THEN [wontRestart EXCEPT ![c] = [via |-> d.provider, net |-> seen # own]]
                  ELSE wontRestart
             /\ changed' = (changed \/ merged # statuses[c] \/ newFault)
  /\ next' = next + 1
  /\ UNCHANGED <<g, named, failed, pc, routeStatus, round, answered, eased>>

(* One dependency of the round. *)
ApplyDep ==
  /\ pc = "round" /\ next <= Len(g.deps)
  /\ LET d == g.deps[next]
         c == d.consumer
         seen == Seen(d, statuses, routeStatus)
         own == Own(d, statuses, routeStatus)
         merged == Worse(statuses[c], Propagate(d, seen))
         newFault == Unmet(d, seen, own) /\ wontRestart[c] = None
     IN IF Skipped(d) THEN UNCHANGED <<statuses, via, wontRestart, changed>>
        ELSE /\ statuses' = [statuses EXCEPT ![c] = merged]
             /\ NameEdge(d, merged)
             /\ wontRestart' = IF newFault
                  THEN [wontRestart EXCEPT ![c] = [via |-> d.provider, net |-> seen # own]]
                  ELSE wontRestart
             /\ changed' = (changed \/ merged # statuses[c] \/ newFault)
  /\ next' = next + 1
  /\ UNCHANGED <<g, named, failed, pc, routeStatus, round, answered, eased>>

(* The round is over: another one, or the answer. *)
EndRound ==
  /\ pc = "round" /\ next > Len(g.deps)
  /\ \/ /\ changed /\ round < MaxIterations
        /\ round' = round + 1
        /\ next' = 1 /\ changed' = FALSE
        /\ routeStatus' = NextRound(statuses)
        /\ UNCHANGED pc
     \/ /\ ~changed \/ round = MaxIterations
        /\ pc' = "idle"
        /\ UNCHANGED <<round, next, changed, routeStatus>>
  /\ UNCHANGED <<g, named, failed, statuses, via, wontRestart, answered, eased>>

Next == (\E i \in Instances : Lose(i)) \/ (\E h \in Hosts : LoseHost(h)) \/ Analyse \/ ApplyDep \/ EndRound

Spec == Init /\ [][Next]_vars

----------------------------------------------------------------------------
(* Properties *)

Answered == pc = "idle" /\ round > 0 /\ ~changed

Edges == {d \in {g.deps[i] : i \in DOMAIN g.deps} : ~Skipped(d)}

(* Every member of a pool that has members is in set x or cut off. *)
AllGone(r, x) == r.members # {} /\ \A m \in r.members : m.service \in x \/ m.reach = "down"

(* A provider is down for its consumer, given the services that are down. *)
ProviderDown(d, x) ==
  \/ d.reach = "down" \/ d.provider \in x
  \/ d.provider \in Routes /\ (g.routes[d.provider].frontend \in x \/ AllGone(g.routes[d.provider], x))

(* A provider is not quite well for its consumer, given the services that    *)
(* are not quite well.                                                       *)
ProviderHurt(d, y) ==
  \/ d.reach # "ok" \/ d.provider \in y
  \/ /\ d.provider \in Routes
     /\ \/ g.routes[d.provider].frontend \in y
        \/ \E m \in g.routes[d.provider].members : m.service \in y \/ m.reach # "ok"

(* What an outage means, told without rounds: the smallest set of services   *)
(* that is closed under losing a hard dependency, and the smallest set that  *)
(* is closed under the weaker effects.                                       *)
DownClosed(x) ==
  /\ \A s \in Services : Capacity[s] = Down => s \in x
  /\ \A d \in Edges : d.nature = "hard" /\ ProviderDown(d, x) => d.consumer \in x

HurtClosed(y, x) ==
  /\ \A s \in Services : Capacity[s] # OK => s \in y
  /\ \A d \in Edges :
       \/ d.nature = "hard" /\ ProviderHurt(d, y)
       \/ (d.nature = "soft" \/ (d.nature = "async" /\ d.outlasted)) /\ ProviderDown(d, x)
       => d.consumer \in y

DownServices == {s \in Services : \A x \in SUBSET Services : DownClosed(x) => s \in x}
HurtServices ==
  {s \in Services : \A y \in SUBSET Services : HurtClosed(y, DownServices) => s \in y}

(* The rounds compute exactly that, whatever order the dependencies are in:  *)
(* nothing is reported down or degraded without cause, and nothing that is   *)
(* hit is left out.                                                          *)
AnswerIsExact ==
  Answered =>
    statuses = [s \in Services |->
      IF s \in DownServices THEN Down ELSE IF s \in HurtServices THEN Degraded ELSE OK]

(* "running now, will not come back after a restart": exactly the consumers  *)
(* of a startup dependency that ends up down or unreachable.                 *)
WontRestartIsExact ==
  Answered =>
    {s \in Services : wontRestart[s] # None} =
    {d.consumer : d \in {e \in Edges : e.nature = "startup" /\ ProviderDown(e, DownServices)}}

(* Both answers of the engine are exact: the status of every service and the *)
(* list of those that will not come back (Analyse).                          *)
RoundsAreExact == AnswerIsExact /\ WontRestartIsExact

(* "a non-empty via means the edge is what carried it to the status shown":  *)
(* in the answer, some edge from the named provider has exactly the status   *)
(* shown as its effect, and without one the capacity phase decided.          *)
ViaExplains ==
  Answered => \A s \in Services :
    IF via[s] = None THEN statuses[s] = Capacity[s]
    ELSE \E d \in Edges :
      /\ d.consumer = s /\ d.provider = via[s]
      /\ Propagate(d, Seen(d, statuses, RouteStatuses(statuses))) = statuses[s]

(* A larger outage never makes any service look better, with or without HA:  *)
(* one more failed member can only take capacity from its cluster.  Two      *)
(* things in the code make it look better, and both are left out here.       *)
(* applyClusterHA also restarts a guest that the outage names itself when    *)
(* its host is in the outage too; and computeDepReach asks only the hosts    *)
(* still alive, so that losing the one consumer host that is cut off from    *)
(* its provider takes the partition away with it: eased.                     *)
AnswerNeverImproves ==
  [][pc = "round" /\ pc' = "idle" /\ ~eased /\ (\A i \in named : ~Inside(i))
       => \A s \in Services : statuses[s] >= answered[s]]_vars

(* The analysis ends of itself, "maxIterations" being a backstop: each round *)
(* but the last worsens a status (twice at most for each service) or finds   *)
(* the first unmet startup dependency of a service.                          *)
RoundsBounded ==
  /\ round <= 3 * Cardinality(Services) + 1
  /\ pc = "idle" /\ round > 0 /\ MaxIterations > 3 * Cardinality(Services) => ~changed

(* "this is a backstop [...] not an expected limit" (engine.go, beside       *)
(* maxIterations): the analysis answers only when a round changed nothing.   *)
EndsOfItself == pc = "idle" /\ round > 0 => ~changed
=============================================================================
