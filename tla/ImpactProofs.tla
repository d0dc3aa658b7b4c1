---------------------------- MODULE ImpactProofs ----------------------------
(***************************************************************************)
(* Theorems about the outage simulation, for any estate.                   *)
(* The rounds: whatever order the dependencies are in, they compute the    *)
(* smallest sets that are closed under the effects, they end of themselves,*)
(* and a larger outage never makes a service look better unless the network*)
(* has got better for it.                                                  *)
(* The network: the engine's answers are those of the walks over the live  *)
(* topology, losing more never brings anything back, and the page that asks*)
(* what a cut would cost agrees with the engine.                           *)
(* The pages on the same tables: what the inputs of an asset share is what *)
(* takes it down, and the pictures of the plant show the shortest routes.  *)
(***************************************************************************)
EXTENDS Impact, Power, Paths, FiniteSetTheorems, NaturalsInduction, WellFoundedInduction, TLAPS

----------------------------------------------------------------------------
(* The invariant.  Everything in it is about what only grows: statuses       *)
(* within an analysis, the outage between analyses.                          *)

Ranks == [Services -> Statuses]
Gone(st) == {s \in Services : st[s] = Down}
Hit(st) == {s \in Services : st[s] # OK}
AtMost(st, worse) == \A s \in Services : st[s] <= worse[s]
Effect(d, st, rs) == Propagate(d, Seen(d, st, rs))

(* The routes as the round sees them are no worse than they are by now. *)
RoutesBehind == \A r \in Routes : routeStatus[r].status <= RouteHealth(g.routes[r], statuses).status

(* A dependency the round would pass over without news. *)
Quiet(d) ==
  Skipped(d) \/ /\ Effect(d, statuses, routeStatus) <= statuses[d.consumer]
                /\ d.nature = "startup" /\ Seen(d, statuses, routeStatus) = Down
                     => wontRestart[d.consumer] # None

(* Until something changes, the round looks at the statuses it began with. *)
Settled ==
  ~changed => /\ routeStatus = RouteStatuses(statuses)
              /\ \A i \in 1 .. (next - 1) : Quiet(g.deps[i])

(* When an analysis runs and how it may stop. *)
Stops ==
  /\ pc = "round" => round > 0
  /\ pc = "idle" /\ round > 0 => next > Len(g.deps) /\ (changed => round = MaxIterations)

Grown == round > 0 => AtMost(Capacity, statuses)

(* The edge via names would by now worsen the service to its status at least. *)
Carries(d, s) ==
  d.consumer = s /\ d.provider = via[s] /\ statuses[s] <= Effect(d, statuses, routeStatus)
Explained ==
  round > 0 => \A s \in Services :
    IF via[s] = None THEN statuses[s] = Capacity[s] ELSE \E d \in Edges : Carries(d, s)

(* Nothing is down, hurt or unable to restart without cause. *)
Sound(st) == Gone(st) \subseteq DownServices /\ Hit(st) \subseteq HurtServices
NoneInside == \A i \in named : ~Inside(i)
Justified ==
  /\ round > 0 \/ NoneInside => Sound(statuses)
  /\ NoneInside /\ ~eased => Sound(answered)
Unable(s) == \E d \in Edges : d.consumer = s /\ d.nature = "startup" /\ ProviderDown(d, DownServices)
FaultsJustified == round > 0 => \A s \in Services : wontRestart[s] # None => Unable(s)

(* The events an analysis can count: a service degraded, down, or with its   *)
(* first unmet startup dependency.                                           *)
Events ==
  {e \in Services \X (1 .. 3) :
     \/ e[2] \in 1 .. 2 /\ statuses[e[1]] >= e[2]
     \/ e[2] = 3 /\ wontRestart[e[1]] # None}
Paid == round > 0 => round <= Cardinality(Events) + (IF changed THEN 0 ELSE 1)

ImpactInv ==
  /\ TypeOK /\ RoutesBehind /\ Settled /\ Stops /\ Grown /\ Explained
  /\ Justified /\ FaultsJustified /\ Paid

----------------------------------------------------------------------------
(* The operators: what they return, and that they are monotone. *)

USE DEF OK, Degraded, Down, Statuses, Unknown

LEMMA EvaluateType ==
  ASSUME NEW p \in Policy, NEW all, NEW alive PROVE Evaluate(p, all, alive) \in Statuses
<1>1. PartialLoss(p, all, alive) \in Statuses
  <2>1. p.kind \in {"standalone", "quorum", "active_active", "active_passive", "sharded"}
    BY DEF Policy
  <2> QED
    BY <2>1 DEF PartialLoss
<1> QED
  BY <1>1 DEF Evaluate

LEMMA CapacityType == ASSUME g \in Estate PROVE Capacity \in Ranks
<1>1. ASSUME NEW s \in Services PROVE g.policy[s] \in Policy
  BY DEF Estate
<1> QED
  BY <1>1, EvaluateType DEF Capacity, Ranks

LEMMA DowngradeType ==
  ASSUME NEW a \in Statuses, NEW reach \in Reach PROVE Downgrade(a, reach) \in Statuses
BY DEF Downgrade, Worse, Reach

LEMMA DowngradeMonotone ==
  ASSUME NEW a \in Statuses, NEW b \in Statuses, a <= b, NEW reach \in Reach
  PROVE  Downgrade(a, reach) <= Downgrade(b, reach)
BY DEF Downgrade, Worse, Reach

LEMMA DowngradeDown ==
  ASSUME NEW a \in Statuses, NEW reach \in Reach
  PROVE  /\ Downgrade(a, reach) = Down <=> a = Down \/ reach = "down"
         /\ Downgrade(a, reach) = OK <=> a = OK /\ reach = "ok"
BY DEF Downgrade, Worse, Reach

LEMMA PoolVerdictType == ASSUME NEW S PROVE PoolVerdict(S) \in Statuses
BY DEF PoolVerdict

LEMMA WorseMonotone ==
  ASSUME NEW a \in Statuses, NEW b \in Statuses, NEW c \in Statuses, NEW d \in Statuses,
         a <= c, b <= d
  PROVE  Worse(a, b) <= Worse(c, d) /\ Worse(a, b) \in Statuses
BY DEF Worse

LEMMA WorseExtremes ==
  ASSUME NEW a \in Statuses, NEW b \in Statuses
  PROVE  /\ Worse(a, b) = Down <=> a = Down \/ b = Down
         /\ Worse(a, b) = OK <=> a = OK /\ b = OK
BY DEF Worse

(* What each member of a pool makes of its service's status. *)
Member(st, m) == Downgrade(st[m.service], m.reach)
Pool(r, st) == {Downgrade(st[m.service], m.reach) : m \in r.members}

LEMMA MemberType ==
  ASSUME NEW r \in Route, NEW m \in r.members, NEW st \in Ranks
  PROVE  /\ m.service \in Services /\ m.reach \in Reach
         /\ st[m.service] \in Statuses /\ Member(st, m) \in Statuses
<1>1. m.service \in Services /\ m.reach \in Reach
  BY DEF Route
<1>2. st[m.service] \in Statuses
  BY <1>1 DEF Ranks
<1> QED
  BY <1>1, <1>2, DowngradeType DEF Member

LEMMA PoolExtremes ==
  ASSUME NEW r \in Route, NEW st \in Ranks
  PROVE  /\ PoolVerdict(Pool(r, st)) = Down <=> AllGone(r, Gone(st))
         /\ PoolVerdict(Pool(r, st)) = OK <=>
              \A m \in r.members : m.service \notin Hit(st) /\ m.reach = "ok"
<1>1. \A m \in r.members : Member(st, m) \in Pool(r, st)
  BY DEF Pool, Member
<1>2. \A v \in Pool(r, st) : \E m \in r.members : v = Member(st, m)
  BY DEF Pool, Member
<1>3. ASSUME NEW m \in r.members
      PROVE  /\ Member(st, m) = Down <=> m.service \in Gone(st) \/ m.reach = "down"
             /\ Member(st, m) = OK <=> m.service \notin Hit(st) /\ m.reach = "ok"
  BY MemberType, DowngradeDown DEF Member, Gone, Hit
<1>4. PoolVerdict(Pool(r, st)) = OK <=> \A m \in r.members : Member(st, m) = OK
  BY <1>1, <1>2 DEF PoolVerdict
<1>5. PoolVerdict(Pool(r, st)) = Down <=>
        r.members # {} /\ \A m \in r.members : Member(st, m) = Down
  BY <1>1, <1>2 DEF PoolVerdict
<1> QED
  BY <1>3, <1>4, <1>5 DEF AllGone

Front(r, st) == IF r.frontend = None THEN OK ELSE st[r.frontend]

LEMMA FrontType ==
  ASSUME NEW r \in Route, NEW st \in Ranks
  PROVE  /\ Front(r, st) \in Statuses
         /\ Front(r, st) = Down <=> r.frontend \in Gone(st)
         /\ Front(r, st) = OK <=> r.frontend \notin Hit(st)
<1>1. r.frontend \in Services \cup {None} /\ None \notin Services
  BY NamesAssumption DEF Route
<1> QED
  BY <1>1 DEF Front, Ranks, Gone, Hit

LEMMA RouteHealthIs ==
  ASSUME NEW r, NEW st
  PROVE  RouteHealth(r, st).status = Worse(Front(r, st), PoolVerdict(Pool(r, st)))
BY DEF RouteHealth, Front, Pool

LEMMA RouteHealthType ==
  ASSUME NEW r \in Route, NEW st \in Ranks
  PROVE  RouteHealth(r, st) \in [status : Statuses, bare : Statuses]
<1>1. Front(r, st) \in Statuses
  BY FrontType
<1> QED
  BY <1>1, PoolVerdictType DEF RouteHealth, Front, Worse

LEMMA RouteExtremes ==
  ASSUME NEW r \in Route, NEW st \in Ranks
  PROVE  /\ RouteHealth(r, st).status = Down <=> r.frontend \in Gone(st) \/ AllGone(r, Gone(st))
         /\ RouteHealth(r, st).status # OK <=>
              r.frontend \in Hit(st) \/ \E m \in r.members : m.service \in Hit(st) \/ m.reach # "ok"
BY RouteHealthIs, FrontType, PoolVerdictType, WorseExtremes, PoolExtremes

LEMMA HitGone ==
  ASSUME NEW st \in Ranks, NEW worse \in Ranks, AtMost(st, worse)
  PROVE  Gone(st) \subseteq Gone(worse) /\ Hit(st) \subseteq Hit(worse)
BY DEF Ranks, AtMost, Gone, Hit

LEMMA RouteMonotone ==
  ASSUME NEW r \in Route, NEW st \in Ranks, NEW worse \in Ranks, AtMost(st, worse)
  PROVE  RouteHealth(r, st).status <= RouteHealth(r, worse).status
<1>1. RouteHealth(r, st).status \in Statuses /\ RouteHealth(r, worse).status \in Statuses
  BY RouteHealthType
<1>2. RouteHealth(r, st).status = Down => RouteHealth(r, worse).status = Down
  BY HitGone, RouteExtremes DEF AllGone
<1>3. RouteHealth(r, st).status # OK => RouteHealth(r, worse).status # OK
  BY HitGone, RouteExtremes
<1> QED
  BY <1>1, <1>2, <1>3

LEMMA RouteStatusesType ==
  ASSUME g \in Estate, NEW st \in Ranks
  PROVE  /\ RouteStatuses(st) \in [Routes -> [status : Statuses, bare : Statuses]]
         /\ \A r \in Routes : RouteStatuses(st)[r] = RouteHealth(g.routes[r], st)
<1>1. \A r \in Routes : g.routes[r] \in Route
  BY DEF Estate
<1> QED
  BY <1>1, RouteHealthType DEF RouteStatuses

RouteTables == [Routes -> [status : Statuses, bare : Statuses]]

(* An edge that is not passed over joins a service to a service or a route. *)
LEMMA EdgeType ==
  ASSUME NEW d \in Dependency, ~Skipped(d)
  PROVE  /\ d.consumer \in Services
         /\ d.provider \in Services \/ d.provider \in Routes
         /\ d.provider # None
         /\ d.provider \in Services => d.provider \notin Routes
         /\ d.reach \in Reach
BY NamesAssumption DEF Dependency, Skipped

LEMMA EdgesType ==
  ASSUME g \in Estate
  PROVE  /\ \A d \in Edges : d \in Dependency /\ ~Skipped(d)
         /\ \A d \in Edges : \E i \in 1 .. Len(g.deps) : d = g.deps[i]
         /\ \A i \in 1 .. Len(g.deps) :
              g.deps[i] \in Dependency /\ (~Skipped(g.deps[i]) => g.deps[i] \in Edges)
<1>1. g.deps \in Seq(Dependency)
  BY DEF Estate
<1>2. DOMAIN g.deps = 1 .. Len(g.deps) /\ \A i \in 1 .. Len(g.deps) : g.deps[i] \in Dependency
  BY <1>1
<1> QED
  BY <1>2 DEF Edges

LEMMA SeenType ==
  ASSUME NEW d \in Dependency, ~Skipped(d), NEW st \in Ranks, NEW rs \in RouteTables
  PROVE  Seen(d, st, rs) \in Statuses
<1>1. (IF d.provider \in Routes THEN rs[d.provider].status ELSE st[d.provider]) \in Statuses
  BY EdgeType DEF Ranks, RouteTables
<1> QED
  BY <1>1, EdgeType, DowngradeType DEF Seen

LEMMA SeenMonotone ==
  ASSUME NEW d \in Dependency, ~Skipped(d),
         NEW st \in Ranks, NEW worse \in Ranks, AtMost(st, worse),
         NEW rs \in RouteTables, NEW later \in RouteTables,
         \A r \in Routes : rs[r].status <= later[r].status
  PROVE  Seen(d, st, rs) <= Seen(d, worse, later)
<1>1. /\ (IF d.provider \in Routes THEN rs[d.provider].status ELSE st[d.provider]) \in Statuses
      /\ (IF d.provider \in Routes THEN later[d.provider].status ELSE worse[d.provider]) \in Statuses
      /\ (IF d.provider \in Routes THEN rs[d.provider].status ELSE st[d.provider])
           <= (IF d.provider \in Routes THEN later[d.provider].status ELSE worse[d.provider])
  BY EdgeType DEF Ranks, RouteTables, AtMost
<1> QED
  BY <1>1, EdgeType, DowngradeMonotone DEF Seen

LEMMA PropagateMonotone ==
  ASSUME NEW d \in Dependency, NEW a \in Statuses, NEW b \in Statuses, a <= b
  PROVE  /\ Propagate(d, a) \in Statuses /\ Propagate(d, b) \in Statuses
         /\ Propagate(d, a) <= Propagate(d, b)
BY DEF Propagate

LEMMA EffectMonotone ==
  ASSUME NEW d \in Dependency, ~Skipped(d),
         NEW st \in Ranks, NEW worse \in Ranks, AtMost(st, worse),
         NEW rs \in RouteTables, NEW later \in RouteTables,
         \A r \in Routes : rs[r].status <= later[r].status
  PROVE  /\ Effect(d, st, rs) \in Statuses /\ Effect(d, worse, later) \in Statuses
         /\ Effect(d, st, rs) <= Effect(d, worse, later)
BY SeenType, SeenMonotone, PropagateMonotone DEF Effect

(* With route health derived from the statuses, a provider is seen down or   *)
(* not well exactly when the definitions without rounds say so.              *)
LEMMA SeenExtremes ==
  ASSUME g \in Estate, NEW d \in Dependency, ~Skipped(d), NEW st \in Ranks
  PROVE  /\ Seen(d, st, RouteStatuses(st)) = Down <=> ProviderDown(d, Gone(st))
         /\ Seen(d, st, RouteStatuses(st)) # OK <=> ProviderHurt(d, Hit(st))
<1> DEFINE bare == IF d.provider \in Routes THEN RouteStatuses(st)[d.provider].status ELSE st[d.provider]
<1>1. CASE d.provider \in Routes
  <2>1. g.routes[d.provider] \in Route
    BY <1>1 DEF Estate
  <2>2. /\ d.provider \notin Gone(st) /\ d.provider \notin Hit(st)
        /\ bare = RouteHealth(g.routes[d.provider], st).status
    BY <1>1, RouteStatusesType, NamesAssumption DEF Gone, Hit
  <2>3. bare \in Statuses
    BY <2>1, <2>2, RouteHealthType
  <2> QED
    BY <1>1, <2>1, <2>2, <2>3, RouteExtremes, DowngradeDown, EdgeType DEF Seen, ProviderDown, ProviderHurt
<1>2. CASE d.provider \notin Routes
  <2>1. d.provider \in Services /\ bare = st[d.provider] /\ bare \in Statuses
    BY <1>2, EdgeType DEF Ranks
  <2> QED
    BY <1>2, <2>1, DowngradeDown, EdgeType DEF Seen, ProviderDown, ProviderHurt, Gone, Hit
<1> QED
  BY <1>1, <1>2

----------------------------------------------------------------------------
(* The smallest closed sets. *)

LEMMA ProviderGrows ==
  ASSUME NEW d, NEW x, NEW z, x \subseteq z
  PROVE  /\ ProviderDown(d, x) => ProviderDown(d, z)
         /\ ProviderHurt(d, x) => ProviderHurt(d, z)
BY DEF ProviderDown, ProviderHurt, AllGone

LEMMA DownLeast == ASSUME g \in Estate PROVE DownClosed(DownServices)
<1>1. ASSUME NEW s \in Services, Capacity[s] = Down PROVE s \in DownServices
  BY <1>1 DEF DownServices, DownClosed
<1>2. ASSUME NEW d \in Edges, d.nature = "hard", ProviderDown(d, DownServices)
      PROVE  d.consumer \in DownServices
  <2>1. d.consumer \in Services
    BY EdgesType, EdgeType
  <2>2. ASSUME NEW x \in SUBSET Services, DownClosed(x) PROVE d.consumer \in x
    <3>1. DownServices \subseteq x
      BY <2>2 DEF DownServices
    <3>2. ProviderDown(d, x)
      BY <1>2, <3>1, ProviderGrows
    <3> QED
      BY <1>2, <2>2, <3>2 DEF DownClosed
  <2> QED
    BY <2>1, <2>2 DEF DownServices
<1> QED
  BY <1>1, <1>2 DEF DownClosed

LEMMA HurtLeast == ASSUME g \in Estate PROVE HurtClosed(HurtServices, DownServices)
<1> DEFINE Weak(d) == d.nature = "soft" \/ (d.nature = "async" /\ d.outlasted)
<1>1. ASSUME NEW s \in Services, Capacity[s] # OK PROVE s \in HurtServices
  BY <1>1 DEF HurtServices, HurtClosed
<1>2. ASSUME NEW d \in Edges,
             \/ d.nature = "hard" /\ ProviderHurt(d, HurtServices)
             \/ Weak(d) /\ ProviderDown(d, DownServices)
      PROVE  d.consumer \in HurtServices
  <2>1. d.consumer \in Services
    BY EdgesType, EdgeType
  <2>2. ASSUME NEW y \in SUBSET Services, HurtClosed(y, DownServices) PROVE d.consumer \in y
    <3>1. HurtServices \subseteq y
      BY <2>2 DEF HurtServices
    <3>2. ProviderHurt(d, HurtServices) => ProviderHurt(d, y)
      BY <3>1, ProviderGrows
    <3> QED
      BY <1>2, <2>2, <3>2 DEF HurtClosed
  <2> QED
    BY <2>1, <2>2 DEF HurtServices
<1> QED
  BY <1>1, <1>2 DEF HurtClosed

(* What is down is not well. *)
LEMMA DownIsHurt == ASSUME g \in Estate PROVE DownServices \subseteq HurtServices
<1>1. ASSUME NEW y \in SUBSET Services, HurtClosed(y, DownServices) PROVE DownClosed(y)
  <2>1. ASSUME NEW d \in Edges, ProviderDown(d, y) PROVE ProviderHurt(d, y)
    BY <2>1 DEF ProviderDown, ProviderHurt, AllGone
  <2>2. \A s \in Services : Capacity[s] = Down => s \in y
    BY <1>1 DEF HurtClosed
  <2> QED
    BY <1>1, <2>1, <2>2 DEF HurtClosed, DownClosed
<1> QED
  BY <1>1 DEF DownServices, HurtServices

(* A set of statuses that the capacity phase and every edge leave alone is   *)
(* closed.                                                                   *)
LEMMA QuietIsClosed ==
  ASSUME g \in Estate, NEW st \in Ranks, AtMost(Capacity, st),
         \A d \in Edges : Effect(d, st, RouteStatuses(st)) <= st[d.consumer]
  PROVE  DownClosed(Gone(st)) /\ HurtClosed(Hit(st), Gone(st))
<1>0. Capacity \in Ranks
  BY CapacityType
<1>1. ASSUME NEW s \in Services
      PROVE  (Capacity[s] = Down => s \in Gone(st)) /\ (Capacity[s] # OK => s \in Hit(st))
  BY <1>0 DEF Ranks, AtMost, Gone, Hit
<1>2. ASSUME NEW d \in Edges
      PROVE  /\ d.nature = "hard" /\ ProviderDown(d, Gone(st)) => d.consumer \in Gone(st)
             /\ d.nature = "hard" /\ ProviderHurt(d, Hit(st)) => d.consumer \in Hit(st)
             /\ (d.nature = "soft" \/ (d.nature = "async" /\ d.outlasted)) /\ ProviderDown(d, Gone(st))
                  => d.consumer \in Hit(st)
  <2> DEFINE seen == Seen(d, st, RouteStatuses(st))
  <2>1. d \in Dependency /\ ~Skipped(d) /\ d.consumer \in Services
    BY EdgesType, EdgeType
  <2>2. seen \in Statuses /\ st[d.consumer] \in Statuses /\ Propagate(d, seen) <= st[d.consumer]
    BY <2>1, SeenType, RouteStatusesType DEF Effect, Ranks, RouteTables
  <2>3. (seen = Down <=> ProviderDown(d, Gone(st))) /\ (seen # OK <=> ProviderHurt(d, Hit(st)))
    BY <2>1, SeenExtremes
  <2> HIDE DEF seen
  <2>4. d.nature = "hard" => Propagate(d, seen) = seen
    BY DEF Propagate
  <2>5. (d.nature = "soft" \/ (d.nature = "async" /\ d.outlasted)) /\ seen = Down
          => Propagate(d, seen) = Degraded
    BY DEF Propagate
  <2> QED
    BY <2>1, <2>2, <2>3, <2>4, <2>5 DEF Gone, Hit
<1> QED
  BY <1>1, <1>2 DEF DownClosed, HurtClosed

(* A round that passed every dependency without news: none has any, and the  *)
(* statuses are the smallest closed sets.                                    *)
Done == round > 0 /\ ~changed /\ next > Len(g.deps)

LEMMA AnsweredIsDone == ASSUME ImpactInv, Answered PROVE Done
BY DEF ImpactInv, Answered, Stops, Done

LEMMA DoneIsQuiet ==
  ASSUME ImpactInv, Done
  PROVE  /\ routeStatus = RouteStatuses(statuses)
         /\ \A d \in Edges : Quiet(d)
<1>1. /\ g \in Estate /\ next \in 1 .. (Len(g.deps) + 1)
      /\ next > Len(g.deps)
      /\ routeStatus = RouteStatuses(statuses)
      /\ \A i \in 1 .. (next - 1) : Quiet(g.deps[i])
  BY DEF ImpactInv, TypeOK, Done, Settled
<1>2. Len(g.deps) \in Nat
  BY <1>1 DEF Estate
<1>3. \A i \in 1 .. Len(g.deps) : Quiet(g.deps[i])
  BY <1>1, <1>2
<1> QED
  BY <1>1, <1>3, EdgesType

LEMMA DoneIsExact ==
  ASSUME ImpactInv, Done
  PROVE  Gone(statuses) = DownServices /\ Hit(statuses) = HurtServices
<1>1. g \in Estate /\ statuses \in Ranks /\ AtMost(Capacity, statuses) /\ Sound(statuses)
  BY DEF ImpactInv, TypeOK, Ranks, Done, Grown, Justified
<1>2. \A d \in Edges : Effect(d, statuses, RouteStatuses(statuses)) <= statuses[d.consumer]
  BY <1>1, DoneIsQuiet, EdgesType DEF Quiet
<1>3. DownClosed(Gone(statuses)) /\ HurtClosed(Hit(statuses), Gone(statuses))
  BY <1>1, <1>2, QuietIsClosed
<1>4. Gone(statuses) = DownServices
  BY <1>1, <1>3 DEF Sound, DownServices, Gone
<1>5. HurtServices \subseteq Hit(statuses)
  BY <1>3, <1>4 DEF HurtServices, Hit
<1> QED
  BY <1>1, <1>4, <1>5 DEF Sound

LEMMA ExactAnswer == ASSUME ImpactInv PROVE AnswerIsExact
<1> SUFFICES ASSUME Answered
             PROVE  statuses = [s \in Services |->
                      IF s \in DownServices THEN Down ELSE IF s \in HurtServices THEN Degraded ELSE OK]
  BY DEF AnswerIsExact
<1>1. statuses \in Ranks
  BY DEF ImpactInv, TypeOK, Ranks
<1>2. ASSUME NEW s \in Services
      PROVE  statuses[s] = IF s \in DownServices THEN Down ELSE IF s \in HurtServices THEN Degraded ELSE OK
  <2>1. statuses[s] \in Statuses
    BY <1>1 DEF Ranks
  <2>2. (s \in DownServices <=> statuses[s] = Down) /\ (s \in HurtServices <=> statuses[s] # OK)
    BY AnsweredIsDone, DoneIsExact DEF Gone, Hit
  <2> QED
    BY <2>1, <2>2
<1> QED
  BY <1>1, <1>2 DEF Ranks

LEMMA ExactRestart == ASSUME ImpactInv PROVE WontRestartIsExact
<1> DEFINE Lost == {d.consumer : d \in {e \in Edges : e.nature = "startup" /\ ProviderDown(e, DownServices)}}
<1> SUFFICES ASSUME Answered PROVE {s \in Services : wontRestart[s] # None} = Lost
  BY DEF WontRestartIsExact
<1>1. ASSUME NEW s \in Services, wontRestart[s] # None PROVE s \in Lost
  <2>1. Unable(s)
    BY <1>1 DEF ImpactInv, FaultsJustified, Answered
  <2> QED
    BY <2>1 DEF Unable
<1>2. ASSUME NEW d \in Edges, d.nature = "startup", ProviderDown(d, DownServices)
      PROVE  d.consumer \in Services /\ wontRestart[d.consumer] # None
  <2>1. g \in Estate /\ statuses \in Ranks
    BY DEF ImpactInv, TypeOK, Ranks
  <2>2. d \in Dependency /\ ~Skipped(d) /\ d.consumer \in Services
    BY <2>1, EdgesType, EdgeType
  <2>3. Quiet(d) /\ routeStatus = RouteStatuses(statuses)
    BY AnsweredIsDone, DoneIsQuiet
  <2>4. Seen(d, statuses, routeStatus) = Down
    BY <1>2, <2>1, <2>2, <2>3, AnsweredIsDone, DoneIsExact, SeenExtremes
  <2> QED
    BY <1>2, <2>2, <2>3, <2>4 DEF Quiet
<1> QED
  BY <1>1, <1>2

LEMMA ExactVia == ASSUME ImpactInv PROVE ViaExplains
<1> SUFFICES ASSUME Answered, NEW s \in Services, via[s] # None
             PROVE  \E d \in Edges :
                      /\ d.consumer = s /\ d.provider = via[s]
                      /\ Propagate(d, Seen(d, statuses, RouteStatuses(statuses))) = statuses[s]
  BY DEF ViaExplains, ImpactInv, Explained, Answered
<1>1. PICK d \in Edges : Carries(d, s)
  BY DEF ImpactInv, Explained, Answered
<1>2. g \in Estate /\ statuses \in Ranks /\ routeStatus \in RouteTables
  BY DEF ImpactInv, TypeOK, Ranks, RouteTables
<1>3. d \in Dependency /\ ~Skipped(d)
  BY <1>2, EdgesType
<1>4. Quiet(d) /\ routeStatus = RouteStatuses(statuses)
  BY AnsweredIsDone, DoneIsQuiet
<1>5. Effect(d, statuses, routeStatus) \in Statuses /\ statuses[s] \in Statuses
  BY <1>2, <1>3, SeenType, PropagateMonotone DEF Effect, Ranks
<1>6. Effect(d, statuses, routeStatus) = statuses[s]
  BY <1>1, <1>3, <1>4, <1>5 DEF Quiet, Carries
<1> QED
  BY <1>1, <1>4, <1>6 DEF Carries, Effect

(* There are at most three events for each service. *)
LEMMA EventSpace ==
  /\ IsFiniteSet(Services \X (1 .. 3))
  /\ Cardinality(Services \X (1 .. 3)) = Cardinality(Services) * 3
<1>1. 1 \in Int /\ 3 \in Int
  OBVIOUS
<1>2. IsFiniteSet(1 .. 3) /\ Cardinality(1 .. 3) = IF 1 > 3 THEN 0 ELSE 3 - 1 + 1
  BY <1>1, FS_Interval, Zenon
<1>3. IsFiniteSet(1 .. 3) /\ Cardinality(1 .. 3) = 3
  BY <1>2
<1> QED
  BY <1>3, FinitenessAssumption, FS_Product

LEMMA EventsBounded ==
  /\ IsFiniteSet(Events) /\ Cardinality(Events) \in Nat
  /\ Cardinality(Services) \in Nat
  /\ Cardinality(Events) <= 3 * Cardinality(Services)
<1>2. Cardinality(Services) \in Nat
  BY FinitenessAssumption, FS_CardinalityType
<1>4. Events \in SUBSET (Services \X (1 .. 3))
  BY DEF Events
<1>5. IsFiniteSet(Events) /\ Cardinality(Events) <= Cardinality(Services) * 3
  BY <1>4, EventSpace, FS_Subset
<1> QED
  BY <1>2, <1>5, FS_CardinalityType

LEMMA BoundedRounds == ASSUME ImpactInv PROVE RoundsBounded
<1>1. round \in Nat /\ MaxIterations \in Nat
  BY IterationsAssumption DEF ImpactInv, TypeOK
<1>2. round > 0 => round <= Cardinality(Events) + (IF changed THEN 0 ELSE 1)
  BY DEF ImpactInv, Paid
<1>3. pc = "idle" /\ round > 0 /\ changed => round = MaxIterations
  BY DEF ImpactInv, Stops
<1> QED
  BY <1>1, <1>2, <1>3, EventsBounded DEF RoundsBounded

----------------------------------------------------------------------------
(* The steps. *)

(* While the outage and the estate stay, so does what the outage means. *)
LEMMA OutageFrame ==
  ASSUME UNCHANGED <<g, named, failed>>
  PROVE  /\ Capacity' = Capacity /\ Edges' = Edges
         /\ DownServices' = DownServices /\ HurtServices' = HurtServices
         /\ NoneInside' <=> NoneInside
<1>1. DownInstances' = DownInstances /\ (NoneInside' <=> NoneInside)
  BY DEF DownInstances, Condemned, Revived, Inside, CanRelocate, NoneInside
<1>2. Capacity' = Capacity
  BY <1>1 DEF Capacity, Of, Health, ShardOf
<1>3. Edges' = Edges
  BY DEF Edges
<1>4. ASSUME NEW x PROVE DownClosed(x)' <=> DownClosed(x)
  BY <1>2, <1>3 DEF DownClosed, ProviderDown, AllGone
<1>5. DownServices' = DownServices
  BY <1>4 DEF DownServices
<1>6. ASSUME NEW x, NEW y PROVE HurtClosed(y, x)' <=> HurtClosed(y, x)
  BY <1>2, <1>3 DEF HurtClosed, ProviderDown, ProviderHurt, AllGone
<1>7. HurtServices' = HurtServices
  BY <1>5, <1>6 DEF HurtServices
<1> QED
  BY <1>1, <1>2, <1>3, <1>5, <1>7

(* Dependencies that had no news have none while nothing moves. *)
LEMMA SettledFrame ==
  ASSUME RoutesBehind, Settled,
         UNCHANGED <<g, statuses, routeStatus, wontRestart, next, changed>>
  PROVE  RoutesBehind' /\ Settled'
<1>1. RouteStatuses(statuses)' = RouteStatuses(statuses)
  BY DEF RouteStatuses
<1>2. \A i : Quiet(g.deps[i])' <=> Quiet(g.deps[i])
  BY DEF Quiet, Effect
<1>3. RoutesBehind'
  BY DEF RoutesBehind
<1>4. Settled'
  BY <1>1, <1>2 DEF Settled
<1> QED
  BY <1>3, <1>4

LEMMA NobodyType == Nobody \in [Services -> {None}] /\ \A s \in Services : Nobody[s] = None
BY DEF Nobody

LEMMA FineType == [s \in Services |-> OK] \in Ranks
BY DEF Ranks

LEMMA ImpactInit == Init => ImpactInv
<1> SUFFICES ASSUME Init PROVE ImpactInv
  OBVIOUS
<1>1. g \in Estate
  BY EstatesAssumption DEF Init
<1>2. statuses \in Ranks /\ answered \in Ranks /\ \A s \in Services : statuses[s] = OK /\ answered[s] = OK
  BY FineType DEF Init
<1>3. TypeOK
  <2>1. Len(g.deps) \in Nat
    BY <1>1 DEF Estate
  <2>2. routeStatus \in RouteTables
    BY <1>1, <1>2, RouteStatusesType DEF Init, RouteTables
  <2>3. /\ via \in [Services -> Services \cup Routes \cup {None}]
        /\ wontRestart \in [Services -> Fault \cup {None}]
    BY DEF Init, Nobody
  <2>4. next \in 1 .. (Len(g.deps) + 1) /\ round \in 0 .. MaxIterations
    BY <2>1, IterationsAssumption DEF Init
  <2>5. /\ named \subseteq Instances /\ failed \subseteq Hosts
        /\ pc \in {"idle", "round"} /\ changed \in BOOLEAN /\ eased \in BOOLEAN
    BY DEF Init
  <2> QED
    BY <1>1, <1>2, <2>2, <2>3, <2>4, <2>5 DEF TypeOK, Ranks, RouteTables
<1>4. RoutesBehind
  <2>1. \A r \in Routes : routeStatus[r] = RouteHealth(g.routes[r], statuses)
    BY <1>1, <1>2, RouteStatusesType DEF Init
  <2>2. \A r \in Routes : routeStatus[r].status \in Statuses
    BY <1>3 DEF TypeOK
  <2> QED
    BY <2>1, <2>2 DEF RoutesBehind
<1>5. Gone(statuses) = {} /\ Hit(statuses) = {} /\ Gone(answered) = {} /\ Hit(answered) = {}
  BY <1>2 DEF Gone, Hit
<1> QED
  BY <1>3, <1>4, <1>5
  DEF Init, ImpactInv, Settled, Stops, Grown, Explained, Justified, Sound, FaultsJustified, Paid

(* A guest that is down stays down when the outage grows, unless the outage  *)
(* names a guest whose host is in it as well.                                *)
LEMMA LeftShrinks ==
  ASSUME NEW M \in SUBSET Hosts, NEW F, NEW F2, F \subseteq F2, NEW n \in Nat,
         Cardinality(M \ F2) >= n
  PROVE  Cardinality(M \ F) >= n
<1>1. IsFiniteSet(M \ F)
  BY FinitenessAssumption, FS_Subset
<1>2. M \ F2 \in SUBSET (M \ F)
  OBVIOUS
<1>3. Cardinality(M \ F2) <= Cardinality(M \ F) /\ IsFiniteSet(M \ F2)
  BY <1>1, <1>2, FS_Subset
<1> QED
  BY <1>1, <1>3, FS_CardinalityType

LEMMA DownStays ==
  ASSUME TypeOK, g' = g, named \subseteq named', failed \subseteq failed', NoneInside'
  PROVE  NoneInside /\ DownInstances \subseteq DownInstances'
<1>1. NoneInside
  BY DEF NoneInside, Inside
<1>2. ASSUME NEW c \in g.clusters, CanRelocate(c)' PROVE CanRelocate(c)
  <2>1. c.members \in SUBSET Hosts /\ c.min \in Nat
    BY DEF TypeOK, Estate, Cluster
  <2> DEFINE floor == IF c.min > 1 THEN c.min ELSE 1
  <2>2. floor \in Nat
    BY <2>1
  <2>3. c.restart /\ Cardinality(c.members \ failed') >= floor
    BY <1>2 DEF CanRelocate
  <2> HIDE DEF floor
  <2>4. Cardinality(c.members \ failed) >= floor
    BY <2>1, <2>2, <2>3, LeftShrinks
  <2> QED
    BY <2>3, <2>4 DEF CanRelocate, floor
<1>3. ASSUME NEW i \in DownInstances PROVE i \in DownInstances'
  <2>1. CASE i \in named
    <3>1. i \in named' /\ ~Inside(i)'
      BY <2>1 DEF NoneInside
    <3> QED
      BY <3>1 DEF DownInstances, Condemned, Revived
  <2>2. CASE i \notin named
    <3>1. i \in Instances /\ Inside(i) /\ i \notin Revived
      BY <1>3, <2>2 DEF DownInstances, Condemned
    <3>2. Inside(i)'
      BY <3>1 DEF Inside
    <3>3. ASSUME NEW c \in g.clusters, g.instance[i].host \in c.members PROVE ~CanRelocate(c)'
      BY <1>2, <3>1, <3>3 DEF Revived
    <3>4. i \notin Revived'
      BY <3>3 DEF Revived
    <3> QED
      BY <3>1, <3>2, <3>4 DEF DownInstances, Condemned
  <2> QED
    BY <2>1, <2>2
<1> QED
  BY <1>1, <1>3

(* AvailabilityPolicy.Evaluate: fewer alive is never better. *)
LEMMA EvaluateMonotone ==
  ASSUME NEW p \in Policy, NEW all, IsFiniteSet(all),
         NEW alive \in SUBSET all, NEW fewer \in SUBSET alive
  PROVE  Evaluate(p, all, alive) <= Evaluate(p, all, fewer)
<1>0. /\ IsFiniteSet(alive) /\ IsFiniteSet(fewer)
      /\ Cardinality(fewer) <= Cardinality(alive)
      /\ Cardinality(alive) \in Nat /\ Cardinality(fewer) \in Nat /\ Cardinality(all) \in Nat
  <2>1. IsFiniteSet(alive)
    BY FS_Subset
  <2>2. IsFiniteSet(fewer) /\ Cardinality(fewer) <= Cardinality(alive)
    BY <2>1, FS_Subset
  <2> QED
    BY <2>1, <2>2, FS_CardinalityType
<1>1. PartialLoss(p, all, alive) <= PartialLoss(p, all, fewer)
  <2>1. p.kind \in {"standalone", "quorum", "active_active", "active_passive", "sharded"} /\ p.min \in Nat
    BY DEF Policy
  <2>2. CASE p.kind = "standalone"
    BY <2>2 DEF PartialLoss
  <2>3. CASE p.kind = "quorum"
    <3>1. Cardinality(all) \div 2 + 1 \in Int
      BY <1>0
    <3> QED
      BY <1>0, <2>3, <3>1 DEF PartialLoss
  <2>4. CASE p.kind = "active_active"
    BY <1>0, <2>1, <2>4 DEF PartialLoss
  <2>5. CASE p.kind = "active_passive"
    BY <2>5 DEF PartialLoss
  <2>6. CASE p.kind = "sharded"
    BY <2>6 DEF PartialLoss
  <2> QED
    BY <2>1, <2>2, <2>3, <2>4, <2>5, <2>6
<1>2. PartialLoss(p, all, alive) \in Statuses /\ PartialLoss(p, all, fewer) \in Statuses
  <2>1. p.kind \in {"standalone", "quorum", "active_active", "active_passive", "sharded"}
    BY DEF Policy
  <2> QED
    BY <2>1 DEF PartialLoss
<1> QED
  BY <1>1, <1>2 DEF Evaluate

LEMMA HealthFinite ==
  ASSUME NEW S \in SUBSET Instances PROVE IsFiniteSet(Health(S))
<1> DEFINE entry(i) == [id |-> i, role |-> g.instance[i].role, shard |-> ShardOf(i)]
           f == [i \in S |-> entry(i)]
<1>1. Health(S) = {entry(i) : i \in S}
  BY DEF Health
<1> HIDE DEF entry
<1>2. f \in Surjection(S, Health(S))
  BY <1>1 DEF Surjection
<1>3. IsFiniteSet(S)
  BY FinitenessAssumption, FS_Subset
<1> HIDE DEF f
<1> QED
  BY <1>2, <1>3, FS_Surjection

LEMMA CapacityGrows ==
  ASSUME TypeOK, g' = g, DownInstances \subseteq DownInstances'
  PROVE  AtMost(Capacity, Capacity')
<1> SUFFICES ASSUME NEW s \in Services PROVE Capacity[s] <= Capacity'[s]
  BY DEF AtMost
<1>1. g.policy[s] \in Policy
  BY DEF TypeOK, Estate
<1>2. Of(s) \in SUBSET Instances /\ Of(s)' = Of(s)
  BY DEF Of
<1>3. ASSUME NEW S PROVE Health(S)' = Health(S)
  BY DEF Health, ShardOf
<1>4. /\ Health(Of(s) \ DownInstances) \in SUBSET Health(Of(s))
      /\ Health(Of(s) \ DownInstances') \in SUBSET Health(Of(s) \ DownInstances)
  BY DEF Health
<1>5. Evaluate(g.policy[s], Health(Of(s)), Health(Of(s) \ DownInstances))
        <= Evaluate(g.policy[s], Health(Of(s)), Health(Of(s) \ DownInstances'))
  BY <1>1, <1>2, <1>4, HealthFinite, EvaluateMonotone
<1>6. Capacity[s] = Evaluate(g.policy[s], Health(Of(s)), Health(Of(s) \ DownInstances))
  BY DEF Capacity
<1>7. Capacity'[s] = Evaluate(g.policy[s], Health(Of(s)), Health(Of(s) \ DownInstances'))
  <2>1. Capacity'[s] = Evaluate(g'.policy[s], Health(Of(s))', Health(Of(s) \ DownInstances)')
    BY DEF Capacity
  <2>2. Health(Of(s))' = Health(Of(s)) /\ Health(Of(s) \ DownInstances)' = Health(Of(s) \ DownInstances')
    BY <1>2 DEF Health, ShardOf
  <2> QED
    BY <2>1, <2>2
<1> QED
  BY <1>5, <1>6, <1>7

(* The same estate, apart from what the network leaves of its edges. *)
SameEdge(d, e) ==
  d.consumer = e.consumer /\ d.provider = e.provider /\ d.nature = e.nature /\ d.outlasted = e.outlasted
SameEstate(e, f) ==
  /\ DOMAIN f.deps = DOMAIN e.deps /\ Len(f.deps) = Len(e.deps)
  /\ \A i \in DOMAIN e.deps : SameEdge(e.deps[i], f.deps[i])
  /\ \A r \in Routes : f.routes[r].frontend = e.routes[r].frontend
  /\ f.policy = e.policy /\ f.instance = e.instance /\ f.clusters = e.clusters

LEMMA SameItself == SameEstate(g, g) /\ NetworkNoBetter(g, g)
BY DEF SameEstate, SameEdge, NetworkNoBetter, Follows, NoBetter

(* A provider that was down, or hurt, still is when the network is no better. *)
LEMMA ProviderStays ==
  ASSUME SameEstate(g, g'), NetworkNoBetter(g, g'), NEW i \in DOMAIN g.deps,
         NEW d, NEW e, d = g.deps[i], e = g'.deps[i], NEW x
  PROVE  (ProviderDown(d, x) => ProviderDown(e, x)') /\ (ProviderHurt(d, x) => ProviderHurt(e, x)')
<1>1. e.provider = d.provider /\ NoBetter(d.reach, e.reach)
  BY DEF SameEstate, SameEdge, NetworkNoBetter
<1>2. (d.reach = "down" => e.reach = "down") /\ (d.reach # "ok" => e.reach # "ok")
  BY <1>1 DEF NoBetter
<1>3. ASSUME NEW r \in Routes
      PROVE  /\ g'.routes[r].frontend = g.routes[r].frontend
             /\ \A m \in g.routes[r].members : \E n \in g'.routes[r].members : Follows(m, n)
             /\ \A n \in g'.routes[r].members : \E m \in g.routes[r].members : Follows(m, n)
  BY DEF SameEstate, NetworkNoBetter
<1>4. \A m, n : Follows(m, n) => /\ m.service = n.service
                                 /\ m.reach = "down" => n.reach = "down"
                                 /\ m.reach # "ok" => n.reach # "ok"
  BY DEF Follows, NoBetter
<1>5. ASSUME NEW r \in Routes, AllGone(g.routes[r], x) PROVE AllGone(g'.routes[r], x)
  BY <1>3, <1>4, <1>5 DEF AllGone
<1>6. ASSUME NEW r \in Routes, \E m \in g.routes[r].members : m.service \in x \/ m.reach # "ok"
      PROVE  \E m \in g'.routes[r].members : m.service \in x \/ m.reach # "ok"
  BY <1>3, <1>4, <1>6
<1>7. ProviderDown(d, x) => ProviderDown(e, x)'
  BY <1>1, <1>2, <1>3, <1>5 DEF ProviderDown, AllGone
<1>8. ProviderHurt(d, x) => ProviderHurt(e, x)'
  BY <1>1, <1>2, <1>3, <1>6 DEF ProviderHurt
<1> QED
  BY <1>7, <1>8

(* When capacity falls and the network is no better, what the outage means   *)
(* can only grow.                                                            *)
LEMMA MeaningGrows ==
  ASSUME TypeOK, g' \in Estate, SameEstate(g, g'), NetworkNoBetter(g, g'), AtMost(Capacity, Capacity')
  PROVE  DownServices \subseteq DownServices' /\ HurtServices \subseteq HurtServices'
<1>1. Capacity \in Ranks /\ Capacity' \in Ranks
  <2>1. \A s \in Services : g'.policy[s] \in Policy
    BY DEF Estate
  <2>2. Capacity' \in Ranks
    BY <2>1, EvaluateType DEF Capacity, Ranks
  <2> QED
    BY <2>2, CapacityType DEF TypeOK
<1>2. ASSUME NEW d \in Edges
      PROVE  \E e \in Edges' : /\ SameEdge(d, e)
                               /\ \A x : ProviderDown(d, x) => ProviderDown(e, x)'
                               /\ \A x : ProviderHurt(d, x) => ProviderHurt(e, x)'
  <2>1. PICK i \in DOMAIN g.deps : d = g.deps[i]
    BY DEF Edges
  <2>2. PICK e : e = g'.deps[i]
    OBVIOUS
  <2>3. SameEdge(d, e) /\ i \in DOMAIN g'.deps
    BY <2>1, <2>2 DEF SameEstate
  <2>4. ~Skipped(d)
    BY DEF Edges
  <2>5. e \in Edges'
    BY <2>2, <2>3, <2>4 DEF Edges, SameEdge, Skipped
  <2> QED
    BY <2>1, <2>2, <2>3, <2>5, ProviderStays
<1>4. ASSUME NEW s \in Services
      PROVE  (Capacity[s] = Down => Capacity'[s] = Down) /\ (Capacity[s] # OK => Capacity'[s] # OK)
  BY <1>1 DEF AtMost, Ranks
<1>5. ASSUME NEW x, DownClosed(x)' PROVE DownClosed(x)
  <2>1. ASSUME NEW d \in Edges, d.nature = "hard", ProviderDown(d, x) PROVE d.consumer \in x
    <3>1. PICK e \in Edges' : SameEdge(d, e) /\ ProviderDown(e, x)'
      BY <1>2, <2>1
    <3> QED
      BY <1>5, <2>1, <3>1 DEF DownClosed, SameEdge
  <2> QED
    BY <1>4, <1>5, <2>1 DEF DownClosed
<1>6. DownServices \subseteq DownServices'
  BY <1>5 DEF DownServices
<1>7. ASSUME NEW x, NEW z, z \subseteq x, NEW y, HurtClosed(y, x)' PROVE HurtClosed(y, z)
  <2>1. \A d : ProviderDown(d, z) => ProviderDown(d, x)
    BY <1>7, ProviderGrows
  <2> DEFINE Reaches(d) ==
        \/ d.nature = "hard" /\ ProviderHurt(d, y)
        \/ (d.nature = "soft" \/ (d.nature = "async" /\ d.outlasted)) /\ ProviderDown(d, z)
  <2>2. ASSUME NEW d \in Edges, Reaches(d) PROVE d.consumer \in y
    <3>1. PICK e \in Edges' : /\ SameEdge(d, e)
                              /\ ProviderDown(d, x) => ProviderDown(e, x)'
                              /\ ProviderHurt(d, y) => ProviderHurt(e, y)'
      BY <1>2
    <3> QED
      BY <1>7, <2>1, <2>2, <3>1 DEF HurtClosed, SameEdge
  <2> QED
    BY <1>4, <1>7, <2>2 DEF HurtClosed
<1>8. ASSUME NEW y \in SUBSET Services, HurtClosed(y, DownServices)' PROVE HurtClosed(y, DownServices)
  BY <1>6, <1>7, <1>8
<1> QED
  BY <1>6, <1>8 DEF HurtServices

LEMMA LossStep ==
  ASSUME ImpactInv, pc = "idle", named \subseteq named', named' \subseteq Instances,
         failed \subseteq failed', failed' \subseteq Hosts, round' = 0,
         UNCHANGED <<g, pc, statuses, via, wontRestart, routeStatus, next, changed, answered, eased>>
  PROVE  ImpactInv'
<1> USE DEF ImpactInv
<1>1. TypeOK'
  BY IterationsAssumption DEF TypeOK
<1>2. RoutesBehind' /\ Settled'
  BY SettledFrame
<1>3. Justified'
  <2> SUFFICES ASSUME NoneInside' PROVE Sound(statuses)' /\ (~eased' => Sound(answered)')
    BY DEF Justified
  <2>1. NoneInside /\ DownInstances \subseteq DownInstances'
    BY DownStays
  <2>2. SameEstate(g, g') /\ NetworkNoBetter(g, g') /\ g' \in Estate
    BY SameItself DEF TypeOK
  <2>3. DownServices \subseteq DownServices' /\ HurtServices \subseteq HurtServices'
    BY <2>1, <2>2, CapacityGrows, MeaningGrows
  <2>4. Sound(statuses) /\ (~eased => Sound(answered))
    BY <2>1 DEF Justified
  <2> QED
    BY <2>3, <2>4 DEF Sound, Gone, Hit
<1>4. Stops' /\ Grown' /\ Explained' /\ FaultsJustified' /\ Paid'
  BY DEF Stops, Grown, Explained, FaultsJustified, Paid
<1> QED
  BY <1>1, <1>2, <1>3, <1>4

(* The capacity phase alone says nothing that the outage does not mean. *)
LEMMA CapacitySound == g \in Estate => Sound(Capacity)
BY DownLeast, HurtLeast DEF Sound, Gone, Hit, DownClosed, HurtClosed

(* What the network leaves of an estate is that estate, with other reach. *)
LEMMA SurveyType ==
  ASSUME NEW e \in Estate, NEW n \in Networks
  PROVE  UnderNetwork(e, n) \in Estate /\ SameEstate(e, UnderNetwork(e, n))
<1> DEFINE f == UnderNetwork(e, n)
           level(i) == IF i \in DOMAIN n.dep THEN n.dep[i] ELSE "ok"
           dep(i) == [e.deps[i] EXCEPT !.reach = level(i)]
           deps == [i \in DOMAIN e.deps |-> dep(i)]
           at(r, m) == {[service |-> m.service, reach |-> x] : x \in n.member[r][m.service]}
           members(r) == UNION {at(r, m) : m \in e.routes[r].members}
           route(r) == [e.routes[r] EXCEPT !.members = members(r)]
           routes == [r \in Routes |-> route(r)]
<1>1. n \in Network
  BY NetworksAssumption
<1>2. n.dep \in Seq(Reach) /\ n.member \in [Routes -> [Services -> (SUBSET Reach) \ {{}}]]
  BY <1>1 DEF Network
<1>3. \A i : level(i) \in Reach
  <2>1. \A i \in DOMAIN n.dep : n.dep[i] \in Reach
    BY <1>2
  <2> QED
    BY <2>1 DEF Reach
<1>4. e.deps \in Seq(Dependency) /\ e.routes \in [Routes -> Route]
  BY DEF Estate
<1>5. DOMAIN e.deps = 1 .. Len(e.deps) /\ Len(e.deps) \in Nat
      /\ \A i \in DOMAIN e.deps : e.deps[i] \in Dependency
  BY <1>4
<1> HIDE DEF level
<1>6. ASSUME NEW i \in DOMAIN e.deps PROVE dep(i) \in Dependency /\ SameEdge(e.deps[i], dep(i))
  BY <1>3, <1>5 DEF Dependency, SameEdge
<1> HIDE DEF dep
<1>7. deps \in Seq(Dependency) /\ DOMAIN deps = DOMAIN e.deps /\ Len(deps) = Len(e.deps)
  BY <1>5, <1>6
<1>8. ASSUME NEW r \in Routes PROVE route(r) \in Route /\ route(r).frontend = e.routes[r].frontend
  <2>1. e.routes[r] \in Route
    BY <1>4
  <2>2. ASSUME NEW m \in e.routes[r].members PROVE at(r, m) \subseteq [service : Services, reach : Reach]
    <3>1. m.service \in Services
      BY <2>1 DEF Route
    <3>2. n.member[r][m.service] \subseteq Reach
      BY <1>2, <3>1
    <3> QED
      BY <3>1, <3>2
  <2> HIDE DEF at
  <2>3. members(r) \subseteq [service : Services, reach : Reach]
    BY <2>2
  <2> HIDE DEF members
  <2> QED
    BY <2>1, <2>3 DEF Route
<1>9. f = [e EXCEPT !.deps = deps, !.routes = routes]
  BY DEF UnderNetwork, level, dep
<1> HIDE DEF deps, route
<1>10. routes \in [Routes -> Route] /\ \A r \in Routes : routes[r].frontend = e.routes[r].frontend
  BY <1>8
<1> HIDE DEF routes, f
<1>11. f \in Estate /\ f.deps = deps /\ f.routes = routes
       /\ f.policy = e.policy /\ f.instance = e.instance /\ f.clusters = e.clusters
  BY <1>7, <1>9, <1>10 DEF Estate
<1>12. \A i \in DOMAIN e.deps : SameEdge(e.deps[i], f.deps[i])
  BY <1>6, <1>11 DEF deps
<1> QED
  BY <1>7, <1>10, <1>11, <1>12 DEF SameEstate, f

(* Capacity asks nothing of the network. *)
LEMMA CapacityFrame ==
  ASSUME SameEstate(g, g'), UNCHANGED <<named, failed>>
  PROVE  Capacity' = Capacity /\ (NoneInside' <=> NoneInside)
<1>0. g'.policy = g.policy /\ g'.instance = g.instance /\ g'.clusters = g.clusters
  BY DEF SameEstate
<1>1. DownInstances' = DownInstances /\ (NoneInside' <=> NoneInside)
  BY <1>0 DEF DownInstances, Condemned, Revived, Inside, CanRelocate, NoneInside
<1> QED
  BY <1>0, <1>1 DEF Capacity, Of, Health, ShardOf

LEMMA AnalyseStep == ASSUME ImpactInv, Analyse PROVE ImpactInv'
<1> USE DEF ImpactInv
<1>0. g \in Estate /\ Capacity \in Ranks
  BY CapacityType DEF TypeOK
<1>1. /\ UNCHANGED <<named, failed>>
      /\ pc' = "round" /\ next' = 1 /\ changed' = FALSE /\ round' = 1
      /\ statuses' = Capacity /\ routeStatus' = [r \in Routes |-> RouteHealth(g'.routes[r], Capacity)]
      /\ via' = Nobody /\ wontRestart' = Nobody /\ answered' = statuses
  BY DEF Analyse
<1>a. PICK n \in Networks : g' = UnderNetwork(g, n) /\ eased' = ~NetworkNoBetter(g, g')
  BY DEF Analyse
<1>b. g' \in Estate /\ SameEstate(g, g')
  BY <1>0, <1>a, SurveyType
<1>c. Capacity' = Capacity /\ (NoneInside' <=> NoneInside)
  BY <1>1, <1>b, CapacityFrame
<1>2. TypeOK'
  <2>1. routeStatus' \in RouteTables
    <3>1. \A r \in Routes : g'.routes[r] \in Route
      BY <1>b DEF Estate
    <3> QED
      BY <1>0, <1>1, <3>1, RouteHealthType DEF RouteTables
  <2>2. Len(g'.deps) \in Nat
    BY <1>b DEF Estate
  <2>3. next' \in 1 .. (Len(g'.deps) + 1) /\ round' \in 0 .. MaxIterations
    BY <1>1, <2>2, IterationsAssumption
  <2>4. /\ via' \in [Services -> Services \cup Routes \cup {None}]
        /\ wontRestart' \in [Services -> Fault \cup {None}]
    BY <1>1 DEF Nobody
  <2> QED
    BY <1>0, <1>1, <1>a, <1>b, <2>1, <2>3, <2>4 DEF TypeOK, RouteTables, Ranks
<1>3. routeStatus' = RouteStatuses(statuses)'
  BY <1>1 DEF RouteStatuses, RouteHealth
<1>4. RoutesBehind'
  <2>1. \A r \in Routes : routeStatus'[r] = RouteHealth(g'.routes[r], statuses')
    BY <1>3 DEF RouteStatuses
  <2>2. \A r \in Routes : routeStatus'[r].status \in Statuses
    BY <1>2 DEF TypeOK
  <2> QED
    BY <2>1, <2>2 DEF RoutesBehind
<1>5. Settled'
  BY <1>1, <1>3 DEF Settled
<1>6. Capacity' = Capacity
  BY <1>c
<1>7. Grown'
  BY <1>0, <1>1, <1>6 DEF Grown, AtMost, Ranks
<1>8. Explained'
  BY <1>1, <1>6, NobodyType DEF Explained
<1>9. Justified'
  <2>1. Sound(statuses)'
    <3>1. Sound(Capacity)'
      <4>1. (g \in Estate => Sound(Capacity))'
        BY CapacitySound, PTL
      <4> QED
        BY <1>b, <4>1
    <3> QED
      BY <1>1, <1>c, <3>1 DEF Sound, Gone, Hit
  <2>2. ASSUME NoneInside', ~eased' PROVE Sound(answered)'
    <3>1. Sound(statuses)
      BY <1>c, <2>2 DEF Justified
    <3>2. AtMost(Capacity, Capacity')
      BY <1>0, <1>c DEF AtMost, Ranks
    <3>3. DownServices \subseteq DownServices' /\ HurtServices \subseteq HurtServices'
      BY <1>a, <1>b, <2>2, <3>2, MeaningGrows
    <3> QED
      BY <1>1, <3>1, <3>3 DEF Sound, Gone, Hit
  <2> QED
    BY <2>1, <2>2 DEF Justified
<1>10. FaultsJustified'
  BY <1>1, NobodyType DEF FaultsJustified
<1>11. Paid'
  <2>1. Cardinality(Events)' \in Nat
    <3>1. Events' \in SUBSET (Services \X (1 .. 3))
      BY DEF Events
    <3> QED
      BY <3>1, EventSpace, FS_Subset, FS_CardinalityType
  <2> QED
    BY <1>1, <2>1 DEF Paid
<1>12. Stops'
  BY <1>1 DEF Stops
<1> QED
  BY <1>2, <1>4, <1>5, <1>7, <1>8, <1>9, <1>10, <1>11, <1>12

LEMMA EndRoundStep == ASSUME ImpactInv, EndRound PROVE ImpactInv'
<1> USE DEF ImpactInv
<1>0. g \in Estate /\ statuses \in Ranks /\ Len(g.deps) \in Nat /\ round \in Nat /\ round > 0
  BY DEF TypeOK, Ranks, Estate, EndRound, Stops
<1>1. /\ UNCHANGED <<g, named, failed, statuses, via, wontRestart, answered, eased>>
      /\ next > Len(g.deps)
  BY DEF EndRound
<1>a. UNCHANGED <<g, named, failed>>
  BY <1>1
<1>2. CASE /\ changed /\ round < MaxIterations /\ round' = round + 1
           /\ next' = 1 /\ changed' = FALSE
           /\ routeStatus' = NextRound(statuses)
           /\ UNCHANGED pc
  <2>1. routeStatus' = RouteStatuses(statuses) /\ routeStatus' = RouteStatuses(statuses)'
    BY <1>1, <1>2 DEF NextRound, RouteStatuses, RouteHealth
  <2>2. /\ routeStatus' \in RouteTables
        /\ \A r \in Routes : routeStatus'[r] = RouteHealth(g.routes[r], statuses)
    BY <1>0, <2>1, RouteStatusesType DEF RouteTables
  <2>3. TypeOK'
    <3>1. next' \in 1 .. (Len(g'.deps) + 1) /\ round' \in 0 .. MaxIterations
      BY <1>0, <1>1, <1>2, IterationsAssumption
    <3> QED
      BY <1>1, <1>2, <2>2, <3>1 DEF TypeOK, RouteTables
  <2>4. RoutesBehind'
    <3>1. \A r \in Routes : routeStatus'[r].status \in Statuses
      BY <2>2 DEF RouteTables
    <3> QED
      BY <1>1, <2>2, <3>1 DEF RoutesBehind
  <2>5. Settled' /\ Stops'
    BY <1>0, <1>2, <2>1 DEF Settled, Stops, EndRound
  <2>6. Grown'
    BY <1>0, <1>1, <1>a, OutageFrame DEF Grown, AtMost
  <2>7. Explained'
    <3> SUFFICES ASSUME NEW s \in Services
                 PROVE  IF via'[s] = None THEN statuses'[s] = Capacity'[s]
                        ELSE \E d \in Edges' : Carries(d, s)'
      BY DEF Explained
    <3>1. CASE via[s] = None
      BY <1>0, <1>1, <1>a, <3>1, OutageFrame DEF Explained
    <3>2. CASE via[s] # None
      <4>1. PICK d \in Edges : Carries(d, s)
        BY <1>0, <3>2 DEF Explained
      <4>2. d \in Dependency /\ ~Skipped(d)
        BY <1>0, EdgesType
      <4>3. \A r \in Routes : routeStatus[r].status <= routeStatus'[r].status
        BY <2>2 DEF RoutesBehind
      <4>4. routeStatus \in RouteTables /\ AtMost(statuses, statuses)
        BY <1>0 DEF TypeOK, RouteTables, AtMost, Ranks
      <4>5. Effect(d, statuses, routeStatus) <= Effect(d, statuses, routeStatus')
            /\ Effect(d, statuses, routeStatus) \in Statuses /\ Effect(d, statuses, routeStatus') \in Statuses
        BY <1>0, <2>2, <4>2, <4>3, <4>4, EffectMonotone
      <4>6. statuses[s] \in Statuses
        BY <1>0 DEF Ranks
      <4>7. statuses[s] <= Effect(d, statuses, routeStatus')
        BY <4>1, <4>5, <4>6 DEF Carries
      <4>8. Carries(d, s)'
        BY <1>1, <4>1, <4>7 DEF Carries, Effect, Seen, Propagate
      <4>9. d \in Edges'
        BY <1>a, OutageFrame
      <4> QED
        BY <1>1, <3>2, <4>8, <4>9
    <3> QED
      BY <3>1, <3>2
  <2>8. Justified' /\ FaultsJustified'
    <3>1. Sound(statuses)' /\ Sound(statuses) /\ (Sound(answered)' <=> Sound(answered))
      BY <1>0, <1>1, <1>a, OutageFrame DEF Justified, Sound, Gone, Hit
    <3>2. Justified'
      BY <1>1, <1>a, <3>1, OutageFrame DEF Justified
    <3>3. FaultsJustified'
      BY <1>0, <1>1, <1>a, OutageFrame DEF FaultsJustified, Unable, ProviderDown, AllGone
    <3> QED
      BY <3>2, <3>3
  <2>9. Paid'
    <3>1. Events' = Events
      BY <1>1 DEF Events
    <3>2. round <= Cardinality(Events) /\ Cardinality(Events) \in Nat
      BY <1>0, <1>2, EventsBounded DEF Paid
    <3> QED
      BY <1>0, <1>2, <3>1, <3>2 DEF Paid
  <2> QED
    BY <2>3, <2>4, <2>5, <2>6, <2>7, <2>8, <2>9
<1>3. CASE /\ ~changed \/ round = MaxIterations
           /\ pc' = "idle" /\ UNCHANGED <<round, next, changed, routeStatus>>
  <2>1. TypeOK'
    BY <1>1, <1>3 DEF TypeOK
  <2>2. RoutesBehind' /\ Settled'
    BY <1>1, <1>3, SettledFrame
  <2>3. Stops'
    BY <1>1, <1>3 DEF Stops
  <2>4. Grown' /\ Paid'
    BY <1>1, <1>a, <1>3, OutageFrame DEF Grown, AtMost, Paid, Events
  <2>5. Explained'
    BY <1>1, <1>a, <1>3, OutageFrame DEF Explained, Carries, Effect, Seen, Propagate
  <2>6. Justified' /\ FaultsJustified'
    BY <1>0, <1>1, <1>a, <1>3, OutageFrame
    DEF Justified, Sound, Gone, Hit, FaultsJustified, Unable, ProviderDown, AllGone
  <2> QED
    BY <2>1, <2>2, <2>3, <2>4, <2>5, <2>6
<1> QED
  BY <1>2, <1>3 DEF EndRound

(* What a dependency's turn does to its consumer, in terms of the edge. *)
LEMMA DepFacts ==
  ASSUME TypeOK, ApplyDep, NEW d, d = g.deps[next], ~Skipped(d)
  PROVE  /\ d \in Dependency /\ d \in Edges /\ d.consumer \in Services /\ d.provider # None
         /\ next \in 1 .. Len(g.deps) /\ next' = next + 1
         /\ Effect(d, statuses, routeStatus) \in Statuses
         /\ Seen(d, statuses, routeStatus) \in Statuses
         /\ UNCHANGED <<g, named, failed, pc, routeStatus, round, answered, eased>>
         /\ statuses' \in Ranks /\ AtMost(statuses, statuses')
         /\ \A s \in Services : statuses'[s] =
              IF s = d.consumer THEN Worse(statuses[s], Effect(d, statuses, routeStatus)) ELSE statuses[s]
         /\ via' = IF statuses'[d.consumer] # statuses[d.consumer]
                     THEN [via EXCEPT ![d.consumer] = d.provider] ELSE via
<1> DEFINE c == d.consumer
           merged == Worse(statuses[c], Effect(d, statuses, routeStatus))
<1>1. g \in Estate /\ statuses \in Ranks /\ routeStatus \in RouteTables /\ Len(g.deps) \in Nat
  BY DEF TypeOK, Ranks, RouteTables, Estate
<1>2. next \in 1 .. Len(g.deps) /\ next' = next + 1
      /\ UNCHANGED <<g, named, failed, pc, routeStatus, round, answered, eased>>
  BY <1>1 DEF ApplyDep, TypeOK
<1>3. d \in Dependency /\ d \in Edges
  BY <1>1, <1>2, EdgesType
<1>4. c \in Services /\ d.provider # None
  BY <1>3, EdgeType
<1>5. Seen(d, statuses, routeStatus) \in Statuses /\ Effect(d, statuses, routeStatus) \in Statuses
  BY <1>1, <1>3, SeenType, PropagateMonotone DEF Effect
<1>6. statuses' = [statuses EXCEPT ![c] = merged] /\ NameEdge(d, merged)
  BY DEF ApplyDep, Effect
<1>7. merged \in Statuses /\ statuses[c] \in Statuses /\ statuses[c] <= merged
  BY <1>1, <1>4, <1>5 DEF Worse, Ranks
<1> HIDE DEF merged
<1>8. /\ statuses' \in Ranks
      /\ \A s \in Services : statuses'[s] = IF s = c THEN merged ELSE statuses[s]
  BY <1>1, <1>4, <1>6, <1>7 DEF Ranks
<1>9. AtMost(statuses, statuses')
  BY <1>1, <1>7, <1>8 DEF AtMost, Ranks
<1>10. via' = IF statuses'[c] # statuses[c] THEN [via EXCEPT ![c] = d.provider] ELSE via
  BY <1>4, <1>6, <1>8 DEF NameEdge
<1> QED
  BY <1>2, <1>3, <1>4, <1>5, <1>8, <1>9, <1>10 DEF merged

(* Whether it is news, and what becomes of the consumer's fault. *)
LEMMA DepNews ==
  ASSUME TypeOK, ApplyDep, NEW d, d = g.deps[next], ~Skipped(d),
         NEW fault, fault = (d.nature = "startup" /\ Seen(d, statuses, routeStatus) = Down
                              /\ wontRestart[d.consumer] = None)
  PROVE  /\ wontRestart' \in [Services -> Fault \cup {None}]
         /\ \A s \in Services : (wontRestart'[s] # None <=> wontRestart[s] # None \/ (s = d.consumer /\ fault))
         /\ changed' = (changed \/ statuses'[d.consumer] # statuses[d.consumer] \/ fault)
<1> DEFINE c == d.consumer
           net == Seen(d, statuses, routeStatus) # Own(d, statuses, routeStatus)
<1>1. c \in Services /\ d \in Dependency
  BY DepFacts
<1>2. d.provider \in Services \cup Routes
  BY <1>1, EdgeType
<1>3. wontRestart' = IF fault THEN [wontRestart EXCEPT ![c] = [via |-> d.provider, net |-> net]] ELSE wontRestart
  BY DEF ApplyDep, Unmet
<1>4. changed' = (changed \/ Worse(statuses[c], Propagate(d, Seen(d, statuses, routeStatus))) # statuses[c] \/ fault)
  BY DEF ApplyDep, Unmet
<1>5. statuses'[c] = Worse(statuses[c], Propagate(d, Seen(d, statuses, routeStatus)))
  BY <1>1, DepFacts DEF Effect
<1>6. [via |-> d.provider, net |-> net] \in Fault
  BY <1>2 DEF Fault
<1>7. wontRestart \in [Services -> Fault \cup {None}]
  BY DEF TypeOK
<1>8. wontRestart' \in [Services -> Fault \cup {None}]
  BY <1>1, <1>3, <1>6, <1>7
<1> HIDE DEF net
<1>9. [via |-> d.provider, net |-> net] # None
  BY <1>6, NoneAssumption
<1>10. \A s \in Services : (wontRestart'[s] # None <=> wontRestart[s] # None \/ (s = c /\ fault))
  BY <1>1, <1>3, <1>7, <1>9
<1> QED
  BY <1>4, <1>5, <1>8, <1>10

(* Statuses within a round only worsen, so a route only looks worse, and so  *)
(* does every provider.                                                      *)
LEMMA DepType == ASSUME ImpactInv, ApplyDep PROVE TypeOK'
<1> USE DEF ImpactInv
<1> DEFINE d == g.deps[next]
<1>1. next \in 1 .. Len(g.deps) /\ next' = next + 1 /\ Len(g.deps) \in Nat
      /\ UNCHANGED <<g, named, failed, pc, routeStatus, round, answered, eased>>
  BY DEF ApplyDep, TypeOK, Estate
<1>2. next' \in 1 .. (Len(g'.deps) + 1)
  BY <1>1
<1>3. CASE Skipped(d)
  <2>1. UNCHANGED <<statuses, via, wontRestart, changed>>
    BY <1>3 DEF ApplyDep
  <2> QED
    BY <1>1, <1>2, <2>1 DEF TypeOK
<1>4. CASE ~Skipped(d)
  <2> DEFINE fault == d.nature = "startup" /\ Seen(d, statuses, routeStatus) = Down
                        /\ wontRestart[d.consumer] = None
  <2>1. wontRestart' \in [Services -> Fault \cup {None}]
        /\ changed' = (changed \/ statuses'[d.consumer] # statuses[d.consumer] \/ fault)
    BY <1>4, DepNews
  <2>2. /\ d \in Dependency /\ d.consumer \in Services /\ d.provider # None
        /\ statuses' \in Ranks
        /\ via' = IF statuses'[d.consumer] # statuses[d.consumer]
                     THEN [via EXCEPT ![d.consumer] = d.provider] ELSE via
    BY <1>4, DepFacts
  <2>3. d.provider \in Services \cup Routes
    BY <1>4, <2>2, EdgeType
  <2> HIDE DEF d
  <2>4. via' \in [Services -> Services \cup Routes \cup {None}]
    BY <2>2, <2>3 DEF TypeOK
  <2>5. changed' \in BOOLEAN
    BY <2>1
  <2> QED
    BY <1>1, <1>2, <2>1, <2>2, <2>4, <2>5 DEF TypeOK, Ranks
<1> QED
  BY <1>3, <1>4

LEMMA SkipStep ==
  ASSUME ImpactInv, ApplyDep, Skipped(g.deps[next]) PROVE ImpactInv'
<1> USE DEF ImpactInv
<1>1. /\ next \in 1 .. Len(g.deps) /\ next' = next + 1 /\ pc = "round" /\ Len(g.deps) \in Nat
      /\ UNCHANGED <<g, named, failed, pc, routeStatus, round, answered, eased, statuses, via, wontRestart, changed>>
  BY DEF ApplyDep, TypeOK, Estate
<1>a. UNCHANGED <<g, named, failed>>
  BY <1>1
<1>2. RoutesBehind'
  BY <1>1 DEF RoutesBehind
<1>3. Settled'
  <2>1. \A i : Quiet(g.deps[i])' <=> Quiet(g.deps[i])
    BY <1>1 DEF Quiet, Effect
  <2>2. RouteStatuses(statuses)' = RouteStatuses(statuses)
    BY <1>1 DEF RouteStatuses
  <2>3. Quiet(g.deps[next])
    BY DEF Quiet
  <2>4. \A i \in 1 .. (next' - 1) : i \in 1 .. (next - 1) \/ i = next
    BY <1>1
  <2> QED
    BY <1>1, <2>1, <2>2, <2>3, <2>4 DEF Settled
<1>4. Stops' /\ Paid'
  BY <1>1 DEF Stops, Paid, Events
<1>5. Grown' /\ Explained'
  BY <1>1, <1>a, OutageFrame DEF Grown, AtMost, Explained, Carries, Effect
<1>6. Justified' /\ FaultsJustified'
  BY <1>1, <1>a, OutageFrame
  DEF Justified, Sound, Gone, Hit, FaultsJustified, Unable, ProviderDown, AllGone
<1> QED
  BY <1>2, <1>3, <1>4, <1>5, <1>6, DepType

(* What a provider is seen as follows from what is down and hurt for cause. *)
LEMMA SeenSound ==
  ASSUME ImpactInv, round > 0, NEW d \in Edges
  PROVE  /\ Seen(d, statuses, routeStatus) = Down => ProviderDown(d, DownServices)
         /\ Seen(d, statuses, routeStatus) # OK => ProviderHurt(d, HurtServices)
<1> USE DEF ImpactInv
<1>1. g \in Estate /\ statuses \in Ranks /\ routeStatus \in RouteTables /\ AtMost(statuses, statuses)
  BY DEF TypeOK, Ranks, RouteTables, AtMost
<1>2. d \in Dependency /\ ~Skipped(d)
  BY <1>1, EdgesType
<1>3. RouteStatuses(statuses) \in RouteTables
      /\ \A r \in Routes : routeStatus[r].status <= RouteStatuses(statuses)[r].status
  BY <1>1, RouteStatusesType DEF RoutesBehind, RouteTables
<1>4. /\ Seen(d, statuses, routeStatus) <= Seen(d, statuses, RouteStatuses(statuses))
      /\ Seen(d, statuses, routeStatus) \in Statuses
      /\ Seen(d, statuses, RouteStatuses(statuses)) \in Statuses
  BY <1>1, <1>2, <1>3, SeenMonotone, SeenType
<1>5. /\ Seen(d, statuses, routeStatus) = Down => ProviderDown(d, Gone(statuses))
      /\ Seen(d, statuses, routeStatus) # OK => ProviderHurt(d, Hit(statuses))
  BY <1>1, <1>2, <1>4, SeenExtremes
<1>6. Gone(statuses) \subseteq DownServices /\ Hit(statuses) \subseteq HurtServices
  BY DEF Justified, Sound
<1> QED
  BY <1>5, <1>6, ProviderGrows

LEMMA EffectSound ==
  ASSUME ImpactInv, round > 0, NEW d \in Edges
  PROVE  /\ Effect(d, statuses, routeStatus) = Down => d.consumer \in DownServices
         /\ Effect(d, statuses, routeStatus) # OK => d.consumer \in HurtServices
<1> DEFINE seen == Seen(d, statuses, routeStatus)
<1>1. g \in Estate /\ d.nature \in Natures
  BY EdgesType DEF ImpactInv, TypeOK, Dependency
<1>2. (seen = Down => ProviderDown(d, DownServices)) /\ (seen # OK => ProviderHurt(d, HurtServices))
  BY SeenSound
<1> HIDE DEF seen
<1>3. /\ Propagate(d, seen) = Down => d.nature = "hard" /\ seen = Down
      /\ Propagate(d, seen) # OK =>
           \/ d.nature = "hard" /\ seen # OK
           \/ (d.nature = "soft" \/ (d.nature = "async" /\ d.outlasted)) /\ seen = Down
  BY DEF Propagate
<1>4. DownClosed(DownServices) /\ HurtClosed(HurtServices, DownServices)
  BY <1>1, DownLeast, HurtLeast
<1>5. Propagate(d, seen) = Down => d.consumer \in DownServices
  BY <1>2, <1>3, <1>4 DEF DownClosed
<1>6. Propagate(d, seen) # OK => d.consumer \in HurtServices
  BY <1>2, <1>3, <1>4 DEF HurtClosed
<1> QED
  BY <1>5, <1>6 DEF Effect, seen

(* More events are counted exactly when there is news. *)
LEMMA MoreEvents ==
  ASSUME NEW A, NEW B, IsFiniteSet(B), A \subseteq B
  PROVE  /\ Cardinality(A) \in Nat /\ Cardinality(B) \in Nat
         /\ Cardinality(A) <= Cardinality(B)
         /\ A # B => Cardinality(A) + 1 <= Cardinality(B)
<1>1. /\ IsFiniteSet(A) /\ Cardinality(A) <= Cardinality(B)
      /\ Cardinality(B) = Cardinality(A) => B = A
  BY FS_Subset
<1>2. Cardinality(A) \in Nat /\ Cardinality(B) \in Nat
  BY <1>1, FS_CardinalityType
<1> QED
  BY <1>1, <1>2

LEMMA DepStep ==
  ASSUME ImpactInv, ApplyDep, ~Skipped(g.deps[next]) PROVE ImpactInv'
<1> USE DEF ImpactInv
<1>0. PICK d : d = g.deps[next]
  OBVIOUS
<1> DEFINE c == d.consumer
           effect == Effect(d, statuses, routeStatus)
           fault == d.nature = "startup" /\ Seen(d, statuses, routeStatus) = Down /\ wontRestart[c] = None
<1>1. /\ d \in Dependency /\ d \in Edges /\ c \in Services /\ d.provider # None
      /\ next \in 1 .. Len(g.deps) /\ next' = next + 1
      /\ effect \in Statuses
      /\ UNCHANGED <<g, named, failed, pc, routeStatus, round, answered, eased>>
      /\ statuses' \in Ranks /\ AtMost(statuses, statuses')
      /\ \A s \in Services : statuses'[s] = IF s = c THEN Worse(statuses[s], effect) ELSE statuses[s]
      /\ via' = IF statuses'[c] # statuses[c] THEN [via EXCEPT ![c] = d.provider] ELSE via
  BY <1>0, DepFacts
<1>2. /\ \A s \in Services : (wontRestart'[s] # None <=> wontRestart[s] # None \/ (s = c /\ fault))
      /\ changed' = (changed \/ statuses'[c] # statuses[c] \/ fault)
  BY <1>0, DepNews
<1>3. /\ g \in Estate /\ statuses \in Ranks /\ routeStatus \in RouteTables /\ Len(g.deps) \in Nat
      /\ pc = "round" /\ round \in Nat /\ round > 0
      /\ via \in [Services -> Services \cup Routes \cup {None}]
  BY DEF TypeOK, Ranks, RouteTables, Estate, ApplyDep, Stops
<1>a. UNCHANGED <<g, named, failed>>
  BY <1>1
<1>b. (effect = Down => c \in DownServices) /\ (effect # OK => c \in HurtServices)
  BY <1>1, <1>3, EffectSound
<1>c. fault => ProviderDown(d, DownServices) /\ d.nature = "startup"
  BY <1>1, <1>3, SeenSound
<1>d. effect = Effect(d, statuses, routeStatus)
  OBVIOUS
<1>e. fault <=> d.nature = "startup" /\ Seen(d, statuses, routeStatus) = Down /\ wontRestart[c] = None
  OBVIOUS
<1>f. c = d.consumer
  OBVIOUS
<1> HIDE DEF c, effect, fault
<1>4. \A s \in Services : statuses[s] \in Statuses /\ statuses'[s] \in Statuses
  BY <1>1, <1>3 DEF Ranks
<1>5. RoutesBehind'
  <2> SUFFICES ASSUME NEW r \in Routes
               PROVE  routeStatus'[r].status <= RouteHealth(g'.routes[r], statuses').status
    BY DEF RoutesBehind
  <2>1. g.routes[r] \in Route
    BY <1>3 DEF Estate
  <2>2. RouteHealth(g.routes[r], statuses).status <= RouteHealth(g.routes[r], statuses').status
    BY <1>1, <1>3, <2>1, RouteMonotone
  <2>3. /\ RouteHealth(g.routes[r], statuses).status \in Statuses
        /\ RouteHealth(g.routes[r], statuses').status \in Statuses
        /\ routeStatus[r].status \in Statuses
    BY <1>1, <1>3, <2>1, RouteHealthType DEF RouteTables
  <2>4. routeStatus[r].status <= RouteHealth(g.routes[r], statuses).status
    BY DEF RoutesBehind
  <2> QED
    BY <1>1, <2>2, <2>3, <2>4
<1>6. Settled'
  <2> SUFFICES ASSUME ~changed'
               PROVE  /\ routeStatus' = RouteStatuses(statuses)'
                      /\ \A i \in 1 .. (next' - 1) : Quiet(g.deps[i])'
    BY DEF Settled
  <2>1. ~changed /\ statuses'[c] = statuses[c] /\ ~fault
    BY <1>2
  <2>2. statuses' = statuses
    BY <1>1, <1>3, <2>1 DEF Ranks
  <2>3. routeStatus' = RouteStatuses(statuses)'
    BY <1>1, <2>1, <2>2 DEF Settled, RouteStatuses
  <2>4. Quiet(d)
    <3>1. effect <= statuses[c]
      BY <1>1, <1>4, <2>1 DEF Worse
    <3> QED
      BY <1>d, <1>e, <1>f, <2>1, <3>1 DEF Quiet
  <2>5. \A s \in Services : wontRestart[s] # None => wontRestart'[s] # None
    BY <1>2
  <2>6. ASSUME NEW i \in 1 .. (next' - 1) PROVE Quiet(g.deps[i])'
    <3>1. i \in 1 .. (next - 1) \/ i = next
      BY <1>1
    <3>2. Quiet(g.deps[i])
      BY <1>0, <2>1, <2>4, <3>1 DEF Settled
    <3>3. i \in 1 .. Len(g.deps)
      BY <1>1, <1>3, <3>1
    <3>4. ~Skipped(g.deps[i]) => g.deps[i].consumer \in Services
      BY <1>3, <3>3, EdgesType, EdgeType
    <3> QED
      BY <1>1, <2>2, <2>5, <3>2, <3>4 DEF Quiet, Effect
  <2> QED
    BY <2>3, <2>6
<1>7. Stops'
  BY <1>1, <1>3 DEF Stops
<1>8. Grown'
  <2>1. Capacity' = Capacity /\ Capacity \in Ranks
    BY <1>a, <1>3, OutageFrame, CapacityType
  <2>2. AtMost(Capacity, statuses)
    BY <1>3 DEF Grown
  <2> QED
    BY <1>1, <1>4, <2>1, <2>2 DEF Grown, AtMost, Ranks
<1>9. Explained'
  <2> SUFFICES ASSUME NEW s \in Services
               PROVE  IF via'[s] = None THEN statuses'[s] = Capacity'[s]
                      ELSE \E e \in Edges' : Carries(e, s)'
    BY DEF Explained
  <2>0. Edges' = Edges /\ Capacity' = Capacity
    BY <1>a, OutageFrame
  <2>1. ASSUME NEW e \in Edges
        PROVE  /\ Effect(e, statuses, routeStatus) \in Statuses
               /\ Effect(e, statuses', routeStatus') \in Statuses
               /\ Effect(e, statuses, routeStatus) <= Effect(e, statuses', routeStatus')
    <3>1. e \in Dependency /\ ~Skipped(e)
      BY <1>3, EdgesType
    <3>2. routeStatus' \in RouteTables /\ \A r \in Routes : routeStatus[r].status <= routeStatus'[r].status
      BY <1>1, <1>3 DEF RouteTables
    <3> QED
      BY <1>1, <1>3, <3>1, <3>2, EffectMonotone
  <2>2. CASE s = c /\ statuses'[c] # statuses[c]
    <3>1. statuses'[s] = effect /\ via'[s] = d.provider
      BY <1>1, <1>3, <1>4, <2>2 DEF Worse
    <3>2. statuses'[s] <= Effect(d, statuses', routeStatus')
      BY <1>1, <1>d, <2>1, <3>1
    <3>3. Carries(d, s)'
      BY <1>f, <2>2, <3>1, <3>2 DEF Carries, Effect
    <3> QED
      BY <1>1, <2>0, <3>1, <3>3
  <2>3. CASE ~(s = c /\ statuses'[c] # statuses[c])
    <3>1. statuses'[s] = statuses[s] /\ via'[s] = via[s]
      BY <1>1, <1>3, <2>3
    <3>2. CASE via[s] = None
      BY <1>3, <2>0, <3>1, <3>2 DEF Explained
    <3>3. CASE via[s] # None
      <4>1. PICK e \in Edges : Carries(e, s)
        BY <1>3, <3>3 DEF Explained
      <4>2. statuses'[s] <= Effect(e, statuses', routeStatus')
        BY <1>4, <2>1, <3>1, <4>1 DEF Carries
      <4>3. Carries(e, s)'
        BY <3>1, <4>1, <4>2 DEF Carries, Effect
      <4> QED
        BY <2>0, <3>1, <3>3, <4>3
    <3> QED
      BY <3>2, <3>3
  <2> QED
    BY <2>2, <2>3
<1>10. Justified'
  <2>0. /\ DownServices' = DownServices /\ HurtServices' = HurtServices
        /\ NoneInside' <=> NoneInside
    BY <1>a, OutageFrame
  <2>1. Sound(statuses) /\ (NoneInside /\ ~eased => Sound(answered))
    BY <1>3 DEF Justified
  <2>2. ASSUME NEW s \in Services
        PROVE  /\ statuses'[s] = Down => s \in DownServices
               /\ statuses'[s] # OK => s \in HurtServices
    BY <1>1, <1>4, <1>b, <2>1 DEF Worse, Sound, Gone, Hit
  <2>3. Sound(statuses)'
    BY <2>0, <2>2 DEF Sound, Gone, Hit
  <2>4. NoneInside' /\ ~eased' => Sound(answered)'
    BY <1>1, <2>0, <2>1 DEF Sound, Gone, Hit
  <2> QED
    BY <2>3, <2>4 DEF Justified
<1>11. FaultsJustified'
  <2> SUFFICES ASSUME NEW s \in Services, wontRestart'[s] # None PROVE Unable(s)'
    BY DEF FaultsJustified
  <2>1. Unable(s)
    <3>1. CASE wontRestart[s] # None
      BY <1>3, <3>1 DEF FaultsJustified
    <3>2. CASE wontRestart[s] = None
      BY <1>1, <1>2, <1>c, <1>f, <3>2 DEF Unable
    <3> QED
      BY <3>1, <3>2
  <2> QED
    BY <1>1, <1>a, <2>1, OutageFrame DEF Unable, ProviderDown, AllGone
<1>12. Paid'
  <2>1. Events \subseteq Events'
    <3> SUFFICES ASSUME NEW e \in Events PROVE e \in Events'
      OBVIOUS
    <3>1. e \in Services \X (1 .. 3) /\ e[1] \in Services
      BY DEF Events
    <3>2. statuses[e[1]] <= statuses'[e[1]] /\ (wontRestart[e[1]] # None => wontRestart'[e[1]] # None)
      BY <1>1, <1>2, <3>1 DEF AtMost
    <3> QED
      BY <1>4, <3>1, <3>2 DEF Events
  <2>2. ASSUME changed' # changed PROVE Events # Events'
    <3>1. statuses'[c] # statuses[c] \/ fault
      BY <1>2, <2>2, DepType DEF TypeOK
    <3>2. CASE fault
      <4>1. <<c, 3>> \in Services \X (1 .. 3) /\ wontRestart[c] = None /\ wontRestart'[c] # None
        BY <1>1, <1>2, <1>e, <3>2
      <4>2. <<c, 3>> \in Events' /\ <<c, 3>> \notin Events
        BY <4>1 DEF Events
      <4> QED
        BY <4>2
    <3>3. CASE statuses'[c] # statuses[c]
      <4> DEFINE k == statuses'[c]
      <4>1. k \in 1 .. 2 /\ statuses[c] < k
        BY <1>1, <1>4, <3>3 DEF AtMost
      <4>2. <<c, k>> \in Events'
        BY <1>1, <1>4, <4>1 DEF Events
      <4>3. <<c, k>> \notin Events
        BY <1>1, <1>4, <4>1 DEF Events
      <4> QED
        BY <4>2, <4>3
    <3> QED
      BY <3>1, <3>2, <3>3
  <2>3. IsFiniteSet(Events')
    <3>1. Events' \in SUBSET (Services \X (1 .. 3))
      BY DEF Events
    <3> QED
      BY <3>1, EventSpace, FS_Subset
  <2>4. /\ Cardinality(Events) \in Nat /\ Cardinality(Events') \in Nat
        /\ Cardinality(Events) <= Cardinality(Events')
        /\ changed' # changed => Cardinality(Events) + 1 <= Cardinality(Events')
    BY <2>1, <2>2, <2>3, MoreEvents
  <2>5. changed \in BOOLEAN /\ changed' \in BOOLEAN /\ (changed => changed')
    BY <1>2, DepType DEF TypeOK
  <2>6. round <= Cardinality(Events) + (IF changed THEN 0 ELSE 1)
    BY <1>3 DEF Paid
  <2>7. round <= Cardinality(Events') + (IF changed' THEN 0 ELSE 1)
    BY <1>3, <2>4, <2>5, <2>6
  <2> QED
    BY <1>1, <2>7 DEF Paid
<1> QED
  BY <1>5, <1>6, <1>7, <1>8, <1>9, <1>10, <1>11, <1>12, DepType

LEMMA ImpactStep == ImpactInv /\ [Next]_vars => ImpactInv'
<1> SUFFICES ASSUME ImpactInv, [Next]_vars PROVE ImpactInv'
  OBVIOUS
<1>0. TypeOK
  BY DEF ImpactInv
<1>1. ASSUME NEW i \in Instances, Lose(i) PROVE ImpactInv'
  <2>1. named' \subseteq Instances /\ failed' \subseteq Hosts
    BY <1>0, <1>1 DEF Lose, TypeOK
  <2> QED
    BY <1>1, <2>1, LossStep DEF Lose
<1>2. ASSUME NEW h \in Hosts, LoseHost(h) PROVE ImpactInv'
  <2>1. named' \subseteq Instances /\ failed' \subseteq Hosts
    BY <1>0, <1>2 DEF LoseHost, TypeOK
  <2> QED
    BY <1>2, <2>1, LossStep DEF LoseHost
<1>3. CASE Analyse
  BY <1>3, AnalyseStep
<1>4. CASE ApplyDep
  BY <1>4, SkipStep, DepStep
<1>5. CASE EndRound
  BY <1>5, EndRoundStep
<1>6. CASE UNCHANGED vars
  <2>1. /\ UNCHANGED <<g, named, failed>>
        /\ UNCHANGED <<g, statuses, routeStatus, wontRestart, next, changed>>
        /\ UNCHANGED <<pc, via, round, answered, eased>>
    BY <1>6 DEF vars
  <2>2. TypeOK' /\ Stops'
    BY <2>1 DEF ImpactInv, TypeOK, Stops
  <2>3. RoutesBehind' /\ Settled'
    BY <2>1, SettledFrame DEF ImpactInv
  <2>4. Grown' /\ Explained' /\ Paid'
    BY <2>1, OutageFrame DEF ImpactInv, Grown, AtMost, Explained, Carries, Effect, Paid, Events
  <2>5. Justified' /\ FaultsJustified'
    BY <2>1, OutageFrame
    DEF ImpactInv, Justified, Sound, Gone, Hit, FaultsJustified, Unable, ProviderDown, AllGone
  <2> QED
    BY <2>2, <2>3, <2>4, <2>5 DEF ImpactInv
<1> QED
  BY <1>1, <1>2, <1>3, <1>4, <1>5, <1>6 DEF Next

LEMMA ImpactInvariant == Spec => []ImpactInv
BY ImpactInit, ImpactStep, PTL DEF Spec

----------------------------------------------------------------------------
(* The answer of phasePropagate, for any services, routes, dependencies in   *)
(* any order and any outage: the services down, degraded and unable to       *)
(* restart are exactly those the outage hits.                                *)
THEOREM AnswerAlwaysExact == Spec => []RoundsAreExact
<1>1. ImpactInv => RoundsAreExact
  BY ExactAnswer, ExactRestart DEF RoundsAreExact
<1> QED
  BY <1>1, ImpactInvariant, PTL

(* The edge that the report names beside a service carries exactly the       *)
(* status shown, also when a later round made its provider worse.            *)
THEOREM ViaAlwaysExplains == Spec => []ViaExplains
<1>1. ImpactInv => ViaExplains
  BY ExactVia
<1> QED
  BY <1>1, ImpactInvariant, PTL

(* The loop of phasePropagate ends of itself within three rounds for each    *)
(* service and one more; with maxIterations above that, never by the cap.    *)
THEOREM RoundsAlwaysBounded == Spec => []RoundsBounded
<1>1. ImpactInv => RoundsBounded
  BY BoundedRounds
<1> QED
  BY <1>1, ImpactInvariant, PTL

(* A larger outage never makes a service look better while the network gets  *)
(* no better for anyone (computeDepReach, computeRouteMemberReach) and the   *)
(* loop is not cut short by maxIterations.                                   *)
THEOREM LargerOutageNeverBetter ==
  ASSUME MaxIterations > 3 * Cardinality(Services) PROVE Spec => AnswerNeverImproves
<1>1. ASSUME ImpactInv, [Next]_vars, pc = "round", pc' = "idle",
             ~eased, \A i \in named : ~Inside(i), NEW s \in Services
      PROVE  statuses[s] >= answered[s]
  <2>1. EndRound
    BY <1>1 DEF Next, vars, Lose, LoseHost, Analyse, ApplyDep
  <2>2. round > 0 /\ round \in Nat /\ MaxIterations \in Nat
    BY <1>1, IterationsAssumption DEF ImpactInv, Stops, TypeOK
  <2>3. next > Len(g.deps) /\ (~changed \/ round = MaxIterations)
    BY <1>1, <2>1 DEF EndRound
  <2>4. ~changed
    BY <1>1, <2>2, <2>3, EventsBounded DEF ImpactInv, Paid
  <2>5. Gone(statuses) = DownServices /\ Hit(statuses) = HurtServices
    BY <1>1, <2>2, <2>3, <2>4, DoneIsExact DEF Done
  <2>6. Sound(answered)
    BY <1>1 DEF ImpactInv, Justified, NoneInside
  <2>7. statuses[s] \in Statuses /\ answered[s] \in Statuses
    BY <1>1 DEF ImpactInv, TypeOK
  <2>8. (answered[s] = Down => statuses[s] = Down) /\ (answered[s] # OK => statuses[s] # OK)
    BY <2>5, <2>6 DEF Sound, Gone, Hit
  <2> QED
    BY <2>7, <2>8
<1>2. ImpactInv /\ [Next]_vars =>
        [pc = "round" /\ pc' = "idle" /\ ~eased /\ (\A i \in named : ~Inside(i))
           => \A s \in Services : statuses[s] >= answered[s]]_vars
  BY <1>1
<1> QED
  BY <1>2, ImpactInvariant, PTL DEF Spec, AnswerNeverImproves

----------------------------------------------------------------------------
(* The union-find passes.  T splits nodes into the parts that the edges join. *)

Around(e, r) == (e.group \in r) <=> (e.upstream \in r)

Splits(T, nodes, edges) ==
  /\ UNION T = nodes /\ {} \notin T
  /\ \A x, y \in T : x \cap y # {} => x = y
  /\ \A e \in edges : \E x \in T : e.group \in x /\ e.upstream \in x
  /\ \A x \in T : \A r : (\A e \in edges : Around(e, r)) /\ x \cap r # {} => x \subseteq r

LEMMA SmallestSet ==
  ASSUME NEW S, IsFiniteSet(S), NEW F, F \subseteq SUBSET S, F # {}
  PROVE  \E A \in F : \A B \in F : B \subseteq A => B = A
<1>1. FiniteSubsetsOf(S) = SUBSET S
  BY FS_FiniteSubsetsOfFinite
<1>2. IsWellFoundedOn(StrictSubsetOrdering(S), SUBSET S)
  BY <1>1, FS_StrictSubsetOrderingWellFounded
<1>3. PICK A \in F : \A B \in F : ~(<<B, A>> \in StrictSubsetOrdering(S))
  BY <1>2, WFMin
<1>4. ASSUME NEW B \in F, B \subseteq A PROVE B = A
  BY <1>3, <1>4 DEF StrictSubsetOrdering
<1> QED
  BY <1>4

LEMMA NoEdgeSplits == ASSUME NEW nodes PROVE Splits({{n} : n \in nodes}, nodes, {})
BY DEF Splits

(* union: one edge more. *)
LEMMA UnionSplits ==
  ASSUME NEW T, NEW nodes, NEW edges, NEW e \in edges, Splits(T, nodes, edges \ {e}),
         e.group \in nodes, e.upstream \in nodes
  PROVE  Splits(Union(T, e), nodes, edges)
<1> DEFINE touched == {x \in T : e.group \in x \/ e.upstream \in x}
           one == UNION touched
           new == (T \ touched) \cup {one}
<1>0. Union(T, e) = new
  BY DEF Union
<1>1. UNION new = nodes
  <2>1. UNION T = nodes
    BY DEF Splits
  <2>2. ASSUME NEW n \in nodes PROVE n \in UNION new
    <3>1. PICK x \in T : n \in x
      BY <2>1
    <3>2. x \in touched => n \in one
      BY <3>1
    <3> HIDE DEF touched, one
    <3> QED
      BY <3>1, <3>2
  <2>3. ASSUME NEW x \in new PROVE x \subseteq nodes
    BY <2>1
  <2> HIDE DEF new
  <2> QED
    BY <2>2, <2>3
<1>2. \A x \in T \ touched, y \in touched : x \cap y = {}
  BY DEF Splits
<1>3. \A x, y \in new : x \cap y # {} => x = y
  <2>1. ASSUME NEW x \in T \ touched, x \cap one # {} PROVE FALSE
    BY <1>2, <2>1
  <2>2. ASSUME NEW x \in T \ touched, NEW y \in T \ touched, x \cap y # {} PROVE x = y
    BY <2>2 DEF Splits
  <2> HIDE DEF one, touched
  <2> QED
    BY <2>1, <2>2
<1>4. ASSUME NEW d \in edges PROVE \E x \in new : d.group \in x /\ d.upstream \in x
  <2>1. CASE d = e
    <3>1. e.group \in one /\ e.upstream \in one
      BY DEF Splits
    <3> HIDE DEF one
    <3> QED
      BY <2>1, <3>1
  <2>2. CASE d # e
    <3>1. PICK x \in T : d.group \in x /\ d.upstream \in x
      BY <2>2 DEF Splits
    <3>2. CASE x \in touched
      <4>1. d.group \in one /\ d.upstream \in one
        BY <3>1, <3>2
      <4> HIDE DEF one
      <4> QED
        BY <4>1
    <3>3. CASE x \notin touched
      <4>1. x \in new
        BY <3>1, <3>3
      <4> HIDE DEF new
      <4> QED
        BY <3>1, <4>1
    <3> QED
      BY <3>2, <3>3
  <2> QED
    BY <2>1, <2>2
<1>5. ASSUME NEW x \in new, NEW r, \A d \in edges : Around(d, r), x \cap r # {} PROVE x \subseteq r
  <2>1. \A y \in T : y \cap r # {} => y \subseteq r
    BY <1>5 DEF Splits
  <2>2. CASE x \in T
    BY <2>1, <2>2, <1>5
  <2>3. CASE x = one
    <3>1. PICK y \in touched : y \cap r # {}
      BY <1>5, <2>3
    <3>2. y \subseteq r
      BY <2>1, <3>1
    <3>3. e.group \in r /\ e.upstream \in r
      BY <1>5, <3>1, <3>2 DEF Around
    <3>4. \A z \in touched : z \subseteq r
      BY <2>1, <3>3
    <3> QED
      BY <2>3, <3>4
  <2> QED
    BY <2>2, <2>3
<1>6. {} \notin new
  <2>1. {} \notin T /\ e.group \in one
    BY DEF Splits
  <2> HIDE DEF one
  <2> QED
    BY <2>1
<1> HIDE DEF new, one, touched
<1> QED
  BY <1>0, <1>1, <1>3, <1>4, <1>5, <1>6 DEF Splits

(* The recursion behind the fold has a solution on every finite set: two      *)
(* solutions agree where both are defined, so those of the subsets make one.  *)
Folded(h, base, A) ==
  h = [s \in SUBSET A |->
         IF s = {} THEN base ELSE Union(h[s \ {CHOOSE x \in s : TRUE}], CHOOSE x \in s : TRUE)]

LEMMA FoldAgrees ==
  ASSUME NEW A, IsFiniteSet(A), NEW base, NEW B, B \subseteq A,
         NEW k, NEW h, Folded(k, base, A), Folded(h, base, B)
  PROVE  \A s \in SUBSET B : k[s] = h[s]
<1> DEFINE pick(s) == CHOOSE x \in s : TRUE
           F == {s \in SUBSET B : k[s] # h[s]}
<1> SUFFICES ASSUME F # {} PROVE FALSE
  OBVIOUS
<1>1. F \subseteq SUBSET A
  OBVIOUS
<1>2. /\ \A s \in SUBSET A : k[s] = IF s = {} THEN base ELSE Union(k[s \ {pick(s)}], pick(s))
      /\ \A s \in SUBSET B : h[s] = IF s = {} THEN base ELSE Union(h[s \ {pick(s)}], pick(s))
  BY DEF Folded
<1>3. PICK s \in F : \A u \in F : u \subseteq s => u = s
  <2> HIDE DEF F
  <2> QED
    BY <1>1, SmallestSet
<1>4. s \in SUBSET B /\ s \in SUBSET A /\ k[s] # h[s]
  OBVIOUS
<1>5. s # {}
  BY <1>2, <1>4
<1>6. pick(s) \in s
  BY <1>5
<1> HIDE DEF pick
<1>7. s \ {pick(s)} \in SUBSET B /\ s \ {pick(s)} \notin F
  BY <1>3, <1>4, <1>6
<1>8. k[s \ {pick(s)}] = h[s \ {pick(s)}]
  BY <1>7
<1>9. k[s] = Union(k[s \ {pick(s)}], pick(s)) /\ h[s] = Union(h[s \ {pick(s)}], pick(s))
  BY <1>2, <1>4, <1>5
<1> QED
  BY <1>4, <1>8, <1>9

LEMMA FoldExists ==
  ASSUME NEW S, IsFiniteSet(S), NEW base PROVE \E h : Folded(h, base, S)
<1> DEFINE pick(s) == CHOOSE x \in s : TRUE
           F == {s \in SUBSET S : ~\E h : Folded(h, base, s)}
<1> SUFFICES ASSUME F # {} PROVE FALSE
  OBVIOUS
<1>1. PICK A \in F : \A B \in F : B \subseteq A => B = A
  <2>1. F \subseteq SUBSET S
    OBVIOUS
  <2> HIDE DEF F
  <2> QED
    BY <2>1, SmallestSet
<1>2. A \in SUBSET S /\ ~\E h : Folded(h, base, A)
  OBVIOUS
<1>3. \A B \in SUBSET A : IsFiniteSet(B)
  BY <1>2, FS_Subset
<1> DEFINE sol(s) == CHOOSE h : Folded(h, base, s)
           val(s) == sol(s)[s]
           k == [s \in SUBSET A |-> IF s = {} THEN base ELSE Union(val(s \ {pick(s)}), pick(s))]
<1>4. ASSUME NEW B \in SUBSET A, B # A PROVE Folded(sol(B), base, B)
  <2>1. \E h : Folded(h, base, B)
    BY <1>1, <1>2, <1>4
  <2> QED
    BY <2>1
<1>5. \A s : s # {} => pick(s) \in s
  OBVIOUS
<1> HIDE DEF sol, pick
<1>6. ASSUME NEW u \in SUBSET A, u # A PROVE k[u] = val(u)
  <2>1. Folded(sol(u), base, u)
    BY <1>4, <1>6
  <2>2. sol(u)[u] = IF u = {} THEN base ELSE Union(sol(u)[u \ {pick(u)}], pick(u))
    BY <2>1 DEF Folded, pick
  <2>3. CASE u = {}
    BY <2>2, <2>3
  <2>4. CASE u # {}
    <3>1. u \ {pick(u)} \in SUBSET A /\ u \ {pick(u)} # A /\ u \ {pick(u)} \subseteq u
      BY <1>5, <1>6, <2>4
    <3>2. Folded(sol(u \ {pick(u)}), base, u \ {pick(u)})
      BY <1>4, <3>1
    <3>3. \A s \in SUBSET (u \ {pick(u)}) : sol(u)[s] = sol(u \ {pick(u)})[s]
      <4>1. PICK v : v = u \ {pick(u)}
        OBVIOUS
      <4>2. IsFiniteSet(u) /\ v \subseteq u
        BY <1>3, <3>1, <4>1
      <4>3. Folded(sol(v), base, v)
        BY <3>2, <4>1
      <4>4. \A s \in SUBSET v : sol(u)[s] = sol(v)[s]
        <5>1. PICK f1, f2 : f1 = sol(u) /\ f2 = sol(v)
          OBVIOUS
        <5>2. Folded(f1, base, u) /\ Folded(f2, base, v)
          BY <2>1, <4>3, <5>1
        <5>3. \A s \in SUBSET v : f1[s] = f2[s]
          BY <4>2, <5>2, FoldAgrees
        <5> QED
          BY <5>1, <5>3
      <4> QED
        BY <4>1, <4>4, Zenon
    <3>4. sol(u)[u \ {pick(u)}] = val(u \ {pick(u)})
      BY <3>3
    <3> QED
      BY <2>2, <2>4, <3>4
  <2> QED
    BY <2>3, <2>4
<1>7. ASSUME NEW s \in SUBSET A, s # {} PROVE k[s] = Union(k[s \ {pick(s)}], pick(s))
  <2>1. s \ {pick(s)} \in SUBSET A /\ s \ {pick(s)} # A
    BY <1>5, <1>7
  <2>2. k[s \ {pick(s)}] = val(s \ {pick(s)})
    BY <1>6, <2>1
  <2> QED
    BY <1>7, <2>2
<1>8. k[{}] = base
  OBVIOUS
<1>9. k = [s \in SUBSET A |-> k[s]]
  OBVIOUS
<1> HIDE DEF k
<1>10. Folded(k, base, A)
  BY <1>7, <1>8, <1>9 DEF Folded, pick
<1> QED
  BY <1>2, <1>10

(* A fold over a finite set of edges. *)
LEMMA FoldSplits ==
  ASSUME NEW nodes, NEW edges, IsFiniteSet(edges),
         \A e \in edges : e.group \in nodes /\ e.upstream \in nodes
  PROVE  Splits(FoldSet(LAMBDA e, trees : Union(trees, e), {{n} : n \in nodes}, edges), nodes, edges)
<1> DEFINE base == {{n} : n \in nodes}
           pick(s) == CHOOSE x \in s : TRUE
           Rec(f) == f = [s \in SUBSET edges |-> IF s = {} THEN base ELSE Union(f[s \ {pick(s)}], pick(s))]
           iter == CHOOSE f : Rec(f)
<1>1. FoldSet(LAMBDA e, trees : Union(trees, e), base, edges) = iter[edges]
  BY Zenon DEF FoldSet, MapThenFoldSet
<1>2. \E f : Rec(f)
  <2>1. PICK h : Folded(h, base, edges)
    BY FoldExists
  <2>2. Rec(h)
    BY <2>1 DEF Folded
  <2> HIDE DEF Rec
  <2> QED
    BY <2>2
<1>3. Rec(iter)
  <2> HIDE DEF Rec
  <2> QED
    BY <1>2
<1> HIDE DEF iter
<1>4. \A s \in SUBSET edges :
        iter[s] = IF s = {} THEN base ELSE Union(iter[s \ {pick(s)}], pick(s))
  BY <1>3
<1> HIDE DEF Rec
<1>5. ASSUME NEW s \in SUBSET edges PROVE Splits(iter[s], nodes, s)
  <2> DEFINE F == {x \in SUBSET edges : ~Splits(iter[x], nodes, x)}
  <2> SUFFICES ASSUME F # {} PROVE FALSE
    OBVIOUS
  <2>1. F \subseteq SUBSET edges
    OBVIOUS
  <2> HIDE DEF F
  <2>2. PICK A \in F : \A B \in F : B \subseteq A => B = A
    BY <2>1, SmallestSet
  <2>3. A \in SUBSET edges /\ ~Splits(iter[A], nodes, A)
    BY DEF F
  <2>4. A # {}
    BY <2>3, <1>4, NoEdgeSplits
  <2>5. pick(A) \in A
    BY <2>4
  <2> HIDE DEF pick
  <2>6. A \ {pick(A)} \in SUBSET edges /\ A \ {pick(A)} \notin F
    BY <2>2, <2>3, <2>5
  <2>7. Splits(iter[A \ {pick(A)}], nodes, A \ {pick(A)})
    BY <2>6 DEF F
  <2>8. pick(A).group \in nodes /\ pick(A).upstream \in nodes
    BY <2>3, <2>5
  <2>9. Splits(Union(iter[A \ {pick(A)}], pick(A)), nodes, A)
    BY <2>5, <2>7, <2>8, UnionSplits
  <2> QED
    BY <1>4, <2>3, <2>4, <2>9
<1>6. Splits(iter[edges], nodes, edges)
  BY <1>5
<1> QED
  BY <1>1, <1>6, Zenon
----------------------------------------------------------------------------
(* Two groups are in one component when every closed set with the one has    *)
(* the other.                                                                *)

Between(uplinks, plane, nodes, severed) ==
  {u \in uplinks : u.plane = plane /\ {u.group, u.upstream} \subseteq nodes /\ u.medium \notin severed}

LEMMA ComponentsSplit ==
  ASSUME NEW uplinks, IsFiniteSet(uplinks), NEW plane, NEW nodes, NEW severed
  PROVE  Splits(Components(uplinks, plane, nodes, severed), nodes, Between(uplinks, plane, nodes, severed))
<1> DEFINE edges == Between(uplinks, plane, nodes, severed)
<1>1. IsFiniteSet(edges) /\ \A e \in edges : e.group \in nodes /\ e.upstream \in nodes
  <2>1. edges \in SUBSET uplinks
    BY DEF Between
  <2>2. IsFiniteSet(edges)
    BY <2>1, FS_Subset
  <2> QED
    BY <2>2 DEF Between
<1>2. Components(uplinks, plane, nodes, severed)
        = FoldSet(LAMBDA e, trees : Union(trees, e), {{n} : n \in nodes}, edges)
  BY Zenon DEF Components, Between
<1> HIDE DEF edges
<1>3. Splits(FoldSet(LAMBDA e, trees : Union(trees, e), {{n} : n \in nodes}, edges), nodes, edges)
  BY <1>1, FoldSplits, Zenon
<1> QED
  BY <1>2, <1>3, Zenon DEF edges

LEMMA SplitsConnected ==
  ASSUME NEW T, NEW nodes, nodes \subseteq Groups, NEW edges, Splits(T, nodes, edges),
         \A e \in edges : e.group \in nodes /\ e.upstream \in nodes,
         NEW p \in nodes, NEW q \in nodes
  PROVE  (\E x \in T : p \in x /\ q \in x) <=> Connected(edges, p, q)
<1>1. ASSUME NEW x \in T, p \in x, q \in x, NEW r \in SUBSET Groups, p \in r,
             \A e \in Adjacent(edges) : e \cap r # {} => e \subseteq r
      PROVE  q \in r
  <2>1. ASSUME NEW e \in edges PROVE Around(e, r)
    <3>1. {e.group, e.upstream} \in Adjacent(edges)
      BY DEF Adjacent
    <3> QED
      BY <1>1, <3>1 DEF Around
  <2>2. x \cap r # {}
    BY <1>1
  <2> QED
    BY <1>1, <2>1, <2>2 DEF Splits
<1>2. ASSUME Connected(edges, p, q) PROVE \E x \in T : p \in x /\ q \in x
  <2>1. PICK x \in T : p \in x
    BY DEF Splits
  <2>2. x \in SUBSET Groups
    BY DEF Splits
  <2>3. ASSUME NEW e \in Adjacent(edges), e \cap x # {} PROVE e \subseteq x
    <3>1. PICK u \in edges : e = {u.group, u.upstream}
      BY DEF Adjacent
    <3>2. PICK y \in T : u.group \in y /\ u.upstream \in y
      BY DEF Splits
    <3>3. y \cap x # {}
      BY <2>3, <3>1, <3>2
    <3>4. y = x
      BY <3>3 DEF Splits
    <3> QED
      BY <3>1, <3>2, <3>4
  <2>4. q \in x
    BY <1>2, <2>1, <2>2, <2>3 DEF Connected
  <2> QED
    BY <2>1, <2>4
<1> QED
  BY <1>1, <1>2 DEF Connected

(* The tables are finite, and so is what is read from them. *)
LEMMA UplinksFinite == ASSUME Tables(t) PROVE IsFiniteSet(Uplinks)
<1> DEFINE M == Media \cup {None}
           Q == (Groups \X Groups) \X (Planes \X M)
           f == [x \in Q |-> [group |-> x[1][1], upstream |-> x[1][2], plane |-> x[2][1], medium |-> x[2][2]]]
           I == {f[x] : x \in Q}
<1>1. IsFiniteSet(M)
  BY TopologyAssumption, FS_Union, FS_AddElement DEF Media
<1>2. IsFiniteSet(Planes)
  <2>1. IsFiniteSet({"data"}) /\ Planes = ({"data"} \cup {"mgmt"}) \cup {"storage"}
    BY FS_Singleton DEF Planes
  <2>2. IsFiniteSet({"data"} \cup {"mgmt"})
    BY <2>1, FS_AddElement
  <2> QED
    BY <2>1, <2>2, FS_AddElement
<1>3. IsFiniteSet(Groups \X Groups)
  BY TopologyAssumption, FS_Product
<1>4. IsFiniteSet(Planes \X M)
  BY <1>1, <1>2, FS_Product
<1>5. IsFiniteSet(Q)
  BY <1>3, <1>4, FS_Product
<1>6. IsFiniteSet(I)
  <2>1. f \in Surjection(Q, I)
    <3> HIDE DEF Q
    <3> QED
      BY DEF Surjection
  <2> HIDE DEF f, I, Q
  <2> QED
    BY <1>5, <2>1, FS_Surjection
<1>7. ASSUME NEW a \in Groups, NEW b \in Groups, NEW p \in Planes, NEW m \in M
      PROVE  [group |-> a, upstream |-> b, plane |-> p, medium |-> m] \in I
  <2>1. <<<<a, b>>, <<p, m>>>> \in Q
    OBVIOUS
  <2>2. f[<<<<a, b>>, <<p, m>>>>] = [group |-> a, upstream |-> b, plane |-> p, medium |-> m]
    BY <2>1
  <2> HIDE DEF f, Q
  <2> QED
    BY <2>1, <2>2
<1> HIDE DEF I
<1>8. ASSUME NEW u \in Active(t.uplink)
      PROVE  [group |-> u.group, upstream |-> u.upstream, plane |-> u.plane, medium |-> None] \in I
  BY <1>7 DEF Tables, Active
<1>9. ASSUME NEW m \in Active(t.medium), NEW e \in MediumEdges(m) PROVE e \in I
  <2>1. m.id \in M
    BY DEF Tables, Active
  <2>2. PICK p \in Joining(m.a, m.b) : e = [group |-> p[1], upstream |-> p[2], plane |-> "data", medium |-> m.id]
    BY DEF MediumEdges
  <2>3. p[1] \in Groups /\ p[2] \in Groups
    BY DEF Joining, Active, Tables
  <2>4. "data" \in Planes
    BY DEF Planes
  <2> QED
    BY <1>7, <2>1, <2>2, <2>3, <2>4
<1>10. Uplinks \in SUBSET I
  BY <1>8, <1>9 DEF Uplinks
<1> QED
  BY <1>6, <1>10, FS_Subset

----------------------------------------------------------------------------
(* The two passes of buildReachModel, read as walks. *)

LeftOf(down) == {k \in NetGroups : GroupStatus(k, down) # Down}
StrongOf(down) == {k \in NetGroups : GroupStatus(k, down) = OK}
Trees(nodes, severed) == UNION {{<<p, x>> : x \in Components(Uplinks, p, nodes, severed)} : p \in Planes}
Joined(nodes, severed, plane, p, q) ==
  p \in nodes /\ q \in nodes /\ Connected(Between(Uplinks, plane, nodes, severed), p, q)

LEMMA MeetsJoined ==
  ASSUME Tables(t), NEW plane \in Planes, NEW nodes, nodes \subseteq Groups, NEW severed, NEW from, NEW to
  PROVE  Meets(Trees(nodes, severed), plane, from, to)
           <=> \E p \in from, q \in to : Joined(nodes, severed, plane, p, q)
<1> DEFINE T == Components(Uplinks, plane, nodes, severed)
           edges == Between(Uplinks, plane, nodes, severed)
<1>1. Splits(T, nodes, edges)
  BY UplinksFinite, ComponentsSplit
<1>2. \A e \in edges : e.group \in nodes /\ e.upstream \in nodes
  BY DEF Between
<1>3. UNION T = nodes
  BY <1>1 DEF Splits
<1>4. Meets(Trees(nodes, severed), plane, from, to) <=> \E x \in T : x \cap from # {} /\ x \cap to # {}
  <2>1. ASSUME NEW y \in Trees(nodes, severed), y[1] = plane PROVE y[2] \in T
    BY <2>1 DEF Trees
  <2>2. ASSUME NEW x \in T PROVE <<plane, x>> \in Trees(nodes, severed)
    BY DEF Trees
  <2>3. \A x : <<plane, x>>[1] = plane /\ <<plane, x>>[2] = x
    OBVIOUS
  <2> HIDE DEF T
  <2> QED
    BY <2>1, <2>2, <2>3 DEF Meets
<1>5. \A p, q \in nodes : (\E x \in T : p \in x /\ q \in x) <=> Connected(edges, p, q)
  <2> HIDE DEF T, edges
  <2> QED
    BY <1>1, <1>2, SplitsConnected
<1> HIDE DEF T
<1> QED
  BY <1>3, <1>4, <1>5 DEF Joined

(* More groups and more media join more. *)
LEMMA JoinedMonotone ==
  ASSUME NEW nodes, NEW more, nodes \subseteq more, NEW severed, NEW fewer, fewer \subseteq severed,
         NEW plane, NEW p, NEW q, Joined(nodes, severed, plane, p, q)
  PROVE  Joined(more, fewer, plane, p, q)
<1>1. Between(Uplinks, plane, nodes, severed) \subseteq Between(Uplinks, plane, more, fewer)
  BY DEF Between
<1>2. Adjacent(Between(Uplinks, plane, nodes, severed)) \subseteq Adjacent(Between(Uplinks, plane, more, fewer))
  BY <1>1 DEF Adjacent
<1> QED
  BY <1>2 DEF Joined, Connected

LEMMA ModelIs ==
  ASSUME NEW down, NEW severed
  PROVE  LET m == Model(down, severed) IN
         /\ m.down = down
         /\ m.any = Trees(LeftOf(down), severed)
         /\ m.full = Trees(StrongOf(down), severed)
BY DEF Model, Trees, LeftOf, StrongOf

LEMMA ModelledIs ==
  ASSUME NEW down, NEW severed, NEW a \in Assets, NEW plane \in Planes
  PROVE  Modelled(Model(down, severed), a, plane) <=> EffectiveAttachments(a, plane) # {}
<1> DEFINE att == UNION {{<<ap, x>> : x \in EffectiveAttachments(ap[1], ap[2])} : ap \in Assets \X Planes}
<1>1. Model(down, severed).modelled = {x[1] : x \in att}
  BY DEF Model
<1>2. ASSUME NEW x \in att, x[1] = <<a, plane>> PROVE EffectiveAttachments(a, plane) # {}
  <2>1. PICK ap \in Assets \X Planes : \E y \in EffectiveAttachments(ap[1], ap[2]) : x = <<ap, y>>
    OBVIOUS
  <2>2. ap = <<a, plane>>
    BY <1>2, <2>1
  <2> QED
    BY <2>1, <2>2
<1>3. ASSUME NEW y \in EffectiveAttachments(a, plane) PROVE <<<<a, plane>>, y>> \in att
  <2>1. <<a, plane>> \in Assets \X Planes /\ <<a, plane>>[1] = a /\ <<a, plane>>[2] = plane
    OBVIOUS
  <2> QED
    BY <2>1
<1>4. \A y : <<<<a, plane>>, y>>[1] = <<a, plane>>
  OBVIOUS
<1> HIDE DEF att
<1> QED
  BY <1>1, <1>2, <1>3, <1>4 DEF Modelled

LEMMA NetOfIs ==
  ASSUME NEW down, NEW severed, NEW a \in Assets, NEW plane \in Planes
  PROVE  NetOf(Model(down, severed), a, plane)
           = {x.group : x \in {y \in EffectiveAttachments(a, plane) : LiveAttachment(LeftOf(down), down, y)}}
<1> DEFINE att == UNION {{<<ap, x>> : x \in EffectiveAttachments(ap[1], ap[2])} : ap \in Assets \X Planes}
           live == {y \in att : LiveAttachment(LeftOf(down), down, y[2])}
           net == {<<x[1], x[2].group>> : x \in live}
<1>1. Model(down, severed).net = net
  BY DEF Model, LeftOf
<1>2. ASSUME NEW k, k \in NetOf(Model(down, severed), a, plane)
      PROVE  \E y \in EffectiveAttachments(a, plane) : LiveAttachment(LeftOf(down), down, y) /\ k = y.group
  <2>1. PICK n \in net : n[1] = <<a, plane>> /\ k = n[2]
    BY <1>1, <1>2 DEF NetOf
  <2>2. PICK x \in live : n = <<x[1], x[2].group>>
    BY <2>1
  <2>3. PICK ap \in Assets \X Planes : \E y \in EffectiveAttachments(ap[1], ap[2]) : x = <<ap, y>>
    BY <2>2
  <2> PICK y \in EffectiveAttachments(ap[1], ap[2]) : x = <<ap, y>>
    BY <2>3
  <2>4. ap = <<a, plane>> /\ x[2] = y
    BY <2>1, <2>2
  <2>5. y \in EffectiveAttachments(a, plane)
    BY <2>4
  <2>6. LiveAttachment(LeftOf(down), down, y)
    BY <2>2, <2>4
  <2>7. k = y.group
    BY <2>1, <2>2, <2>4
  <2> QED
    BY <2>5, <2>6, <2>7
<1>3. ASSUME NEW y \in EffectiveAttachments(a, plane), LiveAttachment(LeftOf(down), down, y)
      PROVE  y.group \in NetOf(Model(down, severed), a, plane)
  <2>1. <<a, plane>> \in Assets \X Planes /\ <<a, plane>>[1] = a /\ <<a, plane>>[2] = plane
    OBVIOUS
  <2>2. <<<<a, plane>>, y>> \in att
    BY <2>1
  <2>3. <<<<a, plane>>, y>>[2] = y /\ <<<<a, plane>>, y>>[1] = <<a, plane>>
    OBVIOUS
  <2> HIDE DEF att
  <2>4. <<<<a, plane>>, y>> \in live
    BY <1>3, <2>2, <2>3
  <2> HIDE DEF live
  <2>5. <<<<a, plane>>, y.group>> \in net
    BY <2>3, <2>4
  <2>6. <<<<a, plane>>, y.group>>[1] = <<a, plane>> /\ <<<<a, plane>>, y.group>>[2] = y.group
    OBVIOUS
  <2> HIDE DEF net
  <2> QED
    BY <1>1, <2>5, <2>6 DEF NetOf
<1> HIDE DEF net
<1> QED
  BY <1>2, <1>3

LEMMA LeastNat ==
  ASSUME NEW T, T \subseteq Nat, T # {} PROVE \E n \in T : \A m \in T : n <= m
<1> DEFINE R == {ss \in Nat \X Nat : ss[1] < ss[2]}
<1>1. IsWellFoundedOn(R, Nat)
  BY NatLessThanWellFounded, Zenon DEF OpToRel
<1> HIDE DEF R
<1>2. PICK n \in T : \A m \in T : ~(<<m, n>> \in R)
  BY <1>1, WFMin
<1>3. ASSUME NEW m \in T, m < n PROVE <<m, n>> \in R
  BY <1>3 DEF R
<1>4. ASSUME NEW m \in T PROVE n <= m
  <2>1. ~(m < n)
    BY <1>2, <1>3
  <2>2. n \in Int /\ m \in Int
    OBVIOUS
  <2> QED
    BY <2>1, <2>2
<1> QED
  BY <1>4

(* effectiveAttachments: the nearest of what is declared on the way up. *)
LEMMA EffectiveIs ==
  ASSUME Tables(t), NEW a \in Assets, NEW plane
  PROVE  /\ EffectiveAttachments(a, plane)
              = {y \in Declared(a, plane) : \A z \in Declared(a, plane) : Place(a, y) <= Place(a, z)}
         /\ EffectiveAttachments(a, plane) = {} <=> Declared(a, plane) = {}
<1> DEFINE up == t.up[a]
           on(i) == {x \in Attached : x.plane = plane /\ x.asset = up[i]}
           has == {i \in DOMAIN up : on(i) # {}}
           D == Declared(a, plane)
<1>1. up \in Seq(Assets) /\ IsInjective(up)
  BY DEF Tables
<1>2. has \subseteq Nat /\ DOMAIN up \subseteq Nat
  BY <1>1
<1>3. \A i, j \in DOMAIN up : up[i] = up[j] => i = j
  BY <1>1 DEF IsInjective
<1>4. ASSUME NEW i \in DOMAIN up, NEW x \in on(i) PROVE x \in D /\ Place(a, x) = i
  <2>1. x.asset \in Range(up)
    BY DEF Range
  <2>2. x \in D
    BY <2>1 DEF Declared
  <2>3. x.asset = up[i]
    OBVIOUS
  <2> QED
    BY <1>3, <2>2, <2>3 DEF Place
<1>5. ASSUME NEW x \in D PROVE \E i \in DOMAIN up : x \in on(i)
  BY DEF Declared, Range
<1>6. EffectiveAttachments(a, plane) = IF has = {} THEN {} ELSE on(Min(has))
  BY DEF EffectiveAttachments
<1>7. \A i \in has : i \in DOMAIN up /\ \E x : x \in on(i)
  OBVIOUS
<1>8. \A i \in DOMAIN up : (\E x : x \in on(i)) => i \in has
  OBVIOUS
<1> HIDE DEF on, D, has
<1>9. CASE has = {}
  BY <1>5, <1>6, <1>8, <1>9 DEF D
<1>10. CASE has # {}
  <2>1. Min(has) \in has /\ \A i \in has : Min(has) <= i
    <3>1. \E n \in has : \A m \in has : n <= m
      BY <1>2, <1>10, LeastNat
    <3> QED
      BY <3>1 DEF Min
  <2>2. PICK n : n = Min(has)
    OBVIOUS
  <2>3. n \in DOMAIN up /\ n \in Nat
    BY <1>2, <1>7, <2>1, <2>2
  <2>4. ASSUME NEW y \in on(n) PROVE y \in D /\ \A z \in D : Place(a, y) <= Place(a, z)
    <3>1. y \in D /\ Place(a, y) = n
      BY <1>4, <2>3
    <3>2. ASSUME NEW z \in D PROVE n <= Place(a, z)
      <4>1. PICK i \in DOMAIN up : z \in on(i)
        BY <1>5
      <4>2. Place(a, z) = i /\ i \in has
        BY <1>4, <1>8, <4>1
      <4> QED
        BY <2>1, <2>2, <4>2
    <3> QED
      BY <3>1, <3>2
  <2>5. ASSUME NEW y \in D, \A z \in D : Place(a, y) <= Place(a, z) PROVE y \in on(n)
    <3>1. PICK i \in DOMAIN up : y \in on(i)
      BY <1>5
    <3>2. Place(a, y) = i /\ i \in has
      BY <1>4, <1>8, <3>1
    <3>3. PICK x : x \in on(n)
      BY <1>7, <2>1, <2>2
    <3>4. x \in D /\ Place(a, x) = n
      BY <1>4, <2>3, <3>3
    <3>5. i <= n /\ n <= i /\ i \in Nat
      BY <1>2, <2>1, <2>2, <2>5, <3>2, <3>4
    <3> QED
      BY <2>3, <3>1, <3>5
  <2>6. on(n) # {}
    BY <1>7, <2>1, <2>2
  <2>7. EffectiveAttachments(a, plane) = on(n)
    BY <1>6, <1>10, <2>2
  <2> QED
    BY <2>4, <2>5, <2>6, <2>7 DEF D
<1> QED
  BY <1>9, <1>10

----------------------------------------------------------------------------
(* What the engine says of two assets is what the topology says. *)

LEMMA GroupsOf == ASSUME NEW down PROVE LeftOf(down) \subseteq Groups /\ StrongOf(down) \subseteq LeftOf(down)
BY DEF LeftOf, StrongOf, NetGroups

LEMMA PluggedIs ==
  ASSUME Tables(t), NEW a \in Assets, NEW plane \in Planes
  PROVE  /\ NetOf(Now, a, plane) = PluggedInto(a, plane)
         /\ Modelled(Now, a, plane) <=> Declared(a, plane) # {}
<1> DEFINE D == Declared(a, plane)
<1>1. ASSUME NEW y \in D
      PROVE  LiveAttachment(LeftOf(DownAssets), DownAssets, y) <=>
               /\ y.group \in Left
               /\ y.pins # {} => \E c \in y.pins : Installed(c) /\ Range(t.up[c]) \cap gone = {}
  <2>1. LeftOf(DownAssets) = Left
    BY DEF LeftOf, Left
  <2>2. y.pins \subseteq Assets
    BY DEF Declared, Attached, Active, Tables
  <2>3. \A c \in y.pins : c \notin DownAssets <=> Range(t.up[c]) \cap gone = {}
    BY <2>2 DEF DownAssets, Subtree
  <2> QED
    BY <2>1, <2>3 DEF LiveAttachment
<1>2. NetOf(Now, a, plane)
        = {x.group : x \in {y \in EffectiveAttachments(a, plane) : LiveAttachment(LeftOf(DownAssets), DownAssets, y)}}
  BY NetOfIs DEF Now
<1>3. EffectiveAttachments(a, plane) = {y \in D : \A z \in D : Place(a, y) <= Place(a, z)}
  BY EffectiveIs
<1>4. {y \in EffectiveAttachments(a, plane) : LiveAttachment(LeftOf(DownAssets), DownAssets, y)}
        = {y \in D : /\ \A z \in D : Place(a, y) <= Place(a, z)
                     /\ y.group \in Left
                     /\ y.pins # {} => \E c \in y.pins : Installed(c) /\ Range(t.up[c]) \cap gone = {}}
  <2> HIDE DEF D
  <2> QED
    BY <1>1, <1>3
<1>5. NetOf(Now, a, plane) = PluggedInto(a, plane)
  BY <1>2, <1>4, Zenon DEF PluggedInto
<1>6. Modelled(Now, a, plane) <=> D # {}
  BY ModelledIs, EffectiveIs DEF Now
<1> QED
  BY <1>5, <1>6

LEMMA WalksIs ==
  ASSUME NEW nodes, NEW plane \in Planes, NEW p, NEW q
  PROVE  <<plane, p, q>> \in Walks(nodes) <=> Joined(nodes, cut, plane, p, q)
<1> DEFINE edges(n) == {u \in Uplinks : /\ u.plane = n /\ u.medium \notin cut
                                       /\ {u.group, u.upstream} \subseteq nodes}
           W(n) == {<<n, x[1], x[2]>> : x \in {y \in nodes \X nodes : Connected(edges(n), y[1], y[2])}}
<1>1. \A n : edges(n) = Between(Uplinks, n, nodes, cut)
  BY DEF Between
<1>2. Walks(nodes) = UNION {W(n) : n \in Planes}
  BY Zenon DEF Walks
<1>3. ASSUME NEW n \in Planes, <<plane, p, q>> \in W(n) PROVE Joined(nodes, cut, plane, p, q)
  <2>1. PICK x \in nodes \X nodes : Connected(edges(n), x[1], x[2]) /\ <<plane, p, q>> = <<n, x[1], x[2]>>
    BY <1>3
  <2>2. n = plane /\ x[1] = p /\ x[2] = q
    BY <2>1
  <2> QED
    BY <1>1, <2>1, <2>2 DEF Joined
<1>4. ASSUME Joined(nodes, cut, plane, p, q) PROVE <<plane, p, q>> \in W(plane)
  <2>1. <<p, q>> \in nodes \X nodes /\ <<p, q>>[1] = p /\ <<p, q>>[2] = q
    BY <1>4 DEF Joined
  <2>2. Connected(edges(plane), <<p, q>>[1], <<p, q>>[2])
    BY <1>1, <1>4, <2>1 DEF Joined
  <2> HIDE DEF edges
  <2> QED
    BY <2>1, <2>2
<1> HIDE DEF W
<1> QED
  BY <1>2, <1>3, <1>4

Walkable(pairs, plane, x, y) ==
  \E p \in PluggedInto(x, plane), q \in PluggedInto(y, plane) : <<plane, p, q>> \in pairs

LEMMA MeetsIs ==
  ASSUME Tables(t), NEW x \in Assets, NEW y \in Assets, NEW plane \in Planes
  PROVE  /\ Meets(Now.full, plane, NetOf(Now, x, plane), NetOf(Now, y, plane))
              <=> Walkable(Walks(Strong), plane, x, y)
         /\ Meets(Now.any, plane, NetOf(Now, x, plane), NetOf(Now, y, plane))
              <=> Walkable(Walks(Left), plane, x, y)
         /\ Walkable(Walks(Strong), plane, x, y) => Walkable(Walks(Left), plane, x, y)
<1>1. Now.full = Trees(Strong, cut) /\ Now.any = Trees(Left, cut)
  BY ModelIs DEF Now, Strong, Left, StrongOf, LeftOf
<1>2. Strong \subseteq Groups /\ Left \subseteq Groups /\ Strong \subseteq Left
  BY DEF Strong, Left, NetGroups
<1>3. NetOf(Now, x, plane) = PluggedInto(x, plane) /\ NetOf(Now, y, plane) = PluggedInto(y, plane)
  BY PluggedIs
<1>4. /\ Meets(Trees(Strong, cut), plane, PluggedInto(x, plane), PluggedInto(y, plane))
           <=> \E p \in PluggedInto(x, plane), q \in PluggedInto(y, plane) : Joined(Strong, cut, plane, p, q)
      /\ Meets(Trees(Left, cut), plane, PluggedInto(x, plane), PluggedInto(y, plane))
           <=> \E p \in PluggedInto(x, plane), q \in PluggedInto(y, plane) : Joined(Left, cut, plane, p, q)
  BY <1>2, MeetsJoined
<1>5. \A p, q : /\ <<plane, p, q>> \in Walks(Strong) <=> Joined(Strong, cut, plane, p, q)
                /\ <<plane, p, q>> \in Walks(Left) <=> Joined(Left, cut, plane, p, q)
  BY WalksIs
<1>6. \A p, q : Joined(Strong, cut, plane, p, q) => Joined(Left, cut, plane, p, q)
  BY <1>2, JoinedMonotone
<1> QED
  BY <1>1, <1>3, <1>4, <1>5, <1>6 DEF Walkable

LEMMA ReachIs ==
  ASSUME Tables(t), NEW x \in Assets, NEW y \in Assets, NEW plane \in Planes
  PROVE  ReachOf(Now, x, y, plane) =
           IF Declared(x, plane) = {} \/ Declared(y, plane) = {} THEN Unknown
           ELSE IF Walkable(Walks(Strong), plane, x, y) THEN OK
           ELSE IF Walkable(Walks(Left), plane, x, y) THEN Degraded
           ELSE Down
BY PluggedIs, MeetsIs DEF ReachOf

LEMMA ReachExact == ASSUME Tables(t) PROVE ReachIsExact
BY ReachIs DEF ReachIsExact, Walkable

----------------------------------------------------------------------------
(* What is said of a dependency or of a pool member. *)

LEMMA BetterIs ==
  ASSUME NEW known \in SUBSET Statuses, known # {}
  PROVE  BetterOf(known) \in known /\ \A r \in known : BetterOf(known) <= r
<1>1. \E s \in known : \A r \in known : s <= r
  <2>1. CASE 0 \in known
    BY <2>1
  <2>2. CASE 0 \notin known /\ 1 \in known
    BY <2>2
  <2>3. CASE 0 \notin known /\ 1 \notin known
    <3>1. \A x \in known : x = 2
      BY <2>3
    <3>2. PICK x \in known : x = 2
      BY <3>1
    <3>3. \A r \in known : x <= r
      BY <3>1, <3>2
    <3> QED
      BY <3>3
  <2> QED
    BY <2>1, <2>2, <2>3
<1> QED
  BY <1>1, Zenon DEF BetterOf

LEMMA ReachType ==
  ASSUME NEW m, NEW x, NEW y, NEW plane PROVE ReachOf(m, x, y, plane) \in Statuses \cup {Unknown}
BY DEF ReachOf

(* Down is said when some pair is known and every known pair is down, OK when *)
(* every consumer of which something is known has a provider it reaches well. *)
LEMMA AggregateIs ==
  ASSUME NEW m, NEW C, NEW P
  PROVE  LET v == AggregateReach(m, C, P)
             R(c, p) == ReachOf(m, c, p, "data")
             some == \E c \in C : \E p \in P : R(c, p) # Unknown
         IN /\ v = Down <=> some /\ \A c \in C, p \in P : R(c, p) \in {Down, Unknown}
            /\ v = OK <=> some /\ \A c \in C : (\E p \in P : R(c, p) # Unknown) => \E p \in P : R(c, p) = OK
<1> DEFINE R(c, p) == ReachOf(m, c, p, "data")
           known(c) == {R(c, p) : p \in P} \ {Unknown}
           K == {x \in C : known(x) # {}}
           best(c) == BetterOf(known(c))
           per == {best(c) : c \in K}
<1>1. AggregateReach(m, C, P) = IF per = {} THEN Unknown ELSE IF per = {Down} THEN Down
                                ELSE IF per # {OK} THEN Degraded ELSE OK
  BY Zenon DEF AggregateReach
<1>2. \A c \in C, p \in P : R(c, p) \in Statuses \cup {Unknown}
  BY ReachType
<1>3. \A c \in C : known(c) \subseteq Statuses
  BY ReachType
<1>4. \A c \in C : known(c) = {R(c, p) : p \in P} \ {Unknown}
  OBVIOUS
<1>5. \A c \in K : best(c) \in known(c) /\ \A r \in known(c) : best(c) <= r
  <2> HIDE DEF known
  <2> QED
    BY <1>3, BetterIs
<1>6. \A c \in C : c \in K <=> \E p \in P : R(c, p) # Unknown
  BY <1>4
<1>7. per # {} <=> \E c \in C : \E p \in P : R(c, p) # Unknown
  <2> HIDE DEF known, best
  <2> QED
    BY <1>6
<1>8. ASSUME NEW c \in K PROVE /\ best(c) = Down <=> \A p \in P : R(c, p) \in {Down, Unknown}
                               /\ best(c) = OK <=> \E p \in P : R(c, p) = OK
                               /\ best(c) \in Statuses
  <2>1. best(c) \in known(c) /\ (\A r \in known(c) : best(c) <= r) /\ known(c) = {R(c, p) : p \in P} \ {Unknown}
        /\ known(c) \subseteq Statuses
    BY <1>3, <1>4, <1>5
  <2> HIDE DEF best, known
  <2>2. \A p \in P : R(c, p) \in Statuses \cup {Unknown}
    BY <1>2
  <2> QED
    BY <2>1, <2>2
<1>9. per = {Down} <=> K # {} /\ \A c \in K : best(c) = Down
  <2> HIDE DEF K, best
  <2> QED
    OBVIOUS
<1>10. per = {OK} <=> K # {} /\ \A c \in K : best(c) = OK
  <2> HIDE DEF K, best
  <2> QED
    OBVIOUS
<1>11. AggregateReach(m, C, P) = Down <=> per = {Down}
  <2> HIDE DEF per
  <2> QED
    BY <1>1
<1>12. AggregateReach(m, C, P) = OK <=> per = {OK}
  <2> HIDE DEF per
  <2> QED
    BY <1>1
<1>13. K # {} <=> \E c \in C : \E p \in P : R(c, p) # Unknown
  <2> HIDE DEF known
  <2> QED
    BY <1>6
<1>14. K \subseteq C
  OBVIOUS
<1> HIDE DEF K, best, per, known
<1>15. AggregateReach(m, C, P) = Down <=> (\E c \in C : \E p \in P : R(c, p) # Unknown)
                                           /\ \A c \in C, p \in P : R(c, p) \in {Down, Unknown}
  BY <1>6, <1>8, <1>9, <1>11, <1>13, <1>14
<1>16. AggregateReach(m, C, P) = OK <=> (\E c \in C : \E p \in P : R(c, p) # Unknown)
            /\ \A c \in C : (\E p \in P : R(c, p) # Unknown) => \E p \in P : R(c, p) = OK
  BY <1>6, <1>8, <1>10, <1>12, <1>13, <1>14
<1> QED
  BY <1>15, <1>16

Exact(verdict, from, to) ==
  LET c == {x \in from : Declared(x, "data") # {}}  p == {y \in to : Declared(y, "data") # {}} IN
  /\ (verdict = Down) = (c # {} /\ p # {} /\ \A x \in c, y \in p : ~Walkable(Walks(Left), "data", x, y))
  /\ (verdict = OK) = (c # {} /\ p # {} /\ \A x \in c : \E y \in p : Walkable(Walks(Strong), "data", x, y))

LEMMA AggregateExact ==
  ASSUME Tables(t), NEW C \in SUBSET Assets, NEW P \in SUBSET Assets
  PROVE  Exact(AggregateReach(Now, C, P), C, P)
<1> DEFINE R(c, p) == ReachOf(Now, c, p, "data")
           v == AggregateReach(Now, C, P)
           in(x) == Declared(x, "data") # {}
           st(x, y) == Walkable(Walks(Strong), "data", x, y)
           le(x, y) == Walkable(Walks(Left), "data", x, y)
           some == \E c \in C : \E p \in P : R(c, p) # Unknown
<1>1. /\ v = Down <=> some /\ \A c \in C, p \in P : R(c, p) \in {Down, Unknown}
      /\ v = OK <=> some /\ \A c \in C : (\E p \in P : R(c, p) # Unknown) => \E p \in P : R(c, p) = OK
  BY AggregateIs
<1>2. ASSUME NEW c \in C, NEW p \in P
      PROVE  /\ R(c, p) # Unknown <=> in(c) /\ in(p)
             /\ R(c, p) = OK <=> in(c) /\ in(p) /\ st(c, p)
             /\ R(c, p) \in {Down, Unknown} <=> ~(in(c) /\ in(p) /\ le(c, p))
  <2>1. st(c, p) => le(c, p)
    BY MeetsIs DEF Planes
  <2>2. R(c, p) = IF ~in(c) \/ ~in(p) THEN Unknown ELSE IF st(c, p) THEN OK ELSE IF le(c, p) THEN Degraded ELSE Down
    BY ReachIs DEF Planes
  <2> HIDE DEF R, in, st, le
  <2> QED
    BY <2>1, <2>2
<1> HIDE DEF R, in, st, le, v
<1>3. (v = Down) <=> ({x \in C : in(x)} # {} /\ {y \in P : in(y)} # {}
                     /\ \A x \in {c \in C : in(c)}, y \in {p \in P : in(p)} : ~le(x, y))
  BY <1>1, <1>2
<1>4. (v = OK) <=> ({x \in C : in(x)} # {} /\ {y \in P : in(y)} # {}
                     /\ \A x \in {c \in C : in(c)} : \E y \in {p \in P : in(p)} : st(x, y))
  BY <1>1, <1>2
<1> QED
  BY <1>3, <1>4, Zenon DEF Exact, in, st, le, v

LEMMA NothingKnown ==
  ASSUME NEW C, NEW P, C = {} \/ P = {} PROVE Exact(Unknown, C, P)
BY DEF Exact

LEMMA HostsAreAssets == ASSUME Tables(t), NEW m, NEW s PROVE AliveHosts(m, s) \subseteq Assets
BY DEF Tables, AliveHosts, Alive, Enabled

LEMMA ProviderIsUnique ==
  ASSUME Tables(t), NEW d, NEW e \in ProviderEndpoint(d) PROVE ProviderEndpoint(d) = {e}
<1>1. ASSUME NEW x \in ProviderEndpoint(d) PROVE x = e
  <2>1. x \in t.endpoint /\ e \in t.endpoint
    BY DEF ProviderEndpoint, LiveEndpoints, Active
  <2>2. x.id = e.id
    <3>1. CASE x.id = d.provider
      BY <2>1, <3>1 DEF ProviderEndpoint, Tables
    <3>2. CASE \E r \in t.route : r.id = d.provider /\ r.frontend = x.id
      BY <2>1, <3>2 DEF ProviderEndpoint, Tables
    <3> QED
      BY <3>1, <3>2 DEF ProviderEndpoint
  <2> QED
    BY <2>1, <2>2 DEF Tables
<1> QED
  BY <1>1

LEMMA VerdictsExact == ASSUME Tables(t) PROVE VerdictsAreExact
<1>1. ASSUME NEW d \in Active(t.dep), NEW e \in LiveEndpoints, Topology, e \in ProviderEndpoint(d),
             e.bind \in {"host", "vip"}
      PROVE  Exact(DepReach(Now, d), AliveHosts(Now, d.consumer), AliveHosts(Now, e.service))
  <2> DEFINE C == AliveHosts(Now, d.consumer)
             P == AliveHosts(Now, e.service)
  <2>1. (CHOOSE x \in ProviderEndpoint(d) : TRUE) = e
    BY <1>1, ProviderIsUnique
  <2>2. ~Local(e) /\ e.bind # "cluster_ip" /\ ReachHosts(Now, e) = P
    BY <1>1 DEF Local, ReachHosts
  <2>3. DepReach(Now, d) = IF C = {} \/ P = {} THEN Unknown ELSE AggregateReach(Now, C, P)
    BY <1>1, <2>1, <2>2, Zenon DEF DepReach
  <2>4. C \in SUBSET Assets /\ P \in SUBSET Assets
    BY HostsAreAssets
  <2> HIDE DEF C, P
  <2>5. Exact(DepReach(Now, d), C, P)
    <3>1. CASE C = {} \/ P = {}
      BY <2>3, <3>1, NothingKnown
    <3>2. CASE ~(C = {} \/ P = {})
      BY <2>3, <2>4, <3>2, AggregateExact
    <3> QED
      BY <3>1, <3>2
  <2> QED
    BY <2>5 DEF C, P
<1>2. ASSUME NEW r \in t.route, NEW e \in LiveEndpoints, NEW f \in LiveEndpoints,
             f.id = r.frontend, f.bind = "vip", e.id \in r.members, e.bind = "host"
      PROVE  Exact(RouteMemberReach(Now, r, e), AliveHosts(Now, f.service), AliveHosts(Now, e.service))
  <2> DEFINE C == AliveHosts(Now, f.service)
             P == AliveHosts(Now, e.service)
             front == {x \in LiveEndpoints : x.id = r.frontend /\ ~Local(x)}
  <2>1. front = {f}
    BY <1>2 DEF Local, LiveEndpoints, Active, Tables
  <2>2. UNION {AliveHosts(Now, x.service) : x \in front} = C
    <3> HIDE DEF front
    <3> QED
      BY <2>1
  <2>3. ~Local(e) /\ ReachHosts(Now, e) = P
    BY <1>2 DEF Local, ReachHosts
  <2>4. RouteMemberReach(Now, r, e) = IF C = {} \/ P = {} THEN Unknown ELSE AggregateReach(Now, C, P)
    BY <2>2, <2>3, Zenon DEF RouteMemberReach
  <2>5. C \in SUBSET Assets /\ P \in SUBSET Assets
    BY HostsAreAssets
  <2> HIDE DEF C, P
  <2>6. Exact(RouteMemberReach(Now, r, e), C, P)
    <3>1. CASE C = {} \/ P = {}
      BY <2>4, <3>1, NothingKnown
    <3>2. CASE ~(C = {} \/ P = {})
      BY <2>4, <2>5, <3>2, AggregateExact
    <3> QED
      BY <3>1, <3>2
  <2> QED
    BY <2>6 DEF C, P
<1> QED
  <2>1. \A d \in Active(t.dep), e \in LiveEndpoints :
          Topology /\ e \in ProviderEndpoint(d) /\ e.bind \in {"host", "vip"} =>
            Exact(DepReach(Now, d), AliveHosts(Now, d.consumer), AliveHosts(Now, e.service))
    BY <1>1, Zenon
  <2>2. \A r \in t.route, e, f \in LiveEndpoints :
          f.id = r.frontend /\ f.bind = "vip" /\ e.id \in r.members /\ e.bind = "host" =>
            Exact(RouteMemberReach(Now, r, e), AliveHosts(Now, f.service), AliveHosts(Now, e.service))
    BY <1>2, Zenon
  <2> QED
    BY <2>1, <2>2, Zenon DEF VerdictsAreExact, Exact, Walkable

----------------------------------------------------------------------------
(* What the page of a medium says of its cut. *)

(* Edges within the parts change nothing. *)
LEMMA SplitsUnique ==
  ASSUME NEW S, NEW T, NEW nodes, NEW edges, NEW more, edges \subseteq more,
         Splits(S, nodes, edges), Splits(T, nodes, more),
         \A e \in more : \E x \in S : e.group \in x /\ e.upstream \in x
  PROVE  S = T
<1>1. ASSUME NEW x \in S, NEW y \in T, x \cap y # {} PROVE x = y
  <2>1. \A e \in more : Around(e, x)
    BY DEF Around, Splits
  <2>2. \A e \in edges : Around(e, y)
    BY DEF Around, Splits
  <2>3. y \subseteq x
    BY <1>1, <2>1 DEF Splits
  <2>4. x \subseteq y
    BY <1>1, <2>2 DEF Splits
  <2> QED
    BY <2>3, <2>4
<1>2. UNION S = nodes /\ UNION T = nodes /\ {} \notin S /\ {} \notin T
  BY DEF Splits
<1>3. ASSUME NEW x \in S PROVE x \in T
  <2>1. PICK n \in x : TRUE
    BY <1>2
  <2>2. PICK y \in T : n \in y
    BY <1>2, <2>1
  <2> QED
    BY <1>1, <2>1, <2>2
<1>4. ASSUME NEW y \in T PROVE y \in S
  <2>1. PICK n \in y : TRUE
    BY <1>2
  <2>2. PICK x \in S : n \in x
    BY <1>2, <2>1
  <2> QED
    BY <1>1, <2>1, <2>2
<1> QED
  BY <1>3, <1>4

LEMMA CutIsSaid == ASSUME Tables(t) PROVE CutSaysWhatTheEngineSays
<1> SUFFICES ASSUME gone = {}, cut = {},
                    \A u \in Uplinks : u.plane = "data" /\ {u.group, u.upstream} \subseteq NetGroups,
                    \A k \in NetGroups : GroupStatus(k, {}) # Down,
                    NEW x \in {y.id : y \in Active(t.medium)}
             PROVE  LET effect == MediumCutEffect(x)
                        engine == Components(Uplinks, "data", NetGroups, StrandsOf(x))
                        whole == Components(Uplinks, "data", NetGroups, {})
                    IN /\ effect.separated = {e \in effect.joined : \A tree \in engine : ~(e \subseteq tree)}
                       /\ (effect.separated # {}) = (engine # whole)
                       /\ (effect.joined # {}) = (\E y \in StrandsOf(x) : JoinsGroups(y))
  BY Zenon DEF CutSaysWhatTheEngineSays
<1> DEFINE S == StrandsOf(x)
           engine == Components(Uplinks, "data", NetGroups, S)
           whole == Components(Uplinks, "data", NetGroups, {})
           carried == {u \in Uplinks : u.medium \in S}
           rest == Uplinks \ carried
           cutoff == {u \in carried : ~Connected(rest, u.group, u.upstream)}
           joined == Adjacent(carried)
           separated == {{u.group, u.upstream} : u \in cutoff}
<1>1. MediumCutEffect(x) = [joined |-> joined, separated |-> separated]
  BY DEF MediumCutEffect, CutEffect
<1>2. Splits(engine, NetGroups, rest)
  <2>1. Between(Uplinks, "data", NetGroups, S) = rest
    BY DEF Between
  <2> HIDE DEF rest, S
  <2> QED
    BY <2>1, ComponentsSplit, UplinksFinite
<1>3. Splits(whole, NetGroups, Uplinks)
  <2>1. Between(Uplinks, "data", NetGroups, {}) = Uplinks
    BY DEF Between
  <2> QED
    BY <2>1, ComponentsSplit, UplinksFinite
<1>4. NetGroups \subseteq Groups
  BY DEF NetGroups
<1>5. \A u \in Uplinks : u.group \in NetGroups /\ u.upstream \in NetGroups
  OBVIOUS
<1>6. carried \subseteq Uplinks /\ rest \subseteq Uplinks /\ rest \cup carried = Uplinks
  OBVIOUS
<1> HIDE DEF S, engine, whole, carried, rest
<1>7. ASSUME NEW u \in carried
      PROVE  Connected(rest, u.group, u.upstream) <=> \E tree \in engine : {u.group, u.upstream} \subseteq tree
  <2>1. u.group \in NetGroups /\ u.upstream \in NetGroups
    BY <1>5, <1>6
  <2>2. \A e \in rest : e.group \in NetGroups /\ e.upstream \in NetGroups
    BY <1>5, <1>6
  <2>3. (\E tree \in engine : u.group \in tree /\ u.upstream \in tree) <=> Connected(rest, u.group, u.upstream)
    BY <1>2, <1>4, <2>1, <2>2, SplitsConnected
  <2> QED
    BY <2>3
<1>8. separated = {e \in joined : \A tree \in engine : ~(e \subseteq tree)}
  <2>1. ASSUME NEW e \in separated PROVE e \in joined /\ \A tree \in engine : ~(e \subseteq tree)
    <3>1. PICK u \in cutoff : e = {u.group, u.upstream}
      OBVIOUS
    <3> QED
      BY <1>7, <3>1 DEF Adjacent
  <2>2. ASSUME NEW e \in joined, \A tree \in engine : ~(e \subseteq tree) PROVE e \in separated
    <3>1. PICK u \in carried : e = {u.group, u.upstream}
      BY DEF Adjacent
    <3>2. u \in cutoff
      BY <1>7, <2>2, <3>1
    <3> HIDE DEF cutoff
    <3> QED
      BY <3>1, <3>2
  <2> HIDE DEF separated, joined
  <2> QED
    BY <2>1, <2>2
<1>9. ASSUME separated # {} PROVE engine # whole
  <2>1. PICK u \in cutoff : TRUE
    BY <1>9
  <2>2. PICK tree \in whole : u.group \in tree /\ u.upstream \in tree
    BY <1>3, <1>6, <2>1 DEF Splits
  <2>3. tree \notin engine
    BY <1>7, <2>1, <2>2
  <2> QED
    BY <2>2, <2>3
<1>10. ASSUME separated = {} PROVE engine = whole
  <2>1. ASSUME NEW e \in Uplinks PROVE \E tree \in engine : e.group \in tree /\ e.upstream \in tree
    <3>1. CASE e \in carried
      <4>1. e \notin cutoff
        <5> HIDE DEF cutoff
        <5> QED
          BY <1>10
      <4> QED
        BY <1>7, <3>1, <4>1
    <3>2. CASE e \in rest
      BY <1>2, <3>2 DEF Splits
    <3> QED
      BY <1>6, <3>1, <3>2
  <2> QED
    BY <1>2, <1>3, <1>6, <2>1, SplitsUnique
<1>11. joined # {} <=> \E y \in S : JoinsGroups(y)
  <2>1. joined # {} <=> carried # {}
    BY DEF Adjacent
  <2>2. ASSUME NEW u \in carried PROVE u.medium \in S /\ JoinsGroups(u.medium)
    BY DEF JoinsGroups, carried
  <2>3. ASSUME NEW y \in S, JoinsGroups(y) PROVE carried # {}
    BY <2>3 DEF JoinsGroups, carried
  <2> HIDE DEF joined
  <2> QED
    BY <2>1, <2>2, <2>3
<1>12. MediumCutEffect(x).joined = joined /\ MediumCutEffect(x).separated = separated
  BY <1>1
<1> HIDE DEF joined, separated
<1>13. /\ separated = {e \in joined : \A tree \in engine : ~(e \subseteq tree)}
       /\ (separated # {}) = (engine # whole)
       /\ (joined # {}) = (\E y \in S : JoinsGroups(y))
  <2>1. (separated # {}) = (engine # whole)
    BY <1>9, <1>10
  <2>2. (joined # {}) = (\E y \in S : JoinsGroups(y))
    BY <1>11
  <2> QED
    BY <1>8, <2>1, <2>2
<1> QED
  BY <1>12, <1>13, Zenon DEF S, engine, whole

----------------------------------------------------------------------------
(* A larger outage never looks better.  The smaller one has the assets of     *)
(* less down and the media of fewer cut.                                      *)

LEMMA GroupStatusType ==
  ASSUME Tables(t), NEW k \in Groups, NEW down PROVE GroupStatus(k, down) \in Statuses
BY EvaluateType DEF GroupStatus, Tables

LEMMA GroupMonotone ==
  ASSUME Tables(t), NEW k \in Groups, NEW down, NEW less, less \subseteq down
  PROVE  GroupStatus(k, less) <= GroupStatus(k, down)
<1> DEFINE health(x) == [id |-> x.asset, role |-> x.role, shard |-> None]
           rows == {x \in Active(t.member) : x.group = k /\ Installed(x.asset)}
           all == {health(x) : x \in rows}
           alive(d) == {health(x) : x \in {y \in rows : y.asset \notin d}}
<1>1. \A d : GroupStatus(k, d) = IF rows = {} THEN Down ELSE Evaluate(t.group[k].policy, all, alive(d))
  BY Zenon DEF GroupStatus
<1>2. IsFiniteSet(all)
  <2>1. rows \in SUBSET t.member
    BY DEF Active
  <2>2. IsFiniteSet(rows)
    BY <2>1, FS_Subset DEF Tables
  <2> DEFINE f == [x \in rows |-> health(x)]
  <2>3. f \in Surjection(rows, all)
    <3> HIDE DEF rows, health
    <3> QED
      BY DEF Surjection
  <2> HIDE DEF rows, f, all
  <2> QED
    BY <2>2, <2>3, FS_Surjection
<1>3. alive(less) \in SUBSET all /\ alive(down) \in SUBSET alive(less)
  <2> HIDE DEF rows, health
  <2> QED
    OBVIOUS
<1>4. t.group[k].policy \in Policy
  BY DEF Tables
<1> HIDE DEF rows, all, alive
<1>5. Evaluate(t.group[k].policy, all, alive(less)) <= Evaluate(t.group[k].policy, all, alive(down))
  BY <1>2, <1>3, <1>4, EvaluateMonotone
<1> QED
  BY <1>1, <1>5

LEMMA GroupsShrink ==
  ASSUME Tables(t), NEW down, NEW less, less \subseteq down
  PROVE  LeftOf(down) \subseteq LeftOf(less) /\ StrongOf(down) \subseteq StrongOf(less)
<1>1. ASSUME NEW k \in NetGroups
      PROVE  /\ GroupStatus(k, less) \in Statuses /\ GroupStatus(k, down) \in Statuses
             /\ GroupStatus(k, less) <= GroupStatus(k, down)
  BY GroupStatusType, GroupMonotone DEF NetGroups
<1> QED
  BY <1>1 DEF LeftOf, StrongOf

Larger(down, severed, less, fewer) == less \subseteq down /\ fewer \subseteq severed

LEMMA NetShrinks ==
  ASSUME Tables(t), NEW down, NEW severed, NEW less, NEW fewer, Larger(down, severed, less, fewer),
         NEW a \in Assets, NEW plane \in Planes
  PROVE  /\ NetOf(Model(down, severed), a, plane) \subseteq NetOf(Model(less, fewer), a, plane)
         /\ Modelled(Model(down, severed), a, plane) <=> Modelled(Model(less, fewer), a, plane)
         /\ IsIsolated(Model(less, fewer), a, plane) => IsIsolated(Model(down, severed), a, plane)
<1>1. ASSUME NEW x, LiveAttachment(LeftOf(down), down, x) PROVE LiveAttachment(LeftOf(less), less, x)
  BY <1>1, GroupsShrink DEF LiveAttachment, Larger
<1>2. NetOf(Model(down, severed), a, plane) \subseteq NetOf(Model(less, fewer), a, plane)
  BY <1>1, NetOfIs
<1>3. Modelled(Model(down, severed), a, plane) <=> Modelled(Model(less, fewer), a, plane)
  BY ModelledIs
<1> QED
  BY <1>2, <1>3 DEF IsIsolated

LEMMA MeetsShrinks ==
  ASSUME Tables(t), NEW down, NEW severed, NEW less, NEW fewer, Larger(down, severed, less, fewer),
         NEW plane \in Planes, NEW from, NEW to, NEW wider, NEW broader, from \subseteq wider, to \subseteq broader
  PROVE  /\ Meets(Model(down, severed).full, plane, from, to) => Meets(Model(less, fewer).full, plane, wider, broader)
         /\ Meets(Model(down, severed).any, plane, from, to) => Meets(Model(less, fewer).any, plane, wider, broader)
<1>1. /\ Model(down, severed).full = Trees(StrongOf(down), severed)
      /\ Model(down, severed).any = Trees(LeftOf(down), severed)
      /\ Model(less, fewer).full = Trees(StrongOf(less), fewer)
      /\ Model(less, fewer).any = Trees(LeftOf(less), fewer)
  BY ModelIs
<1>2. ASSUME NEW nodes, NEW more, nodes \subseteq more, more \subseteq Groups,
             Meets(Trees(nodes, severed), plane, from, to)
      PROVE  Meets(Trees(more, fewer), plane, wider, broader)
  <2>1. PICK p \in from, q \in to : Joined(nodes, severed, plane, p, q)
    BY <1>2, MeetsJoined
  <2>2. Joined(more, fewer, plane, p, q)
    BY <1>2, <2>1, JoinedMonotone DEF Larger
  <2> QED
    BY <1>2, <2>1, <2>2, MeetsJoined
<1>3. LeftOf(down) \subseteq LeftOf(less) /\ StrongOf(down) \subseteq StrongOf(less)
  BY GroupsShrink DEF Larger
<1>4. LeftOf(less) \subseteq Groups /\ StrongOf(less) \subseteq Groups
  BY DEF LeftOf, StrongOf, NetGroups
<1> QED
  BY <1>1, <1>2, <1>3, <1>4

LEMMA ReachShrinks ==
  ASSUME Tables(t), NEW down, NEW severed, NEW less, NEW fewer, Larger(down, severed, less, fewer),
         NEW x \in Assets, NEW y \in Assets, NEW plane \in Planes,
         ReachOf(Model(less, fewer), x, y, plane) # Unknown
  PROVE  ReachOf(Model(down, severed), x, y, plane) >= ReachOf(Model(less, fewer), x, y, plane)
<1> DEFINE after == Model(down, severed)
           before == Model(less, fewer)
<1>1. /\ Modelled(after, x, plane) <=> Modelled(before, x, plane)
      /\ Modelled(after, y, plane) <=> Modelled(before, y, plane)
      /\ NetOf(after, x, plane) \subseteq NetOf(before, x, plane)
      /\ NetOf(after, y, plane) \subseteq NetOf(before, y, plane)
  BY NetShrinks
<1>2. /\ Meets(after.full, plane, NetOf(after, x, plane), NetOf(after, y, plane))
           => Meets(before.full, plane, NetOf(before, x, plane), NetOf(before, y, plane))
      /\ Meets(after.any, plane, NetOf(after, x, plane), NetOf(after, y, plane))
           => Meets(before.any, plane, NetOf(before, x, plane), NetOf(before, y, plane))
  BY <1>1, MeetsShrinks
<1> HIDE DEF after, before
<1> QED
  BY <1>1, <1>2 DEF ReachOf, after, before

LEMMA ReachGroupShrinks ==
  ASSUME Tables(t), NEW down, NEW severed, NEW less, NEW fewer, Larger(down, severed, less, fewer),
         NEW x \in Assets, NEW k, NEW plane \in Planes
  PROVE  /\ ReachGroup(Model(down, severed), x, k, plane) >= ReachGroup(Model(less, fewer), x, k, plane)
         /\ ReachGroup(Model(down, severed), x, k, plane) = Unknown
              <=> ReachGroup(Model(less, fewer), x, k, plane) = Unknown
         /\ ReachGroup(Model(down, severed), x, k, plane) = Unknown
              <=> ~Modelled(Model(down, severed), x, plane) \/ k \notin NetGroups
         /\ ReachGroup(Model(down, severed), x, k, plane) \in Statuses \cup {Unknown}
         /\ ReachGroup(Model(less, fewer), x, k, plane) \in Statuses \cup {Unknown}
<1> DEFINE after == Model(down, severed)
           before == Model(less, fewer)
<1>1. /\ Modelled(after, x, plane) <=> Modelled(before, x, plane)
      /\ NetOf(after, x, plane) \subseteq NetOf(before, x, plane)
  BY NetShrinks
<1>2. /\ Meets(after.full, plane, NetOf(after, x, plane), {k})
           => Meets(before.full, plane, NetOf(before, x, plane), {k})
      /\ Meets(after.any, plane, NetOf(after, x, plane), {k})
           => Meets(before.any, plane, NetOf(before, x, plane), {k})
  BY <1>1, MeetsShrinks
<1> HIDE DEF after, before
<1> QED
  BY <1>1, <1>2 DEF ReachGroup, after, before

LEMMA IsolatedGrow ==
  ASSUME Tables(t), NEW down, NEW severed, NEW less, NEW fewer, Larger(down, severed, less, fewer),
         NEW x \in IsolatedAssets(Model(less, fewer))
  PROVE  x \in IsolatedAssets(Model(down, severed)) \/ x[1] \in Model(down, severed).down
<1>1. x \in Assets \X Planes /\ Topology /\ IsIsolated(Model(less, fewer), x[1], x[2])
  BY DEF IsolatedAssets
<1>2. x[1] \in Assets /\ x[2] \in Planes
  BY <1>1
<1>3. IsIsolated(Model(down, severed), x[1], x[2])
  BY <1>1, <1>2, NetShrinks
<1> QED
  BY <1>1, <1>3 DEF IsolatedAssets

LEMMA RedundancyStaysLost ==
  ASSUME NEW down, NEW severed, NEW less, NEW fewer, Larger(down, severed, less, fewer)
  PROVE  RedundancyLost(Model(less, fewer)) \subseteq RedundancyLost(Model(down, severed))
<1>1. Model(less, fewer).down = less /\ Model(down, severed).down = down
  BY ModelIs
<1> QED
  BY <1>1 DEF RedundancyLost, Larger

LEMMA StructuresStayBroken ==
  ASSUME Tables(t), NEW down, NEW less, less \subseteq down, NEW f \in StructureFindings(less)
  PROVE  \E h \in StructureFindings(down) : h.id = f.id /\ h.left <= f.left
<1> DEFINE emptied(x, d) == HoldsUp(x) # {} /\ HoldsUp(x) \subseteq d
           alone(x, d) == Cardinality(HoldsUp(x)) > 1 /\ Cardinality(HoldsUp(x) \ d) = 1
           finding(x, d) == [id |-> x.id, left |-> Cardinality(HoldsUp(x) \ d)]
<1>1. \A d : StructureFindings(d) = {finding(x, d) : x \in {y \in Structures : emptied(y, d) \/ alone(y, d)}}
  BY Zenon DEF StructureFindings
<1>2. PICK x \in Structures : (emptied(x, less) \/ alone(x, less)) /\ f = finding(x, less)
  <2> HIDE DEF emptied, alone, finding
  <2> QED
    BY <1>1
<1> DEFINE H == HoldsUp(x)
<1>3. H \in SUBSET Assets
  BY DEF Tables, HoldsUp, Structures
<1>4. IsFiniteSet(H) /\ IsFiniteSet(H \ less) /\ IsFiniteSet(H \ down)
  <2>1. IsFiniteSet(H)
    BY <1>3, TopologyAssumption, FS_Subset
  <2>2. H \ less \in SUBSET H /\ H \ down \in SUBSET H
    OBVIOUS
  <2> HIDE DEF H
  <2> QED
    BY <2>1, <2>2, FS_Subset
<1> HIDE DEF H
<1>5. /\ Cardinality(H \ down) <= Cardinality(H \ less)
      /\ Cardinality(H \ down) \in Nat /\ Cardinality(H \ less) \in Nat /\ Cardinality(H) \in Nat
  <2>1. H \ down \in SUBSET (H \ less)
    OBVIOUS
  <2> QED
    BY <1>4, <2>1, FS_Subset, FS_CardinalityType
<1>6. emptied(x, down) \/ alone(x, down)
  <2>1. CASE emptied(x, less)
    BY <2>1
  <2>2. CASE alone(x, less)
    <3>1. Cardinality(H) > 1 /\ Cardinality(H \ less) = 1
      BY <2>2 DEF H
    <3>2. Cardinality(H \ down) = 1 \/ Cardinality(H \ down) = 0
      BY <1>5, <3>1
    <3>3. Cardinality(H \ down) = 0 => H \ down = {}
      BY <1>4, FS_EmptySet
    <3>4. H # {}
      BY <3>1, FS_EmptySet
    <3>5. H \ down = {} => H \subseteq down
      OBVIOUS
    <3> QED
      BY <3>1, <3>2, <3>3, <3>4, <3>5 DEF H
  <2> QED
    BY <1>2, <2>1, <2>2
<1>7. finding(x, down) \in StructureFindings(down)
  <2> HIDE DEF emptied, alone, finding
  <2> QED
    BY <1>1, <1>6
<1>8. finding(x, down).id = f.id /\ finding(x, down).left <= f.left
  BY <1>2, <1>5 DEF H
<1> HIDE DEF finding
<1> QED
  BY <1>7, <1>8

LEMMA HostsShrink ==
  ASSUME Tables(t), NEW down, NEW severed, NEW less, NEW fewer, Larger(down, severed, less, fewer), NEW s
  PROVE  AliveHosts(Model(down, severed), s) \subseteq AliveHosts(Model(less, fewer), s)
<1>1. Model(less, fewer).down = less /\ Model(down, severed).down = down
  BY ModelIs
<1>2. ASSUME NEW i \in Alive(Model(down, severed), s) PROVE i \in Alive(Model(less, fewer), s)
  <2>1. i \in Enabled(s) /\ i.host \notin down /\ i.host \in Assets
    BY <1>1 DEF Alive, Enabled, Tables
  <2>2. ~(Topology /\ NeedsNet(s) /\ IsIsolated(Model(down, severed), i.host, "data"))
    BY DEF Alive
  <2>3. IsIsolated(Model(less, fewer), i.host, "data") => IsIsolated(Model(down, severed), i.host, "data")
    BY <2>1, NetShrinks DEF Planes
  <2> QED
    BY <1>1, <2>1, <2>2, <2>3 DEF Alive, Larger
<1> QED
  BY <1>2 DEF AliveHosts

LEMMA AnchorsShrink ==
  ASSUME Tables(t), NEW down, NEW severed, NEW less, NEW fewer, Larger(down, severed, less, fewer),
         NEW s, NEW anchors, ~Unplaced(Model(down, severed), s),
         AnchorReach(Model(less, fewer), AliveHosts(Model(less, fewer), s), anchors) \in {Degraded, Down}
  PROVE  AnchorReach(Model(down, severed), AliveHosts(Model(down, severed), s), anchors) \in {Degraded, Down}
<1> DEFINE after == Model(down, severed)
           before == Model(less, fewer)
           hosts(m) == AliveHosts(m, s)
           way(m, h, x) == ReachGroup(m, h, x.group, "data")
           known(m) == {way(m, h, x) : h \in hosts(m), x \in anchors} \ {Unknown}
<1>1. /\ AnchorReach(after, hosts(after), anchors) = IF known(after) = {} THEN Unknown ELSE BetterOf(known(after))
      /\ AnchorReach(before, hosts(before), anchors) = IF known(before) = {} THEN Unknown ELSE BetterOf(known(before))
  BY DEF AnchorReach
<1>2. hosts(after) \subseteq hosts(before) /\ hosts(before) \subseteq Assets
  BY HostsShrink, HostsAreAssets
<1>3. ASSUME NEW h \in hosts(before), NEW x
      PROVE  /\ way(after, h, x) >= way(before, h, x)
             /\ way(after, h, x) = Unknown <=> way(before, h, x) = Unknown
             /\ way(after, h, x) = Unknown <=> ~Modelled(after, h, "data") \/ x.group \notin NetGroups
             /\ way(after, h, x) \in Statuses \cup {Unknown}
             /\ way(before, h, x) \in Statuses \cup {Unknown}
  BY <1>2, ReachGroupShrinks DEF Planes
<1>4. PICK h \in hosts(after) : Modelled(after, h, "data")
  BY DEF Unplaced
<1> HIDE DEF after, before, hosts, way
<1>5. known(before) # {} /\ BetterOf(known(before)) \in {Degraded, Down}
  BY <1>1 DEF hosts, before
<1>6. known(before) \in SUBSET Statuses /\ known(after) \in SUBSET Statuses
  BY <1>2, <1>3
<1>7. known(after) # {}
  <2>1. PICK c \in hosts(before), x \in anchors : way(before, c, x) # Unknown
    BY <1>5
  <2>2. x.group \in NetGroups
    BY <1>3, <2>1
  <2>3. way(after, h, x) # Unknown
    BY <1>2, <1>3, <1>4, <2>2
  <2> QED
    BY <1>4, <2>1, <2>3
<1>8. \A r \in known(before) : BetterOf(known(before)) <= r
  <2> HIDE DEF known
  <2> QED
    BY <1>5, <1>6, BetterIs
<1>9. BetterOf(known(after)) \in known(after)
  <2> HIDE DEF known
  <2> QED
    BY <1>6, <1>7, BetterIs
<1>10. PICK c \in hosts(after), x \in anchors : BetterOf(known(after)) = way(after, c, x) /\ way(after, c, x) # Unknown
  <2>1. \A r \in known(after) : \E c \in hosts(after), x \in anchors : r = way(after, c, x) /\ r # Unknown
    OBVIOUS
  <2> HIDE DEF known
  <2> QED
    BY <1>9, <2>1
<1>11. way(before, c, x) \in known(before) /\ way(before, c, x) <= way(after, c, x)
       /\ way(after, c, x) \in Statuses /\ way(before, c, x) \in Statuses
  BY <1>2, <1>3, <1>10
<1>12. BetterOf(known(after)) \in {Degraded, Down}
  <2> HIDE DEF known
  <2> QED
    BY <1>5, <1>8, <1>10, <1>11
<1> QED
  BY <1>1, <1>7, <1>12 DEF hosts, after

LEMMA UnreachableGrow ==
  ASSUME Tables(t), NEW down, NEW severed, NEW less, NEW fewer, Larger(down, severed, less, fewer),
         NEW st, NEW e \in Unreachable(Model(less, fewer), st), ~Unplaced(Model(down, severed), e.service)
  PROVE  e \in Unreachable(Model(down, severed), st)
BY AnchorsShrink, Zenon DEF Unreachable

LEMMA ExposureGrows ==
  ASSUME Tables(t), NEW down, NEW severed, NEW less, NEW fewer, Larger(down, severed, less, fewer),
         NEW st, NEW s \in ExposureImpacts(Model(less, fewer), st, {}), ~Unplaced(Model(down, severed), s)
  PROVE  s \in ExposureImpacts(Model(down, severed), st, {})
<1> DEFINE exposed == {e \in EndpointsOf(s) : Exposed(e)}
<1>1. s \in Services \ {} /\ exposed # {} /\ exposed \subseteq Unreachable(Model(less, fewer), st)
  BY Zenon DEF ExposureImpacts
<1>2. \A e \in exposed : e.service = s
  BY DEF EndpointsOf
<1> HIDE DEF exposed
<1>3. exposed \subseteq Unreachable(Model(down, severed), st)
  BY <1>1, <1>2, UnreachableGrow
<1> QED
  BY <1>1, <1>3, Zenon DEF ExposureImpacts, exposed

(* The conditions of LossNeverImproves, of two models. *)
Worsens(after, before, st) ==
  /\ after.modelled = before.modelled
  /\ \A x, y \in Assets, plane \in Planes :
       LET b == ReachOf(before, x, y, plane) IN b # Unknown => ReachOf(after, x, y, plane) >= b
  /\ \A x \in IsolatedAssets(before) : x \in IsolatedAssets(after) \/ x[1] \in after.down
  /\ RedundancyLost(before) \subseteq RedundancyLost(after)
  /\ \A f \in StructureFindings(before.down) :
       \E h \in StructureFindings(after.down) : h.id = f.id /\ h.left <= f.left
  /\ \A e \in Unreachable(before, st) :
       e \in Unreachable(after, st) \/ Unplaced(after, e.service)
  /\ \A s \in ExposureImpacts(before, st, {}) :
       s \in ExposureImpacts(after, st, {}) \/ Unplaced(after, s)

LEMMA LossIsLoss ==
  ASSUME Tables(t), NEW down, NEW severed, NEW less, NEW fewer, Larger(down, severed, less, fewer), NEW st
  PROVE  Worsens(Model(down, severed), Model(less, fewer), st)
<1> DEFINE after == Model(down, severed)
           before == Model(less, fewer)
<1>1. after.modelled = before.modelled
  BY DEF Model
<1>2. \A x, y \in Assets, plane \in Planes :
        LET b == ReachOf(before, x, y, plane) IN b # Unknown => ReachOf(after, x, y, plane) >= b
  BY ReachShrinks
<1>3. \A x \in IsolatedAssets(before) : x \in IsolatedAssets(after) \/ x[1] \in after.down
  BY IsolatedGrow, Zenon
<1>4. RedundancyLost(before) \subseteq RedundancyLost(after)
  BY RedundancyStaysLost
<1>5. \A f \in StructureFindings(before.down) : \E h \in StructureFindings(after.down) : h.id = f.id /\ h.left <= f.left
  <2>1. before.down = less /\ after.down = down
    BY ModelIs
  <2> HIDE DEF before, after
  <2> QED
    BY <2>1, StructuresStayBroken DEF Larger
<1>6. \A e \in Unreachable(before, st) : e \in Unreachable(after, st) \/ Unplaced(after, e.service)
  BY UnreachableGrow, Zenon
<1>7. \A s \in ExposureImpacts(before, st, {}) : s \in ExposureImpacts(after, st, {}) \/ Unplaced(after, s)
  BY ExposureGrows, Zenon
<1> QED
  BY <1>1, <1>2, <1>3, <1>4, <1>5, <1>6, <1>7, Zenon DEF Worsens

LEMMA NothingImproves == ASSUME Tables(t) PROVE LossNeverImproves
<1> DEFINE smaller == {<<gone \ {a}, cut>> : a \in gone} \cup {<<gone, cut \ StrandsOf(x)>> : x \in cut}
           st == [s \in Services |-> OK]
<1>1. ASSUME NEW outage \in smaller PROVE Larger(DownAssets, cut, Subtree(outage[1]), outage[2])
  <2>1. outage[1] \subseteq gone /\ outage[2] \subseteq cut
    OBVIOUS
  <2> QED
    BY <2>1 DEF Larger, DownAssets, Subtree
<1>2. ASSUME NEW outage \in smaller PROVE Worsens(Now, Model(Subtree(outage[1]), outage[2]), st)
  <2> HIDE DEF smaller, st
  <2> QED
    BY <1>1, LossIsLoss DEF Now
<1> QED
  BY <1>2, Zenon DEF LossNeverImproves, Worsens

----------------------------------------------------------------------------
(* The power chain.  The way up from an input and the way down from a supply *)
(* are the same way, whatever the estate.                                    *)

Heights(height) ==
  /\ height \in [Ids(Supplies) -> 1..SupplyDepthLimit]
  /\ \A s, p \in Supplies : s.parent = p.id => height[s.id] < height[p.id]

ParentOf(x) == Row(t.source, x).parent
After(i, path, k) == IF k = 2 THEN PanelOf(i).source ELSE ParentOf(path[k])

(* A way up from an input: its feed, its panel, then supplies that are there, *)
(* each the parent of the one before.                                         *)
WayUp(i, path, height) ==
  /\ Len(path) >= 2 /\ path[1] = i.feed /\ path[2] = PanelOf(i).id
  /\ \A k \in 3..Len(path) : path[k] \in Ids(Supplies) /\ height[path[k]] >= k - 2
  /\ \A k \in 3..Len(path) : path[k] = After(i, path, k - 1)
  /\ \A j, k \in 3..Len(path) : j < k => height[path[j]] < height[path[k]]

(* Finitely many steps, each with a function of its own. *)
Iterated(f, L, D, F, b) ==
  f \in [0..L -> D] /\ f[0] = b /\ \A n \in 1..L : f[n] = F[n][f[n - 1]]

LEMMA Iterates ==
  ASSUME NEW L \in Nat, NEW D, NEW F \in [1..L -> [D -> D]], NEW b \in D
  PROVE  \E f : Iterated(f, L, D, F, b)
<1> DEFINE T == {n \in 0..L : ~\E f : Iterated(f, n, D, F, b)}
<1> SUFFICES ASSUME ~\E f : Iterated(f, L, D, F, b) PROVE FALSE
  OBVIOUS
<1>1. T # {}
  <2>1. L \in 0..L
    OBVIOUS
  <2> QED
    BY <2>1
<1>2. PICK n \in T : \A m \in T : n <= m
  <2>1. T \subseteq Nat
    OBVIOUS
  <2> HIDE DEF T
  <2> QED
    BY <1>1, <2>1, LeastNat
<1>3. CASE n = 0
  <2> DEFINE f == [m \in 0..0 |-> b]
  <2>1. Iterated(f, 0, D, F, b)
    BY DEF Iterated
  <2> QED
    BY <1>2, <1>3, <2>1
<1>4. CASE n # 0
  <2>1. n - 1 \in 0..L /\ n \in 1..L /\ ~(n <= n - 1)
    BY <1>2, <1>4
  <2>2. PICK f : Iterated(f, n - 1, D, F, b)
    BY <1>2, <2>1
  <2> DEFINE longer == [m \in 0..n |-> IF m = n THEN F[n][f[n - 1]] ELSE f[m]]
  <2>3. longer \in [0..n -> D] /\ longer[0] = b
    BY <1>4, <2>1, <2>2 DEF Iterated
  <2>4. ASSUME NEW m \in 1..n PROVE longer[m] = F[m][longer[m - 1]]
    <3>1. CASE m # n
      <4>1. m \in 1..(n - 1) /\ m - 1 \in 0..n /\ m - 1 # n /\ m \in 0..n
        BY <2>1, <3>1
      <4>2. f[m] = F[m][f[m - 1]]
        BY <2>2, <4>1 DEF Iterated
      <4> QED
        BY <3>1, <4>1, <4>2
    <3>2. CASE m = n
      BY <1>4, <2>1, <3>2
    <3> QED
      BY <3>1, <3>2
  <2> HIDE DEF longer
  <2>5. Iterated(longer, n, D, F, b)
    BY <2>3, <2>4 DEF Iterated
  <2> QED
    BY <1>2, <2>5
<1> QED
  BY <1>3, <1>4

LEMMA RowIs ==
  ASSUME NEW rows, \A x, y \in rows : x.id = y.id => x = y, NEW x \in rows
  PROVE  Row(rows, x.id) = x
BY DEF Row

LEMMA SupplyRow ==
  ASSUME PowerTables(t), NEW x \in Ids(Supplies)
  PROVE  /\ Row(t.source, x) \in Supplies /\ Row(t.source, x).id = x
         /\ x \in Ids(t.source)
<1>1. PICK s \in Supplies : s.id = x
  BY DEF Ids
<1>2. s \in t.source
  BY DEF Supplies, NotRetired
<1>3. Row(t.source, x) = s
  BY <1>1, <1>2, RowIs DEF PowerTables
<1> QED
  BY <1>1, <1>2, <1>3 DEF Ids

LEMMA LinkRows ==
  ASSUME PowerTables(t), NEW i \in PowerLinks
  PROVE  /\ Row(t.feed, i.feed) \in NotRetired(t.feed) /\ Row(t.feed, i.feed).id = i.feed
         /\ PanelOf(i) \in NotRetired(t.panel) /\ PanelOf(i).id = Row(t.feed, i.feed).panel
<1>1. i \in t.input /\ Row(t.feed, i.feed).life # "retired" /\ PanelOf(i).life # "retired"
  BY DEF PowerLinks, Inputs, NotRetired
<1>2. PICK f \in t.feed : f.id = i.feed
  BY <1>1 DEF PowerTables, Ids
<1>3. Row(t.feed, i.feed) = f
  BY <1>2, RowIs DEF PowerTables
<1>4. PICK p \in t.panel : p.id = f.panel
  BY DEF PowerTables, Ids
<1>5. PanelOf(i) = p
  BY <1>3, <1>4, RowIs DEF PowerTables, PanelOf
<1> QED
  BY <1>1, <1>2, <1>3, <1>4, <1>5 DEF NotRetired

(* One step of supplyPath. *)
LEMMA WayUpLonger ==
  ASSUME PowerTables(t), NEW height, Heights(height), NEW i, NEW U, NEW path \in Seq(U), NEW cur \in U,
         WayUp(i, path, height), cur = After(i, path, Len(path)), cur \in Ids(Supplies)
  PROVE  WayUp(i, Append(path, cur), height) /\ ParentOf(cur) = After(i, Append(path, cur), Len(path) + 1)
<1> DEFINE longer == Append(path, cur)
<1>0. PICK n \in Nat : n = Len(path)
  OBVIOUS
<1> USE <1>0
<1>1. n >= 2 /\ Len(longer) = n + 1 /\ longer[n + 1] = cur
  BY DEF WayUp
<1>2. \A k \in 1..n : longer[k] = path[k]
  BY <1>1
<1>3. \A x \in Ids(Supplies) : height[x] \in 1..SupplyDepthLimit
  BY DEF Heights
<1>4. ASSUME n >= 3 PROVE path[n] \in Ids(Supplies) /\ height[path[n]] < height[cur]
  <2>1. path[n] \in Ids(Supplies)
    BY <1>1, <1>4 DEF WayUp
  <2>2. cur = ParentOf(path[n])
    BY <1>1, <1>4 DEF After
  <2>3. Row(t.source, path[n]) \in Supplies /\ Row(t.source, path[n]).id = path[n]
    BY <2>1, SupplyRow
  <2>4. Row(t.source, cur) \in Supplies /\ Row(t.source, cur).id = cur
    BY SupplyRow
  <2> QED
    BY <2>1, <2>2, <2>3, <2>4 DEF Heights, ParentOf
<1>5. height[cur] \in Int /\ height[cur] >= 1 /\ \A k \in 3..n : height[path[k]] \in Int
  BY <1>3 DEF WayUp
<1>6. height[cur] >= n - 1
  <2>1. CASE n = 2
    BY <1>5, <2>1
  <2>2. CASE n >= 3
    <3>1. height[path[n]] >= n - 2
      BY <1>1, <2>2 DEF WayUp
    <3> QED
      BY <1>1, <1>4, <1>5, <2>2, <3>1
  <2> QED
    BY <1>1, <2>1, <2>2
<1>7. ASSUME NEW j \in 3..n PROVE height[path[j]] < height[cur]
  <2>1. j = n \/ (j < n /\ height[path[j]] < height[path[n]])
    BY <1>1 DEF WayUp
  <2> QED
    BY <1>1, <1>4, <1>5, <2>1
<1> HIDE DEF longer
<1>8. \A k \in 3..(n + 1) : longer[k] \in Ids(Supplies) /\ height[longer[k]] >= k - 2
  <2> TAKE k \in 3..(n + 1)
  <2>1. CASE k = n + 1
    BY <1>1, <1>6, <2>1
  <2>2. CASE k # n + 1
    BY <1>1, <1>2, <2>2 DEF WayUp
  <2> QED
    BY <2>1, <2>2
<1>9. \A k \in 3..(n + 1) : longer[k] = After(i, longer, k - 1)
  <2> TAKE k \in 3..(n + 1)
  <2>1. After(i, longer, k - 1) = After(i, path, k - 1)
    BY <1>1, <1>2 DEF After
  <2>2. CASE k = n + 1
    BY <1>1, <2>1, <2>2
  <2>3. CASE k # n + 1
    BY <1>1, <1>2, <2>1, <2>3 DEF WayUp
  <2> QED
    BY <2>2, <2>3
<1>10. \A j, k \in 3..(n + 1) : j < k => height[longer[j]] < height[longer[k]]
  <2> SUFFICES ASSUME NEW j \in 3..(n + 1), NEW k \in 3..(n + 1), j < k
               PROVE  height[longer[j]] < height[longer[k]]
    OBVIOUS
  <2>1. j \in 3..n /\ longer[j] = path[j]
    BY <1>1, <1>2
  <2>2. CASE k = n + 1
    BY <1>1, <1>7, <2>1, <2>2
  <2>3. CASE k # n + 1
    <3>1. k \in 3..n /\ longer[k] = path[k]
      BY <1>1, <1>2, <2>3
    <3> QED
      BY <2>1, <3>1 DEF WayUp
  <2> QED
    BY <2>2, <2>3
<1>11. longer[1] = i.feed /\ longer[2] = PanelOf(i).id
  BY <1>1, <1>2 DEF WayUp
<1>12. ParentOf(cur) = After(i, longer, n + 1)
  BY <1>1 DEF After
<1> QED
  BY <1>1, <1>8, <1>9, <1>10, <1>11, <1>12 DEF WayUp, longer

(* supplyPath: the way up to the first supply that is not there. *)
LEMMA PathIs ==
  ASSUME PowerTables(t), NEW height, Heights(height), NEW i \in PowerLinks
  PROVE  /\ SupplyPath(i) \in Seq({i.feed, PanelOf(i).id} \cup Ids(Supplies))
         /\ WayUp(i, SupplyPath(i), height)
         /\ After(i, SupplyPath(i), Len(SupplyPath(i))) \notin Ids(Supplies)
<1> DEFINE L == SupplyDepthLimit
           U == {i.feed, PanelOf(i).id} \cup Ids(Supplies)
           C == {PanelOf(i).source} \cup {ParentOf(x) : x \in Ids(Supplies)}
           D == [path : Seq(U), cur : C]
           Start == [path |-> <<i.feed, PanelOf(i).id>>, cur |-> PanelOf(i).source]
           Step(d) == IF d.cur \notin Ids(Supplies) THEN d
                      ELSE [path |-> Append(d.path, d.cur), cur |-> Row(t.source, d.cur).parent]
           Rec(f) == f = [n \in 0..L |-> IF n = 0 THEN Start ELSE Step(f[n - 1])]
           climb == CHOOSE f : Rec(f)
<1>0. L \in Nat
  BY ChainsAssumption
<1>1. SupplyPath(i) = climb[L].path
  BY Zenon DEF SupplyPath
<1>2. Start \in D
  OBVIOUS
<1>3. \A d \in D : Step(d) \in D
  <2> SUFFICES ASSUME NEW d \in D, d.cur \in Ids(Supplies)
               PROVE  [path |-> Append(d.path, d.cur), cur |-> Row(t.source, d.cur).parent] \in D
    OBVIOUS
  <2>1. d.cur \in U /\ d.path \in Seq(U) /\ Row(t.source, d.cur).parent \in C
    BY DEF ParentOf
  <2> HIDE DEF U, C
  <2>2. Append(d.path, d.cur) \in Seq(U)
    BY <2>1
  <2> QED
    BY <2>1, <2>2
<1>4. Rec(climb) /\ climb \in [0..L -> D]
  <2> DEFINE F == [n \in 1..L |-> [d \in D |-> Step(d)]]
  <2> HIDE DEF Start, Step, D
  <2>1. F \in [1..L -> [D -> D]]
    BY <1>3
  <2>2. PICK f : Iterated(f, L, D, F, Start)
    <3> HIDE DEF F, L
    <3> QED
      BY <1>0, <1>2, <2>1, Iterates
  <2>3. ASSUME NEW n \in 0..L PROVE f[n] = IF n = 0 THEN Start ELSE Step(f[n - 1])
    <3>1. CASE n = 0
      BY <2>2, <3>1 DEF Iterated
    <3>2. CASE n # 0
      <4>1. n - 1 \in 0..L /\ n \in 1..L
        BY <1>0, <3>2
      <4>2. f[n - 1] \in D /\ f[n] = F[n][f[n - 1]]
        BY <2>2, <4>1 DEF Iterated
      <4> QED
        BY <3>2, <4>1, <4>2
    <3> QED
      BY <3>1, <3>2
  <2>4. f = [n \in 0..L |-> f[n]]
    BY <2>2 DEF Iterated
  <2>5. Rec(f)
    BY <2>3, <2>4
  <2>6. Rec(climb)
    <3> HIDE DEF Rec
    <3> QED
      BY <2>5
  <2>7. ASSUME NEW n \in 0..L, climb[n] \notin D PROVE FALSE
    <3> DEFINE T == {m \in 0..L : climb[m] \notin D}
    <3>0. T \subseteq Nat /\ T # {}
      <4> HIDE DEF climb
      <4> QED
        BY <1>0, <2>7
    <3>1. PICK m \in T : \A k \in T : m <= k
      <4> HIDE DEF T
      <4> QED
        BY <3>0, LeastNat
    <3>2. climb[m] = IF m = 0 THEN Start ELSE Step(climb[m - 1])
      <4> HIDE DEF climb
      <4> QED
        BY <2>6
    <3>3. m # 0
      BY <1>2, <3>1, <3>2
    <3>4. m - 1 \in 0..L /\ ~(m <= m - 1)
      BY <1>0, <3>1, <3>3
    <3>5. climb[m - 1] \in D
      BY <3>1, <3>4
    <3> QED
      BY <1>3, <3>1, <3>2, <3>3, <3>5
  <2>8. climb = [n \in 0..L |-> climb[n]]
    <3> HIDE DEF climb
    <3> QED
      BY <2>6
  <2> HIDE DEF climb
  <2> QED
    BY <2>6, <2>7, <2>8
<1> HIDE DEF climb
<1> DEFINE Good(n) == LET d == climb[n] IN
             /\ WayUp(i, d.path, height)
             /\ d.cur = After(i, d.path, Len(d.path))
             /\ d.cur \in Ids(Supplies) => Len(d.path) = n + 2
<1>5. \A n \in 0..L : Good(n)
  <2> DEFINE T == {n \in 0..L : ~Good(n)}
  <2> SUFFICES ASSUME T # {} PROVE FALSE
    OBVIOUS
  <2>1. PICK m \in T : \A k \in T : m <= k
    <3>1. T \subseteq Nat
      BY <1>0
    <3> HIDE DEF T
    <3> QED
      BY <3>1, LeastNat
  <2>2. m \in 0..L /\ ~Good(m) /\ climb[m] = IF m = 0 THEN Start ELSE Step(climb[m - 1])
    BY <1>4, <2>1
  <2>3. CASE m = 0
    <3>1. climb[m] = Start
      BY <2>2, <2>3
    <3>2. WayUp(i, Start.path, height)
      BY DEF WayUp
    <3>3. Start.cur = After(i, Start.path, Len(Start.path)) /\ Len(Start.path) = 2
      BY DEF After
    <3> HIDE DEF Start
    <3>4. Good(m)
      BY <2>3, <3>1, <3>2, <3>3
    <3> HIDE DEF Good
    <3> QED
      BY <2>2, <3>4
  <2>4. CASE m # 0
    <3>1. m - 1 \in 0..L /\ ~(m <= m - 1) /\ m - 1 + 2 + 1 = m + 2
      BY <1>0, <2>2, <2>4
    <3>2. Good(m - 1)
      BY <2>1, <3>1
    <3>3. PICK d \in D : d = climb[m - 1]
      BY <1>4, <3>1
    <3>4. climb[m] = Step(d)
      BY <2>2, <2>4, <3>3
    <3>5. CASE d.cur \notin Ids(Supplies)
      BY <2>2, <3>2, <3>3, <3>4, <3>5
    <3>6. CASE d.cur \in Ids(Supplies)
      <4>1. d.path \in Seq(U) /\ d.cur \in U
        BY <3>6
      <4>2. WayUp(i, d.path, height) /\ d.cur = After(i, d.path, Len(d.path)) /\ Len(d.path) = m - 1 + 2
        BY <3>2, <3>3, <3>6
      <4> HIDE DEF U, D
      <4>3. PICK p, c : p = d.path /\ c = d.cur
        OBVIOUS
      <4>4. WayUp(i, Append(p, c), height) /\ ParentOf(c) = After(i, Append(p, c), Len(p) + 1)
        BY <3>6, <4>1, <4>2, <4>3, WayUpLonger
      <4>5. Len(Append(p, c)) = Len(p) + 1
        BY <4>1, <4>3
      <4>6. climb[m].path = Append(p, c) /\ climb[m].cur = ParentOf(c)
        BY <3>4, <3>6, <4>3 DEF ParentOf
      <4> QED
        BY <2>2, <3>1, <4>2, <4>3, <4>4, <4>5, <4>6
    <3> QED
      BY <3>5, <3>6
  <2> QED
    BY <2>3, <2>4
<1>6. PICK d \in D : d = climb[L]
  <2> HIDE DEF D
  <2>1. L \in 0..L
    BY <1>0
  <2> QED
    BY <1>4, <2>1, Zenon
<1>7. WayUp(i, d.path, height) /\ d.cur = After(i, d.path, Len(d.path))
      /\ (d.cur \in Ids(Supplies) => Len(d.path) = L + 2)
  BY <1>0, <1>5, <1>6
<1>8. d.cur \notin Ids(Supplies)
  <2> SUFFICES ASSUME d.cur \in Ids(Supplies) PROVE FALSE
    OBVIOUS
  <2>1. WayUp(i, Append(d.path, d.cur), height)
    <3>1. d.path \in Seq(U) /\ d.cur \in U
      OBVIOUS
    <3> HIDE DEF U, D
    <3> QED
      BY <1>7, <3>1, WayUpLonger
  <2>2. Len(Append(d.path, d.cur)) = L + 3 /\ Append(d.path, d.cur)[L + 3] = d.cur
    <3>1. d.path \in Seq(U) /\ d.cur \in U
      OBVIOUS
    <3> HIDE DEF U, D
    <3> QED
      BY <1>0, <1>7, <3>1
  <2>3. L + 3 \in 3..(L + 3) /\ L + 3 - 2 = L + 1
    BY <1>0
  <2>4. height[d.cur] >= L + 1
    <3>1. PICK longer : longer = Append(d.path, d.cur)
      OBVIOUS
    <3>2. WayUp(i, longer, height) /\ Len(longer) = L + 3 /\ longer[L + 3] = d.cur
      BY <2>1, <2>2, <3>1
    <3>3. PICK k : k = L + 3
      OBVIOUS
    <3>4. k \in 3..Len(longer)
      BY <2>3, <3>2, <3>3
    <3>5. height[longer[k]] >= k - 2
      BY <3>2, <3>4, Zenon DEF WayUp
    <3> QED
      BY <1>0, <2>3, <3>2, <3>3, <3>5
  <2>5. height[d.cur] \in 1..L
    BY DEF Heights
  <2> QED
    BY <1>0, <2>4, <2>5
<1> QED
  BY <1>1, <1>6, <1>7, <1>8

(* AssetsLosingSupply: the supplies it goes down to from one of them are the *)
(* ones that have it on their way up.                                        *)
FeedsOf(lost) ==
  {f \in NotRetired(t.feed) : /\ Row(t.panel, f.panel).life # "retired"
                              /\ Row(t.panel, f.panel).source \in lost}
Climbs(i, x) == \E k \in 3..Len(SupplyPath(i)) : SupplyPath(i)[k] = x

LEMMA FailedIs ==
  ASSUME PowerTables(t), NEW height, Heights(height), NEW x \in Ids(Supplies)
  PROVE  \E lost :
           /\ AssetsLosingSupply({x}) = AssetsLosingPower(Ids(FeedsOf(lost)))
           /\ \A i \in PowerLinks : PanelOf(i).source \in lost <=> Climbs(i, x)
<1> DEFINE L == SupplyDepthLimit
           D == SUBSET Ids(Supplies)
           Step(d) == d \cup Ids({s \in Supplies : s.parent \in d})
           Rec(f) == f = [n \in 0..L |-> IF n = 0 THEN {x} ELSE Step(f[n - 1])]
           fed == CHOOSE f : Rec(f)
<1>0. L \in Nat
  BY ChainsAssumption
<1>1. AssetsLosingSupply({x}) = AssetsLosingPower(Ids(FeedsOf(fed[L])))
  BY Zenon DEF AssetsLosingSupply, FeedsOf
<1>2. {x} \in D /\ \A d \in D : Step(d) \in D
  BY DEF Ids
<1>3. Rec(fed)
  <2> DEFINE F == [n \in 1..L |-> [d \in D |-> Step(d)]]
  <2> HIDE DEF Step, D
  <2>1. F \in [1..L -> [D -> D]]
    BY <1>2
  <2>2. PICK f : Iterated(f, L, D, F, {x})
    <3> HIDE DEF F, L
    <3> QED
      BY <1>0, <1>2, <2>1, Iterates
  <2>3. ASSUME NEW n \in 0..L PROVE f[n] = IF n = 0 THEN {x} ELSE Step(f[n - 1])
    <3>1. CASE n = 0
      BY <2>2, <3>1 DEF Iterated
    <3>2. CASE n # 0
      <4>1. n - 1 \in 0..L /\ n \in 1..L
        BY <1>0, <3>2
      <4>2. f[n - 1] \in D /\ f[n] = F[n][f[n - 1]]
        BY <2>2, <4>1 DEF Iterated
      <4> QED
        BY <3>2, <4>1, <4>2
    <3> QED
      BY <3>1, <3>2
  <2>4. f = [n \in 0..L |-> f[n]]
    BY <2>2 DEF Iterated
  <2>5. Rec(f)
    BY <2>3, <2>4
  <2> HIDE DEF Rec
  <2> QED
    BY <2>5
<1> HIDE DEF fed
<1>4. fed[0] = {x} /\ \A n \in 1..L : fed[n] = Step(fed[n - 1])
  <2>1. fed[0] = {x}
    BY <1>0, <1>3
  <2>2. ASSUME NEW n \in 1..L PROVE fed[n] = Step(fed[n - 1])
    <3>1. n \in 0..L /\ n # 0
      BY <1>0
    <3> HIDE DEF Step
    <3> QED
      BY <1>3, <3>1
  <2> QED
    BY <2>1, <2>2
<1>5. ASSUME NEW i \in PowerLinks PROVE PanelOf(i).source \in fed[L] <=> Climbs(i, x)
  <2>1. PICK path : path = SupplyPath(i)
    OBVIOUS
  <2>2. PICK len \in Nat : len = Len(path) /\ len >= 2
    <3>1. path \in Seq({i.feed, PanelOf(i).id} \cup Ids(Supplies)) /\ WayUp(i, path, height)
      BY <2>1, PathIs
    <3>2. Len(path) >= 2
      BY <3>1 DEF WayUp
    <3> QED
      BY <3>1, <3>2
  <2>3. /\ \A k \in 3..len : path[k] \in Ids(Supplies) /\ height[path[k]] >= k - 2
        /\ \A k \in 3..len : path[k] = After(i, path, k - 1)
        /\ After(i, path, len) \notin Ids(Supplies)
    BY <2>1, <2>2, PathIs DEF WayUp
  <2>4. ASSUME NEW k \in 3..len, k < len PROVE path[k + 1] = ParentOf(path[k])
    <3>1. k + 1 \in 3..len /\ k + 1 - 1 = k /\ k # 2
      BY <2>2, <2>4
    <3> QED
      BY <2>3, <3>1 DEF After
  <2>5. len >= 3 => path[3] = PanelOf(i).source
    <3>1. len >= 3 => 3 \in 3..len
      BY <2>2
    <3>2. After(i, path, 3 - 1) = PanelOf(i).source
      BY DEF After
    <3> QED
      BY <2>3, <3>1, <3>2
  <2>6. \A k \in 3..len : Row(t.source, path[k]) \in Supplies /\ Row(t.source, path[k]).id = path[k]
    BY <2>3, SupplyRow
  <2>7. ASSUME NEW k \in 3..len, path[k] = x PROVE PanelOf(i).source \in fed[L]
    <3> DEFINE Below(n) == \A j \in 3..k : k <= j + n => path[j] \in fed[n]
               T == {n \in 0..L : ~Below(n)}
    <3>1. k - 2 <= L
      <4>1. height[path[k]] >= k - 2 /\ height[path[k]] \in 1..L
        BY <2>3 DEF Heights
      <4> QED
        BY <1>0, <4>1
    <3>2. Below(L)
      <4> SUFFICES ASSUME T # {} PROVE FALSE
        BY <1>0
      <4>1. PICK m \in T : \A n \in T : m <= n
        <5>1. T \subseteq Nat
          BY <1>0
        <5> HIDE DEF T
        <5> QED
          BY <5>1, LeastNat
      <4>2. m \in 0..L /\ ~Below(m)
        OBVIOUS
      <4>3. PICK j \in 3..k : k <= j + m /\ path[j] \notin fed[m]
        BY <4>2
      <4>4. m # 0
        BY <1>4, <2>7, <4>2, <4>3
      <4>5. m \in 1..L /\ m - 1 \in 0..L /\ ~(m <= m - 1)
        BY <1>0, <4>2, <4>4
      <4>6. Below(m - 1) /\ fed[m] = Step(fed[m - 1])
        BY <1>4, <4>1, <4>5
      <4>7. path[j] \notin fed[m - 1]
        BY <4>3, <4>6
      <4>8. k = j + m
        BY <4>2, <4>3, <4>5, <4>6, <4>7
      <4>9. j + 1 \in 3..k /\ k <= j + 1 + (m - 1) /\ j < len /\ j \in 3..len
        BY <2>2, <4>2, <4>3, <4>4, <4>8
      <4>10. path[j + 1] \in fed[m - 1]
        BY <4>6, <4>9
      <4>11. Row(t.source, path[j]).parent \in fed[m - 1]
        BY <2>4, <4>9, <4>10 DEF ParentOf
      <4>12. path[j] \in Step(fed[m - 1])
        BY <2>6, <4>9, <4>11 DEF Ids
      <4> QED
        BY <4>3, <4>6, <4>12
    <3>3. 3 \in 3..k /\ k <= 3 + L /\ len >= 3
      BY <1>0, <2>2, <3>1
    <3> QED
      BY <2>5, <3>2, <3>3
  <2>8. ASSUME PanelOf(i).source \in fed[L] PROVE \E k \in 3..len : path[k] = x
    <3> DEFINE Reaches(n) == /\ fed[n] \subseteq Ids(Supplies)
                             /\ \A j \in 3..len : path[j] \in fed[n] => \E k \in 3..len : path[k] = x
               T == {n \in 0..L : ~Reaches(n)}
    <3>1. Reaches(L)
      <4> SUFFICES ASSUME T # {} PROVE FALSE
        BY <1>0
      <4>1. PICK m \in T : \A n \in T : m <= n
        <5>1. T \subseteq Nat
          BY <1>0
        <5> HIDE DEF T
        <5> QED
          BY <5>1, LeastNat
      <4>2. m \in 0..L /\ ~Reaches(m)
        OBVIOUS
      <4>3. m # 0
        BY <1>4, <4>2
      <4>4. m \in 1..L /\ m - 1 \in 0..L /\ ~(m <= m - 1)
        BY <1>0, <4>2, <4>3
      <4>5. Reaches(m - 1) /\ fed[m] = Step(fed[m - 1])
        BY <1>4, <4>1, <4>4
      <4>6. fed[m] \subseteq Ids(Supplies)
        BY <4>5 DEF Ids
      <4>7. PICK j \in 3..len : path[j] \in fed[m] /\ ~\E k \in 3..len : path[k] = x
        BY <4>2, <4>6
      <4>8. path[j] \notin fed[m - 1]
        BY <4>5, <4>7
      <4>9. PICK s \in Supplies : s.id = path[j] /\ s.parent \in fed[m - 1]
        BY <4>5, <4>7, <4>8 DEF Ids
      <4>10. ParentOf(path[j]) = s.parent
        <5>1. s \in t.source
          BY DEF Supplies, NotRetired
        <5>2. Row(t.source, s.id) = s
          BY <5>1, RowIs DEF PowerTables
        <5> QED
          BY <4>9, <5>2 DEF ParentOf
      <4>11. s.parent \in Ids(Supplies)
        BY <4>5, <4>9
      <4>12. j # len
        BY <2>3, <4>7, <4>10, <4>11 DEF After
      <4>13. j < len /\ j + 1 \in 3..len
        BY <2>2, <4>7, <4>12
      <4>14. path[j + 1] \in fed[m - 1]
        BY <2>4, <4>9, <4>10, <4>13
      <4> QED
        BY <4>5, <4>7, <4>13, <4>14
    <3>2. PanelOf(i).source \in Ids(Supplies)
      BY <2>8, <3>1
    <3>3. len # 2
      BY <2>3, <3>2 DEF After
    <3>4. 3 \in 3..len /\ len >= 3
      BY <2>2, <3>3
    <3> QED
      BY <2>5, <2>8, <3>1, <3>4
  <2> QED
    BY <2>1, <2>2, <2>7, <2>8 DEF Climbs
<1> QED
  BY <1>1, <1>5

(* A failure takes the feed of an input exactly when it is on its way up. *)
LEMMA LostIs ==
  ASSUME PowerTables(t), NEW height, Heights(height), NEW node
  PROVE  \E feeds : /\ TakenBy(node) = AssetsLosingPower(feeds)
                    /\ \A i \in PowerLinks : i.feed \in feeds <=> node \in Range(SupplyPath(i))
<1>1. ASSUME NEW i \in PowerLinks
      PROVE  node \in Range(SupplyPath(i)) <=> node = i.feed \/ node = PanelOf(i).id \/ Climbs(i, node)
  <2>1. PICK path : path = SupplyPath(i)
    OBVIOUS
  <2>2. path \in Seq({i.feed, PanelOf(i).id} \cup Ids(Supplies)) /\ WayUp(i, path, height)
    BY <2>1, PathIs
  <2>3. PICK len \in Nat : len = Len(path) /\ DOMAIN path = 1..len
    BY <2>2
  <2>4. len >= 2 /\ path[1] = i.feed /\ path[2] = PanelOf(i).id
    BY <2>2, <2>3 DEF WayUp
  <2>5. DOMAIN path = {1, 2} \cup 3..len
    BY <2>3, <2>4
  <2> QED
    BY <2>1, <2>3, <2>4, <2>5 DEF Climbs, Range
<1>2. ASSUME NEW i \in PowerLinks, NEW f \in t.feed, f.id = i.feed PROVE f = Row(t.feed, i.feed)
  BY <1>2, RowIs DEF PowerTables
<1>3. \A rows : NotRetired(rows) \subseteq rows
  BY DEF NotRetired
<1>4. CASE node \in Ids(Supplies)
  <2>1. PICK lost :
          /\ AssetsLosingSupply({node}) = AssetsLosingPower(Ids(FeedsOf(lost)))
          /\ \A i \in PowerLinks : PanelOf(i).source \in lost <=> Climbs(i, node)
    BY <1>4, FailedIs
  <2>2. ASSUME NEW i \in PowerLinks PROVE i.feed \in Ids(FeedsOf(lost)) <=> PanelOf(i).source \in lost
    <3>1. Row(t.feed, i.feed) \in NotRetired(t.feed) /\ Row(t.feed, i.feed).id = i.feed
          /\ PanelOf(i).life # "retired"
      BY LinkRows DEF NotRetired
    <3>2. ASSUME i.feed \in Ids(FeedsOf(lost)) PROVE PanelOf(i).source \in lost
      <4>1. PICK f \in FeedsOf(lost) : f.id = i.feed
        BY <3>2 DEF Ids
      <4>2. f = Row(t.feed, i.feed)
        BY <1>2, <1>3, <4>1 DEF FeedsOf
      <4> QED
        BY <4>1, <4>2 DEF FeedsOf, PanelOf
    <3>3. ASSUME PanelOf(i).source \in lost PROVE Row(t.feed, i.feed) \in FeedsOf(lost)
      BY <3>1, <3>3 DEF FeedsOf, PanelOf
    <3> QED
      BY <3>1, <3>2, <3>3 DEF Ids
  <2>3. ASSUME NEW i \in PowerLinks PROVE node # i.feed /\ node # PanelOf(i).id
    <3>1. node \in Ids(t.source)
      BY <1>4, SupplyRow
    <3>2. i.feed \in Ids(t.feed) /\ PanelOf(i).id \in Ids(t.panel)
      BY <1>3, LinkRows DEF Ids
    <3> QED
      BY <3>1, <3>2 DEF PowerTables
  <2>4. TakenBy(node) = AssetsLosingPower(Ids(FeedsOf(lost)))
    BY <1>4, <2>1 DEF TakenBy
  <2>5. \A i \in PowerLinks : i.feed \in Ids(FeedsOf(lost)) <=> node \in Range(SupplyPath(i))
    BY <1>1, <2>1, <2>2, <2>3
  <2> QED
    BY <2>4, <2>5
<1>5. CASE node \notin Ids(Supplies)
  <2> DEFINE lost == {f \in NotRetired(t.feed) : node \in {f.id, f.panel}}
  <2>1. ASSUME NEW i \in PowerLinks PROVE ~Climbs(i, node)
    BY <1>5, PathIs DEF Climbs, WayUp
  <2>2. ASSUME NEW i \in PowerLinks
        PROVE  i.feed \in Ids(lost) <=> node = i.feed \/ node = PanelOf(i).id
    <3>1. /\ Row(t.feed, i.feed) \in NotRetired(t.feed) /\ Row(t.feed, i.feed).id = i.feed
          /\ PanelOf(i).id = Row(t.feed, i.feed).panel
      BY LinkRows
    <3>2. i.feed \in Ids(lost) <=> Row(t.feed, i.feed) \in lost
      <4>1. ASSUME i.feed \in Ids(lost) PROVE Row(t.feed, i.feed) \in lost
        <5>1. PICK f \in lost : f.id = i.feed
          BY <4>1 DEF Ids
        <5> QED
          BY <1>2, <1>3, <5>1
      <4> QED
        BY <3>1, <4>1 DEF Ids
    <3> QED
      BY <3>1, <3>2
  <2>3. TakenBy(node) = AssetsLosingPower(Ids(lost))
    BY <1>5 DEF TakenBy
  <2> HIDE DEF lost
  <2>4. \A i \in PowerLinks : i.feed \in Ids(lost) <=> node \in Range(SupplyPath(i))
    BY <1>1, <2>1, <2>2
  <2> QED
    BY <2>3, <2>4
<1> QED
  BY <1>4, <1>5

(* How far up a node is. *)
Stage(height, x) == IF x \in Ids(t.feed) THEN 1 ELSE IF x \in Ids(t.panel) THEN 2 ELSE 2 + height[x]

LEMMA PathRises ==
  ASSUME PowerTables(t), NEW height, Heights(height), NEW i \in PowerLinks, NEW path, path = SupplyPath(i)
  PROVE  /\ DOMAIN path \subseteq Nat /\ 1 \in DOMAIN path /\ path[1] = i.feed /\ Stage(height, i.feed) = 1
         /\ \A k \in DOMAIN path : /\ path[k] # None
                                   /\ Stage(height, path[k]) \in Nat /\ Stage(height, path[k]) >= 1
         /\ \A j, k \in DOMAIN path : j < k => Stage(height, path[j]) < Stage(height, path[k])
<1>1. /\ path \in Seq({i.feed, PanelOf(i).id} \cup Ids(Supplies)) /\ WayUp(i, path, height)
  BY PathIs
<1>2. PICK len \in Nat : len = Len(path) /\ DOMAIN path = 1..len
  BY <1>1
<1>3. len >= 2 /\ path[1] = i.feed /\ path[2] = PanelOf(i).id
  BY <1>1, <1>2 DEF WayUp
<1>4. i.feed \in Ids(t.feed) /\ PanelOf(i).id \in Ids(t.panel)
  BY LinkRows DEF Ids, NotRetired
<1>5. \A x \in Ids(t.panel) : x \notin Ids(t.feed) /\ x # None
  BY DEF PowerTables
<1>6. \A x \in Ids(t.feed) : x # None
  BY DEF PowerTables
<1>7. ASSUME NEW x \in Ids(Supplies) PROVE x \notin Ids(t.feed) /\ x \notin Ids(t.panel) /\ x # None
  <2>1. x \in Ids(t.source)
    BY SupplyRow
  <2> QED
    BY <2>1 DEF PowerTables
<1>8. Stage(height, path[1]) = 1 /\ Stage(height, path[2]) = 2
  BY <1>3, <1>4, <1>5 DEF Stage
<1>9. ASSUME NEW k \in 3..len
      PROVE  /\ path[k] \in Ids(Supplies) /\ Stage(height, path[k]) = 2 + height[path[k]]
             /\ height[path[k]] \in Nat /\ height[path[k]] >= 1
  <2>1. path[k] \in Ids(Supplies)
    BY <1>1, <1>2 DEF WayUp
  <2>2. height[path[k]] \in 1..SupplyDepthLimit
    BY <2>1 DEF Heights
  <2>3. Stage(height, path[k]) = 2 + height[path[k]]
    BY <1>7, <2>1 DEF Stage
  <2> QED
    BY <2>1, <2>2, <2>3, ChainsAssumption
<1>10. \A k \in 1..len : k = 1 \/ k = 2 \/ k \in 3..len
  BY <1>3
<1>11. \A k \in 1..len : path[k] # None /\ Stage(height, path[k]) \in Nat /\ Stage(height, path[k]) >= 1
  <2> TAKE k \in 1..len
  <2>1. CASE k \in 3..len
    BY <1>7, <1>9, <2>1
  <2>2. CASE k = 1 \/ k = 2
    BY <1>3, <1>4, <1>5, <1>6, <1>8, <2>2
  <2> QED
    BY <1>10, <2>1, <2>2
<1>12. ASSUME NEW j \in 1..len, NEW k \in 1..len, j < k
       PROVE  Stage(height, path[j]) < Stage(height, path[k])
  <2>1. CASE k \in 3..len /\ j \in 3..len
    <3>1. height[path[j]] < height[path[k]]
      BY <1>1, <1>2, <1>12, <2>1 DEF WayUp
    <3> QED
      BY <1>9, <2>1, <3>1
  <2>2. CASE k \in 3..len /\ j \in {1, 2}
    BY <1>8, <1>9, <2>2
  <2>3. CASE k = 2
    BY <1>8, <1>12, <2>3
  <2> QED
    BY <1>10, <1>12, <2>1, <2>2, <2>3
<1> QED
  BY <1>2, <1>3, <1>8, <1>11, <1>12

(* The nodes on the way of all of them. *)
Common(inputs) == {x \in UNION {Range(SupplyPath(i)) : i \in inputs} :
                     \A i \in inputs : x \in Range(SupplyPath(i))}

(* The node SharedAncestor names is on the way of all, and the first such. *)
LEMMA SharedIs ==
  ASSUME PowerTables(t), NEW height, Heights(height), NEW inputs, inputs \subseteq PowerLinks, inputs # {}
  PROVE  /\ SharedAncestor(inputs) = None <=> Common(inputs) = {}
         /\ Common(inputs) # {} =>
              /\ SharedAncestor(inputs) \in Common(inputs)
              /\ \A x \in Common(inputs) : Stage(height, SharedAncestor(inputs)) <= Stage(height, x)
<1> DEFINE common == Common(inputs)
<1>1. PICK first \in inputs : first = CHOOSE i \in inputs : TRUE
  OBVIOUS
<1>2. PICK path : path = SupplyPath(first)
  OBVIOUS
<1> DEFINE shared == {n \in DOMAIN path : \A i \in inputs : path[n] \in Range(SupplyPath(i))}
<1>3. SharedAncestor(inputs) = IF shared = {} THEN None ELSE path[Min(shared)]
  BY <1>1, <1>2 DEF SharedAncestor
<1>4. /\ DOMAIN path \subseteq Nat
      /\ \A k \in DOMAIN path : path[k] # None /\ Stage(height, path[k]) \in Nat
      /\ \A j, k \in DOMAIN path : j < k => Stage(height, path[j]) < Stage(height, path[k])
  BY <1>1, <1>2, PathRises
<1>5. ASSUME NEW n \in shared PROVE path[n] \in common
  BY <1>1, <1>2 DEF Range, Common
<1>6. ASSUME NEW x \in common PROVE \E n \in shared : path[n] = x
  BY <1>1, <1>2 DEF Range, Common
<1>7. shared \subseteq DOMAIN path
  OBVIOUS
<1> HIDE DEF shared, common
<1>8. CASE shared = {}
  <2>1. common = {}
    BY <1>6, <1>8
  <2> QED
    BY <1>3, <1>8, <2>1 DEF common
<1>9. CASE shared # {}
  <2>1. PICK n \in shared : n = Min(shared) /\ \A m \in shared : n <= m
    <3>1. \E n \in shared : \A m \in shared : n <= m
      BY <1>4, <1>7, <1>9, LeastNat
    <3> QED
      BY <3>1 DEF Min
  <2>2. SharedAncestor(inputs) = path[n] /\ path[n] \in common /\ path[n] # None
    BY <1>3, <1>4, <1>5, <1>7, <1>9, <2>1
  <2>3. ASSUME NEW x \in common PROVE Stage(height, path[n]) <= Stage(height, x)
    <3>1. PICK m \in shared : path[m] = x
      BY <1>6
    <3>2. n <= m /\ n \in Nat /\ m \in Nat /\ n \in DOMAIN path /\ m \in DOMAIN path
      BY <1>4, <1>7, <2>1
    <3>3. CASE n = m
      BY <1>4, <3>1, <3>2, <3>3
    <3>4. CASE n < m
      <4>1. Stage(height, path[n]) < Stage(height, path[m])
        BY <1>4, <3>2, <3>4
      <4> QED
        BY <1>4, <3>1, <3>2, <4>1
    <3> QED
      BY <3>2, <3>3, <3>4
  <2> QED
    BY <2>2, <2>3 DEF common
<1> QED
  BY <1>8, <1>9

LEMMA OneStory == ASSUME PowerTables(t) PROVE PowerTellsOneStory
<1> SUFFICES ASSUME NEW a \in {i.asset : i \in Inputs}, \A i \in Inputs : i.asset = a => i \in PowerLinks
             PROVE  /\ \A f \in PowerFinding(a) :
                         /\ a \in TakenBy(f.node)
                         /\ \A i \in {j \in PowerLinks : j.asset = a} : LET path == SupplyPath(i) IN
                              \A n, k \in DOMAIN path : n < k /\ path[k] = f.node => a \notin TakenBy(path[n])
                    /\ \A node \in Ids(NotRetired(t.feed)) \cup Ids(Supplies) :
                         a \in TakenBy(node) /\ Cardinality({i \in Inputs : i.asset = a}) > 1 =>
                           PowerFinding(a) # {}
  BY DEF PowerTellsOneStory
<1> DEFINE mine == {i \in PowerLinks : i.asset = a}
<1>1. PICK height : Heights(height)
  BY DEF PowerTables, Heights, Supplies
<1>2. mine = {i \in Inputs : i.asset = a} /\ mine # {} /\ mine \subseteq PowerLinks
  BY DEF PowerLinks
<1>3. IsFiniteSet(mine)
  <2>1. mine \subseteq t.input /\ IsFiniteSet(t.input)
    BY DEF PowerLinks, Inputs, NotRetired, PowerTables
  <2> QED
    BY <2>1, FS_Subset
<1>4. Cardinality(mine) \in Nat
  BY <1>3, FS_CardinalityType
<1>5. ASSUME NEW node PROVE a \in TakenBy(node) <=> \A i \in mine : node \in Range(SupplyPath(i))
  <2>1. PICK feeds : /\ TakenBy(node) = AssetsLosingPower(feeds)
                     /\ \A i \in PowerLinks : i.feed \in feeds <=> node \in Range(SupplyPath(i))
    BY <1>1, LostIs
  <2>2. a \in AssetsLosingPower(feeds) <=> \A i \in mine : i.feed \in feeds
    BY <1>2 DEF AssetsLosingPower
  <2> QED
    BY <1>2, <2>1, <2>2
<1> DEFINE shared == SharedAncestor(mine)
           common == Common(mine)
<1>6. /\ shared = None <=> common = {}
      /\ common # {} => /\ shared \in common
                        /\ \A x \in common : Stage(height, shared) <= Stage(height, x)
  <2>1. PICK inputs : inputs = mine
    OBVIOUS
  <2>2. inputs \subseteq PowerLinks /\ inputs # {}
    BY <1>2, <2>1
  <2> QED
    BY <1>1, <2>1, <2>2, SharedIs
<1>7. \A x : x \in common <=> \A i \in mine : x \in Range(SupplyPath(i))
  BY <1>2 DEF Common
<1> HIDE DEF common
<1>8. ASSUME NEW node, a \in TakenBy(node) PROVE node \in common
  BY <1>5, <1>7, <1>8
<1> DEFINE carries == \E i \in t.instance : a \in Range(t.up[i.host])
           converge == [kind |-> "false_redundancy", node |-> shared,
                        fault |-> \A s \in Supplies : s.id = shared => SharingIsAFault(s.kind)]
           single(i) == [kind |-> "single_fed", node |-> i.feed, fault |-> TRUE]
<1>9. PowerFinding(a) = IF Cardinality(mine) >= 2 /\ shared # None THEN {converge}
                        ELSE IF Cardinality(mine) = 1 /\ carries THEN {single(i) : i \in mine}
                        ELSE {}
  BY DEF PowerFinding
<1> HIDE DEF mine, shared
<1>10. ASSUME NEW f \in PowerFinding(a)
       PROVE  /\ f.node \in common
              /\ \A x \in common : Stage(height, f.node) <= Stage(height, x)
  <2>1. CASE Cardinality(mine) >= 2 /\ shared # None
    <3>1. f.node = shared
      BY <1>9, <2>1
    <3> QED
      BY <1>6, <2>1, <3>1
  <2>2. CASE ~(Cardinality(mine) >= 2 /\ shared # None)
    <3>1. Cardinality(mine) = 1 /\ \E i \in mine : f = single(i)
      BY <1>9, <2>2
    <3>2. PICK i \in mine : f.node = i.feed
      BY <3>1
    <3>3. mine = {i}
      <4>1. PICK only : mine = {only}
        BY <1>3, <3>1, FS_Singleton
      <4> QED
        BY <4>1
    <3>4. PICK path : path = SupplyPath(i)
      OBVIOUS
    <3>5. i \in PowerLinks
      BY <1>2
    <3>6. /\ 1 \in DOMAIN path /\ path[1] = i.feed /\ Stage(height, i.feed) = 1
          /\ \A k \in DOMAIN path : Stage(height, path[k]) \in Nat /\ Stage(height, path[k]) >= 1
      BY <1>1, <3>4, <3>5, PathRises
    <3>7. f.node \in common
      BY <1>7, <3>2, <3>3, <3>4, <3>6 DEF Range
    <3>8. ASSUME NEW x \in common PROVE Stage(height, f.node) <= Stage(height, x)
      <4>1. PICK k \in DOMAIN path : path[k] = x
        BY <1>7, <3>4 DEF Range
      <4> QED
        BY <3>2, <3>6, <4>1
    <3> QED
      BY <3>7, <3>8
  <2> QED
    BY <2>1, <2>2
<1>11. ASSUME NEW f \in PowerFinding(a) PROVE a \in TakenBy(f.node)
  BY <1>5, <1>7, <1>10
<1>12. ASSUME NEW f \in PowerFinding(a), NEW i \in mine, NEW n \in DOMAIN SupplyPath(i),
              NEW k \in DOMAIN SupplyPath(i), n < k, SupplyPath(i)[k] = f.node,
              a \in TakenBy(SupplyPath(i)[n])
       PROVE  FALSE
  <2>1. PICK path : path = SupplyPath(i)
    OBVIOUS
  <2>2. i \in PowerLinks /\ path[n] \in common
    BY <1>2, <1>8, <1>12, <2>1
  <2>3. /\ Stage(height, path[n]) \in Nat /\ Stage(height, path[k]) \in Nat
        /\ Stage(height, path[n]) < Stage(height, path[k])
    BY <1>1, <1>12, <2>1, <2>2, PathRises
  <2>4. Stage(height, path[k]) <= Stage(height, path[n])
    BY <1>10, <1>12, <2>1, <2>2
  <2> QED
    BY <2>3, <2>4
<1>13. ASSUME NEW node, a \in TakenBy(node), Cardinality(mine) > 1 PROVE PowerFinding(a) # {}
  <2>1. shared # None
    BY <1>6, <1>8, <1>13
  <2>2. Cardinality(mine) >= 2
    BY <1>4, <1>13
  <2> HIDE DEF converge
  <2>3. PowerFinding(a) = {converge}
    BY <1>9, <2>1, <2>2
  <2> QED
    BY <2>3
<1> QED
  BY <1>2, <1>11, <1>12, <1>13 DEF mine

----------------------------------------------------------------------------
(* The pictures of the plant.  A route visits no asset twice. *)

LEMMA LeastIsMin ==
  ASSUME NEW T, T \subseteq Nat, NEW n \in T, \A m \in T : n <= m PROVE Min(T) = n
<1>1. PICK k : k = Min(T) /\ k \in T /\ \A m \in T : k <= m
  BY DEF Min
<1>2. k <= n /\ n <= k /\ k \in Nat /\ n \in Nat
  BY <1>1
<1> QED
  BY <1>1, <1>2

IsRoute(r, arcs) ==
  /\ r \in Seq(Assets) /\ Len(r) >= 1
  /\ \A j, k \in 1..Len(r) : r[j] = r[k] => j = k
  /\ \A k \in 1..(Len(r) - 1) : <<r[k], r[k + 1]>> \in arcs[k]

LEMMA RouteLonger ==
  ASSUME NEW arcs, NEW r, IsRoute(r, arcs), NEW y \in Assets, y \notin Range(r),
         <<r[Len(r)], y>> \in arcs[Len(r)]
  PROVE  IsRoute(Append(r, y), arcs) /\ Len(Append(r, y)) = Len(r) + 1 /\ Append(r, y)[Len(r) + 1] = y
<1>1. PICK n \in Nat : n = Len(r) /\ n >= 1 /\ DOMAIN r = 1..n
  BY DEF IsRoute
<1>2. PICK q : q = Append(r, y)
  OBVIOUS
<1>3. q \in Seq(Assets) /\ Len(q) = n + 1 /\ q[n + 1] = y /\ \A k \in 1..n : q[k] = r[k]
  BY <1>1, <1>2 DEF IsRoute
<1>4. \A k \in 1..n : r[k] # y
  BY <1>1 DEF Range
<1>5. ASSUME NEW j \in 1..(n + 1), NEW k \in 1..(n + 1), q[j] = q[k] PROVE j = k
  <2>1. \A m \in 1..(n + 1) : m = n + 1 \/ m \in 1..n
    BY <1>1
  <2>2. CASE j = n + 1 \/ k = n + 1
    BY <1>3, <1>4, <1>5, <2>1, <2>2
  <2>3. CASE j \in 1..n /\ k \in 1..n
    BY <1>1, <1>3, <1>5, <2>3 DEF IsRoute
  <2> QED
    BY <2>1, <2>2, <2>3
<1>6. ASSUME NEW k \in 1..n PROVE <<q[k], q[k + 1]>> \in arcs[k]
  <2>1. CASE k = n
    BY <1>1, <1>3, <2>1
  <2>2. CASE k # n
    <3>1. k \in 1..(n - 1) /\ k + 1 \in 1..n
      BY <1>1, <2>2
    <3> QED
      BY <1>1, <1>3, <3>1 DEF IsRoute
  <2> QED
    BY <2>1, <2>2
<1>7. n + 1 - 1 = n /\ n + 1 >= 1
  BY <1>1
<1>8. IsRoute(q, arcs)
  BY <1>3, <1>5, <1>6, <1>7 DEF IsRoute
<1> QED
  BY <1>1, <1>2, <1>3, <1>8

(* The last step of a route taken off. *)
LEMMA RouteShorter ==
  ASSUME NEW arcs, NEW r, IsRoute(r, arcs), Len(r) > 1
  PROVE  \E q, y : /\ IsRoute(q, arcs) /\ y \in Assets /\ r = Append(q, y) /\ Len(q) = Len(r) - 1
                   /\ y \notin Range(q) /\ <<q[Len(q)], y>> \in arcs[Len(q)]
<1>1. PICK n \in Nat : n = Len(r) /\ n > 1 /\ n - 1 \in Nat /\ DOMAIN r = 1..n
  BY DEF IsRoute
<1> DEFINE q == [k \in 1..(n - 1) |-> r[k]]
           y == r[n]
<1>2. n \in 1..n /\ n - 1 \in 1..n /\ n - 1 \in 1..(n - 1) /\ n - 1 + 1 = n
  BY <1>1
<1>3. y \in Assets /\ \A k \in 1..(n - 1) : r[k] \in Assets /\ k \in 1..n
  BY <1>1 DEF IsRoute
<1>4. q \in Seq(Assets) /\ Len(q) = n - 1
  BY <1>1, <1>3
<1>5. r = Append(q, y)
  BY <1>1, <1>3, <1>4 DEF IsRoute
<1>6. IsRoute(q, arcs)
  <2>1. \A j, k \in 1..(n - 1) : q[j] = q[k] => j = k
    BY <1>1, <1>3 DEF IsRoute
  <2>2. ASSUME NEW k \in 1..(n - 1 - 1) PROVE <<q[k], q[k + 1]>> \in arcs[k]
    <3>1. k \in 1..(n - 1) /\ k + 1 \in 1..(n - 1)
      BY <1>1
    <3> QED
      BY <1>1, <3>1 DEF IsRoute
  <2> HIDE DEF q
  <2> QED
    BY <1>1, <1>4, <2>1, <2>2 DEF IsRoute
<1>7. \A k \in 1..(n - 1) : q[k] # y
  BY <1>1, <1>2, <1>3 DEF IsRoute
<1>8. y \notin Range(q)
  BY <1>7 DEF Range
<1>9. <<q[n - 1], y>> \in arcs[n - 1]
  BY <1>1, <1>2 DEF IsRoute
<1> QED
  BY <1>1, <1>3, <1>4, <1>5, <1>6, <1>8, <1>9

(* SimpleRoutes enumerates the routes. *)
LEMMA RoutesAre ==
  ASSUME NEW most \in Nat, most >= 1, NEW arcs, \A n \in 1..(most - 1) : arcs[n] \subseteq Assets \X Assets
  PROVE  SimpleRoutes(arcs, most) = {r \in Seq(Assets) : IsRoute(r, arcs) /\ Len(r) <= most}
<1> DEFINE Longer(n, S) == S \cup {Append(x[1], x[2][2]) : x \in
                  {y \in S \X arcs[n - 1] :
                     Len(y[1]) = n - 1 /\ y[1][n - 1] = y[2][1] /\ y[2][2] \notin Range(y[1])}}
           First == {<<x>> : x \in Assets}
           Rec(f) == f = [n \in 1..most |-> IF n = 1 THEN First ELSE Longer(n, f[n - 1])]
           of == CHOOSE f : Rec(f)
           All(n) == {r \in Seq(Assets) : IsRoute(r, arcs) /\ Len(r) <= n}
           G == [n \in 1..most |-> All(n)]
<1>1. SimpleRoutes(arcs, most) = of[most]
  BY Zenon DEF SimpleRoutes
<1>2. All(1) = First
  <2>1. ASSUME NEW x \in Assets PROVE <<x>> \in All(1)
    BY DEF IsRoute
  <2>2. ASSUME NEW r \in All(1) PROVE r \in First
    <3>0. r \in Seq(Assets) /\ Len(r) \in Nat /\ Len(r) <= 1 /\ IsRoute(r, arcs)
      OBVIOUS
    <3> HIDE DEF All
    <3>1. r \in Seq(Assets) /\ Len(r) = 1
      <4>1. Len(r) >= 1
        BY <3>0 DEF IsRoute
      <4>2. PICK n \in Nat : n = Len(r) /\ n <= 1 /\ n >= 1
        BY <3>0, <4>1
      <4>3. n = 1
        BY <4>2
      <4> QED
        BY <3>0, <4>2, <4>3
    <3>2. r = <<r[1]>> /\ r[1] \in Assets
      <4>0. r \in [1..Len(r) -> Assets]
        BY <3>1
      <4>1. r[1] \in Assets /\ DOMAIN r = {1} /\ r = [k \in DOMAIN r |-> r[k]]
        BY <3>1, <4>0
      <4>2. PICK q : q = <<r[1]>>
        OBVIOUS
      <4>3. DOMAIN q = {1} /\ q[1] = r[1] /\ q = [k \in DOMAIN q |-> q[k]]
        BY <4>2
      <4> QED
        BY <4>1, <4>2, <4>3
    <3> QED
      BY <3>2
  <2> QED
    BY <2>1, <2>2
<1>3. ASSUME NEW n \in 2..most PROVE All(n) = Longer(n, All(n - 1))
  <2>0. n \in Nat /\ n - 1 \in Nat /\ n - 1 >= 1 /\ n - 1 \in 1..(most - 1) /\ n - 1 + 1 = n
    OBVIOUS
  <2>1. ASSUME NEW r \in All(n) PROVE r \in Longer(n, All(n - 1))
    <3>1. r \in Seq(Assets) /\ IsRoute(r, arcs) /\ Len(r) <= n /\ Len(r) \in Nat
      OBVIOUS
    <3>2. CASE Len(r) <= n - 1
      BY <3>1, <3>2
    <3>3. CASE ~(Len(r) <= n - 1)
      <4>1. Len(r) = n /\ Len(r) > 1
        BY <2>0, <3>1, <3>3
      <4>2. PICK q, y : /\ IsRoute(q, arcs) /\ y \in Assets /\ r = Append(q, y) /\ Len(q) = n - 1
                        /\ y \notin Range(q) /\ <<q[n - 1], y>> \in arcs[n - 1]
        BY <3>1, <4>1, RouteShorter
      <4>3. q \in All(n - 1)
        BY <2>0, <4>2 DEF IsRoute
      <4> HIDE DEF All
      <4>4. PICK e : e = <<q[n - 1], y>>
        OBVIOUS
      <4>5. e \in arcs[n - 1] /\ e[1] = q[n - 1] /\ e[2] = y
        BY <4>2, <4>4
      <4>6. PICK z : z = <<q, e>>
        OBVIOUS
      <4>7. z \in All(n - 1) \X arcs[n - 1] /\ z[1] = q /\ z[2] = e
        BY <4>3, <4>5, <4>6
      <4>8. Len(z[1]) = n - 1 /\ z[1][n - 1] = z[2][1] /\ z[2][2] \notin Range(z[1])
        BY <4>2, <4>5, <4>7
      <4>9. Append(z[1], z[2][2]) \in Longer(n, All(n - 1))
        BY <4>7, <4>8
      <4> QED
        BY <4>2, <4>5, <4>7, <4>9
    <3> QED
      BY <3>2, <3>3
  <2>2. ASSUME NEW r \in Longer(n, All(n - 1)) PROVE r \in All(n)
    <3>1. CASE r \in All(n - 1)
      BY <2>0, <3>1
    <3>2. CASE r \notin All(n - 1)
      <4>1. PICK z \in All(n - 1) \X arcs[n - 1] :
              /\ r = Append(z[1], z[2][2]) /\ Len(z[1]) = n - 1
              /\ z[1][n - 1] = z[2][1] /\ z[2][2] \notin Range(z[1])
        <5> HIDE DEF All
        <5> QED
          BY <2>2, <3>2
      <4>2. PICK q, e : q = z[1] /\ e = z[2] /\ q \in All(n - 1) /\ e \in arcs[n - 1]
        BY <4>1
      <4>3. e \in Assets \X Assets /\ e = <<e[1], e[2]>>
        BY <2>0, <4>2
      <4>4. IsRoute(q, arcs) /\ e[2] \in Assets /\ e[2] \notin Range(q) /\ Len(q) = n - 1
            /\ <<q[n - 1], e[2]>> \in arcs[n - 1] /\ r = Append(q, e[2])
        BY <4>1, <4>2, <4>3
      <4>5. IsRoute(r, arcs) /\ Len(r) = n
        BY <2>0, <4>4, RouteLonger
      <4> QED
        BY <2>0, <4>5 DEF IsRoute
    <3> QED
      BY <3>1, <3>2
  <2> HIDE DEF All, Longer
  <2> QED
    BY <2>1, <2>2
<1> HIDE DEF All, Longer, First
<1>4. Rec(G)
  <2>1. ASSUME NEW n \in 1..most PROVE G[n] = IF n = 1 THEN First ELSE Longer(n, G[n - 1])
    <3>1. CASE n = 1
      BY <1>2, <3>1
    <3>2. CASE n # 1
      <4>1. n \in 2..most /\ n - 1 \in 1..most
        BY <3>2
      <4> QED
        BY <1>3, <3>2, <4>1
    <3> QED
      BY <3>1, <3>2
  <2>2. G = [n \in 1..most |-> G[n]]
    OBVIOUS
  <2> HIDE DEF G
  <2> QED
    BY <2>1, <2>2
<1>5. Rec(of)
  <2> HIDE DEF Rec, G
  <2> QED
    BY <1>4
<1> HIDE DEF of
<1>6. \A n \in 1..most : of[n] = All(n)
  <2> DEFINE T == {n \in 1..most : of[n] # All(n)}
  <2> SUFFICES ASSUME T # {} PROVE FALSE
    OBVIOUS
  <2>1. PICK m \in T : \A n \in T : m <= n
    <3>1. T \subseteq Nat
      OBVIOUS
    <3> HIDE DEF T
    <3> QED
      BY <3>1, LeastNat
  <2>2. m \in 1..most /\ of[m] # All(m) /\ of[m] = IF m = 1 THEN First ELSE Longer(m, of[m - 1])
    BY <1>5, <2>1
  <2>3. m # 1
    BY <1>2, <2>2
  <2>4. m \in 2..most /\ m - 1 \in 1..most /\ ~(m <= m - 1)
    BY <2>2, <2>3
  <2>5. of[m - 1] = All(m - 1)
    BY <2>1, <2>4
  <2> QED
    BY <1>3, <2>2, <2>3, <2>4, <2>5
<1>7. most \in 1..most
  OBVIOUS
<1> QED
  BY <1>1, <1>6, <1>7 DEF All

(* What a search has reached after each step, where a step that can be taken  *)
(* late can be taken early.                                                   *)
Rings(ring, most, arcs, seeds) ==
  /\ ring \in [0..most -> SUBSET Assets] /\ ring[0] = seeds
  /\ \A n \in 1..most : ring[n] = ring[n - 1] \cup {e[2] : e \in {x \in arcs[n] : x[1] \in ring[n - 1]}}
Narrowing(arcs, most) ==
  \A m, n \in 1..most : m <= n => arcs[n] \subseteq arcs[m] /\ arcs[n] \subseteq Assets \X Assets
FirstAt(ring, n, u) == u \in ring[n] /\ \A m \in 0..(n - 1) : u \notin ring[m]

Onward(arcs, R) == R \cup {e[2] : e \in {x \in arcs : x[1] \in R}}

Onwards(ring, most, arcs, seeds) ==
  /\ ring = [n \in 0..most |-> ring[n]] /\ ring[0] = seeds
  /\ \A n \in 1..most : ring[n] = Onward(arcs[n], ring[n - 1])

LEMMA RingsFrom ==
  ASSUME NEW most \in Nat, NEW arcs, \A n \in 1..most : arcs[n] \subseteq Assets \X Assets,
         NEW seeds \in SUBSET Assets, NEW ring, Onwards(ring, most, arcs, seeds)
  PROVE  Rings(ring, most, arcs, seeds)
<1>0. /\ ring = [n \in 0..most |-> ring[n]] /\ ring[0] = seeds
      /\ \A n \in 1..most : ring[n] = Onward(arcs[n], ring[n - 1])
  BY DEF Onwards
<1> DEFINE T == {n \in 0..most : ring[n] \notin SUBSET Assets}
<1>1. ASSUME T # {} PROVE FALSE
  <2>1. PICK m \in T : \A n \in T : m <= n
    <3>1. T \subseteq Nat
      OBVIOUS
    <3> HIDE DEF T
    <3> QED
      BY <1>1, <3>1, LeastNat
  <2>2. m # 0
    BY <1>0, <2>1
  <2>3. m \in 1..most /\ m - 1 \in 0..most /\ ~(m <= m - 1)
    BY <2>1, <2>2
  <2>4. ring[m - 1] \in SUBSET Assets
    BY <2>1, <2>3
  <2>5. ring[m] = Onward(arcs[m], ring[m - 1]) /\ arcs[m] \subseteq Assets \X Assets
    BY <1>0, <2>3
  <2>6. PICK R, A : R = ring[m - 1] /\ A = arcs[m] /\ R \subseteq Assets /\ A \subseteq Assets \X Assets
    BY <2>4, <2>5
  <2>7. Onward(A, R) \in SUBSET Assets
    BY <2>6 DEF Onward
  <2> QED
    BY <2>1, <2>5, <2>6, <2>7
<1>2. ring \in [0..most -> SUBSET Assets]
  BY <1>0, <1>1
<1> QED
  BY <1>0, <1>2 DEF Rings, Onward

LEMMA RingsExist ==
  ASSUME NEW most \in Nat, NEW arcs, \A n \in 1..most : arcs[n] \subseteq Assets \X Assets,
         NEW seeds \in SUBSET Assets
  PROVE  \E ring : Onwards(ring, most, arcs, seeds)
<1> DEFINE D == SUBSET Assets
           F == [n \in 1..most |-> [R \in D |-> Onward(arcs[n], R)]]
<1>1. F \in [1..most -> [D -> D]]
  <2>1. \A n \in 1..most : \A R \in D : Onward(arcs[n], R) \in D
    BY DEF Onward
  <2> HIDE DEF D
  <2> QED
    BY <2>1
<1>2. seeds \in D
  OBVIOUS
<1>3. PICK f : Iterated(f, most, D, F, seeds)
  <2> HIDE DEF D, F
  <2> QED
    BY <1>1, <1>2, Iterates
<1> HIDE DEF D
<1>4. ASSUME NEW n \in 1..most PROVE f[n] = Onward(arcs[n], f[n - 1])
  <2>1. n - 1 \in 0..most
    OBVIOUS
  <2>2. f[n - 1] \in D /\ f[n] = F[n][f[n - 1]]
    BY <1>3, <2>1 DEF Iterated
  <2> QED
    BY <2>2
<1>5. f = [n \in 0..most |-> f[n]] /\ f[0] = seeds
  BY <1>3 DEF Iterated
<1> HIDE DEF F
<1>6. Onwards(f, most, arcs, seeds)
  BY <1>4, <1>5 DEF Onwards
<1> QED
  BY <1>6

LEMMA RingStep ==
  ASSUME NEW most \in Nat, NEW arcs, NEW seeds, NEW ring, Rings(ring, most, arcs, seeds),
         NEW n \in 1..most, NEW x \in ring[n - 1], NEW y, <<x, y>> \in arcs[n]
  PROVE  y \in ring[n]
<1>1. PICK e : e = <<x, y>>
  OBVIOUS
<1>2. e \in arcs[n] /\ e[1] = x /\ e[2] = y
  BY <1>1
<1> QED
  BY <1>2 DEF Rings

LEMMA RingsGrow ==
  ASSUME NEW most \in Nat, NEW arcs, NEW seeds, NEW ring, Rings(ring, most, arcs, seeds),
         NEW m \in 0..most, NEW n \in 0..most, m <= n
  PROVE  ring[m] \subseteq ring[n]
<1> DEFINE T == {k \in 0..most : m <= k /\ ~(ring[m] \subseteq ring[k])}
<1> SUFFICES ASSUME T # {} PROVE FALSE
  OBVIOUS
<1>1. PICK k \in T : \A j \in T : k <= j
  <2>1. T \subseteq Nat
    OBVIOUS
  <2> HIDE DEF T
  <2> QED
    BY <2>1, LeastNat
<1>2. k # m /\ k \in 1..most /\ k - 1 \in 0..most /\ m <= k - 1 /\ ~(k <= k - 1)
  BY <1>1
<1>3. ring[m] \subseteq ring[k - 1]
  BY <1>1, <1>2
<1>4. ring[k - 1] \subseteq ring[k]
  BY <1>2 DEF Rings
<1> QED
  BY <1>1, <1>3, <1>4

LEMMA FirstRing ==
  ASSUME NEW most \in Nat, NEW ring, NEW n \in 0..most, NEW u \in ring[n]
  PROVE  \E m \in 0..n : FirstAt(ring, m, u)
<1> DEFINE T == {k \in 0..n : u \in ring[k]}
<1>1. PICK m \in T : \A k \in T : m <= k
  <2>1. T \subseteq Nat /\ T # {}
    OBVIOUS
  <2> HIDE DEF T
  <2> QED
    BY <2>1, LeastNat
<1>2. \A k \in 0..(m - 1) : k \in 0..n /\ ~(m <= k)
  BY <1>1
<1> QED
  BY <1>1, <1>2 DEF FirstAt

(* Who is reached for the first time by a step was one step away from someone *)
(* reached for the first time by the step before.                             *)
LEMMA RingBefore ==
  ASSUME NEW most \in Nat, NEW arcs, NEW seeds, NEW ring, Rings(ring, most, arcs, seeds),
         Narrowing(arcs, most), NEW n \in 1..most, NEW u, FirstAt(ring, n, u)
  PROVE  \E x \in Assets : FirstAt(ring, n - 1, x) /\ <<x, u>> \in arcs[n] /\ u \in Assets
<1>1. n - 1 \in 0..(n - 1) /\ u \notin ring[n - 1]
  BY DEF FirstAt
<1>2. PICK e \in arcs[n] : e[1] \in ring[n - 1] /\ e[2] = u
  <2>1. ring[n] = ring[n - 1] \cup {e[2] : e \in {x \in arcs[n] : x[1] \in ring[n - 1]}}
    BY DEF Rings
  <2>2. u \in ring[n]
    BY DEF FirstAt
  <2> QED
    BY <1>1, <2>1, <2>2
<1>3. e \in Assets \X Assets
  BY DEF Narrowing
<1>4. PICK x \in Assets : x = e[1] /\ <<x, u>> \in arcs[n] /\ u \in Assets
  BY <1>2, <1>3
<1>5. ASSUME NEW m \in 0..(n - 1 - 1), x \in ring[m] PROVE FALSE
  <2>1. m + 1 \in 1..most /\ m + 1 <= n /\ m + 1 - 1 = m /\ m + 1 \in 0..(n - 1)
    OBVIOUS
  <2>2. <<x, u>> \in arcs[m + 1]
    BY <1>4, <2>1 DEF Narrowing
  <2>3. PICK k \in 1..most : k = m + 1 /\ x \in ring[k - 1] /\ <<x, u>> \in arcs[k]
    BY <1>5, <2>1, <2>2
  <2>4. u \in ring[k]
    BY <2>3, RingStep
  <2> QED
    BY <2>1, <2>3, <2>4 DEF FirstAt
<1> QED
  BY <1>2, <1>4, <1>5 DEF FirstAt

LEMMA RingRoute ==
  ASSUME NEW most \in Nat, NEW arcs, NEW seeds, NEW ring, Rings(ring, most, arcs, seeds),
         Narrowing(arcs, most), NEW n \in 0..most, NEW u, FirstAt(ring, n, u)
  PROVE  \E r : IsRoute(r, arcs) /\ Len(r) = n + 1 /\ r[1] \in seeds /\ r[n + 1] = u
                /\ \A k \in 1..(n + 1) : r[k] \in ring[k - 1]
<1> DEFINE Found(m, x) == \E r : IsRoute(r, arcs) /\ Len(r) = m + 1 /\ r[1] \in seeds /\ r[m + 1] = x
                                 /\ \A k \in 1..(m + 1) : r[k] \in ring[k - 1]
           T == {m \in 0..most : \E x : FirstAt(ring, m, x) /\ ~Found(m, x)}
<1> SUFFICES ASSUME T # {} PROVE FALSE
  OBVIOUS
<1>1. PICK m \in T : \A k \in T : m <= k
  <2>1. T \subseteq Nat
    OBVIOUS
  <2> HIDE DEF T
  <2> QED
    BY <2>1, LeastNat
<1>2. PICK x : FirstAt(ring, m, x) /\ ~Found(m, x)
  BY <1>1
<1>3. CASE m = 0
  <2>1. x \in seeds /\ x \in ring[0] /\ x \in Assets
    BY <1>2, <1>3 DEF FirstAt, Rings
  <2>2. PICK r : r = <<x>>
    OBVIOUS
  <2>3. IsRoute(r, arcs) /\ Len(r) = 1 /\ r[1] = x
    BY <2>1, <2>2 DEF IsRoute
  <2>4. Found(0, x)
    BY <2>1, <2>3
  <2> QED
    BY <1>2, <1>3, <2>4
<1>4. CASE m # 0
  <2>1. m \in 1..most /\ m - 1 \in 0..most /\ ~(m <= m - 1) /\ m - 1 + 1 = m
    BY <1>1, <1>4
  <2>2. PICK y \in Assets : FirstAt(ring, m - 1, y) /\ <<y, x>> \in arcs[m] /\ x \in Assets
    BY <1>2, <2>1, RingBefore
  <2>3. Found(m - 1, y)
    BY <1>1, <2>1, <2>2
  <2>4. PICK r : IsRoute(r, arcs) /\ Len(r) = m /\ r[1] \in seeds /\ r[m] = y
                 /\ \A k \in 1..m : r[k] \in ring[k - 1]
    BY <2>1, <2>3
  <2>5. \A k \in 1..m : r[k] # x
    <3> SUFFICES ASSUME NEW k \in 1..m, r[k] = x PROVE FALSE
      OBVIOUS
    <3>1. k - 1 \in 0..(m - 1) /\ x \in ring[k - 1]
      BY <2>1, <2>4
    <3> QED
      BY <1>2, <3>1 DEF FirstAt
  <2>6. x \notin Range(r) /\ DOMAIN r = 1..m /\ r \in Seq(Assets)
    BY <2>4, <2>5 DEF Range, IsRoute
  <2>7. PICK q : q = Append(r, x)
    OBVIOUS
  <2>8. IsRoute(q, arcs) /\ Len(q) = m + 1 /\ q[m + 1] = x
    BY <2>2, <2>4, <2>6, <2>7, RouteLonger
  <2>9. \A k \in 1..m : q[k] = r[k]
    BY <2>1, <2>4, <2>6, <2>7
  <2>10. q[1] \in seeds
    BY <2>1, <2>4, <2>9
  <2>11. ASSUME NEW k \in 1..(m + 1) PROVE q[k] \in ring[k - 1]
    <3>1. CASE k \in 1..m
      BY <2>4, <2>9, <3>1
    <3>2. CASE k = m + 1
      <4>1. k - 1 = m
        BY <2>1, <3>2
      <4> QED
        BY <1>2, <2>8, <3>2, <4>1 DEF FirstAt
    <3> QED
      BY <2>1, <3>1, <3>2
  <2> QED
    BY <1>2, <2>8, <2>10, <2>11
<1> QED
  BY <1>3, <1>4

LEMMA RouteRing ==
  ASSUME NEW most \in Nat, NEW arcs, NEW seeds, NEW ring, Rings(ring, most, arcs, seeds),
         NEW r, IsRoute(r, arcs), r[1] \in seeds, Len(r) <= most + 1, NEW k \in 1..Len(r)
  PROVE  r[k] \in ring[k - 1]
<1>0. PICK len \in Nat : len = Len(r)
  BY DEF IsRoute
<1> DEFINE T == {j \in 1..len : r[j] \notin ring[j - 1]}
<1> SUFFICES ASSUME T # {} PROVE FALSE
  BY <1>0
<1>1. PICK j \in T : \A i \in T : j <= i
  <2>1. T \subseteq Nat
    OBVIOUS
  <2> HIDE DEF T
  <2> QED
    BY <2>1, LeastNat
<1>2. j # 1
  BY <1>1 DEF Rings
<1>3. j - 1 \in 1..len /\ j - 1 \in 1..most /\ j - 1 \in 1..(len - 1) /\ ~(j <= j - 1) /\ j - 1 + 1 = j
  BY <1>0, <1>1, <1>2
<1>4. PICK m \in 1..most : m = j - 1
  BY <1>3
<1>5. r[m] \in ring[m - 1] /\ <<r[m], r[j]>> \in arcs[m]
  BY <1>0, <1>1, <1>3, <1>4 DEF IsRoute
<1>6. r[j] \in ring[m]
  BY <1>5, RingStep
<1> QED
  BY <1>1, <1>4, <1>6

----------------------------------------------------------------------------
(* The searches. *)

AssetPairs(adj) == \A e \in adj : \E x, y \in Assets : e = {x, y}

(* Distances from some assets: none but theirs is zero, neighbours differ by  *)
(* one at most, and who is not at zero has a neighbour that is nearer.        *)
IsDistance(d, adj, seeds) ==
  /\ DOMAIN d \subseteq Assets /\ d \in [DOMAIN d -> Nat]
  /\ seeds \subseteq DOMAIN d /\ \A u \in DOMAIN d : d[u] = 0 <=> u \in seeds
  /\ \A u \in DOMAIN d, v \in Assets : {u, v} \in adj => v \in DOMAIN d /\ d[v] <= d[u] + 1
  /\ \A u \in DOMAIN d : d[u] # 0 => \E v \in DOMAIN d : {v, u} \in adj /\ d[v] + 1 = d[u]

LEMMA AssetsCount == Cardinality(Assets) \in Nat
BY TopologyAssumption, FS_CardinalityType

LEMMA InjectiveFits ==
  ASSUME NEW r \in Seq(Assets), \A j, k \in 1..Len(r) : r[j] = r[k] => j = k
  PROVE  Len(r) <= Cardinality(Assets)
<1>1. PICK n \in Nat : n = Len(r) /\ r \in [1..n -> Assets]
  OBVIOUS
<1>2. Cardinality(1..n) = n /\ IsFiniteSet(1..n)
  <2>1. 1 \in Int /\ n \in Int
    OBVIOUS
  <2>2. IsFiniteSet(1..n) /\ Cardinality(1..n) = IF 1 > n THEN 0 ELSE n - 1 + 1
    BY <2>1, FS_Interval
  <2> QED
    BY <2>2
<1>3. SUFFICES ASSUME Cardinality(Assets) < Cardinality(1..n) PROVE FALSE
  BY <1>1, <1>2, AssetsCount
<1>4. \E x, y \in 1..n : x # y /\ r[x] = r[y]
  BY <1>1, <1>2, <1>3, TopologyAssumption, FS_PigeonHole
<1> QED
  BY <1>1, <1>4

LEMMA RouteFits ==
  ASSUME NEW arcs, NEW r, IsRoute(r, arcs) PROVE Len(r) <= Cardinality(Assets)
BY InjectiveFits DEF IsRoute

FirstRings(ring) ==
  [u \in ring[Cardinality(Assets)] |-> Min({n \in 0..Cardinality(Assets) : u \in ring[n]})]

LEMMA BfsRings ==
  ASSUME NEW adj, AssetPairs(adj), NEW seeds \in SUBSET Assets
  PROVE  \E ring :
           /\ Rings(ring, Cardinality(Assets), [n \in 1..Cardinality(Assets) |-> Arcs(adj)], seeds)
           /\ Bfs(adj, seeds) = FirstRings(ring)
<1> DEFINE N == Cardinality(Assets)
           Step(R) == Neighbours(adj, R)
           Rec(f) == f = [n \in 0..N |-> IF n = 0 THEN seeds ELSE Step(f[n - 1])]
           ring == CHOOSE f : Rec(f)
           rings == [n \in 0..N |-> ring[n]]
<1>0. N \in Nat
  BY AssetsCount
<1>1. Bfs(adj, seeds) = [u \in rings[N] |-> Min({n \in DOMAIN rings : u \in rings[n]})]
  BY Zenon DEF Bfs
<1>2. ASSUME NEW R PROVE Step(R) = Onward(Arcs(adj), R)
  <2>1. ASSUME NEW y \in Step(R), y \notin R PROVE \E e \in Arcs(adj) : e[1] \in R /\ e[2] = y
    <3>1. PICK p \in adj : p \cap R # {} /\ y \in p
      BY <2>1 DEF Neighbours
    <3>2. PICK x \in p : x \in R
      BY <3>1
    <3>3. x \in Assets /\ y \in Assets /\ p = {x, y}
      BY <2>1, <3>1, <3>2 DEF AssetPairs
    <3>4. PICK e : e = <<x, y>>
      OBVIOUS
    <3>5. e \in Arcs(adj) /\ e[1] = x /\ e[2] = y
      BY <3>1, <3>3, <3>4 DEF Arcs
    <3> QED
      BY <3>2, <3>5
  <2>2. ASSUME NEW e \in Arcs(adj), e[1] \in R PROVE e[2] \in Step(R)
    <3>1. {e[1], e[2]} \in adj
      BY DEF Arcs
    <3> QED
      BY <2>2, <3>1 DEF Neighbours
  <2>3. R \subseteq Step(R)
    BY DEF Neighbours
  <2> HIDE DEF Step
  <2> QED
    BY <2>1, <2>2, <2>3 DEF Onward
<1> DEFINE arcs == [n \in 1..N |-> Arcs(adj)]
<1>3. \A n \in 1..N : arcs[n] = Arcs(adj) /\ arcs[n] \subseteq Assets \X Assets
  BY DEF Arcs
<1> HIDE DEF Step, N, arcs
<1>4. Rec(ring)
  <2>0. PICK f : Onwards(f, N, arcs, seeds)
    BY <1>0, <1>3, RingsExist
  <2>1. /\ f = [n \in 0..N |-> f[n]] /\ f[0] = seeds
        /\ \A n \in 1..N : f[n] = Onward(arcs[n], f[n - 1])
    BY <2>0 DEF Onwards
  <2>2. ASSUME NEW n \in 0..N PROVE f[n] = IF n = 0 THEN seeds ELSE Step(f[n - 1])
    <3> HIDE DEF ring, rings, Rec
    <3>1. CASE n # 0
      <4>1. n \in 1..N
        BY <1>0, <3>1
      <4> QED
        BY <1>2, <1>3, <2>1, <3>1, <4>1
    <3> QED
      BY <2>1, <3>1
  <2>3. Rec(f)
    BY <2>1, <2>2
  <2> HIDE DEF Rec
  <2> QED
    BY <2>3
<1> HIDE DEF ring
<1>5. ring[0] = seeds /\ \A n \in 1..N : ring[n] = Onward(arcs[n], ring[n - 1])
  <2>1. ring[0] = seeds
    BY <1>0, <1>4
  <2>2. ASSUME NEW n \in 1..N PROVE ring[n] = Onward(arcs[n], ring[n - 1])
    <3>1. n \in 0..N /\ n # 0
      BY <1>0
    <3>2. ring[n] = Step(ring[n - 1])
      BY <1>4, <3>1
    <3> QED
      BY <1>2, <1>3, <3>2
  <2> QED
    BY <2>1, <2>2
<1>7. ring = [n \in 0..N |-> ring[n]]
  BY <1>4
<1>10. Rings(ring, N, arcs, seeds)
  <2>1. Onwards(ring, N, arcs, seeds)
    BY <1>5, <1>7 DEF Onwards
  <2> QED
    BY <1>0, <1>3, <2>1, RingsFrom
<1>11. rings = ring /\ DOMAIN ring = 0..N
  BY <1>7
<1> HIDE DEF rings
<1>12. Bfs(adj, seeds) = FirstRings(ring)
  BY <1>1, <1>11 DEF FirstRings, N
<1> QED
  BY <1>10, <1>12 DEF N, arcs

(* bfs computes the distances. *)
LEMMA BfsIs ==
  ASSUME NEW adj, AssetPairs(adj), NEW seeds \in SUBSET Assets
  PROVE  IsDistance(Bfs(adj, seeds), adj, seeds)
<1> DEFINE N == Cardinality(Assets)
           arcs == [n \in 1..N |-> Arcs(adj)]
<1>0. N \in Nat
  BY AssetsCount
<1>1. PICK ring : Rings(ring, N, arcs, seeds) /\ Bfs(adj, seeds) = FirstRings(ring)
  BY BfsRings
<1>2. PICK d : d = Bfs(adj, seeds)
  OBVIOUS
<1>3. d = [u \in ring[N] |-> Min({n \in 0..N : u \in ring[n]})]
  BY <1>1, <1>2 DEF FirstRings
<1>4. Narrowing(arcs, N)
  BY DEF Narrowing, Arcs
<1>5. DOMAIN d = ring[N] /\ ring[N] \subseteq Assets
  BY <1>0, <1>1, <1>3 DEF Rings
<1>6. ASSUME NEW u \in ring[N] PROVE d[u] \in 0..N /\ FirstAt(ring, d[u], u)
  <2> DEFINE S == {n \in 0..N : u \in ring[n]}
  <2>1. S \subseteq Nat /\ S # {}
    BY <1>0
  <2>2. d[u] = Min(S)
    BY <1>3
  <2>3. Min(S) \in S /\ \A m \in S : Min(S) <= m
    <3> HIDE DEF S
    <3>1. \E n \in S : \A m \in S : n <= m
      BY <2>1, LeastNat
    <3> QED
      BY <3>1 DEF Min
  <2>4. PICK n \in S : n = d[u] /\ \A m \in S : n <= m
    BY <2>2, <2>3
  <2>5. \A m \in 0..(n - 1) : m \in 0..N /\ ~(n <= m)
    BY <1>0, <2>4
  <2> QED
    BY <2>4, <2>5 DEF FirstAt
<1>7. ASSUME NEW u \in ring[N], NEW m \in 0..N, FirstAt(ring, m, u) PROVE d[u] = m
  <2>1. d[u] \in 0..N /\ FirstAt(ring, d[u], u)
    BY <1>6
  <2>2. ~(m < d[u]) /\ ~(d[u] < m)
    BY <1>0, <1>7, <2>1 DEF FirstAt
  <2> QED
    BY <1>0, <2>1, <2>2
<1>8. \A m \in 0..N : ring[m] \subseteq ring[N]
  BY <1>0, <1>1, RingsGrow
<1> HIDE DEF arcs
<1>9. ASSUME NEW u \in ring[N] PROVE d[u] + 1 <= N
  <2>1. PICK n \in 0..N : n = d[u] /\ FirstAt(ring, n, u)
    BY <1>6
  <2>2. PICK r : IsRoute(r, arcs) /\ Len(r) = n + 1
    BY <1>0, <1>1, <1>4, <2>1, RingRoute
  <2> QED
    BY <2>1, <2>2, RouteFits
<1>10. seeds \subseteq ring[N] /\ \A u \in ring[N] : d[u] = 0 <=> u \in seeds
  <2>1. ring[0] = seeds
    BY <1>1 DEF Rings
  <2>2. \A u \in seeds : FirstAt(ring, 0, u)
    BY <2>1 DEF FirstAt
  <2> QED
    BY <1>0, <1>6, <1>7, <1>8, <2>1, <2>2 DEF FirstAt
<1>11. ASSUME NEW u \in ring[N], NEW v \in Assets, {u, v} \in adj
       PROVE  v \in ring[N] /\ d[v] <= d[u] + 1
  <2>1. PICK n \in 1..N : n = d[u] + 1 /\ u \in ring[n - 1]
    BY <1>0, <1>6, <1>9 DEF FirstAt
  <2>2. PICK e : e = <<u, v>>
    OBVIOUS
  <2>3. e \in Arcs(adj)
    BY <1>5, <1>11, <2>2 DEF Arcs
  <2>4. <<u, v>> \in arcs[n]
    BY <2>2, <2>3 DEF arcs
  <2>5. v \in ring[n]
    BY <1>0, <1>1, <2>1, <2>4, RingStep
  <2>6. v \in ring[N]
    BY <1>0, <1>8, <2>5
  <2>7. PICK m \in 0..n : FirstAt(ring, m, v)
    BY <1>0, <2>5, FirstRing
  <2> QED
    BY <1>0, <1>7, <2>1, <2>6, <2>7
<1>12. ASSUME NEW u \in ring[N], d[u] # 0 PROVE \E v \in ring[N] : {v, u} \in adj /\ d[v] + 1 = d[u]
  <2>1. PICK n \in 1..N : n = d[u] /\ FirstAt(ring, n, u)
    BY <1>0, <1>6, <1>12
  <2>2. PICK v \in Assets : FirstAt(ring, n - 1, v) /\ <<v, u>> \in arcs[n]
    BY <1>0, <1>1, <1>4, <2>1, RingBefore
  <2>3. {v, u} \in adj
    BY <2>2 DEF arcs, Arcs
  <2>4. v \in ring[N] /\ n - 1 \in 0..N
    BY <1>0, <1>8, <2>2 DEF FirstAt
  <2>5. d[v] = n - 1
    BY <1>7, <2>2, <2>4
  <2>6. d[v] + 1 = d[u]
    BY <2>1, <2>5
  <2> QED
    BY <2>3, <2>4, <2>6
<1>13. d \in [DOMAIN d -> Nat]
  <2>1. d = [u \in DOMAIN d |-> d[u]]
    BY <1>3
  <2>2. \A u \in DOMAIN d : d[u] \in Nat
    BY <1>0, <1>5, <1>6
  <2> QED
    BY <2>1, <2>2
<1>14. IsDistance(d, adj, seeds)
  BY <1>5, <1>10, <1>11, <1>12, <1>13 DEF IsDistance
<1> QED
  BY <1>2, <1>14

----------------------------------------------------------------------------
(* Distances and walks. *)

Along(r, adj) ==
  r \in Seq(Assets) /\ Len(r) >= 1 /\ \A k \in 1..(Len(r) - 1) : {r[k], r[k + 1]} \in adj
Back(r) == [k \in 1..Len(r) |-> r[Len(r) + 1 - k]]

LEMMA BackAlong ==
  ASSUME NEW adj, NEW r, Along(r, adj)
  PROVE  /\ Along(Back(r), adj) /\ Len(Back(r)) = Len(r)
         /\ \A k \in 1..Len(r) : Back(r)[k] = r[Len(r) + 1 - k] /\ Len(r) + 1 - k \in 1..Len(r)
<1>1. PICK n \in Nat : n = Len(r) /\ n >= 1 /\ r \in [1..n -> Assets]
  BY DEF Along
<1>2. \A k \in 1..n : n + 1 - k \in 1..n
  BY <1>1
<1>3. PICK b : b = Back(r) /\ b = [k \in 1..n |-> r[n + 1 - k]]
  BY <1>1 DEF Back
<1>4. b \in Seq(Assets) /\ Len(b) = n
  BY <1>1, <1>2, <1>3
<1>5. ASSUME NEW k \in 1..(n - 1) PROVE {b[k], b[k + 1]} \in adj
  <2>1. k \in 1..n /\ k + 1 \in 1..n /\ n - k \in 1..(n - 1) /\ n + 1 - (k + 1) = n - k /\ n - k + 1 = n + 1 - k
    OBVIOUS
  <2>2. b[k] = r[n - k + 1] /\ b[k + 1] = r[n - k]
    BY <1>3, <2>1
  <2>3. {r[n - k], r[n - k + 1]} \in adj
    BY <1>1, <2>1 DEF Along
  <2>4. {b[k], b[k + 1]} = {r[n - k], r[n - k + 1]}
    BY <2>2
  <2> QED
    BY <2>3, <2>4
<1>6. \A k \in 1..n : b[k] = r[n + 1 - k]
  BY <1>3
<1>7. Along(b, adj)
  BY <1>1, <1>4, <1>5 DEF Along
<1> QED
  BY <1>1, <1>2, <1>3, <1>4, <1>6, <1>7

LEMMA WalkBounds ==
  ASSUME NEW adj, NEW seeds, NEW d, IsDistance(d, adj, seeds), NEW r, Along(r, adj), r[1] \in DOMAIN d,
         NEW k \in 1..Len(r)
  PROVE  r[k] \in DOMAIN d /\ d[r[k]] <= d[r[1]] + k - 1
<1>0. PICK n \in Nat : n = Len(r) /\ n >= 1
  BY DEF Along
<1>1. \A u \in DOMAIN d : d[u] \in Nat
  BY DEF IsDistance
<1> DEFINE Ok(j) == r[j] \in DOMAIN d /\ d[r[j]] <= d[r[1]] + j - 1
           T == {j \in 1..n : ~Ok(j)}
<1> SUFFICES ASSUME T # {} PROVE FALSE
  BY <1>0
<1>2. PICK j \in T : \A i \in T : j <= i
  <2>1. T \subseteq Nat
    OBVIOUS
  <2> HIDE DEF T
  <2> QED
    BY <2>1, LeastNat
<1>3. j # 1
  BY <1>1, <1>2
<1>4. PICK i \in 1..(n - 1) : j = i + 1 /\ i \in 1..n /\ ~(j <= i)
  BY <1>0, <1>2, <1>3
<1>5. Ok(i)
  BY <1>2, <1>4
<1>6. {r[i], r[j]} \in adj /\ r[j] \in Assets
  BY <1>0, <1>2, <1>4 DEF Along
<1>7. r[j] \in DOMAIN d /\ d[r[j]] <= d[r[i]] + 1
  BY <1>5, <1>6 DEF IsDistance
<1>8. Ok(j)
  <2>1. d[r[1]] \in Nat /\ d[r[i]] \in Nat /\ d[r[j]] \in Nat /\ d[r[i]] <= d[r[1]] + i - 1
    BY <1>1, <1>5, <1>7
  <2>2. d[r[j]] <= d[r[1]] + j - 1
    BY <1>4, <1>7, <2>1
  <2> QED
    BY <1>7, <2>2
<1> QED
  BY <1>2, <1>8

LEMMA WalkBoundsBack ==
  ASSUME NEW adj, NEW seeds, NEW d, IsDistance(d, adj, seeds), NEW r, Along(r, adj), r[Len(r)] \in DOMAIN d,
         NEW k \in 1..Len(r)
  PROVE  r[k] \in DOMAIN d /\ d[r[k]] <= d[r[Len(r)]] + Len(r) - k
<1>1. PICK n \in Nat : n = Len(r) /\ n >= 1
  BY DEF Along
<1>2. PICK b : b = Back(r)
  OBVIOUS
<1>3. Along(b, adj) /\ Len(b) = n /\ \A j \in 1..n : b[j] = r[n + 1 - j]
  BY <1>1, <1>2, BackAlong
<1>4. PICK j \in 1..n : j = n + 1 - k
  <2>1. k \in 1..n
    BY <1>1
  <2>2. n + 1 - k \in 1..n
    BY <2>1
  <2> QED
    BY <2>2
<1>5. n + 1 - j = k /\ n + 1 - 1 = n /\ 1 \in 1..n
  BY <1>1, <1>4
<1>6. b[j] = r[k] /\ b[1] = r[n]
  BY <1>3, <1>5
<1>7. b[j] \in DOMAIN d /\ d[b[j]] <= d[b[1]] + j - 1
  BY <1>1, <1>3, <1>6, WalkBounds
<1>8. d[r[k]] \in Nat /\ d[r[n]] \in Nat
  BY <1>1, <1>6, <1>7 DEF IsDistance
<1> QED
  BY <1>1, <1>4, <1>6, <1>7, <1>8

(* A way out to an asset, one further with each step. *)
LEMMA Ascends ==
  ASSUME NEW adj, NEW seeds, NEW d, IsDistance(d, adj, seeds), NEW u \in DOMAIN d
  PROVE  \E r : /\ Along(r, adj) /\ Len(r) = d[u] + 1 /\ r[1] \in seeds /\ r[d[u] + 1] = u
                /\ \A k \in 1..(d[u] + 1) : r[k] \in DOMAIN d /\ d[r[k]] = k - 1
<1> DEFINE Way(n, x) == \E r : /\ Along(r, adj) /\ Len(r) = n + 1 /\ r[1] \in seeds /\ r[n + 1] = x
                               /\ \A k \in 1..(n + 1) : r[k] \in DOMAIN d /\ d[r[k]] = k - 1
           T == {n \in Nat : \E x \in DOMAIN d : d[x] = n /\ ~Way(n, x)}
<1>0. \A x \in DOMAIN d : d[x] \in Nat /\ x \in Assets
  BY DEF IsDistance
<1> SUFFICES ASSUME T # {} PROVE FALSE
  BY <1>0
<1>1. PICK m \in T : \A n \in T : m <= n
  <2>1. T \subseteq Nat
    OBVIOUS
  <2> HIDE DEF T
  <2> QED
    BY <2>1, LeastNat
<1>2. PICK x \in DOMAIN d : d[x] = m /\ ~Way(m, x)
  BY <1>1
<1>3. CASE m = 0
  <2>1. x \in seeds /\ x \in Assets
    BY <1>0, <1>2, <1>3 DEF IsDistance
  <2>2. PICK r : r = <<x>>
    OBVIOUS
  <2>3. Along(r, adj) /\ Len(r) = 1 /\ r[1] = x
    BY <2>1, <2>2 DEF Along
  <2>4. Way(0, x)
    BY <1>2, <1>3, <2>1, <2>3
  <2> QED
    BY <1>2, <1>3, <2>4
<1>4. CASE m # 0
  <2>1. PICK y \in DOMAIN d : {y, x} \in adj /\ d[y] + 1 = m
    BY <1>2, <1>4 DEF IsDistance
  <2>2. PICK n \in Nat : n = d[y] /\ m = n + 1 /\ ~(m <= n)
    BY <1>0, <2>1
  <2>3. Way(n, y)
    BY <1>1, <2>2
  <2>4. PICK r : /\ Along(r, adj) /\ Len(r) = m /\ r[1] \in seeds /\ r[m] = y
                 /\ \A k \in 1..m : r[k] \in DOMAIN d /\ d[r[k]] = k - 1
    BY <2>2, <2>3
  <2>5. PICK q : q = Append(r, x)
    OBVIOUS
  <2>6. x \in Assets /\ r \in Seq(Assets)
    BY <1>0, <2>4 DEF Along
  <2>7. q \in Seq(Assets) /\ Len(q) = m + 1 /\ q[m + 1] = x /\ \A k \in 1..m : q[k] = r[k]
    BY <2>2, <2>4, <2>5, <2>6
  <2>8. ASSUME NEW k \in 1..m PROVE {q[k], q[k + 1]} \in adj
    <3>1. CASE k = m
      BY <2>1, <2>4, <2>7, <3>1
    <3>2. CASE k # m
      <4>1. k \in 1..(m - 1) /\ k + 1 \in 1..m
        BY <2>2, <3>2
      <4> QED
        BY <2>4, <2>7, <4>1 DEF Along
    <3> QED
      BY <3>1, <3>2
  <2>9. Along(q, adj)
    BY <2>2, <2>7, <2>8 DEF Along
  <2>10. ASSUME NEW k \in 1..(m + 1) PROVE q[k] \in DOMAIN d /\ d[q[k]] = k - 1
    <3>1. CASE k = m + 1
      BY <1>2, <2>2, <2>7, <3>1
    <3>2. CASE k \in 1..m
      BY <2>4, <2>7, <3>2
    <3> QED
      BY <2>2, <3>1, <3>2
  <2>11. q[1] \in seeds
    BY <2>2, <2>4, <2>7
  <2> QED
    BY <1>2, <2>7, <2>9, <2>10, <2>11
<1> QED
  BY <1>3, <1>4

(* A way home, one nearer with each step. *)
LEMMA Descends ==
  ASSUME NEW adj, NEW seeds, NEW d, IsDistance(d, adj, seeds), NEW u \in DOMAIN d
  PROVE  \E r : /\ Along(r, adj) /\ Len(r) = d[u] + 1 /\ r[1] = u /\ r[d[u] + 1] \in seeds
                /\ \A k \in 1..(d[u] + 1) : r[k] \in DOMAIN d /\ d[r[k]] = d[u] + 1 - k
<1>1. PICK n \in Nat : n = d[u] + 1 /\ n >= 1
  BY DEF IsDistance
<1>2. PICK r : /\ Along(r, adj) /\ Len(r) = n /\ r[1] \in seeds /\ r[n] = u
               /\ \A k \in 1..n : r[k] \in DOMAIN d /\ d[r[k]] = k - 1
  BY <1>1, Ascends
<1>3. PICK b : b = Back(r)
  OBVIOUS
<1>4. Along(b, adj) /\ Len(b) = n /\ \A j \in 1..n : b[j] = r[n + 1 - j] /\ n + 1 - j \in 1..n
  BY <1>2, <1>3, BackAlong
<1>5. 1 \in 1..n /\ n \in 1..n /\ n + 1 - 1 = n /\ n + 1 - n = 1
  BY <1>1
<1>6. b[1] = u /\ b[n] \in seeds
  BY <1>2, <1>4, <1>5
<1>7. ASSUME NEW k \in 1..n PROVE b[k] \in DOMAIN d /\ d[b[k]] = n - k
  <2>1. PICK j \in 1..n : j = n + 1 - k /\ b[k] = r[j]
    BY <1>4
  <2>2. d[r[j]] = j - 1 /\ r[j] \in DOMAIN d
    BY <1>2
  <2>3. j - 1 = n - k
    BY <2>1
  <2> QED
    BY <2>1, <2>2, <2>3
<1>8. \A k \in 1..n : b[k] \in DOMAIN d /\ d[b[k]] = n - k
  BY <1>7
<1>9. /\ Len(b) = d[u] + 1 /\ b[d[u] + 1] \in seeds
  BY <1>1, <1>4, <1>6
<1>10. ASSUME NEW k \in 1..(d[u] + 1) PROVE b[k] \in DOMAIN d /\ d[b[k]] = d[u] + 1 - k
  <2>0. d[u] \in Nat
    BY DEF IsDistance
  <2>1. k \in 1..n
    BY <1>1, <2>0
  <2>2. n - k = d[u] + 1 - k
    BY <1>1, <2>0
  <2> QED
    BY <1>8, <2>1, <2>2
<1> QED
  BY <1>4, <1>6, <1>9, <1>10

(* No way by an asset is shorter than the shortest. *)
LEMMA Detour ==
  ASSUME NEW adj, NEW x, NEW near, IsDistance(near, adj, {x}), NEW side, NEW far, IsDistance(far, adj, side),
         NEW u \in DOMAIN near, u \in DOMAIN far
  PROVE  x \in DOMAIN far /\ far[x] <= near[u] + far[u]
<1>0. near[u] \in Nat
  BY DEF IsDistance
<1>1. PICK n \in Nat : n = near[u] + 1 /\ n >= 1
  BY <1>0
<1>2. PICK r : Along(r, adj) /\ Len(r) = n /\ r[1] = x /\ r[n] = u
  <2>1. PICK r : Along(r, adj) /\ Len(r) = near[u] + 1 /\ r[1] \in {x} /\ r[near[u] + 1] = u
    BY Ascends
  <2> QED
    BY <1>1, <2>1
<1>3. 1 \in 1..n
  BY <1>1
<1>4. r[1] \in DOMAIN far /\ far[r[1]] <= far[r[n]] + n - 1
  BY <1>2, <1>3, WalkBoundsBack
<1>5. far[x] \in Nat /\ far[u] \in Nat /\ near[u] \in Nat
  BY <1>2, <1>4 DEF IsDistance
<1> QED
  BY <1>1, <1>2, <1>4, <1>5

----------------------------------------------------------------------------
(* The shortest ways of one asset to a side, and what shortestUnion marks. *)

Steady(adj) == [n \in 1..Cardinality(Assets) |-> Arcs(adj)]
RoutesOf(adj) == SimpleRoutes(Steady(adj), Cardinality(Assets))
WaysOf(adj, x, side) == Ways(RoutesOf(adj), x, side)
Injective(r) == \A j, k \in 1..Len(r) : r[j] = r[k] => j = k

LEMMA WaysAre ==
  ASSUME NEW adj, NEW x \in Assets, NEW side, NEW r
  PROVE  r \in WaysOf(adj, x, side) <=> Along(r, adj) /\ Injective(r) /\ r[1] = x /\ r[Len(r)] \in side
<1> DEFINE N == Cardinality(Assets)
<1>1. N \in Nat /\ N >= 1
  <2>1. Cardinality(Assets) # 0
    BY TopologyAssumption, FS_EmptySet
  <2> QED
    BY <2>1, AssetsCount
<1>2. \A n \in 1..(N - 1) : Steady(adj)[n] \subseteq Assets \X Assets
  BY <1>1 DEF Steady, Arcs
<1>3. SimpleRoutes(Steady(adj), N) = {q \in Seq(Assets) : IsRoute(q, Steady(adj)) /\ Len(q) <= N}
  <2>1. PICK n, arcs : n \in Nat /\ n = N /\ arcs = Steady(adj)
    BY <1>1
  <2>2. SimpleRoutes(arcs, n) = {q \in Seq(Assets) : IsRoute(q, arcs) /\ Len(q) <= n}
    BY <1>1, <1>2, <2>1, RoutesAre
  <2> QED
    BY <2>1, <2>2
<1>4. ASSUME NEW k \in 1..(Len(r) - 1), r \in Seq(Assets), Len(r) <= N
      PROVE  <<r[k], r[k + 1]>> \in Steady(adj)[k] <=> {r[k], r[k + 1]} \in adj
  <2>1. PICK n \in Nat : n = Len(r)
    BY <1>4
  <2>2. k \in 1..N /\ k \in 1..n /\ k + 1 \in 1..n
    BY <1>1, <1>4, <2>1
  <2>3. r[k] \in Assets /\ r[k + 1] \in Assets
    BY <1>4, <2>1, <2>2
  <2>4. Steady(adj)[k] = Arcs(adj)
    BY <2>2 DEF Steady
  <2> QED
    BY <2>3, <2>4 DEF Arcs
<1>5. ASSUME r \in Seq(Assets), Len(r) <= N PROVE IsRoute(r, Steady(adj)) <=> Along(r, adj) /\ Injective(r)
  BY <1>4, <1>5 DEF IsRoute, Along, Injective
<1>6. ASSUME Along(r, adj), Injective(r) PROVE r \in Seq(Assets) /\ Len(r) <= N
  BY <1>6, InjectiveFits DEF Along, Injective
<1> QED
  BY <1>3, <1>5, <1>6 DEF WaysOf, RoutesOf, Ways, Ends

LEMMA WayIsLong ==
  ASSUME NEW adj, NEW x \in Assets, NEW side, NEW far, IsDistance(far, adj, side), NEW r \in WaysOf(adj, x, side)
  PROVE  x \in DOMAIN far /\ far[x] \in Nat /\ Len(r) \in Nat /\ Len(r) >= far[x] + 1
<1>1. Along(r, adj) /\ r[1] = x /\ r[Len(r)] \in side
  BY WaysAre
<1>2. PICK n \in Nat : n = Len(r) /\ n >= 1
  BY <1>1 DEF Along
<1>3. r[n] \in DOMAIN far /\ far[r[n]] = 0 /\ 1 \in 1..n
  BY <1>1, <1>2 DEF IsDistance
<1>4. r[1] \in DOMAIN far /\ far[r[1]] <= far[r[n]] + n - 1
  BY <1>1, <1>2, <1>3, WalkBoundsBack
<1>5. far[x] \in Nat
  BY <1>1, <1>4 DEF IsDistance
<1> QED
  BY <1>1, <1>2, <1>3, <1>4, <1>5

(* An asset whose distances to both ends add up is on a shortest way. *)
LEMMA WayThrough ==
  ASSUME NEW adj, NEW x \in Assets, NEW near, IsDistance(near, adj, {x}),
         NEW side, NEW far, IsDistance(far, adj, side),
         NEW u \in DOMAIN near, u \in DOMAIN far, x \in DOMAIN far, near[u] + far[u] = far[x]
  PROVE  \E r \in WaysOf(adj, x, side) : Len(r) = far[x] + 1 /\ u \in Range(r)
<1>1. PICK a \in Nat, b \in Nat : a = near[u] /\ b = far[u] /\ far[x] = a + b
  BY DEF IsDistance
<1>2. PICK p : /\ Along(p, adj) /\ Len(p) = a + 1 /\ p[1] = x /\ p[a + 1] = u
               /\ \A k \in 1..(a + 1) : p[k] \in DOMAIN near /\ near[p[k]] = k - 1
  <2>1. PICK p : /\ Along(p, adj) /\ Len(p) = near[u] + 1 /\ p[1] \in {x} /\ p[near[u] + 1] = u
                 /\ \A k \in 1..(near[u] + 1) : p[k] \in DOMAIN near /\ near[p[k]] = k - 1
    BY Ascends
  <2> QED
    BY <1>1, <2>1
<1>3. PICK q : /\ Along(q, adj) /\ Len(q) = b + 1 /\ q[1] = u /\ q[b + 1] \in side
               /\ \A k \in 1..(b + 1) : q[k] \in DOMAIN far /\ far[q[k]] = b + 1 - k
  <2>1. PICK q : /\ Along(q, adj) /\ Len(q) = far[u] + 1 /\ q[1] = u /\ q[far[u] + 1] \in side
                 /\ \A k \in 1..(far[u] + 1) : q[k] \in DOMAIN far /\ far[q[k]] = far[u] + 1 - k
    BY Descends
  <2> QED
    BY <1>1, <2>1
<1>4. ASSUME NEW k \in 1..(a + 1) PROVE p[k] \in DOMAIN far /\ far[p[k]] = a + b + 1 - k
  <2>1. p[k] \in DOMAIN far /\ far[p[k]] <= far[p[a + 1]] + (a + 1) - k
    <3>1. k \in 1..Len(p) /\ p[Len(p)] \in DOMAIN far /\ Len(p) = a + 1 /\ Along(p, adj)
      BY <1>2
    <3>2. p[k] \in DOMAIN far /\ far[p[k]] <= far[p[Len(p)]] + Len(p) - k
      BY <3>1, WalkBoundsBack
    <3> QED
      BY <3>1, <3>2
  <2>2. p[k] \in DOMAIN near /\ near[p[k]] = k - 1
    BY <1>2
  <2>3. far[x] <= near[p[k]] + far[p[k]]
    BY <2>1, <2>2, Detour
  <2>4. far[p[k]] \in Nat
    BY <2>1 DEF IsDistance
  <2>5. far[p[k]] <= b + (a + 1) - k /\ a + b <= k - 1 + far[p[k]]
    BY <1>1, <1>2, <2>1, <2>2, <2>3
  <2> QED
    BY <2>1, <2>4, <2>5
<1> DEFINE n == a + b + 1
           r == [k \in 1..n |-> IF k <= a THEN p[k] ELSE q[k - a]]
<1>5. p \in [1..(a + 1) -> Assets] /\ q \in [1..(b + 1) -> Assets]
  BY <1>2, <1>3 DEF Along
<1>6. ASSUME NEW k \in 1..n
      PROVE  /\ r[k] \in Assets /\ r[k] \in DOMAIN far /\ far[r[k]] = n - k
             /\ k <= a + 1 => k \in 1..(a + 1) /\ r[k] = p[k]
             /\ k > a => k - a \in 1..(b + 1) /\ r[k] = q[k - a]
  <2>1. CASE k <= a
    <3>1. k \in 1..(a + 1) /\ r[k] = p[k] /\ ~(k > a)
      BY <2>1
    <3> QED
      BY <1>4, <1>5, <3>1
  <2>2. CASE k = a + 1
    <3>1. ~(k <= a) /\ k - a = 1 /\ k \in 1..(a + 1) /\ 1 \in 1..(b + 1) /\ n - k = b /\ b + 1 - 1 = b
      BY <2>2
    <3>2. r[k] = q[1] /\ r[k] = p[k]
      BY <1>2, <1>3, <2>2, <3>1
    <3>3. q[1] \in DOMAIN far /\ far[q[1]] = b /\ q[1] \in Assets
      BY <1>3, <1>5, <3>1
    <3> QED
      BY <3>1, <3>2, <3>3
  <2>3. CASE k > a + 1
    <3>1. PICK j \in 1..(b + 1) : j = k - a /\ ~(k <= a) /\ ~(k <= a + 1) /\ b + 1 - j = n - k
      BY <2>3
    <3>2. r[k] = q[j]
      BY <3>1
    <3>3. q[j] \in DOMAIN far /\ far[q[j]] = b + 1 - j /\ q[j] \in Assets
      BY <1>3, <1>5
    <3> QED
      BY <3>1, <3>2, <3>3
  <2> QED
    BY <2>1, <2>2, <2>3
<1>7. n \in Nat /\ n >= 1 /\ 1 \in 1..n /\ n \in 1..n /\ a + 1 \in 1..n /\ n > a /\ n - a = b + 1
  OBVIOUS
<1>8. r \in Seq(Assets) /\ Len(r) = n
  BY <1>6, <1>7
<1> HIDE DEF r
<1>9. ASSUME NEW k \in 1..(n - 1) PROVE {r[k], r[k + 1]} \in adj
  <2>1. k \in 1..n /\ k + 1 \in 1..n
    BY <1>7
  <2>2. CASE k <= a
    <3>1. k + 1 <= a + 1 /\ k <= a + 1 /\ k \in 1..(a + 1 - 1)
      BY <2>2
    <3>2. r[k] = p[k] /\ r[k + 1] = p[k + 1]
      BY <1>6, <2>1, <3>1
    <3>3. {p[k], p[k + 1]} \in adj
      BY <1>2, <3>1 DEF Along
    <3> QED
      BY <3>2, <3>3
  <2>3. CASE k > a
    <3>1. PICK j \in 1..(b + 1 - 1) : j = k - a /\ j + 1 = k + 1 - a /\ k + 1 > a
      BY <2>3
    <3>2. r[k] = q[j] /\ r[k + 1] = q[j + 1]
      BY <1>6, <2>1, <2>3, <3>1
    <3>3. {q[j], q[j + 1]} \in adj
      <4>1. j \in 1..(Len(q) - 1) /\ Along(q, adj)
        BY <1>3
      <4> QED
        BY <4>1 DEF Along
    <3> QED
      BY <3>2, <3>3
  <2> QED
    BY <2>2, <2>3
<1>10. Along(r, adj)
  BY <1>7, <1>8, <1>9 DEF Along
<1>11. Injective(r)
  <2> SUFFICES ASSUME NEW j \in 1..n, NEW k \in 1..n, r[j] = r[k] PROVE j = k
    BY <1>8 DEF Injective
  <2>1. n - j = n - k
    BY <1>6
  <2> QED
    BY <2>1
<1>12. r[1] = x /\ r[n] \in side /\ r[a + 1] = u
  <2>1. 1 <= a + 1
    OBVIOUS
  <2>2. r[1] = p[1]
    BY <1>6, <1>7, <2>1
  <2>3. r[n] = q[b + 1]
    BY <1>6, <1>7
  <2>4. r[a + 1] = p[a + 1]
    BY <1>6, <1>7
  <2> QED
    BY <1>2, <1>3, <2>2, <2>3, <2>4
<1>13. r \in WaysOf(adj, x, side)
  BY <1>8, <1>10, <1>11, <1>12, WaysAre
<1>14. u \in Range(r) /\ DOMAIN r = 1..n
  BY <1>7, <1>8, <1>12 DEF Range
<1> QED
  BY <1>1, <1>8, <1>13, <1>14

LEMMA ShortestAre ==
  ASSUME NEW adj, NEW x \in Assets, NEW near, IsDistance(near, adj, {x}),
         NEW side, NEW far, IsDistance(far, adj, side)
  PROVE  /\ WaysOf(adj, x, side) # {} <=> x \in DOMAIN far
         /\ \A r : r \in Shortest(WaysOf(adj, x, side)) <=> r \in WaysOf(adj, x, side) /\ Len(r) = far[x] + 1
<1>1. \A r \in WaysOf(adj, x, side) :
        x \in DOMAIN far /\ far[x] \in Nat /\ Len(r) \in Nat /\ Len(r) >= far[x] + 1
  BY WayIsLong
<1>2. ASSUME x \in DOMAIN far PROVE \E r \in WaysOf(adj, x, side) : Len(r) = far[x] + 1
  <2>1. x \in DOMAIN near /\ near[x] = 0 /\ far[x] \in Nat
    BY <1>2 DEF IsDistance
  <2>2. near[x] + far[x] = far[x]
    BY <2>1
  <2> QED
    BY <1>2, <2>1, <2>2, WayThrough
<1>3. ASSUME NEW r \in Shortest(WaysOf(adj, x, side)) PROVE r \in WaysOf(adj, x, side) /\ Len(r) = far[x] + 1
  <2>1. r \in WaysOf(adj, x, side) /\ \A q \in WaysOf(adj, x, side) : Len(r) <= Len(q)
    BY DEF Shortest
  <2>2. x \in DOMAIN far /\ far[x] \in Nat /\ Len(r) \in Nat /\ Len(r) >= far[x] + 1
    BY <1>1, <2>1
  <2>3. PICK q \in WaysOf(adj, x, side) : Len(q) = far[x] + 1
    BY <1>2, <2>2
  <2> QED
    BY <2>1, <2>2, <2>3
<1>4. ASSUME NEW r \in WaysOf(adj, x, side), Len(r) = far[x] + 1 PROVE r \in Shortest(WaysOf(adj, x, side))
  BY <1>1, <1>4 DEF Shortest
<1> QED
  BY <1>1, <1>2, <1>3, <1>4

(* mark: all shortest ways of the anchor, with every step of them. *)
Marks(m, adj, x, side) ==
  /\ m.nodes = UNION {Range(r) : r \in Shortest(WaysOf(adj, x, side))}
  /\ \A r \in Shortest(WaysOf(adj, x, side)) : \A k \in 1..(Len(r) - 1) : {r[k], r[k + 1]} \in m.edges
  /\ m.edges \subseteq adj
  /\ m.edges # {} => m.nodes # {}

LEMMA MarkIs ==
  ASSUME NEW adj, AssetPairs(adj), NEW x \in Assets, NEW near, IsDistance(near, adj, {x}),
         NEW side, NEW far, IsDistance(far, adj, side)
  PROVE  Marks(Mark(adj, near, far), adj, x, side)
<1> DEFINE short == Shortest(WaysOf(adj, x, side))
           m == Mark(adj, near, far)
           both == DOMAIN near \cap DOMAIN far
           sums == {near[u] + far[u] : u \in both}
           best == Min(sums)
           on == {u \in both : near[u] + far[u] = best}
           steps == {y \in on \X DOMAIN far : {y[1], y[2]} \in adj /\ near[y[1]] + 1 + far[y[2]] = best}
<1>1. m = IF both = {} THEN [nodes |-> {}, edges |-> {}]
          ELSE [nodes |-> on \cup {y[2] : y \in steps}, edges |-> {{y[1], y[2]} : y \in steps}]
  BY DEF Mark
<1>2. /\ \A u \in DOMAIN near : near[u] \in Nat /\ u \in Assets
      /\ \A u \in DOMAIN far : far[u] \in Nat /\ u \in Assets
      /\ x \in DOMAIN near /\ near[x] = 0
  BY DEF IsDistance
<1>3. \A u \in both : x \in DOMAIN far /\ far[x] <= near[u] + far[u]
  BY Detour
<1>4. /\ short # {} => x \in DOMAIN far
      /\ \A r : r \in short <=> r \in WaysOf(adj, x, side) /\ Len(r) = far[x] + 1
  <2>1. short \subseteq WaysOf(adj, x, side)
    BY DEF Shortest
  <2> QED
    BY <2>1, ShortestAre
<1>5. CASE x \notin DOMAIN far
  <2>1. both = {} /\ short = {}
    BY <1>3, <1>4, <1>5
  <2> HIDE DEF short, both
  <2>2. m.nodes = {} /\ m.edges = {}
    BY <1>1, <2>1
  <2> HIDE DEF m
  <2>3. Marks(m, adj, x, side)
    BY <2>1, <2>2 DEF Marks, short
  <2> QED
    BY <2>3 DEF m
<1>6. CASE x \in DOMAIN far
  <2>1. x \in both /\ far[x] \in sums /\ \A n \in sums : far[x] <= n
    BY <1>2, <1>3, <1>6
  <2>2. best = far[x]
    <3>1. sums \subseteq Nat
      BY <1>2
    <3> HIDE DEF sums
    <3>2. ASSUME NEW n \in sums, \A k \in sums : n <= k PROVE n = far[x]
      BY <1>2, <1>6, <2>1, <3>1, <3>2
    <3>3. Min(sums) \in sums /\ \A k \in sums : Min(sums) <= k
      BY <2>1 DEF Min
    <3> QED
      BY <3>2, <3>3
  <2>3. both # {}
    BY <2>1
  <2>4. ASSUME NEW y \in steps PROVE y[2] \in on /\ y[1] \in on /\ {y[1], y[2]} \in adj
    <3>1. PICK u, v : /\ u = y[1] /\ v = y[2] /\ u \in on /\ v \in DOMAIN far /\ {u, v} \in adj
                      /\ near[u] + 1 + far[v] = far[x]
      BY <2>2
    <3>2. u \in DOMAIN near /\ v \in Assets /\ near[u] \in Nat /\ far[v] \in Nat
      BY <1>2, <3>1
    <3>3. v \in DOMAIN near /\ near[v] <= near[u] + 1
      BY <3>1, <3>2 DEF IsDistance
    <3>4. near[v] \in Nat /\ far[x] <= near[v] + far[v]
      BY <1>2, <1>3, <3>1, <3>3
    <3>5. near[v] + far[v] = far[x]
      BY <1>2, <1>6, <3>1, <3>2, <3>3, <3>4
    <3> QED
      BY <2>2, <3>1, <3>3, <3>5
  <2>5. \A u : u \in on <=> u \in DOMAIN near /\ u \in DOMAIN far /\ near[u] + far[u] = far[x]
    BY <2>2
  <2>6. \A u \in on, v \in DOMAIN far : {u, v} \in adj /\ near[u] + 1 + far[v] = far[x] => <<u, v>> \in steps
    <3> SUFFICES ASSUME NEW u \in on, NEW v \in DOMAIN far, {u, v} \in adj, near[u] + 1 + far[v] = far[x]
                 PROVE  <<u, v>> \in steps
      OBVIOUS
    <3>1. PICK y : y = <<u, v>>
      OBVIOUS
    <3>2. y[1] = u /\ y[2] = v
      BY <3>1
    <3> HIDE DEF on, best
    <3>3. y \in on \X DOMAIN far
      BY <3>1
    <3> QED
      BY <2>2, <3>1, <3>2, <3>3
  <2> HIDE DEF both, steps, on, short
  <2>7. m.nodes = on /\ m.edges = {{y[1], y[2]} : y \in steps}
    <3> HIDE DEF m
    <3>1. m = [nodes |-> on \cup {y[2] : y \in steps}, edges |-> {{y[1], y[2]} : y \in steps}]
      BY <1>1, <2>3
    <3>2. on \cup {y[2] : y \in steps} = on
      BY <2>4
    <3> QED
      BY <3>1, <3>2
  <2> HIDE DEF m
  <2>8. ASSUME NEW u \in on PROVE \E r \in short : u \in Range(r)
    <3>1. u \in DOMAIN near /\ u \in DOMAIN far /\ near[u] + far[u] = far[x]
      BY <2>5
    <3>2. PICK r \in WaysOf(adj, x, side) : Len(r) = far[x] + 1 /\ u \in Range(r)
      BY <1>6, <3>1, WayThrough
    <3> QED
      BY <1>4, <3>2
  <2>9. ASSUME NEW r \in short, NEW k \in 1..Len(r)
        PROVE  r[k] \in on /\ near[r[k]] = k - 1 /\ far[r[k]] = far[x] + 1 - k
    <3>1. Along(r, adj) /\ r[1] = x /\ r[Len(r)] \in side /\ Len(r) = far[x] + 1
      BY <1>4, WaysAre
    <3>2. r[1] \in DOMAIN near /\ r[Len(r)] \in DOMAIN far /\ far[r[Len(r)]] = 0
      BY <1>2, <3>1 DEF IsDistance
    <3>3. r[k] \in DOMAIN near /\ near[r[k]] <= near[r[1]] + k - 1
      BY <3>1, <3>2, WalkBounds
    <3>4. r[k] \in DOMAIN far /\ far[r[k]] <= far[r[Len(r)]] + Len(r) - k
      BY <3>1, <3>2, WalkBoundsBack
    <3>5. near[r[k]] \in Nat /\ far[r[k]] \in Nat /\ far[x] \in Nat /\ far[x] <= near[r[k]] + far[r[k]]
      BY <1>2, <1>6, <3>3, <3>4, Detour
    <3>6. near[r[k]] <= k - 1 /\ far[r[k]] <= far[x] + 1 - k /\ k \in Int
      BY <1>2, <3>1, <3>2, <3>3, <3>4, <3>5
    <3>7. near[r[k]] = k - 1 /\ far[r[k]] = far[x] + 1 - k /\ near[r[k]] + far[r[k]] = far[x]
      BY <3>5, <3>6
    <3> QED
      BY <2>5, <3>3, <3>4, <3>7
  <2>10. ASSUME NEW r \in short, NEW k \in 1..(Len(r) - 1) PROVE {r[k], r[k + 1]} \in m.edges
    <3>1. Along(r, adj) /\ Len(r) = far[x] + 1 /\ far[x] \in Nat
      BY <1>2, <1>4, <1>6, WaysAre
    <3>2. PICK j : j = k + 1 /\ j \in 1..Len(r) /\ k \in 1..Len(r)
      BY <3>1
    <3>3. r[k] \in on /\ near[r[k]] = k - 1 /\ r[j] \in on /\ far[r[j]] = far[x] + 1 - j
      BY <2>9, <3>2
    <3>4. {r[k], r[j]} \in adj
      BY <3>1, <3>2 DEF Along
    <3>5. near[r[k]] + 1 + far[r[j]] = far[x]
      BY <3>1, <3>2, <3>3
    <3>6. r[j] \in DOMAIN far
      BY <2>5, <3>3
    <3>7. <<r[k], r[j]>> \in steps
      BY <2>6, <3>3, <3>4, <3>5, <3>6
    <3>8. PICK y \in steps : y[1] = r[k] /\ y[2] = r[j]
      BY <3>7
    <3>9. {y[1], y[2]} \in m.edges
      BY <2>7
    <3> QED
      BY <3>2, <3>8, <3>9
  <2>11. m.nodes = UNION {Range(r) : r \in short}
    <3>1. \A r \in short : DOMAIN r = 1..Len(r)
      BY <1>4, WaysAre DEF Along
    <3>2. \A r \in short : Range(r) \subseteq on
      BY <2>9, <3>1 DEF Range
    <3> QED
      BY <2>7, <2>8, <3>2
  <2>12. m.edges \subseteq adj /\ (m.edges # {} => m.nodes # {})
    BY <2>4, <2>7
  <2> HIDE DEF m
  <2>13. Marks(m, adj, x, side)
    BY <2>10, <2>11, <2>12 DEF Marks, short
  <2> QED
    BY <2>13 DEF m
<1> QED
  BY <1>5, <1>6

(* What lies on the shortest ways of some assets to a side. *)
OnShortest(adj, from, side) == OnTheWay(RoutesOf(adj), from, side)

LEMMA NoSide == ASSUME NEW adj, NEW x PROVE WaysOf(adj, x, {}) = {} /\ Shortest(WaysOf(adj, x, {})) = {}
BY DEF WaysOf, Ways, Shortest

(* The anchors that have a way are those that the search from the other side *)
(* has found.                                                                *)
LEMMA HasWay ==
  ASSUME NEW adj, AssetPairs(adj), NEW x \in Assets, NEW side \in SUBSET Assets
  PROVE  /\ WaysOf(adj, x, side) # {} <=> x \in DOMAIN Bfs(adj, side)
         /\ WaysOf(adj, x, side) # {} => Shortest(WaysOf(adj, x, side)) # {}
<1>1. IsDistance(Bfs(adj, {x}), adj, {x}) /\ IsDistance(Bfs(adj, side), adj, side)
  BY BfsIs
<1>2. PICK near, far : near = Bfs(adj, {x}) /\ far = Bfs(adj, side)
  OBVIOUS
<1>3. WaysOf(adj, x, side) # {} <=> x \in DOMAIN far
  BY <1>1, <1>2, ShortestAre
<1>4. ASSUME x \in DOMAIN far PROVE Shortest(WaysOf(adj, x, side)) # {}
  <2>1. x \in DOMAIN near /\ near[x] = 0 /\ far[x] \in Nat
    BY <1>1, <1>2, <1>4 DEF IsDistance
  <2>2. near[x] + far[x] = far[x]
    BY <2>1
  <2>3. PICK r \in WaysOf(adj, x, side) : Len(r) = far[x] + 1
    BY <1>1, <1>2, <1>4, <2>1, <2>2, WayThrough
  <2> QED
    BY <1>1, <1>2, <2>3, ShortestAre
<1> QED
  BY <1>2, <1>3, <1>4

(* shortestUnion: the shortest ways of every anchor, from both sides. *)
Unites(route, adj, from, to) ==
  /\ route.nodes = OnShortest(adj, from, to) \cup OnShortest(adj, to, from)
  /\ \A x \in from : \A r \in Shortest(WaysOf(adj, x, to)) :
       \A k \in 1..(Len(r) - 1) : {r[k], r[k + 1]} \in route.edges
  /\ route.edges \subseteq adj
  /\ route.edges # {} => route.nodes # {}

LEMMA UnionIs ==
  ASSUME NEW adj, AssetPairs(adj), NEW from \in SUBSET Assets, NEW to \in SUBSET Assets
  PROVE  Unites(ShortestUnion(adj, from, to), adj, from, to)
<1> DEFINE route == ShortestUnion(adj, from, to)
           out(x) == Mark(adj, Bfs(adj, {x}), Bfs(adj, to))
           home(x) == Mark(adj, Bfs(adj, {x}), Bfs(adj, from))
           marks == {out(x) : x \in from} \cup {home(x) : x \in to}
<1>1. route = IF from = {} \/ to = {} THEN [nodes |-> {}, edges |-> {}]
              ELSE [nodes |-> UNION {x.nodes : x \in marks}, edges |-> UNION {x.edges : x \in marks}]
  BY DEF ShortestUnion
<1>2. ASSUME NEW x \in Assets, NEW side \in SUBSET Assets
      PROVE  Marks(Mark(adj, Bfs(adj, {x}), Bfs(adj, side)), adj, x, side)
  <2>1. IsDistance(Bfs(adj, {x}), adj, {x}) /\ IsDistance(Bfs(adj, side), adj, side)
    BY BfsIs
  <2> QED
    BY <2>1, MarkIs
<1>3. ASSUME NEW x \in from
      PROVE  /\ out(x).nodes = UNION {Range(r) : r \in Shortest(WaysOf(adj, x, to))}
             /\ \A r \in Shortest(WaysOf(adj, x, to)) : \A k \in 1..(Len(r) - 1) : {r[k], r[k + 1]} \in out(x).edges
             /\ out(x).edges \subseteq adj /\ (out(x).edges # {} => out(x).nodes # {})
  <2>1. Marks(out(x), adj, x, to)
    BY <1>2
  <2> HIDE DEF out
  <2> QED
    BY <2>1 DEF Marks
<1>4. ASSUME NEW x \in to
      PROVE  /\ home(x).nodes = UNION {Range(r) : r \in Shortest(WaysOf(adj, x, from))}
             /\ home(x).edges \subseteq adj /\ (home(x).edges # {} => home(x).nodes # {})
  <2>1. Marks(home(x), adj, x, from)
    BY <1>2
  <2> HIDE DEF home
  <2> QED
    BY <2>1 DEF Marks
<1> HIDE DEF out, home
<1>5. CASE from = {} \/ to = {}
  <2>1. \A x \in from : Shortest(WaysOf(adj, x, to)) = {}
    BY <1>5, NoSide
  <2>2. \A x \in to : Shortest(WaysOf(adj, x, from)) = {}
    BY <1>5, NoSide
  <2>3. OnShortest(adj, from, to) = {} /\ OnShortest(adj, to, from) = {}
    BY <2>1, <2>2 DEF OnShortest, OnTheWay, WaysOf
  <2> HIDE DEF route
  <2>4. route.nodes = {} /\ route.edges = {}
    BY <1>1, <1>5
  <2>5. Unites(route, adj, from, to)
    BY <2>1, <2>3, <2>4 DEF Unites
  <2> QED
    BY <2>5 DEF route
<1>6. CASE from # {} /\ to # {}
  <2> HIDE DEF route
  <2>1. route.nodes = UNION {x.nodes : x \in marks} /\ route.edges = UNION {x.edges : x \in marks}
    <3> HIDE DEF marks
    <3> QED
      BY <1>1, <1>6
  <2>2. \A m \in marks : m.edges \subseteq adj /\ (m.edges # {} => m.nodes # {})
    BY <1>3, <1>4
  <2>3. \A x \in from : out(x) \in marks
    OBVIOUS
  <2>4. route.nodes = OnShortest(adj, from, to) \cup OnShortest(adj, to, from)
    <3>1. ASSUME NEW y PROVE y \in route.nodes <=> (\E x \in from : y \in out(x).nodes) \/ (\E x \in to : y \in home(x).nodes)
      <4>1. y \in route.nodes <=> \E m \in marks : y \in m.nodes
        <5> HIDE DEF marks
        <5> QED
          BY <2>1
      <4> QED
        BY <4>1
    <3>2. ASSUME NEW y PROVE y \in OnShortest(adj, from, to) <=> \E x \in from : y \in out(x).nodes
      BY <1>3 DEF OnShortest, OnTheWay, WaysOf
    <3>3. ASSUME NEW y PROVE y \in OnShortest(adj, to, from) <=> \E x \in to : y \in home(x).nodes
      BY <1>4 DEF OnShortest, OnTheWay, WaysOf
    <3> HIDE DEF marks
    <3> QED
      BY <3>1, <3>2, <3>3
  <2>5. ASSUME NEW x \in from, NEW r \in Shortest(WaysOf(adj, x, to)), NEW k \in 1..(Len(r) - 1)
        PROVE  {r[k], r[k + 1]} \in route.edges
    <3>1. {r[k], r[k + 1]} \in out(x).edges
      BY <1>3
    <3> HIDE DEF marks
    <3> QED
      BY <2>1, <2>3, <3>1
  <2> HIDE DEF marks
  <2>6. route.edges \subseteq adj /\ (route.edges # {} => route.nodes # {})
    BY <2>1, <2>2
  <2>7. Unites(route, adj, from, to)
    BY <2>4, <2>5, <2>6 DEF Unites
  <2> QED
    BY <2>7 DEF route
<1> QED
  BY <1>5, <1>6

(* A way there is a way back. *)
LEMMA WayBack ==
  ASSUME NEW adj, NEW x \in Assets, NEW side \in SUBSET Assets, NEW other, x \in other, NEW r \in WaysOf(adj, x, side)
  PROVE  \E y \in side : Back(r) \in WaysOf(adj, y, other) /\ Len(Back(r)) = Len(r) /\ y = Ends(r) /\ Len(r) \in Nat
<1>1. Along(r, adj) /\ Injective(r) /\ r[1] = x /\ r[Len(r)] \in side
  BY WaysAre
<1>2. PICK n \in Nat : n = Len(r) /\ n >= 1
  BY <1>1 DEF Along
<1>3. PICK b : b = Back(r)
  OBVIOUS
<1>4. Along(b, adj) /\ Len(b) = n /\ \A k \in 1..n : b[k] = r[n + 1 - k] /\ n + 1 - k \in 1..n
  BY <1>1, <1>2, <1>3, BackAlong
<1>5. Injective(b)
  <2> SUFFICES ASSUME NEW j \in 1..n, NEW k \in 1..n, b[j] = b[k] PROVE j = k
    BY <1>4 DEF Injective
  <2>1. n + 1 - j = n + 1 - k
    BY <1>1, <1>2, <1>4 DEF Injective
  <2> QED
    BY <2>1
<1>6. 1 \in 1..n /\ n \in 1..n /\ n + 1 - 1 = n /\ n + 1 - n = 1
  BY <1>2
<1>7. b[1] = r[n] /\ b[n] = r[1]
  BY <1>4, <1>6
<1>8. b \in WaysOf(adj, r[n], other) /\ r[n] \in side
  BY <1>1, <1>2, <1>4, <1>5, <1>7, WaysAre
<1> QED
  BY <1>2, <1>3, <1>4, <1>8 DEF Ends

(* shortestUnion marks something exactly when some anchor has a way. *)
Finds(adj, from, to) ==
  ShortestUnion(adj, from, to).nodes # {} <=> \E x \in from : WaysOf(adj, x, to) # {}

LEMMA UnionFinds ==
  ASSUME NEW adj, AssetPairs(adj), NEW from \in SUBSET Assets, NEW to \in SUBSET Assets
  PROVE  Finds(adj, from, to)
<1>1. ShortestUnion(adj, from, to).nodes = OnShortest(adj, from, to) \cup OnShortest(adj, to, from)
  BY UnionIs DEF Unites
<1>2. ASSUME NEW side \in SUBSET Assets, NEW x \in Assets, NEW r \in WaysOf(adj, x, side)
      PROVE  Along(r, adj) /\ Injective(r) /\ r[1] = x /\ r[Len(r)] \in side /\ x \in Range(r)
  <2>1. Along(r, adj) /\ Injective(r) /\ r[1] = x /\ r[Len(r)] \in side
    BY WaysAre
  <2>2. 1 \in DOMAIN r
    BY <2>1 DEF Along
  <2> QED
    BY <2>1, <2>2 DEF Range
<1>3. ASSUME NEW x \in from, WaysOf(adj, x, to) # {} PROVE OnShortest(adj, from, to) # {}
  <2>1. PICK r : r \in Shortest(WaysOf(adj, x, to))
    BY <1>3, HasWay
  <2>2. x \in Range(r)
    BY <1>2, <2>1 DEF Shortest
  <2> QED
    BY <2>1, <2>2 DEF OnShortest, OnTheWay, WaysOf
<1>4. ASSUME NEW y \in OnShortest(adj, from, to) PROVE \E x \in from : WaysOf(adj, x, to) # {}
  BY DEF OnShortest, OnTheWay, WaysOf, Shortest
<1>5. ASSUME NEW y \in OnShortest(adj, to, from) PROVE \E x \in from : WaysOf(adj, x, to) # {}
  <2>0. PICK z \in to : WaysOf(adj, z, from) # {}
    BY DEF OnShortest, OnTheWay, WaysOf, Shortest
  <2>1. PICK r : r \in WaysOf(adj, z, from)
    BY <2>0
  <2>2. PICK x \in from : Back(r) \in WaysOf(adj, x, to)
    BY <2>1, WayBack
  <2> QED
    BY <2>2
<1> QED
  BY <1>1, <1>3, <1>4, <1>5 DEF Finds

(* pathHops: the length of the shortest way across. *)
Across(adj, from, to) == Crossings(RoutesOf(adj), from, to)

LEMMA HopsAre ==
  ASSUME NEW adj, AssetPairs(adj), NEW from \in SUBSET Assets, NEW to \in SUBSET Assets,
         Across(adj, from, to) # {}
  PROVE  \E r \in Shortest(Across(adj, from, to)) : PathHops(adj, from, to) = Len(r) - 1
<1>1. PICK dist : dist = Bfs(adj, from) /\ IsDistance(dist, adj, from)
  BY BfsIs
<1> DEFINE T == {dist[x] : x \in to \cap DOMAIN dist}
<1>2. PathHops(adj, from, to) = Min(T)
  BY <1>1 DEF PathHops
<1>3. ASSUME NEW q \in Across(adj, from, to)
      PROVE  Len(q) \in Nat /\ \E y \in to : y \in DOMAIN dist /\ Len(q) >= dist[y] + 1
  <2>1. PICK x \in from : q \in WaysOf(adj, x, to)
    BY DEF Across, Crossings, WaysOf
  <2>2. PICK y \in to : Back(q) \in WaysOf(adj, y, from) /\ Len(Back(q)) = Len(q) /\ Len(q) \in Nat
    BY <2>1, WayBack
  <2>3. y \in DOMAIN dist /\ Len(Back(q)) >= dist[y] + 1
    BY <1>1, <2>2, WayIsLong
  <2> QED
    BY <2>2, <2>3
<1>4. T \subseteq Nat
  BY <1>1 DEF IsDistance
<1>5. T # {}
  BY <1>3
<1>6. PICK n \in T : \A m \in T : n <= m
  <2> HIDE DEF T
  <2> QED
    BY <1>4, <1>5, LeastNat
<1>7. Min(T) = n
  <2> HIDE DEF T
  <2>1. PICK k : k = Min(T) /\ k \in T /\ \A m \in T : k <= m
    BY <1>6 DEF Min
  <2>2. k <= n /\ n <= k /\ k \in Nat /\ n \in Nat
    BY <1>4, <1>6, <2>1
  <2> QED
    BY <2>1, <2>2
<1>8. PICK u \in to : u \in DOMAIN dist /\ dist[u] = n
  BY <1>6
<1>9. PICK r \in WaysOf(adj, u, from) : Len(r) = n + 1
  <2> HIDE DEF T
  <2>0. u \in Assets /\ {u} \in SUBSET Assets
    OBVIOUS
  <2>1. PICK home : home = Bfs(adj, {u}) /\ IsDistance(home, adj, {u})
    BY <2>0, BfsIs
  <2>2. u \in DOMAIN home /\ home[u] = 0 /\ dist[u] \in Nat
    BY <1>1, <1>8, <2>1 DEF IsDistance
  <2>3. home[u] + dist[u] = dist[u] /\ u \in DOMAIN dist
    BY <1>8, <2>2
  <2>4. \E r \in WaysOf(adj, u, from) : Len(r) = dist[u] + 1
    BY <1>1, <2>0, <2>1, <2>2, <2>3, WayThrough
  <2> QED
    BY <1>8, <2>4
<1>10. PICK x \in from : Back(r) \in WaysOf(adj, x, to) /\ Len(Back(r)) = n + 1
  <2> HIDE DEF T
  <2>0. u \in Assets /\ u \in to /\ r \in WaysOf(adj, u, from)
    BY <1>9
  <2>1. PICK x \in from : Back(r) \in WaysOf(adj, x, to) /\ Len(Back(r)) = Len(r)
    BY <2>0, WayBack
  <2> QED
    BY <1>9, <2>1
<1>11. Back(r) \in Across(adj, from, to)
  BY <1>10 DEF Across, Crossings, WaysOf
<1>12. n \in Nat
  BY <1>4, <1>6
<1>13. ASSUME NEW q \in Across(adj, from, to) PROVE Len(Back(r)) <= Len(q)
  <2>1. PICK y \in to : y \in DOMAIN dist /\ Len(q) >= dist[y] + 1 /\ Len(q) \in Nat
    BY <1>3
  <2>2. dist[y] \in T
    BY <2>1
  <2> HIDE DEF T
  <2>3. PICK k \in Nat : k = dist[y] /\ n <= k
    BY <1>4, <1>6, <2>2
  <2>4. PICK len \in Nat : len = Len(q) /\ len >= k + 1
    BY <2>1, <2>3
  <2>5. n + 1 <= len
    BY <1>12, <2>3, <2>4
  <2> QED
    BY <1>10, <2>4, <2>5
<1>14. Back(r) \in Shortest(Across(adj, from, to))
  <2> HIDE DEF T
  <2> QED
    BY <1>11, <1>13, Zenon DEF Shortest
<1>15. Len(Back(r)) - 1 = n
  BY <1>10, <1>12
<1> QED
  BY <1>2, <1>7, <1>14, <1>15

----------------------------------------------------------------------------
(* The cut at the budget, by an order. *)
Budgeted(ids, lt) == {x \in ids : Cardinality({y \in ids : <<y, x>> \in lt}) < Budget}

(* Who comes before everybody outside a set that fits is kept. *)
LEMMA FirstFit ==
  ASSUME NEW ids, IsFiniteSet(ids), NEW lt, \A x \in ids : <<x, x>> \notin lt,
         NEW A \in SUBSET ids, Cardinality(A) <= Budget,
         \A x \in A, y \in ids : <<y, x>> \in lt => y \in A
  PROVE  A \subseteq Budgeted(ids, lt)
<1> SUFFICES ASSUME NEW x \in A PROVE x \in Budgeted(ids, lt)
  OBVIOUS
<1> DEFINE P == {y \in ids : <<y, x>> \in lt}
<1>1. P \subseteq A /\ x \notin P
  OBVIOUS
<1>2. IsFiniteSet(A)
  BY FS_Subset
<1> HIDE DEF P
<1>3. IsFiniteSet(P) /\ Cardinality(P) <= Cardinality(A) /\ (Cardinality(P) = Cardinality(A) => P = A)
  BY <1>1, <1>2, FS_Subset
<1>4. Cardinality(P) \in Nat /\ Cardinality(A) \in Nat /\ Cardinality(P) # Cardinality(A)
  BY <1>1, <1>2, <1>3, FS_CardinalityType
<1>5. Cardinality(P) < Budget
  BY <1>3, <1>4, BudgetAssumption
<1> QED
  BY <1>5 DEF Budgeted, P

LEMMA AllFit ==
  ASSUME NEW ids, IsFiniteSet(ids), NEW lt, \A x \in ids : <<x, x>> \notin lt, Cardinality(ids) <= Budget
  PROVE  Budgeted(ids, lt) = ids
<1>1. ids \subseteq Budgeted(ids, lt)
  BY FirstFit
<1> QED
  BY <1>1 DEF Budgeted

(* Nobody who is cut comes before somebody who is kept. *)
LEMMA CutIsLast ==
  ASSUME NEW ids, IsFiniteSet(ids), NEW lt,
         \A x, y, z \in ids : <<x, y>> \in lt /\ <<y, z>> \in lt => <<x, z>> \in lt,
         NEW x \in ids, x \notin Budgeted(ids, lt), NEW a \in Budgeted(ids, lt)
  PROVE  <<x, a>> \notin lt
<1> SUFFICES ASSUME <<x, a>> \in lt PROVE FALSE
  OBVIOUS
<1> DEFINE P(y) == {z \in ids : <<z, y>> \in lt}
<1>1. a \in ids /\ Cardinality(P(a)) < Budget /\ ~(Cardinality(P(x)) < Budget)
  BY DEF Budgeted
<1>2. P(x) \subseteq P(a)
  BY <1>1
<1>3. IsFiniteSet(P(a))
  BY FS_Subset
<1>4. Cardinality(P(x)) <= Cardinality(P(a)) /\ Cardinality(P(x)) \in Nat /\ Cardinality(P(a)) \in Nat
  <2> HIDE DEF P
  <2> QED
    BY <1>2, <1>3, FS_Subset, FS_CardinalityType
<1> QED
  BY <1>1, <1>4, BudgetAssumption

----------------------------------------------------------------------------
(* The path. *)

LEMMA PlantIs ==
  ASSUME t \in Topologies
  PROVE  AssetPairs(Live) /\ AssetPairs(Patched) /\ Live \subseteq Patched
<1>1. \A x \in DataCables : x.a \in Assets /\ x.b \in Assets
  BY PlantAssumption DEF DataCables, Cables, Active
<1>2. AssetPairs(Patched)
  BY <1>1 DEF AssetPairs, Patched
<1>3. Live \subseteq Patched
  BY DEF Live, Patched
<1> QED
  BY <1>2, <1>3 DEF AssetPairs

LEMMA EndsAre ==
  ASSUME t \in Topologies, NEW e
  PROVE  PathEnd(e) \in SUBSET Assets
<1>1. \A i \in t.instance : i.host \in Assets
  BY TablesAssumption DEF Tables
<1> QED
  BY <1>1 DEF PathEnd

LEMMA ChassisAre ==
  ASSUME t \in Topologies, NEW from
  PROVE  AttachedChassis(from) \in SUBSET Assets /\ AttachedChassis(from) \cap from = {}
<1>1. \A x \in t.member : x.asset \in Assets
  BY TablesAssumption DEF Tables
<1>2. PICK groups : AttachedChassis(from) = {x.asset : x \in {y \in Active(t.member) : y.group \in groups}} \ from
  BY DEF AttachedChassis
<1>3. Active(t.member) \subseteq t.member
  BY DEF Active
<1> QED
  BY <1>1, <1>2, <1>3

LEMMA ShownAreAssets ==
  ASSUME NEW adj, NEW from \in SUBSET Assets, NEW to PROVE OnShortest(adj, from, to) \subseteq Assets
<1>1. ASSUME NEW x \in from, NEW r \in WaysOf(adj, x, to) PROVE Range(r) \subseteq Assets
  <2>1. r \in Seq(Assets)
    BY WaysAre DEF Along
  <2> QED
    BY <2>1 DEF Range
<1>2. \A r, S : r \in Shortest(S) => r \in S
  BY DEF Shortest
<1> QED
  BY <1>1, <1>2 DEF OnShortest, OnTheWay, WaysOf

LEMMA BetweenIs ==
  ASSUME t \in Topologies, NEW from \in SUBSET Assets, NEW to \in SUBSET Assets,
         NEW far, far = to \/ (far = {} /\ to \cap from = {})
  PROVE  /\ Pictured(PathBetween(from, to, far), RoutesOf(Live), far)
         /\ PathBetween(from, to, far).from = from /\ PathBetween(from, to, far).to = to
         /\ PathBetween(from, to, far).blocked
              = IF PathBetween(from, to, far).found THEN {} ELSE BlockingPorts(from, to)
<1>0. AssetPairs(Live)
  BY PlantIs
<1>1. PICK route, toNear, toFar :
        route = ShortestUnion(Live, from, to) /\ toNear = Bfs(Live, from) /\ toFar = Bfs(Live, to)
  OBVIOUS
<1>2. IsDistance(toNear, Live, from) /\ IsDistance(toFar, Live, to)
  BY <1>0, <1>1, BfsIs
<1>3. route.nodes = OnShortest(Live, from, to) \cup OnShortest(Live, to, from)
  BY <1>0, <1>1, UnionIs DEF Unites
<1> DEFINE all == route.nodes \cup from \cup far
           hop(x) == IF x \in DOMAIN toNear THEN toNear[x] ELSE Cardinality(Assets)
           first(x, y) ==
             IF (x \in from \cup to) # (y \in from \cup to) THEN x \in from \cup to
             ELSE IF hop(x) # hop(y) THEN hop(x) < hop(y) ELSE Rank[x] < Rank[y]
           lt == {e \in Assets \X Assets : first(e[1], e[2])}
           kept == {x \in all : Cardinality({y \in all : first(y, x)}) < Budget}
           p == PathBetween(from, to, far)
<1>4. p = [from |-> from, to |-> to, found |-> route.nodes # {},
           hops |-> IF route.nodes # {} THEN PathHops(Live, from, to) ELSE 0,
           unrouted |-> kept \cap ((IF to = {} THEN {} ELSE from \ DOMAIN toFar) \cup (far \ DOMAIN toNear)),
           blocked |-> IF route.nodes = {} THEN BlockingPorts(from, to) ELSE {},
           drawn |-> kept, elided |-> Cardinality(all \ kept),
           links |-> {x \in LinksInside(kept) : {x.a, x.b} \in route.edges}]
  <2>1. p = Drawn(from, to, far, route, toNear, toFar)
    BY <1>1 DEF PathBetween
  <2> HIDE DEF p
  <2> QED
    BY <2>1 DEF Drawn, FirstBy
<1>5. all \in SUBSET Assets
  <2>3. OnShortest(Live, from, to) \subseteq Assets /\ OnShortest(Live, to, from) \subseteq Assets
    BY ShownAreAssets
  <2> QED
    BY <1>3, <2>3
<1>6. IsFiniteSet(all)
  <2> HIDE DEF all
  <2> QED
    BY <1>5, TopologyAssumption, FS_Subset
<1>7. \A x, y \in Assets : <<x, y>> \in lt <=> first(x, y)
  <2> HIDE DEF first
  <2> QED
    OBVIOUS
<1>8. kept = Budgeted(all, lt)
  <2> HIDE DEF first, all, lt
  <2>1. ASSUME NEW x \in all PROVE {y \in all : first(y, x)} = {y \in all : <<y, x>> \in lt}
    BY <1>5, <1>7
  <2> QED
    BY <2>1 DEF Budgeted
<1>9. \A x \in all : <<x, x>> \notin lt
  <2> SUFFICES ASSUME NEW x \in Assets, first(x, x) PROVE FALSE
    <3> HIDE DEF first, all, lt
    <3> QED
      BY <1>5, <1>7
  <2>1. Rank[x] < Rank[x] /\ Rank[x] \in Int
    BY RankAssumption
  <2> QED
    BY <2>1
<1>10. ASSUME Cardinality(all) <= Budget PROVE Cardinality(all \ kept) = 0
  <2>1. kept = all
    <3> HIDE DEF all, kept, lt
    <3> QED
      BY <1>6, <1>8, <1>9, <1>10, AllFit
  <2> HIDE DEF all, kept
  <2>2. all \ kept = {}
    BY <2>1
  <2> QED
    BY <2>2, FS_EmptySet
<1>11. ASSUME Cardinality(from \cup far) <= Budget PROVE from \cup far \subseteq kept
  <2> DEFINE A == from \cup far
  <2>1. A \in SUBSET all
    OBVIOUS
  <2>2. ASSUME NEW x \in A, NEW y \in all, first(y, x) PROVE y \in A
    <3>1. x \in from \cup to /\ y \in from \cup to
      BY <2>2
    <3>2. CASE far = to
      BY <3>1, <3>2
    <3>3. CASE far = {}
      <4>1. x \in from /\ x \in DOMAIN toNear /\ toNear[x] = 0 /\ hop(x) = 0
        BY <1>2, <3>3 DEF IsDistance
      <4>2. SUFFICES ASSUME y \notin from PROVE FALSE
        OBVIOUS
      <4>3. hop(y) \in Nat /\ hop(y) # 0
        <5>1. CASE y \in DOMAIN toNear
          BY <1>2, <4>2, <5>1 DEF IsDistance
        <5>2. CASE y \notin DOMAIN toNear
          <6>1. Cardinality(Assets) # 0
            BY <1>5, TopologyAssumption, FS_EmptySet
          <6> QED
            BY <5>2, <6>1, AssetsCount
        <5> QED
          BY <5>1, <5>2
      <4>4. hop(y) < hop(x)
        BY <2>2, <3>1, <4>1, <4>3
      <4> QED
        BY <4>1, <4>3, <4>4
    <3> QED
      BY <3>2, <3>3
  <2>3. \A x \in A, y \in all : <<y, x>> \in lt => y \in A
    <3> HIDE DEF first, lt, all
    <3> QED
      BY <1>5, <1>7, <2>1, <2>2
  <2> HIDE DEF first, lt, all, kept
  <2>4. Cardinality(A) <= Budget
    BY <1>11
  <2> HIDE DEF A
  <2>5. A \subseteq Budgeted(all, lt)
    BY <1>6, <1>9, <2>1, <2>3, <2>4, FirstFit
  <2> QED
    BY <1>8, <2>5 DEF A
<1> HIDE DEF hop, first, lt
<1>12. (route.nodes # {}) <=> (Across(Live, from, to) # {})
  <2>1. ShortestUnion(Live, from, to).nodes # {} <=> \E x \in from : WaysOf(Live, x, to) # {}
    BY <1>0, UnionFinds DEF Finds
  <2> QED
    BY <1>1, <2>1 DEF Across, Crossings, WaysOf
<1>13. \A x \in from : WaysOf(Live, x, to) = {} <=> x \notin DOMAIN toFar
  BY <1>0, <1>1, HasWay
<1>14. \A x \in far : WaysOf(Live, x, from) = {} <=> x \notin DOMAIN toNear
  BY <1>0, <1>1, HasWay
<1>15. kept \subseteq all
  OBVIOUS
<1>16. p.found = (Across(Live, from, to) # {}) /\ p.from = from /\ p.to = to
  <2> HIDE DEF kept, all, p
  <2> QED
    BY <1>4, <1>12
<1>21. p.blocked = IF p.found THEN {} ELSE BlockingPorts(from, to)
  <2> HIDE DEF kept, all, p
  <2> QED
    BY <1>4
<1>17. p.found => \E r \in Shortest(Across(Live, from, to)) : p.hops = Len(r) - 1
  <2> HIDE DEF kept, all, p
  <2>1. p.found => p.hops = PathHops(Live, from, to)
    BY <1>4
  <2>2. Across(Live, from, to) # {} => \E r \in Shortest(Across(Live, from, to)) : PathHops(Live, from, to) = Len(r) - 1
    BY <1>0, HopsAre
  <2> QED
    BY <1>16, <2>1, <2>2
<1>18. p.drawn = kept /\ p.elided = Cardinality(all \ kept)
  <2> HIDE DEF kept, all, p
  <2> QED
    BY <1>4
<1>19. p.unrouted = kept \cap ({x \in from : to # {} /\ WaysOf(Live, x, to) = {}}
                               \cup {x \in far : WaysOf(Live, x, from) = {}})
  <2> HIDE DEF kept, all, p
  <2>1. p.unrouted = kept \cap ((IF to = {} THEN {} ELSE from \ DOMAIN toFar) \cup (far \ DOMAIN toNear))
    BY <1>4
  <2>2. (IF to = {} THEN {} ELSE from \ DOMAIN toFar) = {x \in from : to # {} /\ WaysOf(Live, x, to) = {}}
    BY <1>13
  <2>3. far \ DOMAIN toNear = {x \in far : WaysOf(Live, x, from) = {}}
    BY <1>14
  <2> QED
    BY <2>1, <2>2, <2>3
<1>20. all = from \cup far \cup OnShortest(Live, from, to) \cup OnShortest(Live, to, from)
  BY <1>3
<1> HIDE DEF kept, all, p
<1> QED
  <2>1. Pictured(p, RoutesOf(Live), far)
    BY <1>10, <1>11, <1>15, <1>16, <1>17, <1>18, <1>19, <1>20 DEF Pictured, OnShortest, Across, WaysOf
  <2> QED
    BY <1>16, <1>21, <2>1 DEF p

(* The two sides of a path. *)
LEMMA SidesAre ==
  ASSUME t \in Topologies, NEW near, NEW end
  PROVE  \E from, to, far :
        /\ from \in SUBSET Assets /\ to \in SUBSET Assets
        /\ Path(near, end) = PathBetween(from, to, far)
        /\ far = (IF end = None THEN {} ELSE to)
        /\ far = to \/ (far = {} /\ to \cap from = {})
        /\ from = PathEnd(near) /\ (end # None => to = PathEnd(end))
<1>1. CASE end = None
  <2>1. PICK from, to : from = PathEnd(near) /\ to = AttachedChassis(from)
    OBVIOUS
  <2>2. from \in SUBSET Assets /\ to \in SUBSET Assets /\ to \cap from = {}
    BY <2>1, EndsAre, ChassisAre
  <2>3. Path(near, end) = PathBetween(from, to, {})
    BY <1>1, <2>1 DEF Path
  <2> QED
    BY <1>1, <2>1, <2>2, <2>3
<1>2. CASE end # None
  <2>1. PICK from, to : from = PathEnd(near) /\ to = PathEnd(end)
    OBVIOUS
  <2>2. from \in SUBSET Assets /\ to \in SUBSET Assets
    BY <2>1, EndsAre
  <2>3. Path(near, end) = PathBetween(from, to, to)
    BY <1>2, <2>1 DEF Path
  <2> QED
    BY <1>2, <2>1, <2>2, <2>3
<1> QED
    BY <1>1, <1>2

LEMMA PathExact ==
  ASSUME t \in Topologies
  PROVE  PathIsExact
<1> SUFFICES ASSUME NEW near \in Anyone, NEW end \in Anyone \cup {None}, NEW p, p = Path(near, end)
             PROVE  /\ Pictured(p, RoutesOf(Live), IF end = None THEN {} ELSE p.to)
                    /\ \A x \in PathWorkloads(p.drawn, {near, end} \cap Services).placements :
                          x.host \in p.from \cup p.to \/ t.life[x.host] = "retired"
  BY DEF PathIsExact, RoutesOf, Steady
<1>1. PICK from, to, far :
        /\ from \in SUBSET Assets /\ to \in SUBSET Assets
        /\ p = PathBetween(from, to, far)
        /\ far = (IF end = None THEN {} ELSE to)
        /\ far = to \/ (far = {} /\ to \cap from = {})
        /\ from = PathEnd(near) /\ (end # None => to = PathEnd(end))
  BY SidesAre
<1>2. Pictured(p, RoutesOf(Live), far) /\ p.from = from /\ p.to = to
  BY <1>1, BetweenIs
<1>3. ASSUME NEW x \in PathWorkloads(p.drawn, {near, end} \cap Services).placements
      PROVE  x.host \in from \cup to \/ t.life[x.host] = "retired"
  <2>1. x \in t.instance /\ x.service \in {near, end} \cap Services
    BY DEF PathWorkloads, Workloads
  <2>2. x.service \notin Assets /\ x.service # None
    BY <2>1, PlantAssumption, MediaAssumption
  <2>3. x.host \in PathEnd(x.service) \/ t.life[x.host] = "retired"
    BY <2>1, <2>2 DEF PathEnd
  <2> QED
    BY <1>1, <2>1, <2>2, <2>3
<1> QED
  BY <1>1, <1>2, <1>3

(* Without a management cable beside it, a pair that is patched is one of     *)
(* data cables only.                                                          *)
LEMMA PortsExplain ==
  ASSUME t \in Topologies, NEW from \in SUBSET Assets, NEW to \in SUBSET Assets,
         \A x \in Cables, y \in DataCables : x.mgmt => {x.a, x.b} # {y.a, y.b},
         Across(Live, from, to) = {},
         Cardinality(ShortestUnion(Patched, from, to).nodes) <= Budget,
         NEW blocked, blocked = BlockingPorts(from, to)
  PROVE  /\ (blocked # {}) = (ShortestUnion(Patched, from, to).nodes # {})
         /\ blocked # {} => ShortestUnion(Live \cup {{x.a, x.b} : x \in blocked}, from, to).nodes # {}
<1> DEFINE opened == Live \cup {{x.a, x.b} : x \in blocked}
<1>0. AssetPairs(Patched) /\ AssetPairs(Live)
  BY PlantIs
<1>1. PICK route : route = ShortestUnion(Patched, from, to) /\ Unites(route, Patched, from, to)
  BY <1>0, UnionIs
<1> DEFINE lt == {e \in Assets \X Assets : Rank[e[1]] < Rank[e[2]]}
           along == {x \in LinksInside(route.nodes) : {x.a, x.b} \in route.edges}
<1>2. route.nodes \in SUBSET Assets
  <2>1. OnShortest(Patched, from, to) \subseteq Assets /\ OnShortest(Patched, to, from) \subseteq Assets
    BY ShownAreAssets
  <2> QED
    BY <1>1, <2>1 DEF Unites
<1>3. FirstBy(route.nodes, LAMBDA x, y : Rank[x] < Rank[y]) = route.nodes
  <2>1. PICK ids : ids = route.nodes
    OBVIOUS
  <2>2. FirstBy(ids, LAMBDA x, y : Rank[x] < Rank[y]) = {x \in ids : Cardinality({y \in ids : Rank[y] < Rank[x]}) < Budget}
    BY DEF FirstBy
  <2>3. ASSUME NEW x \in ids PROVE {y \in ids : Rank[y] < Rank[x]} = {y \in ids : <<y, x>> \in lt}
    BY <1>2, <2>1
  <2> HIDE DEF lt
  <2>4. {x \in ids : Cardinality({y \in ids : Rank[y] < Rank[x]}) < Budget} = Budgeted(ids, lt)
    BY <2>3 DEF Budgeted
  <2>5. \A x \in ids : <<x, x>> \notin lt
    BY <1>2, <2>1, RankAssumption DEF lt
  <2>6. IsFiniteSet(ids) /\ Cardinality(ids) <= Budget
    BY <1>1, <1>2, <2>1, TopologyAssumption, FS_Subset
  <2>7. Budgeted(ids, lt) = ids
    BY <2>5, <2>6, AllFit
  <2> QED
    BY <2>1, <2>2, <2>4, <2>7
<1>4. blocked = {x \in along : \A y \in along : {y.a, y.b} = {x.a, x.b} => ~y.up}
  BY <1>1, <1>3 DEF BlockingPorts
<1>5. ASSUME NEW x \in along PROVE x \in DataCables
  <2>1. x \in Cables /\ {x.a, x.b} \in Patched
    BY <1>1 DEF LinksInside, Unites
  <2>2. PICK y \in DataCables : {x.a, x.b} = {y.a, y.b}
    BY <2>1 DEF Patched
  <2>3. x.a # x.b
    BY <2>2 DEF DataCables
  <2> QED
    BY <2>1, <2>2, <2>3 DEF DataCables
<1>6. ASSUME blocked # {} PROVE route.nodes # {}
  BY <1>1, <1>4, <1>6 DEF Unites
<1>7. ASSUME route.nodes # {} PROVE \E x \in from : WaysOf(opened, x, to) # {}
  <2>0. ShortestUnion(Patched, from, to).nodes # {} <=> \E x \in from : WaysOf(Patched, x, to) # {}
    <3>1. Finds(Patched, from, to)
      BY <1>0, UnionFinds
    <3> QED
      BY <3>1 DEF Finds
  <2>1. PICK x \in from : WaysOf(Patched, x, to) # {}
    BY <1>1, <1>7, <2>0
  <2>2. PICK r : r \in Shortest(WaysOf(Patched, x, to))
    BY <1>0, <2>1, HasWay
  <2>3. r \in WaysOf(Patched, x, to)
    BY <2>2 DEF Shortest
  <2>4. Along(r, Patched) /\ Injective(r) /\ r[1] = x /\ r[Len(r)] \in to
    BY <2>3, WaysAre
  <2>5. PICK n \in Nat : n = Len(r) /\ n >= 1 /\ r \in [1..n -> Assets]
    BY <2>4 DEF Along
  <2>6. \A k \in 1..n : r[k] \in route.nodes
    <3>1. Range(r) \subseteq OnShortest(Patched, from, to)
      BY <2>2 DEF OnShortest, OnTheWay, WaysOf
    <3>2. \A k \in 1..n : r[k] \in Range(r)
      BY <2>5 DEF Range
    <3> QED
      BY <1>1, <3>1, <3>2 DEF Unites
  <2>7. ASSUME NEW k \in 1..(n - 1) PROVE {r[k], r[k + 1]} \in opened
    <3>1. {r[k], r[k + 1]} \in route.edges /\ {r[k], r[k + 1]} \in Patched
      BY <1>1, <2>2, <2>5 DEF Unites
    <3>2. PICK y \in DataCables : {y.a, y.b} = {r[k], r[k + 1]}
      BY <3>1 DEF Patched
    <3>3. {y.a, y.b} \subseteq route.nodes
      <4>1. k \in 1..n /\ k + 1 \in 1..n
        BY <2>5
      <4> QED
        BY <2>6, <3>2, <4>1
    <3>4. y \in along
      BY <3>1, <3>2, <3>3 DEF LinksInside, DataCables
    <3> HIDE DEF along
    <3>5. CASE y \in blocked
      BY <3>2, <3>5
    <3>6. CASE y \notin blocked
      <4>1. PICK z \in along : {z.a, z.b} = {y.a, y.b} /\ z.up
        BY <1>4, <3>4, <3>6
      <4>2. {z.a, z.b} \in Live
        BY <1>5, <4>1 DEF Live
      <4> QED
        BY <3>2, <4>1, <4>2
    <3> QED
      BY <3>5, <3>6
  <2>8. Along(r, opened)
    BY <2>4, <2>5, <2>7 DEF Along
  <2>9. r \in WaysOf(opened, x, to)
    BY <2>4, <2>8, WaysAre
  <2> QED
    BY <2>9
<1>8. AssetPairs(opened)
  <2>1. blocked \subseteq DataCables
    BY <1>4, <1>5
  <2>2. {{x.a, x.b} : x \in blocked} \subseteq Patched
    BY <2>1 DEF Patched
  <2> QED
    BY <1>0, <2>2 DEF AssetPairs
<1>9. ASSUME route.nodes # {} PROVE blocked # {}
  <2> SUFFICES ASSUME blocked = {} PROVE FALSE
    OBVIOUS
  <2>1. opened = Live
    OBVIOUS
  <2>2. PICK x \in from : WaysOf(Live, x, to) # {}
    BY <1>7, <1>9, <2>1
  <2> QED
    BY <2>2 DEF Across, Crossings, WaysOf
<1>10. ASSUME blocked # {} PROVE ShortestUnion(opened, from, to).nodes # {}
  <2> HIDE DEF opened, along, lt
  <2>1. \E x \in from : WaysOf(opened, x, to) # {}
    BY <1>6, <1>7, <1>10
  <2>2. ShortestUnion(opened, from, to).nodes # {} <=> \E x \in from : WaysOf(opened, x, to) # {}
    <3>1. Finds(opened, from, to)
      BY <1>8, UnionFinds
    <3> QED
      BY <3>1 DEF Finds
  <2> QED
    BY <2>1, <2>2
<1> HIDE DEF along, lt
<1> QED
  BY <1>1, <1>6, <1>9, <1>10

LEMMA PortsExact ==
  ASSUME t \in Topologies
  PROVE  BlockedExplains
<1> SUFFICES ASSUME \A x \in Cables, y \in DataCables : x.mgmt => {x.a, x.b} # {y.a, y.b},
                    NEW near \in Anyone, NEW end \in Anyone \cup {None}, NEW p, p = Path(near, end), ~p.found,
                    Cardinality(ShortestUnion(Patched, p.from, p.to).nodes) <= Budget
             PROVE  /\ (p.blocked # {}) = (ShortestUnion(Patched, p.from, p.to).nodes # {})
                    /\ p.blocked # {} =>
                         ShortestUnion(Live \cup {{x.a, x.b} : x \in p.blocked}, p.from, p.to).nodes # {}
  BY DEF BlockedExplains
<1>1. PICK from, to, far :
        /\ from \in SUBSET Assets /\ to \in SUBSET Assets
        /\ p = PathBetween(from, to, far)
        /\ far = to \/ (far = {} /\ to \cap from = {})
  BY SidesAre
<1>2. Pictured(p, RoutesOf(Live), far) /\ p.from = from /\ p.to = to /\ p.blocked = BlockingPorts(from, to)
  BY <1>1, BetweenIs
<1>3. Across(Live, from, to) = {}
  BY <1>2 DEF Pictured, Across
<1>4. PICK blocked : blocked = BlockingPorts(from, to)
  OBVIOUS
<1>5. Cardinality(ShortestUnion(Patched, from, to).nodes) <= Budget
  BY <1>2
<1>6. /\ (blocked # {}) = (ShortestUnion(Patched, from, to).nodes # {})
      /\ blocked # {} => ShortestUnion(Live \cup {{x.a, x.b} : x \in blocked}, from, to).nodes # {}
  BY <1>1, <1>3, <1>4, <1>5, PortsExplain
<1> QED
  BY <1>2, <1>4, <1>6

----------------------------------------------------------------------------
(* The neighbourhood. *)

CablesOut(n) == {{x.a, x.b} : x \in {y \in Cables : ~y.mgmt \/ n = 1}}
ArcsOut(hops) == [n \in 1..hops |-> Container \cup Arcs(CablesOut(n))]

LEMMA StepsAre ==
  ASSUME t \in Topologies, NEW hops \in Nat
  PROVE  /\ \A n \in 1..hops : ArcsOut(hops)[n] = Steps(n - 1) /\ ArcsOut(hops)[n] \subseteq Assets \X Assets
         /\ Narrowing(ArcsOut(hops), hops)
<1>1. Container \subseteq Assets \X Assets
  <2> SUFFICES ASSUME NEW x \in Assets, Len(t.up[x]) > 1 PROVE t.up[x][2] \in Assets
    BY DEF Container
  <2>1. t.up \in [Assets -> Seq(Assets)]
    BY TablesAssumption DEF Tables
  <2>2. PICK s \in Seq(Assets) : s = t.up[x]
    BY <2>1
  <2>3. 2 \in 1..Len(s)
    BY <2>2
  <2>4. s[2] \in Assets
    BY <2>3
  <2> QED
    BY <2>2, <2>4
<1>2. \A x \in Cables : x.a \in Assets /\ x.b \in Assets
  BY PlantAssumption DEF Cables, Active
<1>3. ASSUME NEW n \in 1..hops PROVE Arcs(CablesOut(n)) \cup Container = Steps(n - 1)
  <2> DEFINE followed == {y \in Cables : ~y.mgmt \/ n = 1}
  <2>1. Steps(n - 1) = {<<x.a, x.b>> : x \in followed} \cup {<<x.b, x.a>> : x \in followed} \cup Container
    <3>1. n - 1 = 0 <=> n = 1
      OBVIOUS
    <3> QED
      BY <3>1 DEF Steps
  <2>2. CablesOut(n) = {{x.a, x.b} : x \in followed}
    BY DEF CablesOut
  <2>3. \A x \in followed : x.a \in Assets /\ x.b \in Assets
    BY <1>2
  <2> HIDE DEF followed
  <2>4. ASSUME NEW e \in Arcs(CablesOut(n)) PROVE e \in {<<x.a, x.b>> : x \in followed} \cup {<<x.b, x.a>> : x \in followed}
    <3>1. e \in Assets \X Assets /\ {e[1], e[2]} \in CablesOut(n)
      BY DEF Arcs
    <3>2. PICK x \in followed : {e[1], e[2]} = {x.a, x.b}
      BY <2>2, <3>1
    <3>3. e = <<e[1], e[2]>>
      BY <3>1
    <3>4. (e[1] = x.a /\ e[2] = x.b) \/ (e[1] = x.b /\ e[2] = x.a)
      BY <3>2
    <3> QED
      BY <3>3, <3>4
  <2>5. ASSUME NEW x \in followed PROVE <<x.a, x.b>> \in Arcs(CablesOut(n)) /\ <<x.b, x.a>> \in Arcs(CablesOut(n))
    <3>1. {x.a, x.b} \in CablesOut(n) /\ {x.b, x.a} = {x.a, x.b}
      BY <2>2
    <3>2. PICK e, o : e = <<x.a, x.b>> /\ o = <<x.b, x.a>>
      OBVIOUS
    <3>3. e \in Assets \X Assets /\ o \in Assets \X Assets /\ e[1] = x.a /\ e[2] = x.b /\ o[1] = x.b /\ o[2] = x.a
      BY <2>3, <3>2
    <3> QED
      BY <3>1, <3>2, <3>3 DEF Arcs
  <2> QED
    BY <2>1, <2>4, <2>5
<1>4. \A n \in 1..hops : ArcsOut(hops)[n] = Container \cup Arcs(CablesOut(n))
  BY DEF ArcsOut
<1>5. \A n \in 1..hops : ArcsOut(hops)[n] = Steps(n - 1) /\ ArcsOut(hops)[n] \subseteq Assets \X Assets
  <2> SUFFICES ASSUME NEW n \in 1..hops
               PROVE  ArcsOut(hops)[n] = Steps(n - 1) /\ ArcsOut(hops)[n] \subseteq Assets \X Assets
    OBVIOUS
  <2>1. Arcs(CablesOut(n)) \subseteq Assets \X Assets
    BY DEF Arcs
  <2> QED
    BY <1>1, <1>3, <1>4, <2>1
<1>6. ASSUME NEW m \in 1..hops, NEW n \in 1..hops, m <= n PROVE ArcsOut(hops)[n] \subseteq ArcsOut(hops)[m]
  <2>1. n = 1 => m = 1
    BY <1>6
  <2>2. CablesOut(n) \subseteq CablesOut(m)
    BY <2>1 DEF CablesOut
  <2>3. Arcs(CablesOut(n)) \subseteq Arcs(CablesOut(m))
    BY <2>2 DEF Arcs
  <2> QED
    BY <1>4, <2>3
<1> QED
  BY <1>5, <1>6 DEF Narrowing

HopOf(ring, hops, x) == Min({n \in 0..hops : x \in ring[n]})
Drawable(ring, hops, subject) == {x \in ring[hops] : t.life[x] # "retired" \/ x = subject}
Nearer(ring, hops, x, y) ==
  IF HopOf(ring, hops, x) # HopOf(ring, hops, y) THEN HopOf(ring, hops, x) < HopOf(ring, hops, y)
  ELSE Rank[x] < Rank[y]
Kept(ring, hops, subject) ==
  {x \in Drawable(ring, hops, subject) :
     Cardinality({y \in Drawable(ring, hops, subject) : Nearer(ring, hops, y, x)}) < Budget}

LEMMA NearRings ==
  ASSUME t \in Topologies, NEW hops \in Nat, NEW subject \in Assets
  PROVE  \E ring :
           /\ Rings(ring, hops, ArcsOut(hops), Subtree({subject}))
           /\ Neighbourhood(subject, hops)
                = [assets |-> {[id |-> x, hop |-> HopOf(ring, hops, x)] : x \in Kept(ring, hops, subject)},
                   elided |-> Cardinality(Drawable(ring, hops, subject) \ Kept(ring, hops, subject))]
<1> DEFINE seed == Subtree({subject})
           arcs == ArcsOut(hops)
           Rec(f) == f = [n \in 0..hops |->
              IF n = 0 THEN seed
              ELSE LET before == f[n - 1]
                   IN before \cup {e[2] : e \in {x \in Steps(n - 1) : x[1] \in before}}]
           ring == CHOOSE f : Rec(f)
           rings == [n \in 0..hops |-> ring[n]]
<1>1. Neighbourhood(subject, hops)
        = [assets |-> {[id |-> x, hop |-> HopOf(rings, hops, x)] : x \in Kept(rings, hops, subject)},
           elided |-> Cardinality(Drawable(rings, hops, subject) \ Kept(rings, hops, subject))]
  BY Zenon DEF Neighbourhood, FirstBy, Kept, Drawable, HopOf, Nearer
<1>2. \A n \in 1..hops : arcs[n] = Steps(n - 1) /\ arcs[n] \subseteq Assets \X Assets
  BY StepsAre
<1>3. seed \in SUBSET Assets
  BY DEF Subtree
<1> HIDE DEF seed, arcs
<1>4. Rec(ring)
  <2>0. PICK f : Onwards(f, hops, arcs, seed)
    BY <1>2, <1>3, RingsExist
  <2>1. /\ f = [n \in 0..hops |-> f[n]] /\ f[0] = seed
        /\ \A n \in 1..hops : f[n] = Onward(arcs[n], f[n - 1])
    BY <2>0 DEF Onwards
  <2>2. ASSUME NEW n \in 0..hops
        PROVE  f[n] = IF n = 0 THEN seed
                      ELSE f[n - 1] \cup {e[2] : e \in {x \in Steps(n - 1) : x[1] \in f[n - 1]}}
    <3> HIDE DEF ring, rings, Rec
    <3>1. CASE n # 0
      <4>1. n \in 1..hops
        BY <3>1
      <4> QED
        BY <1>2, <2>1, <3>1, <4>1 DEF Onward
    <3> QED
      BY <2>1, <3>1
  <2>3. Rec(f)
    BY <2>1, <2>2
  <2> HIDE DEF Rec
  <2> QED
    BY <2>3
<1> HIDE DEF ring
<1>5. ring[0] = seed /\ \A n \in 1..hops : ring[n] = Onward(arcs[n], ring[n - 1])
  <2>1. ring[0] = seed
    BY <1>4
  <2>2. ASSUME NEW n \in 1..hops PROVE ring[n] = Onward(arcs[n], ring[n - 1])
    <3>1. n \in 0..hops /\ n # 0
      OBVIOUS
    <3>2. ring[n] = ring[n - 1] \cup {e[2] : e \in {x \in Steps(n - 1) : x[1] \in ring[n - 1]}}
      BY <1>4, <3>1
    <3> QED
      BY <1>2, <3>2 DEF Onward
  <2> QED
    BY <2>1, <2>2
<1>6. ring = [n \in 0..hops |-> ring[n]]
  BY <1>4
<1> HIDE DEF Rec
<1>7. Rings(ring, hops, arcs, seed)
  <2>1. Onwards(ring, hops, arcs, seed)
    BY <1>5, <1>6 DEF Onwards
  <2> QED
    BY <1>2, <1>3, <2>1, RingsFrom
<1>8. rings = ring
  BY <1>6
<1> HIDE DEF rings
<1> QED
  BY <1>1, <1>7, <1>8 DEF seed, arcs

(* The walks and the rings agree: who is reached, and after how many steps. *)
LEMMA WalksAre ==
  ASSUME t \in Topologies, NEW hops \in Nat, NEW subject \in Assets, NEW r
  PROVE  r \in WalksOut(subject, hops)
           <=> IsRoute(r, ArcsOut(hops)) /\ Len(r) <= hops + 1 /\ r[1] \in Subtree({subject})
<1>1. WalksOut(subject, hops) = {w \in SimpleRoutes(ArcsOut(hops), hops + 1) : w[1] \in Subtree({subject})}
  BY DEF WalksOut, ArcsOut, CablesOut
<1>2. PICK most, arcs : most = hops + 1 /\ arcs = ArcsOut(hops)
  OBVIOUS
<1>3. most \in Nat /\ most >= 1 /\ 1..(most - 1) = 1..hops
  BY <1>2
<1>4. \A n \in 1..(most - 1) : arcs[n] \subseteq Assets \X Assets
  BY <1>2, <1>3, StepsAre
<1>5. SimpleRoutes(arcs, most) = {q \in Seq(Assets) : IsRoute(q, arcs) /\ Len(q) <= most}
  BY <1>3, <1>4, RoutesAre
<1> QED
  BY <1>1, <1>2, <1>5 DEF IsRoute

LEMMA HopsAgree ==
  ASSUME t \in Topologies, NEW hops \in Nat, NEW subject \in Assets, NEW ring,
         Rings(ring, hops, ArcsOut(hops), Subtree({subject})), NEW walks, walks = WalksOut(subject, hops)
  PROVE  /\ {Ends(r) : r \in walks} = ring[hops]
         /\ \A x \in ring[hops] : HopOf(ring, hops, x) = HopsTo(walks, x) /\ HopOf(ring, hops, x) \in Nat
<1>0. Narrowing(ArcsOut(hops), hops)
  BY StepsAre
<1>1. ASSUME NEW w \in walks
      PROVE  /\ Len(w) \in Nat /\ Len(w) - 1 \in 0..hops
             /\ Ends(w) \in ring[Len(w) - 1] /\ Ends(w) \in ring[hops]
  <2>1. IsRoute(w, ArcsOut(hops)) /\ Len(w) <= hops + 1 /\ w[1] \in Subtree({subject})
    BY WalksAre
  <2>2. PICK n \in Nat : n = Len(w) /\ n >= 1 /\ n <= hops + 1
    BY <2>1 DEF IsRoute
  <2>3. n \in 1..Len(w) /\ n - 1 \in 0..hops /\ n - 1 <= hops /\ hops \in 0..hops
    BY <2>2
  <2>4. w[n] \in ring[n - 1]
    BY <2>1, <2>3, RouteRing
  <2>5. ring[n - 1] \subseteq ring[hops]
    BY <2>3, RingsGrow
  <2> QED
    BY <2>2, <2>3, <2>4, <2>5 DEF Ends
<1>2. ASSUME NEW x \in ring[hops]
      PROVE  \E m \in 0..hops : FirstAt(ring, m, x) /\ \E w \in walks : Len(w) = m + 1 /\ Ends(w) = x
  <2>1. hops \in 0..hops
    OBVIOUS
  <2>2. PICK m \in 0..hops : FirstAt(ring, m, x)
    BY <2>1, FirstRing
  <2>3. PICK w : IsRoute(w, ArcsOut(hops)) /\ Len(w) = m + 1 /\ w[1] \in Subtree({subject}) /\ w[m + 1] = x
    BY <1>0, <2>2, RingRoute
  <2>4. w \in walks
    BY <2>3, WalksAre
  <2> QED
    BY <2>2, <2>3, <2>4 DEF Ends
<1>3. {Ends(r) : r \in walks} = ring[hops]
  BY <1>1, <1>2
<1>4. ASSUME NEW x \in ring[hops] PROVE HopOf(ring, hops, x) = HopsTo(walks, x) /\ HopOf(ring, hops, x) \in Nat
  <2>1. PICK m \in 0..hops : FirstAt(ring, m, x) /\ \E w \in walks : Len(w) = m + 1 /\ Ends(w) = x
    BY <1>2
  <2>2. PICK v \in walks : Len(v) = m + 1 /\ Ends(v) = x
    BY <2>1
  <2> DEFINE T == {n \in 0..hops : x \in ring[n]}
             U == {Len(r) - 1 : r \in {w \in walks : Ends(w) = x}}
  <2>3. m \in T /\ \A n \in T : m <= n
    <3> SUFFICES ASSUME NEW n \in 0..hops, x \in ring[n], ~(m <= n) PROVE FALSE
      BY <2>1 DEF FirstAt
    <3>1. n \in 0..(m - 1)
      OBVIOUS
    <3> QED
      BY <2>1, <3>1 DEF FirstAt
  <2>4. m \in U
    <3>1. Len(v) - 1 = m
      BY <2>2
    <3> QED
      BY <2>2, <3>1
  <2>5. \A n \in U : n \in T
    BY <1>1
  <2>6. T \subseteq Nat
    OBVIOUS
  <2>7. HopOf(ring, hops, x) = Min(T) /\ HopsTo(walks, x) = Min(U)
    BY DEF HopOf, HopsTo
  <2> HIDE DEF T, U
  <2>8. Min(T) = m
    BY <2>3, <2>6, LeastIsMin
  <2>9. U \subseteq Nat /\ \A n \in U : m <= n
    BY <2>3, <2>5, <2>6
  <2>10. Min(U) = m
    BY <2>4, <2>9, LeastIsMin
  <2> QED
    BY <2>6, <2>7, <2>3, <2>8, <2>10
<1> QED
  BY <1>3, <1>4

(* A picture names each asset once. *)
LEMMA NamedOnce ==
  ASSUME NEW S, IsFiniteSet(S), NEW h
  PROVE  Cardinality({[id |-> x, hop |-> h[x]] : x \in S}) = Cardinality(S)
<1> DEFINE T == {[id |-> x, hop |-> h[x]] : x \in S}
           f == [x \in S |-> [id |-> x, hop |-> h[x]]]
<1>1. f \in [S -> T]
  OBVIOUS
<1>2. \A x, y \in S : f[x] = f[y] => x = y
  <2> SUFFICES ASSUME NEW x \in S, NEW y \in S, f[x] = f[y] PROVE x = y
    OBVIOUS
  <2>1. f[x].id = x /\ f[y].id = y
    OBVIOUS
  <2> HIDE DEF f
  <2> QED
    BY <2>1
<1>3. \A z \in T : \E x \in S : f[x] = z
  OBVIOUS
<1> HIDE DEF f, T
<1>4. ExistsBijection(S, T)
  BY <1>1, <1>2, <1>3 DEF ExistsBijection, Bijection, Injection, Surjection, IsInjective
<1> QED
  BY <1>4, FS_Bijection DEF T

LEMMA NeighbourhoodExact ==
  ASSUME t \in Topologies
  PROVE  NeighbourhoodIsExact
<1> SUFFICES ASSUME NEW subject \in Assets, NEW hops \in 1..MaxHops,
                    NEW shown, shown = Neighbourhood(subject, hops), NEW walks, walks = WalksOut(subject, hops)
             PROVE  Surveyed(shown, walks, subject)
  BY DEF NeighbourhoodIsExact
<1> DEFINE ids == {a.id : a \in shown.assets}
           near == WalkedTo(walks, subject)
           w == Workloads(ids)
<1>0. hops \in Nat
  BY BudgetAssumption
<1>1. PICK ring :
        /\ Rings(ring, hops, ArcsOut(hops), Subtree({subject}))
        /\ shown = [assets |-> {[id |-> x, hop |-> HopOf(ring, hops, x)] : x \in Kept(ring, hops, subject)},
                elided |-> Cardinality(Drawable(ring, hops, subject) \ Kept(ring, hops, subject))]
  BY <1>0, NearRings
<1>2. /\ {Ends(r) : r \in walks} = ring[hops]
      /\ \A x \in ring[hops] : HopOf(ring, hops, x) = HopsTo(walks, x) /\ HopOf(ring, hops, x) \in Nat
  BY <1>0, <1>1, HopsAgree
<1>3. near = Drawable(ring, hops, subject)
  BY <1>2 DEF WalkedTo, Drawable
<1> HIDE DEF near
<1>4. near \subseteq ring[hops] /\ near \in SUBSET Assets /\ IsFiniteSet(near)
  <2>1. near \subseteq ring[hops]
    BY <1>3 DEF Drawable
  <2>2. ring[hops] \in SUBSET Assets
    BY <1>0, <1>1 DEF Rings
  <2> QED
    BY <2>1, <2>2, TopologyAssumption, FS_Subset
<1> DEFINE h == [x \in near |-> HopsTo(walks, x)]
           lt == {e \in near \X near : Nearer(ring, hops, e[1], e[2])}
           kept == Kept(ring, hops, subject)
<1>5. \A x \in near : h[x] = HopOf(ring, hops, x) /\ h[x] = HopsTo(walks, x) /\ h[x] \in Nat
  BY <1>2, <1>4
<1>6. \A x, y \in near : <<x, y>> \in lt <=> IF h[x] # h[y] THEN h[x] < h[y] ELSE Rank[x] < Rank[y]
  <2>1. \A x, y \in near : <<x, y>> \in lt <=> Nearer(ring, hops, x, y)
    OBVIOUS
  <2> HIDE DEF h, lt
  <2> SUFFICES ASSUME NEW x \in near, NEW y \in near
               PROVE  Nearer(ring, hops, x, y) <=> IF h[x] # h[y] THEN h[x] < h[y] ELSE Rank[x] < Rank[y]
    BY <2>1
  <2>2. h[x] = HopOf(ring, hops, x) /\ h[y] = HopOf(ring, hops, y)
    BY <1>5
  <2> QED
    BY <2>2 DEF Nearer
<1>7. kept = Budgeted(near, lt)
  <2>1. ASSUME NEW x \in near
        PROVE  {y \in near : Nearer(ring, hops, y, x)} = {y \in near : <<y, x>> \in lt}
    OBVIOUS
  <2> HIDE DEF lt, h
  <2> QED
    BY <1>3, <2>1 DEF Budgeted, Kept
<1>8. kept \subseteq near
  BY <1>3 DEF Kept
<1>9. shown.assets = {[id |-> x, hop |-> h[x]] : x \in kept} /\ shown.elided = Cardinality(near \ kept)
  <2>1. shown.assets = {[id |-> x, hop |-> HopOf(ring, hops, x)] : x \in kept} /\ shown.elided = Cardinality(near \ kept)
    <3> HIDE DEF kept
    <3> QED
      BY <1>1, <1>3 DEF kept
  <2> HIDE DEF kept, h
  <2>2. \A x \in kept : h[x] = HopOf(ring, hops, x)
    BY <1>5, <1>8
  <2> QED
    BY <2>1, <2>2
<1> HIDE DEF kept, h, lt
<1>10. ids = kept
  <2>1. ASSUME NEW x \in kept PROVE x \in ids
    <3>1. PICK a : a = [id |-> x, hop |-> h[x]]
      OBVIOUS
    <3>2. a \in shown.assets /\ a.id = x
      BY <1>9, <3>1
    <3> QED
      BY <3>2
  <2>2. ASSUME NEW a \in shown.assets PROVE a.id \in kept
    BY <1>9
  <2> QED
    BY <2>1, <2>2
<1>11. \A x \in near : Rank[x] \in Int
  BY <1>4, RankAssumption
<1>12. \A x \in near : <<x, x>> \notin lt
  BY <1>6, <1>11
<1>13. \A a \in shown.assets : a.id \in near /\ a.hop = HopsTo(walks, a.id)
  BY <1>5, <1>8, <1>9
<1>14. shown.elided = Cardinality(near) - Cardinality(shown.assets)
  <2>1. IsFiniteSet(kept) /\ near \cap kept = kept
    BY <1>4, <1>8, FS_Subset
  <2>2. Cardinality(near \ kept) = Cardinality(near) - Cardinality(near \cap kept)
    BY <1>4, FS_Difference
  <2>3. Cardinality(shown.assets) = Cardinality(kept)
    BY <1>9, <2>1, NamedOnce
  <2> QED
    BY <1>9, <2>1, <2>2, <2>3
<1>15. ASSUME NEW x \in near \ ids, NEW a \in shown.assets PROVE a.hop <= HopsTo(walks, x)
  <2>1. x \in near /\ x \notin Budgeted(near, lt)
    BY <1>7, <1>10
  <2>2. PICK y \in kept : a = [id |-> y, hop |-> h[y]]
    BY <1>9
  <2>3. a.hop = h[y] /\ y \in near /\ y \in Budgeted(near, lt)
    BY <1>7, <1>8, <2>2
  <2>4. \A u, v, z \in near : <<u, v>> \in lt /\ <<v, z>> \in lt => <<u, z>> \in lt
    <3> SUFFICES ASSUME NEW u \in near, NEW v \in near, NEW z \in near, <<u, v>> \in lt, <<v, z>> \in lt
                 PROVE  <<u, z>> \in lt
      OBVIOUS
    <3>1. h[u] \in Nat /\ h[v] \in Nat /\ h[z] \in Nat
      BY <1>5
    <3>2. Rank[u] \in Int /\ Rank[v] \in Int /\ Rank[z] \in Int
      BY <1>11
    <3>3. IF h[u] # h[v] THEN h[u] < h[v] ELSE Rank[u] < Rank[v]
      BY <1>6
    <3>4. IF h[v] # h[z] THEN h[v] < h[z] ELSE Rank[v] < Rank[z]
      BY <1>6
    <3>5. IF h[u] # h[z] THEN h[u] < h[z] ELSE Rank[u] < Rank[z]
      BY <3>1, <3>2, <3>3, <3>4
    <3> QED
      BY <1>6, <3>5
  <2>5. <<x, y>> \notin lt
    BY <1>4, <2>1, <2>3, <2>4, CutIsLast
  <2>6. ~(h[x] < h[y]) /\ h[x] \in Nat /\ h[y] \in Nat /\ h[x] = HopsTo(walks, x)
    BY <1>5, <1>6, <2>1, <2>3, <2>5
  <2>7. h[y] <= h[x]
    BY <2>6
  <2> QED
    BY <2>3, <2>6, <2>7
<1>16. ASSUME Cardinality(near) <= Budget PROVE shown.elided = 0
  <2>1. kept = near
    BY <1>4, <1>7, <1>12, <1>16, AllFit
  <2>2. near \ kept = {}
    BY <2>1
  <2> QED
    BY <1>9, <2>2, FS_EmptySet
<1> HIDE DEF ids
<1>17. Cardinality({d \in Active(t.dep) : ({d.consumer} \cup ProviderOf(d)) \cap w.services # {}})
         = Cardinality(w.dependencies) + w.outside
  <2> DEFINE touching == {d \in Active(t.dep) : d.consumer \in w.services \/ ProviderOf(d) \cap w.services # {}}
             within == {d \in touching : d.consumer \in w.services /\ ProviderOf(d) \cap w.services # {}}
  <2>1. w.dependencies = within /\ w.outside = Cardinality(touching \ within)
    BY DEF Workloads
  <2>2. {d \in Active(t.dep) : ({d.consumer} \cup ProviderOf(d)) \cap w.services # {}} = touching
    OBVIOUS
  <2>3. within \subseteq touching /\ touching \subseteq t.dep
    BY DEF Active
  <2> HIDE DEF touching, within
  <2>4. IsFiniteSet(touching) /\ IsFiniteSet(within) /\ touching \cap within = within
    BY <2>3, PlantAssumption, FS_Subset
  <2>5. Cardinality(touching \ within) = Cardinality(touching) - Cardinality(within)
    BY <2>4, FS_Difference
  <2>6. Cardinality(touching) \in Nat /\ Cardinality(within) \in Nat
    BY <2>4, FS_CardinalityType
  <2>7. Cardinality(touching) = Cardinality(within) + Cardinality(touching \ within)
    BY <2>5, <2>6
  <2> QED
    BY <2>1, <2>2, <2>7
<1> QED
  BY <1>13, <1>14, <1>15, <1>16, <1>17 DEF Surveyed, ids, near

----------------------------------------------------------------------------
(* The theorems.  Nothing but the outage ever changes, and the outage is any. *)

LEMMA EstateStays == PowerSpec => [](t \in Topologies)
<1>1. ReachInit => t \in Topologies
  BY DEF ReachInit
<1>2. t \in Topologies /\ [PowerNext]_reachVars => (t \in Topologies)'
  BY DEF PowerNext, ReachNext, LoseAsset, CutMedium, LoseSupply, LoseFeed, Takes, reachVars
<1> QED
  BY <1>1, <1>2, PTL DEF PowerSpec

(* EngineIsExact, the claim of internal/impact/reach.go, for any topology and  *)
(* any outage: what the union-find passes and the inherited attachments say    *)
(* of two assets, of a dependency and of a pool member is what the walks over  *)
(* the media that are left say.                                                *)
THEOREM EngineAlwaysExact == PowerSpec => []EngineIsExact
<1>1. t \in Topologies => EngineIsExact
  BY TablesAssumption, ReachExact, VerdictsExact DEF EngineIsExact
<1> QED
  BY <1>1, EstateStays, PTL

(* LossNeverImproves: a larger outage never looks better, in any of the lists  *)
(* that internal/impact/reach.go and structures.go report.                     *)
THEOREM LossAlwaysWorsens == PowerSpec => []LossNeverImproves
<1>1. t \in Topologies => LossNeverImproves
  BY TablesAssumption, NothingImproves
<1> QED
  BY <1>1, EstateStays, PTL

(* CutSaysWhatTheEngineSays: the page of a circuit or a cable (cutEffect in    *)
(* internal/store/graph.go) and the engine agree on what a cut separates.      *)
THEOREM CutAlwaysAgrees == PowerSpec => []CutSaysWhatTheEngineSays
<1>1. t \in Topologies => CutSaysWhatTheEngineSays
  BY TablesAssumption, CutIsSaid
<1> QED
  BY <1>1, EstateStays, PTL

(* PowerTellsOneStory, for any estate whose supply chains end within           *)
(* supplyDepthLimit: where PowerFindings says that the inputs of an asset      *)
(* converge, the node it names takes the asset down (AssetsLosingPower,        *)
(* AssetsLosingSupply) and nothing lower on its way does; and no single supply *)
(* or feed takes down an asset with several inputs that has no finding.        *)
THEOREM PowerAlwaysOneStory == PowerSpec => []PowerTellsOneStory
<1>1. t \in Topologies => PowerTellsOneStory
  BY ChainsAssumption, OneStory
<1> QED
  BY <1>1, EstateStays, PTL

(* PicturesAreExact, for any plant: the picture of a path is the union of the  *)
(* shortest live routes of every anchor (Path, shortestUnion), the ports it    *)
(* names would open one (blockingPorts), a neighbourhood is what can be walked *)
(* to, with the shortest hops, and the budget cuts the furthest of both        *)
(* (Neighbourhood).                                                            *)
THEOREM PicturesAlwaysExact == PowerSpec => []PicturesAreExact
<1>1. t \in Topologies => PicturesAreExact
  BY PathExact, PortsExact, NeighbourhoodExact DEF PicturesAreExact
<1> QED
  BY <1>1, EstateStays, PTL
=============================================================================
