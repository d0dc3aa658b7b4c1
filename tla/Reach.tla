------------------------------- MODULE Reach -------------------------------
(***************************************************************************)
(* The reachability model of an outage (internal/impact/reach.go), on the  *)
(* graph internal/store/graph.go loads, and what is reported from it.      *)
(*                                                                         *)
(* The estate is the tables the loader reads.  A port is the asset it is   *)
(* on; up[a] is the chain of containers of a, nearest first, starting with *)
(* a itself (asset_closure).  The outage grows: one more asset is named,   *)
(* or one more circuit or cable is cut.                                    *)
(***************************************************************************)
EXTENDS Availability, Sequences, FiniteSetsExt, Functions

CONSTANTS Assets, Groups, Circuits, Links,
          Topologies,  \* the estates that may be loaded
          MaxNamed,    \* bound on the assets an outage names
          MaxCut       \* bound on the media an outage cuts one by one

Planes == {"data", "mgmt", "storage"}
Media == Circuits \cup Links

ASSUME MediaAssumption == None \notin Media \cup Assets \cup Services
ASSUME TopologyAssumption ==
  IsFiniteSet(Assets) /\ IsFiniteSet(Groups) /\ IsFiniteSet(Circuits) /\ IsFiniteSet(Links)

(* What the tables guarantee: columns that refer name what exists, keys are  *)
(* unique, and a chain of containers names nobody twice.                     *)
Tables(e) ==
  /\ e.up \in [Assets -> Seq(Assets)] /\ \A a \in Assets : IsInjective(e.up[a])
  /\ \A g \in Groups : e.group[g].policy \in Policy
  /\ IsFiniteSet(e.member) /\ \A x \in e.member : x.asset \in Assets /\ x.group \in Groups
  /\ \A x \in e.uplink : {x.group, x.upstream} \subseteq Groups /\ x.plane \in Planes
  /\ \A x \in e.medium : x.id \in Media
  /\ \A x \in e.attachment : x.pins \subseteq Assets
  /\ \A x \in e.structure : x.ports \subseteq Assets
  /\ \A x \in e.instance : x.host \in Assets
  /\ \A x, y \in e.endpoint : x.id = y.id => x = y
  /\ \A x, y \in e.route : x.id = y.id => x = y
  /\ \A x \in e.endpoint, y \in e.route : x.id # y.id

ASSUME TablesAssumption == \A e \in Topologies : Tables(e)

VARIABLES t,     \* the estate
          gone,  \* Request.DownAssetIDs, at most MaxNamed of them
          cut    \* Request.CutCircuitIDs and CutLinkIDs

reachVars == <<t, gone, cut>>

ReachTypeOK == t \in Topologies /\ gone \subseteq Assets /\ cut \subseteq Media

(* Unknown is not a status and has no place in their order. *)
Unknown == 3

----------------------------------------------------------------------------
(* The loader. *)

Installed(a) == t.life[a] \in {"active", "maintenance", "deprecated"}

(* SubtreeIDs *)
Subtree(ids) == {a \in Assets : Range(t.up[a]) \cap ids # {}}
DownAssets == Subtree(gone)

NetGroups == {g \in Groups : t.group[g].life # "retired"}
Active(rows) == {x \in rows : x.life = "active"}

(* The pairs of groups that a medium between two assets joins. *)
Joining(a, b) ==
  {<<x.group, y.group>> : x \in {m \in Active(t.member) : m.asset = a},
                          y \in {m \in Active(t.member) : m.asset = b}}

(* The edge queries of loadNetGraph: circuits by their two terminations and  *)
(* cables by their two ends.                                                 *)
MediumEdges(medium) ==
  {[group |-> p[1], upstream |-> p[2], plane |-> "data", medium |-> medium.id] :
     p \in {q \in Joining(medium.a, medium.b) : q[1] # q[2]}}

(* net.Uplinks: those that are declared and those that follow from a medium *)
Uplinks ==
  {[group |-> u.group, upstream |-> u.upstream, plane |-> u.plane, medium |-> None] :
     u \in Active(t.uplink)}
  \cup UNION {MediumEdges(x) : x \in Active(t.medium)}

Attached == Active(t.attachment)

(* CircuitJoinsGroups *)
JoinsGroups(c) == \E u \in Uplinks : u.medium = c

(* BreakoutStrandIDs: the strands of one moulded assembly go together. *)
StrandsOf(l) ==
  LET of(x) == CHOOSE m \in t.medium : m.id = x IN
  IF l \in Circuits \/ of(l).breakout = None THEN {l}
  ELSE {m.id : m \in {x \in Active(t.medium) : x.breakout = of(l).breakout}}

----------------------------------------------------------------------------
(* The model of one outage: the assets that are down, the media that are cut. *)

(* groupStatuses: a group with no installed member is down *)
GroupStatus(g, down) ==
  LET health(x) == [id |-> x.asset, role |-> x.role, shard |-> None]
      all == {x \in Active(t.member) : x.group = g /\ Installed(x.asset)}
  IN IF all = {} THEN Down
     ELSE Evaluate(t.group[g].policy, {health(x) : x \in all},
                   {health(x) : x \in {y \in all : y.asset \notin down}})

(* unionFind.union: two trees become one.  Which root it keeps is not kept    *)
(* here: only whether two groups have the same one is ever asked.             *)
Union(trees, e) ==
  LET touched == {x \in trees : e.group \in x \/ e.upstream \in x}
  IN (trees \ touched) \cup {UNION touched}

(* components, of the groups that may forward *)
Components(uplinks, plane, nodes, severed) ==
  LET edges == {u \in uplinks : /\ u.plane = plane
                                /\ {u.group, u.upstream} \subseteq nodes
                                /\ u.medium \notin severed}
  IN FoldSet(LAMBDA e, trees : Union(trees, e), {{n} : n \in nodes}, edges)

LiveAttachment(left, down, x) ==
  /\ x.group \in left
  /\ x.pins = {} \/ \E a \in x.pins : Installed(a) /\ a \notin down

(* Mutant: the attachments of every container count, not those of the        *)
(* nearest one.                                                              *)
EffectiveAttachmentsOfAll(a, plane) ==
  {x \in Attached : x.plane = plane /\ x.asset \in Range(t.up[a])}

(* effectiveAttachments: those of the nearest container that has any on the  *)
(* plane, the asset itself being the nearest.                                *)
EffectiveAttachments(a, plane) ==
  LET on(i) == {x \in Attached : x.plane = plane /\ x.asset = t.up[a][i]}
      has == {i \in DOMAIN t.up[a] : on(i) # {}}
  IN IF has = {} THEN {} ELSE on(Min(has))

(* buildReachModel, with its two passes, over the groups that forward at all *)
(* and over those that forward at full strength, and its two caches: which   *)
(* assets are attached at all (modelled) and to which groups (netOf).        *)
Model(down, severed) ==
  LET left == {g \in NetGroups : GroupStatus(g, down) # Down}
      strong == {g \in NetGroups : GroupStatus(g, down) = OK}
      uplinks == Uplinks
      trees(nodes) == UNION {{<<p, x>> : x \in Components(uplinks, p, nodes, severed)} : p \in Planes}
      attachments == UNION {{<<ap, x>> : x \in EffectiveAttachments(ap[1], ap[2])} : ap \in Assets \X Planes}
  IN [down |-> down, any |-> trees(left), full |-> trees(strong),
      modelled |-> {x[1] : x \in attachments},
      net |-> {<<x[1], x[2].group>> : x \in {y \in attachments : LiveAttachment(left, down, y[2])}}]

Modelled(m, a, plane) == <<a, plane>> \in m.modelled
NetOf(m, a, plane) == {x[2] : x \in {y \in m.net : y[1] = <<a, plane>>}}
IsIsolated(m, a, plane) == Modelled(m, a, plane) /\ NetOf(m, a, plane) = {}

(* Two groups with the same representative on a plane. *)
Meets(trees, plane, from, to) ==
  \E x \in trees : x[1] = plane /\ x[2] \cap from # {} /\ x[2] \cap to # {}

(* reachModel.reach *)
ReachOf(m, x, y, plane) ==
  IF ~Modelled(m, x, plane) \/ ~Modelled(m, y, plane) THEN Unknown
  ELSE IF Meets(m.full, plane, NetOf(m, x, plane), NetOf(m, y, plane)) THEN OK
  ELSE IF Meets(m.any, plane, NetOf(m, x, plane), NetOf(m, y, plane)) THEN Degraded
  ELSE Down

(* reachModel.reachGroup *)
ReachGroup(m, x, g, plane) ==
  IF ~Modelled(m, x, plane) \/ g \notin NetGroups THEN Unknown
  ELSE IF Meets(m.full, plane, NetOf(m, x, plane), {g}) THEN OK
  ELSE IF Meets(m.any, plane, NetOf(m, x, plane), {g}) THEN Degraded
  ELSE Down

----------------------------------------------------------------------------
(* What services make of it. *)

Topology == NetGroups # {} \/ Attached # {} \/ Active(t.anchor) # {}

LiveEndpoints == Active(t.endpoint)
Local(e) == e.bind \in {"loopback", "unix"}
EndpointsOf(s) == {e \in LiveEndpoints : e.service = s}

(* providerEndpointForDep: the endpoint, or the frontend of the route *)
ProviderEndpoint(d) ==
  {e \in LiveEndpoints : \/ e.id = d.provider
                         \/ \E r \in t.route : r.id = d.provider /\ r.frontend = e.id}
NeedsNet(s) ==
  \/ EndpointsOf(s) = {} \/ \E e \in EndpointsOf(s) : ~Local(e)
  \/ \E d \in Active(t.dep) : d.consumer = s /\ ~(\E e \in ProviderEndpoint(d) : Local(e))

(* phaseCapacity, seam 1: the instances left *)
Enabled(s) == {i \in t.instance : i.service = s /\ ~i.disabled}
Alive(m, s) ==
  {i \in Enabled(s) : /\ i.host \notin m.down
                      /\ ~(Topology /\ NeedsNet(s) /\ IsIsolated(m, i.host, "data"))}
AliveHosts(m, s) == {i.host : i \in Alive(m, s)}
CapacityOf(m, s) == Evaluate(t.policy[s], Enabled(s), Alive(m, s))

(* reachHosts: a service in a cluster answers on every node *)
ReachHosts(m, e) ==
  IF e.bind \in {"cluster_ip", "node_port", "ingress"} /\ t.cluster[e.service] # None
    THEN {n \in t.nodes[t.cluster[e.service]] : ~IsIsolated(m, n, "data")}
    ELSE AliveHosts(m, e.service)

(* Mutant: the worst of the ways counts. *)
WorstOf(known) == CHOOSE s \in known : \A r \in known : s >= r

(* Status.Better, over the ways that are known *)
BetterOf(known) == CHOOSE s \in known : \A r \in known : s <= r

(* aggregateReach: the best provider of each consumer, then the consumers *)
AggregateReach(m, consumers, providers) ==
  LET known(c) == {ReachOf(m, c, p, "data") : p \in providers} \ {Unknown}
      per == {BetterOf(known(c)) : c \in {x \in consumers : known(x) # {}}}
  IN IF per = {} THEN Unknown
     ELSE IF per = {Down} THEN Down
     ELSE IF per # {OK} THEN Degraded
     ELSE OK

(* computeDepReach, for an edge whose provider is in the graph *)
DepReach(m, d) ==
  LET e == CHOOSE x \in ProviderEndpoint(d) : TRUE
      consumers == AliveHosts(m, d.consumer)
      providers == ReachHosts(m, e)
  IN IF \/ Local(e) \/ ~Topology
        \/ /\ e.bind = "cluster_ip" /\ t.cluster[e.service] # None
           /\ t.cluster[d.consumer] = t.cluster[e.service] THEN OK
     ELSE IF consumers = {} \/ providers = {} THEN Unknown
     ELSE AggregateReach(m, consumers, providers)

(* computeRouteMemberReach: the frontend's hosts to those of each member *)
RouteMemberReach(m, r, member) ==
  LET front == {e \in LiveEndpoints : e.id = r.frontend /\ ~Local(e)}
      from == UNION {AliveHosts(m, e.service) : e \in front}
      to == ReachHosts(m, member)
  IN IF Local(member) \/ from = {} \/ to = {} THEN Unknown ELSE AggregateReach(m, from, to)

(* matchingAnchors *)
AnchorsFor(e) ==
  {x \in Active(t.anchor) :
     x.scope = e.exposure /\ (x.scope = "environment" => x.env \in {None, t.env[e.service]})}

(* betterFoldAnchors *)
AnchorReach(m, hosts, anchors) ==
  LET known == {ReachGroup(m, h, x.group, "data") : h \in hosts, x \in anchors} \ {Unknown}
  IN IF known = {} THEN Unknown ELSE BetterOf(known)

Exposed(e) == ~Local(e) /\ e.exposure \notin {"internal", None}

(* computeUnreachable *)
Unreachable(m, statuses) ==
  {e \in LiveEndpoints :
     /\ Topology /\ Exposed(e) /\ statuses[e.service] # Down
     /\ AnchorReach(m, AliveHosts(m, e.service), AnchorsFor(e)) \in {Degraded, Down}}

(* computeExposureImpacts: services that every exposed endpoint lost *)
ExposureImpacts(m, statuses, existing) ==
  {s \in Services \ existing :
     LET exposed == {e \in EndpointsOf(s) : Exposed(e)} IN
     exposed # {} /\ exposed \subseteq Unreachable(m, statuses)}

(* candidateAssets, computeIsolated *)
IsolatedAssets(m) ==
  {x \in Assets \X Planes : Topology /\ x[1] \notin m.down /\ IsIsolated(m, x[1], x[2])}

(* computePartitions *)
Partitions(m) ==
  {d \in Active(t.dep) : ProviderEndpoint(d) # {} /\ DepReach(m, d) \in {Degraded, Down}}

(* computeRedundancyLost *)
RedundancyLost(m) ==
  {g \in NetGroups :
     LET all == {x.asset : x \in {y \in Active(t.member) : y.group = g /\ Installed(y.asset)}}
     IN Cardinality(all) > 1 /\ all \cap m.down # {}}

(* loadStructures: a VLAN, redundancy group, overlay or wireless LAN and the  *)
(* assets of its ports; an overlay also has those of the VLANs it ends in.    *)
Structures == {x \in t.structure : x.life # "retired"}
HoldsUp(x) == x.ports \cup UNION {v.ports : v \in {y \in t.structure : y.id \in x.vlans}}

(* analyseStructures: what the outage empties or leaves to one asset *)
StructureFindings(down) ==
  LET emptied(x) == HoldsUp(x) # {} /\ HoldsUp(x) \subseteq down
      alone(x) == Cardinality(HoldsUp(x)) > 1 /\ Cardinality(HoldsUp(x) \ down) = 1
  IN {[id |-> x.id, left |-> Cardinality(HoldsUp(x) \ down)] :
        x \in {y \in Structures : emptied(y) \/ alone(y)}}

----------------------------------------------------------------------------
(* What cutting one medium would do, told from the graph alone. *)

Adjacent(edges) == {{u.group, u.upstream} : u \in edges}

(* Mutant: one step is as far as the search goes. *)
ConnectedDirectly(edges, a, b) == {a, b} \in Adjacent(edges) \/ a = b

(* connected: breadth first from a; here, b is in every set that has a and   *)
(* is closed under the edges.                                                *)
Connected(edges, a, b) ==
  \A reached \in SUBSET Groups :
    a \in reached /\ (\A e \in Adjacent(edges) : e \cap reached # {} => e \subseteq reached)
      => b \in reached

(* cutEffect: the pairs the media join, and those nothing else joins *)
CutEffect(media) ==
  LET carried == {u \in Uplinks : u.medium \in media}
      rest == Uplinks \ carried
  IN [joined |-> Adjacent(carried),
      separated |-> {{u.group, u.upstream} : u \in {x \in carried : ~Connected(rest, x.group, x.upstream)}}]

(* CircuitCutEffect, LinkCutEffect, BundleCutEffect *)
MediumCutEffect(x) == CutEffect(StrandsOf(x))
BundleCutEffect(links) == CutEffect(links)

----------------------------------------------------------------------------
ReachInit == t \in Topologies /\ gone = {} /\ cut = {}

(* Simulate, for a request that names one asset more ... *)
LoseAsset(a) ==
  /\ a \notin gone /\ Cardinality(gone) < MaxNamed
  /\ gone' = gone \cup {a}
  /\ UNCHANGED <<t, cut>>

(* ... or one medium more, with all its strands. *)
CutMedium(x) ==
  /\ x \notin cut /\ Cardinality(cut) < MaxCut /\ x \in {y.id : y \in Active(t.medium)}
  /\ cut' = cut \cup StrandsOf(x)
  /\ UNCHANGED <<t, gone>>

ReachNext == (\E a \in Assets : LoseAsset(a)) \/ (\E x \in Media : CutMedium(x))

ReachSpec == ReachInit /\ [][ReachNext]_reachVars

----------------------------------------------------------------------------
(* Properties *)

(* The outage as it is being analysed. *)
Now == Model(DownAssets, cut)

(* The pairs of groups with a walk between them, over media that are left     *)
(* and through groups of the given set.                                      *)
Walks(through) ==
  UNION {LET edges == {u \in Uplinks : /\ u.plane = plane /\ u.medium \notin cut
                                       /\ {u.group, u.upstream} \subseteq through}
         IN {<<plane, x[1], x[2]>> : x \in
               {y \in through \X through : Connected(edges, y[1], y[2])}} : plane \in Planes}

Strong == {g \in NetGroups : GroupStatus(g, DownAssets) = OK}
Left == {g \in NetGroups : GroupStatus(g, DownAssets) # Down}

(* Where an asset is plugged in: the attachments of the nearest container,   *)
(* to a group that is left and through a chassis that is.                    *)
Declared(a, plane) == {x \in Attached : x.plane = plane /\ x.asset \in Range(t.up[a])}
Place(a, x) == CHOOSE i \in DOMAIN t.up[a] : t.up[a][i] = x.asset
PluggedInto(a, plane) ==
  {x.group : x \in
    {y \in Declared(a, plane) :
       /\ \A z \in Declared(a, plane) : Place(a, y) <= Place(a, z)
       /\ y.group \in Left
       /\ y.pins # {} => \E c \in y.pins : Installed(c) /\ Range(t.up[c]) \cap gone = {}}}

(* The union-find passes and the inheritance of attachments say what the     *)
(* topology says: two assets reach each other at full strength when some     *)
(* walk over uncut edges joins them through groups at full strength, with    *)
(* less when only a walk through weakened groups is left, not at all when    *)
(* there is none, and unknown is exactly an asset without an attachment of   *)
(* its own or of a container (reachModel.reach).                             *)
ReachIsExact ==
  LET m == Now
      strong == Walks(Strong)
      left == Walks(Left)
  IN \A plane \in Planes, x \in Assets : LET px == PluggedInto(x, plane) IN \A y \in Assets :
       LET py == PluggedInto(y, plane) IN
       ReachOf(m, x, y, plane) =
         IF Declared(x, plane) = {} \/ Declared(y, plane) = {} THEN Unknown
         ELSE IF \E p \in px, q \in py : <<plane, p, q>> \in strong THEN OK
         ELSE IF \E p \in px, q \in py : <<plane, p, q>> \in left THEN Degraded
         ELSE Down

(* No host that still runs the service is in the topology. *)
Unplaced(m, s) == \A h \in AliveHosts(m, s) : ~Modelled(m, h, "data")

(* A larger outage never looks better: no two assets reach each other better *)
(* than before (and what is unknown stays so), no asset that was cut off     *)
(* comes back, no group regains its redundancy, no VLAN, redundancy group or *)
(* overlay its ports (analyseStructures), and an endpoint or a service that  *)
(* lost its anchors (computeUnreachable, computeExposureImpacts) stays on    *)
(* the list as long as a host that runs it is in the topology.               *)
LossNeverImproves ==
  LET after == Now
      smaller == {<<gone \ {a}, cut>> : a \in gone} \cup {<<gone, cut \ StrandsOf(x)>> : x \in cut}
      st == [s \in Services |-> OK]
  IN \A outage \in smaller :
       LET before == Model(Subtree(outage[1]), outage[2]) IN
       /\ after.modelled = before.modelled
       /\ \A x, y \in Assets, plane \in Planes :
            LET b == ReachOf(before, x, y, plane) IN b # Unknown => ReachOf(after, x, y, plane) >= b
       /\ \A x \in IsolatedAssets(before) : x \in IsolatedAssets(after) \/ x[1] \in after.down
       /\ RedundancyLost(before) \subseteq RedundancyLost(after)
       /\ \A f \in StructureFindings(before.down) :
            \E g \in StructureFindings(after.down) : g.id = f.id /\ g.left <= f.left
       /\ \A e \in Unreachable(before, st) :
            e \in Unreachable(after, st) \/ Unplaced(after, e.service)
       /\ \A s \in ExposureImpacts(before, st, {}) :
            s \in ExposureImpacts(after, st, {}) \/ Unplaced(after, s)

(* What is said of a dependency or of a pool member is about hosts that run: *)
(* down when some pair of a consumer's and a provider's hosts is in the      *)
(* topology and no such pair has a walk left, well when every consumer that  *)
(* is in the topology has one at full strength (computeDepReach,             *)
(* computeRouteMemberReach).  Without a topology everything is well.         *)
VerdictsAreExact ==
  LET m == Now
      strong == Walks(Strong)
      left == Walks(Left)
      in(x) == Declared(x, "data") # {}
      walks(pairs, x, y) ==
        \E p \in PluggedInto(x, "data"), q \in PluggedInto(y, "data") : <<"data", p, q>> \in pairs
      exact(verdict, from, to) ==
        LET c == {x \in from : in(x)}  p == {y \in to : in(y)} IN
        /\ (verdict = Down) = (c # {} /\ p # {} /\ \A x \in c, y \in p : ~walks(left, x, y))
        /\ (verdict = OK) = (c # {} /\ p # {} /\ \A x \in c : \E y \in p : walks(strong, x, y))
  IN /\ \A d \in Active(t.dep), e \in LiveEndpoints :
          Topology /\ e \in ProviderEndpoint(d) /\ e.bind \in {"host", "vip"} =>
            exact(DepReach(m, d), AliveHosts(m, d.consumer), AliveHosts(m, e.service))
     /\ \A r \in t.route, e, f \in LiveEndpoints :
          f.id = r.frontend /\ f.bind = "vip" /\ e.id \in r.members /\ e.bind = "host" =>
            exact(RouteMemberReach(m, r, e), AliveHosts(m, f.service), AliveHosts(m, e.service))

(* The engine is exact about the network, asset by asset and dependency by   *)
(* dependency (reachModel.reach, computeDepReach, computeRouteMemberReach).  *)
EngineIsExact == ReachIsExact /\ VerdictsAreExact

(* What the page of a circuit or a cable says of a cut (cutEffect) is what   *)
(* the engine computes for the outage of that medium and nothing else, in an *)
(* estate where every group is up and no plane but the data plane is         *)
(* declared: a pair is separated exactly when the cut puts it in different   *)
(* components.  cutEffect walks the edges without asking after planes or     *)
(* group statuses, so elsewhere the two may differ.                          *)
CutSaysWhatTheEngineSays ==
  gone = {} /\ cut = {}
    /\ (\A u \in Uplinks : u.plane = "data" /\ {u.group, u.upstream} \subseteq NetGroups)
    /\ (\A g \in NetGroups : GroupStatus(g, {}) # Down)
  => \A x \in {y.id : y \in Active(t.medium)} :
       LET effect == MediumCutEffect(x)
           engine == Components(Uplinks, "data", NetGroups, StrandsOf(x))
           whole == Components(Uplinks, "data", NetGroups, {})
       IN /\ effect.separated = {e \in effect.joined : \A tree \in engine : ~(e \subseteq tree)}
          /\ (effect.separated # {}) = (engine # whole)
          /\ (effect.joined # {}) = (\E y \in StrandsOf(x) : JoinsGroups(y))
=============================================================================
