------------------------------- MODULE Paths -------------------------------
(***************************************************************************)
(* The two pictures of the cable plant, on the estate of Reach: the way    *)
(* from here to there (internal/store/path.go) and what one asset touches  *)
(* (internal/store/neighbourhood.go).  A cable carries up (both its ports  *)
(* are enabled) and mgmt (one of its ports is a management port).          *)
(***************************************************************************)
EXTENDS Reach

CONSTANTS Budget,   \* PathDefaultMaxAssets and NeighbourhoodDefaultMaxAssets
          MaxHops,  \* NeighbourhoodMaxHops
          Rank      \* asset -> its place in the order of names and of ids

ASSUME RankAssumption == Rank \in [Assets -> Int] /\ \A x, y \in Assets : Rank[x] = Rank[y] => x = y
ASSUME BudgetAssumption == Budget \in Nat /\ MaxHops \in Nat

(* A cable has a port of an asset at both its ends. *)
ASSUME PlantAssumption ==
  /\ Assets \cap Services = {}
  /\ \A e \in Topologies :
       /\ IsFiniteSet(e.dep)
       /\ \A x \in e.medium : x.id \in Links => {x.a, x.b} \subseteq Assets

Anyone == Assets \cup Services

----------------------------------------------------------------------------
(* dataPlaneAdjacency: pairs of assets with a cable, whatever its ports, and  *)
(* with one whose ports are both enabled.                                     *)
Cables == {x \in Active(t.medium) : x.id \in Links}
DataCables == {x \in Cables : ~x.mgmt /\ x.a # x.b}
Patched == {{x.a, x.b} : x \in DataCables}
Live == {{x.a, x.b} : x \in {y \in DataCables : y.up}}

Neighbours(adj, reached) == (UNION {e \in adj : e \cap reached # {}}) \cup reached

(* bfs, from several seeds: the nodes that can be reached, with the distance  *)
Bfs(adj, seeds) ==
  LET ring[n \in 0..Cardinality(Assets)] ==
        IF n = 0 THEN seeds ELSE LET before == ring[n - 1] IN Neighbours(adj, before)
      rings == [n \in 0..Cardinality(Assets) |-> ring[n]]
  IN [u \in rings[Cardinality(Assets)] |-> Min({n \in DOMAIN rings : u \in rings[n]})]

(* shortestUnion, mark: what lies on a shortest way from the anchor whose     *)
(* distances are near to the side whose distances are far.                    *)
Mark(adj, near, far) ==
  LET both == DOMAIN near \cap DOMAIN far
      best == Min({near[u] + far[u] : u \in both})
      on == {u \in both : near[u] + far[u] = best}
      steps == {x \in on \X DOMAIN far : {x[1], x[2]} \in adj /\ near[x[1]] + 1 + far[x[2]] = best}
  IN IF both = {} THEN [nodes |-> {}, edges |-> {}]
     ELSE [nodes |-> on \cup {x[2] : x \in steps}, edges |-> {{x[1], x[2]} : x \in steps}]

(* Mutant: the shortest ways between the two sides, not those of every        *)
(* anchor.                                                                    *)
ShortestUnionOfSides(adj, from, to) ==
  LET far == Bfs(adj, to)
      best == {x \in from \cap DOMAIN far : \A y \in from \cap DOMAIN far : far[x] <= far[y]}
      marks == {Mark(adj, Bfs(adj, {x}), far) : x \in best}
  IN [nodes |-> UNION {x.nodes : x \in marks}, edges |-> UNION {x.edges : x \in marks}]

ShortestUnion(adj, from, to) ==
  LET marks == {Mark(adj, Bfs(adj, {x}), Bfs(adj, to)) : x \in from}
                 \cup {Mark(adj, Bfs(adj, {x}), Bfs(adj, from)) : x \in to}
  IN IF from = {} \/ to = {} THEN [nodes |-> {}, edges |-> {}]
     ELSE [nodes |-> UNION {x.nodes : x \in marks}, edges |-> UNION {x.edges : x \in marks}]

PathHops(adj, from, to) ==
  LET dist == Bfs(adj, from) IN Min({dist[x] : x \in to \cap DOMAIN dist})

(* neighbourhoodLinks: every cable inside the set, on whatever plane *)
LinksInside(ids) == {x \in Cables : {x.a, x.b} \subseteq ids}

FirstBy(ids, before(_, _)) == {x \in ids : Cardinality({y \in ids : before(y, x)}) < Budget}

(* blockingPorts: the pairs of the patched ways none of whose cables is up *)
BlockingPorts(from, to) ==
  LET route == ShortestUnion(Patched, from, to)
      marked == FirstBy(route.nodes, LAMBDA x, y : Rank[x] < Rank[y])
      along == {x \in LinksInside(marked) : {x.a, x.b} \in route.edges}
  IN {x \in along : \A y \in along : {y.a, y.b} = {x.a, x.b} => ~y.up}

(* resolvePathEnd: an asset, or the hosts of a service *)
PathEnd(e) ==
  IF e \in Assets THEN {e}
  ELSE {i.host : i \in {x \in t.instance : x.service = e /\ t.life[x.host] # "retired"}}

(* resolveAttachedChassis, withoutAnchors: the chassis of every group that an *)
(* anchor or any of its containers is attached to.                            *)
AttachedChassis(from) ==
  LET groups == {x.group : x \in {y \in Attached : /\ y.plane = "data"
                                                    /\ \E a \in from : y.asset \in Range(t.up[a])}}
  IN {x.asset : x \in {y \in Active(t.member) : y.group \in groups}} \ from

(* The cut at the budget, the ends before everything else, and what is said   *)
(* of the route; far is the part of the other side that is drawn as an end.   *)
Drawn(from, to, far, route, toNear, toFar) ==
  LET all == route.nodes \cup from \cup far
      hop(x) == IF x \in DOMAIN toNear THEN toNear[x] ELSE Cardinality(Assets)
      first(x, y) ==
        IF (x \in from \cup to) # (y \in from \cup to) THEN x \in from \cup to
        ELSE IF hop(x) # hop(y) THEN hop(x) < hop(y) ELSE Rank[x] < Rank[y]
      kept == FirstBy(all, first)
  IN [from |-> from, to |-> to, found |-> route.nodes # {},
      hops |-> IF route.nodes # {} THEN PathHops(Live, from, to) ELSE 0,
      unrouted |-> kept \cap ((IF to = {} THEN {} ELSE from \ DOMAIN toFar) \cup (far \ DOMAIN toNear)),
      blocked |-> IF route.nodes = {} THEN BlockingPorts(from, to) ELSE {},
      drawn |-> kept, elided |-> Cardinality(all \ kept),
      links |-> {x \in LinksInside(kept) : {x.a, x.b} \in route.edges}]

PathBetween(from, to, far) ==
  Drawn(from, to, far, ShortestUnion(Live, from, to), Bfs(Live, from), Bfs(Live, to))

(* Path; without a far end (None) the question is where the near one sits. *)
Path(near, end) ==
  IF end = None THEN PathBetween(PathEnd(near), AttachedChassis(PathEnd(near)), {})
  ELSE PathBetween(PathEnd(near), PathEnd(end), PathEnd(end))

----------------------------------------------------------------------------
Container == {<<x, t.up[x][2]>> : x \in {y \in Assets : Len(t.up[y]) > 1}}

(* neighbourhoodAssets, adj: a cable both ways, a management cable only out   *)
(* of the seed, containment only upwards.                                     *)
Steps(hop) ==
  LET followed == {x \in Cables : ~x.mgmt \/ hop = 0}
  IN {<<x.a, x.b>> : x \in followed} \cup {<<x.b, x.a>> : x \in followed} \cup Container

(* Neighbourhood: the walk from everything inside the subject, the shortest   *)
(* hop of each asset, and the cut.                                            *)
Neighbourhood(subject, hops) ==
  LET seed == Subtree({subject})
      ring[n \in 0..hops] ==
        IF n = 0 THEN seed
        ELSE LET before == ring[n - 1]
             IN before \cup {e[2] : e \in {x \in Steps(n - 1) : x[1] \in before}}
      rings == [n \in 0..hops |-> ring[n]]
      hop(x) == Min({n \in 0..hops : x \in rings[n]})
      all == {x \in rings[hops] : t.life[x] # "retired" \/ x = subject}
      first(x, y) == IF hop(x) # hop(y) THEN hop(x) < hop(y) ELSE Rank[x] < Rank[y]
      kept == FirstBy(all, first)
  IN [assets |-> {[id |-> x, hop |-> hop(x)] : x \in kept}, elided |-> Cardinality(all \ kept)]

(* neighbourhoodWorkloads: what runs on the assets, what it listens on, the   *)
(* dependencies between two of these services, and how many lead elsewhere.   *)
ProviderOf(d) ==
  {e.service : e \in {x \in t.endpoint : \/ x.id = d.provider
                                         \/ \E r \in t.route : r.id = d.provider /\ r.frontend = x.id}}
Workloads(ids) ==
  LET services == {i.service : i \in {x \in t.instance : x.host \in ids}}
      touching == {d \in Active(t.dep) : d.consumer \in services \/ ProviderOf(d) \cap services # {}}
      within == {d \in touching : d.consumer \in services /\ ProviderOf(d) \cap services # {}}
  IN [services |-> services, placements |-> {x \in t.instance : x.host \in ids},
      endpoints |-> {e \in LiveEndpoints : e.service \in services},
      dependencies |-> within, outside |-> Cardinality(touching \ within)]

(* pathWorkloads: of all that, what belongs to the services that are asked about *)
PathWorkloads(ids, asked) ==
  LET all == Workloads(ids) IN
  [services |-> all.services \cap asked,
   placements |-> {x \in all.placements : x.service \in asked},
   endpoints |-> {e \in all.endpoints : e.service \in asked},
   dependencies |-> {d \in all.dependencies : d.consumer \in asked /\ ProviderOf(d) \subseteq asked}]

----------------------------------------------------------------------------
(* Properties.  They are about the estate alone: no outage. *)
Undisturbed == gone = {} /\ cut = {}

(* The routes that visit no asset twice, along the arcs that are given for    *)
(* each position; a reference that enumerates what the searches compute.      *)
SimpleRoutes(arcs, most) ==
  LET of[n \in 1..most] ==
        IF n = 1 THEN {<<x>> : x \in Assets}
        ELSE LET shorter == of[n - 1]
             IN shorter \cup {Append(x[1], x[2][2]) : x \in
                  {y \in shorter \X arcs[n - 1] :
                     Len(y[1]) = n - 1 /\ y[1][n - 1] = y[2][1] /\ y[2][2] \notin Range(y[1])}}
  IN of[most]

Ends(r) == r[Len(r)]
Shortest(routes) == {r \in routes : \A q \in routes : Len(r) <= Len(q)}
Arcs(adj) == {e \in Assets \X Assets : {e[1], e[2]} \in adj}

(* The routes of one asset to a side, of a side to the other, and what lies   *)
(* on the shortest ones of every asset of a side.                             *)
Ways(routes, x, side) == {r \in routes : r[1] = x /\ Ends(r) \in side}
Crossings(routes, from, to) == UNION {Ways(routes, x, to) : x \in from}
OnTheWay(routes, from, to) ==
  UNION {UNION {Range(r) : r \in Shortest(Ways(routes, x, to))} : x \in from}

(* What the routes say of a picture; far is the far end, when one is asked for. *)
Pictured(p, routes, far) ==
  LET across == Crossings(routes, p.from, p.to)
      drawn == p.from \cup far \cup OnTheWay(routes, p.from, p.to) \cup OnTheWay(routes, p.to, p.from)
  IN /\ p.found = (across # {})
     /\ p.found => \E r \in Shortest(across) : p.hops = Len(r) - 1
     /\ p.drawn \subseteq drawn /\ p.elided = Cardinality(drawn \ p.drawn)
     /\ Cardinality(drawn) <= Budget => p.elided = 0
     /\ Cardinality(p.from \cup far) <= Budget => p.from \cup far \subseteq p.drawn
     /\ p.unrouted = p.drawn \cap ({x \in p.from : p.to # {} /\ Ways(routes, x, p.to) = {}}
                                  \cup {x \in far : Ways(routes, x, p.from) = {}})

(* The picture of a path is the union of all shortest live routes of every    *)
(* anchor to the far side, from both sides (the rules above PathQuery,        *)
(* path.go:27): found, hops and the stranded anchors say what the routes      *)
(* say, what the budget cuts is transit, as long as the anchors fit, and the  *)
(* services that are asked about are drawn on their anchors only.             *)
PathIsExact ==
  Undisturbed =>
    \A routes \in {SimpleRoutes([n \in 1..Cardinality(Assets) |-> Arcs(Live)], Cardinality(Assets))} :
    \A near \in Anyone, end \in Anyone \cup {None} :
    \A p \in {Path(near, end)} :
      /\ Pictured(p, routes, IF end = None THEN {} ELSE p.to)
      /\ \A x \in PathWorkloads(p.drawn, {near, end} \cap Services).placements :
           x.host \in p.from \cup p.to \/ t.life[x.host] = "retired"

(* When there is no live route and the cabling has one, the ports that are    *)
(* named stand between the two sides: some are named, and with them enabled   *)
(* there is a route (blockingPorts, path.go:610).  Where a management cable   *)
(* runs beside a disabled one, or the budget cuts the patched route, the      *)
(* names may be missing: those plants are left out.                           *)
BlockedExplains ==
  Undisturbed /\ (\A x \in Cables, y \in DataCables : x.mgmt => {x.a, x.b} # {y.a, y.b}) =>
    \A near \in Anyone, end \in Anyone \cup {None} :
    \A p \in {Path(near, end)} :
      LET patched == ShortestUnion(Patched, p.from, p.to)
          opened == Live \cup {{x.a, x.b} : x \in p.blocked}
      IN ~p.found /\ Cardinality(patched.nodes) <= Budget =>
           /\ (p.blocked # {}) = (patched.nodes # {})
           /\ p.blocked # {} => ShortestUnion(opened, p.from, p.to).nodes # {}

(* "names the ... ports that are the ONLY thing standing between the two      *)
(* sides: set when no live route exists but one would if those ports were     *)
(* enabled" (path.go:96), on every plant.                                     *)
BlockedIsSet ==
  Undisturbed =>
    \A near, end \in Assets :
      \A p \in {Path(near, end)} :
         ~p.found /\ ShortestUnion(Patched, p.from, p.to).nodes # {} => p.blocked # {}

(* The walks out of the subject and what is in it, those that end at an asset *)
(* that is drawn, and the hops of the shortest one to it.                     *)
WalksOut(subject, hops) ==
  LET cables(n) == {{x.a, x.b} : x \in {y \in Cables : ~y.mgmt \/ n = 1}}
      arcs == [n \in 1..hops |-> Container \cup Arcs(cables(n))]
  IN {r \in SimpleRoutes(arcs, hops + 1) : r[1] \in Subtree({subject})}
WalkedTo(walks, subject) ==
  {x \in {Ends(r) : r \in walks} : t.life[x] # "retired" \/ x = subject}
HopsTo(walks, x) == Min({Len(r) - 1 : r \in {w \in walks : Ends(w) = x}})

(* What the walks say of a neighbourhood. *)
Surveyed(g, walks, subject) ==
  LET ids == {a.id : a \in g.assets}
      near == WalkedTo(walks, subject)
      w == Workloads(ids)
  IN /\ \A a \in g.assets : a.id \in near /\ a.hop = HopsTo(walks, a.id)
     /\ g.elided = Cardinality(near) - Cardinality(g.assets)
     /\ \A x \in near \ ids : \A a \in g.assets : a.hop <= HopsTo(walks, x)
     /\ Cardinality(near) <= Budget => g.elided = 0
     /\ Cardinality({d \in Active(t.dep) : ({d.consumer} \cup ProviderOf(d)) \cap w.services # {}})
          = Cardinality(w.dependencies) + w.outside

(* A neighbourhood is what can be walked to from the subject and what is in   *)
(* it: cables of the data plane, a console cable out of the subject only,     *)
(* containers (the comment at neighbourhood.go:220).  Two hosts that share    *)
(* nothing but a console switch are not neighbours.  Hops are the shortest    *)
(* ones, and the cut takes the furthest first.  Every dependency of a service *)
(* in the picture is drawn or counted.                                        *)
NeighbourhoodIsExact ==
  Undisturbed =>
    \A subject \in Assets, hops \in 1..MaxHops :
    \A walks \in {WalksOut(subject, hops)} : Surveyed(Neighbourhood(subject, hops), walks, subject)

(* The three pictures say what the plant says: the path, the ports that block *)
(* it, and the neighbourhood (Path, blockingPorts, Neighbourhood).            *)
PicturesAreExact == PathIsExact /\ BlockedExplains /\ NeighbourhoodIsExact

(* "The subject is hop 0 and can never be cut" (neighbourhood.go:276). *)
SubjectIsNeverCut ==
  Undisturbed =>
    \A subject \in Assets : subject \in {a.id : a \in Neighbourhood(subject, 1).assets}
=============================================================================
