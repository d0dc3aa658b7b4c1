------------------------------ MODULE MCImpact ------------------------------
(* Impact for TLC: three services, one route, three instances, two hosts. *)
EXTENDS Impact, TLC

CONSTANTS db, app, proxy, vip, i1, i2, i3, h1, h2

Dep(consumer, provider, nature) ==
  [consumer |-> consumer, provider |-> provider, nature |-> nature,
   outlasted |-> TRUE, reach |-> "ok"]

Pairs == {p \in Services \X (Services \cup Routes) : p[1] # p[2]}
AnyDeps == {Dep(p[1], p[2], nature) : p \in Pairs, nature \in {"hard", "soft", "startup", "async"}}
FirstDeps == {d \in AnyDeps : d.nature \in {"hard", "startup"}}
HardDeps == {Dep(p[1], p[2], "hard") : p \in Pairs}

(* Edges the rounds pass over: a consumer or a provider that is not in the   *)
(* graph, an optional edge, an async one whose buffer lasts.                 *)
InertDeps == {Dep(None, db, "hard"), Dep(app, None, "hard"), Dep(app, db, "optional"),
              [Dep(app, db, "async") EXCEPT !.outlasted = FALSE]}

Member(s) == [service |-> s, reach |-> "ok"]
ProxiedPool == [frontend |-> proxy, members |-> {Member(db), Member(app)}]
BarePool == [frontend |-> None, members |-> {Member(db), Member(app)}]
EmptyPool == [frontend |-> app, members |-> {}]

Instance0 == [service |-> db, role |-> "replica", shard |-> None, disabled |-> FALSE, host |-> None]
Placed == [i \in Instances |->
  [Instance0 EXCEPT !.role = IF i = i1 THEN "primary" ELSE "standby",
                    !.service = IF i = i3 THEN app ELSE db, !.disabled = (i = i3)]]
Sharded == [i \in Instances |-> [Instance0 EXCEPT !.shard = IF i = i1 THEN 1 ELSE 2]]
Primary == [i \in Instances |-> [Instance0 EXCEPT !.role = IF i = i1 THEN "primary" ELSE "standby"]]
Unnamed == [i \in Instances |-> Instance0]

Plain(kind, min, auto) == [kind |-> kind, min |-> min, auto |-> auto]
Policies == {Plain("standalone", 0, FALSE), Plain("quorum", 0, FALSE),
             Plain("active_active", 0, FALSE), Plain("active_active", 2, FALSE),
             Plain("active_passive", 0, FALSE), Plain("active_passive", 0, TRUE),
             Plain("sharded", 0, FALSE)}

EstateOf(deps, route, policy, placed) ==
  [deps |-> deps, routes |-> [x \in Routes |-> route],
   policy |-> [s \in Services |-> policy], instance |-> placed, clusters |-> {}]

(* i1 and i2 run on the hosts of a cluster, i3 on neither; two instances of  *)
(* db on one host each, on the same host, or one of app beside one of db.    *)
Clustered(on, services) ==
  [i \in Instances |-> [Instance0 EXCEPT !.host = on[i], !.service = services[i],
                                        !.role = IF i = i1 THEN "primary" ELSE "standby"]]
Spread == (i1 :> h1) @@ (i2 :> h2) @@ (i3 :> None)
Packed == (i1 :> h1) @@ (i2 :> h1) @@ (i3 :> h2)
AllDB == [i \in Instances |-> db]
AppBeside == [i \in Instances |-> IF i = i2 THEN app ELSE db]
HA(members, restart, min) == [members |-> members, restart |-> restart, min |-> min]
ClusterSets == {{HA({h1, h2}, TRUE, 0)}, {HA({h1, h2}, TRUE, 2)}, {HA({h1, h2}, FALSE, 0)},
                {HA({h1}, TRUE, 0), HA({h2}, TRUE, 1)}, {HA({h1, h2}, TRUE, 2), HA({h2}, FALSE, 1)}}

(* The network as it is with nothing cut, hurt in places, and cut. *)
Net(dep, atDb, atApp) ==
  [dep |-> dep,
   member |-> [r \in Routes |-> [s \in Services |->
     IF s = db THEN atDb ELSE IF s = app THEN atApp ELSE {"ok"}]]]
MCNetworks ==
  {Net(<<>>, {"ok"}, {"ok"}), Net(<<"degraded", "ok">>, {"degraded"}, {"ok"}),
   Net(<<"down", "degraded", "down">>, {"degraded", "down"}, {"down"})}

(* A hard or a startup edge and any other one, behind a proxied pool, or a   *)
(* bare one when the pool is a provider; every chain and cycle of three hard *)
(* edges; an empty pool; every policy with every placement.                  *)
Handover == Plain("active_passive", 0, FALSE)
Rings == {<<d, e, f>> \in HardDeps \X HardDeps \X HardDeps :
            Cardinality({d.consumer, e.consumer, f.consumer}) = 3}
MCEstates ==
  {EstateOf(<<d, e>>, ProxiedPool, Handover, Placed) : d \in FirstDeps, e \in AnyDeps \cup InertDeps}
  \cup {EstateOf(<<d, e>>, BarePool, Handover, Placed) :
          d \in {x \in FirstDeps : x.provider = vip}, e \in AnyDeps}
  \cup {EstateOf(ring, ProxiedPool, Handover, Placed) : ring \in Rings}
  \cup {EstateOf(<<d, e>>, EmptyPool, Handover, Placed) : d \in {x \in HardDeps : x.provider = vip}, e \in HardDeps}
  \cup {EstateOf(<<Dep(app, vip, "hard"), Dep(proxy, app, "soft")>>, BarePool, policy, placed) :
          policy \in Policies, placed \in {Sharded, Primary, Unnamed}}
  \cup {[EstateOf(<<Dep(app, vip, "hard"), Dep(proxy, app, nature)>>, ProxiedPool, policy,
                   Clustered(on, services)) EXCEPT !.clusters = clusters] :
          nature \in {"hard", "startup"}, policy \in {Plain("quorum", 0, FALSE), Plain("active_passive", 0, FALSE)},
          on \in {Spread, Packed}, services \in {AllDB, AppBeside}, clusters \in ClusterSets}
=============================================================================
