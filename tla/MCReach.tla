------------------------------ MODULE MCReach ------------------------------
(* Reach for TLC: three forwarder groups, two hosts (one in a rack), two      *)
(* services, a circuit and two cables.                                        *)
EXTENDS Paths, Power, TLC

CONSTANTS s1, s2, s3, s4, rack, h1, h2, c1, l1, l2, l3, l4, l5, web, db

Pol(kind, min, auto) == [kind |-> kind, min |-> min, auto |-> auto]
Standalone == Pol("standalone", 0, FALSE)

Member(g, a, role) == [group |-> g, asset |-> a, role |-> role, life |-> "active"]
Uplink(a, b, plane) == [group |-> a, upstream |-> b, plane |-> plane, life |-> "active"]
Medium(x, a, b) == [id |-> x, a |-> a, b |-> b, breakout |-> None, up |-> TRUE, mgmt |-> FALSE, life |-> "active"]
Attach(a, g, plane, pins) ==
  [asset |-> a, group |-> g, plane |-> plane, pins |-> pins, life |-> "active"]
Endpoint(id, s, bind, exposure) ==
  [id |-> id, service |-> s, bind |-> bind, exposure |-> exposure, life |-> "active"]
Dep(c, p) == [consumer |-> c, provider |-> p, life |-> "active"]

Source(id, parent, kind) == [id |-> id, parent |-> parent, kind |-> kind, life |-> "active"]
Panel(id, source) == [id |-> id, source |-> source, life |-> "active"]
Feed(id, panel) == [id |-> id, panel |-> panel, life |-> "active"]
Input(a, n, feed) == [asset |-> a, name |-> n, feed |-> feed, life |-> "active"]

Base ==
  [life |-> [a \in Assets |-> "active"],
   up |-> [a \in Assets |-> IF a = h1 THEN <<h1, rack>> ELSE <<a>>],
   group |-> [g \in Groups |-> [life |-> "active", policy |-> Standalone]],
   member |-> {Member(1, s1, "primary"), Member(1, s2, "standby"), Member(2, s3, "primary"),
               Member(3, s4, "primary")},
   uplink |-> {Uplink(1, 3, "data")},
   medium |-> {Medium(c1, s1, s3), Medium(l1, s3, s4)},
   attachment |-> {Attach(h1, 1, "data", {}), Attach(h2, 2, "data", {})},
   anchor |-> {[scope |-> "internet", group |-> 3, env |-> None, life |-> "active"]},
   instance |-> {[id |-> 1, service |-> web, host |-> h1, disabled |-> FALSE],
                 [id |-> 2, service |-> web, host |-> h2, disabled |-> FALSE],
                 [id |-> 3, service |-> db, host |-> h2, disabled |-> FALSE]},
   endpoint |-> {Endpoint("e1", web, "vip", "internet"), Endpoint("e2", db, "host", "internal")},
   dep |-> {Dep(web, "e2")},
   route |-> {[id |-> "r1", frontend |-> "e1", members |-> {"e2"}]},
   structure |-> {[id |-> "vlan", ports |-> {s1, s3}, vlans |-> {}, life |-> "active"],
                  [id |-> "fhrp", ports |-> {s1, s2}, vlans |-> {}, life |-> "active"],
                  [id |-> "l2vpn", ports |-> {s4}, vlans |-> {"vlan"}, life |-> "active"]},
   source |-> {Source("grid", None, "utility"), Source("ups1", "grid", "ups"),
               Source("ups2", "grid", "ups")},
   panel |-> {Panel("p1", "ups1"), Panel("p2", "ups2")},
   feed |-> {Feed("f1", "p1"), Feed("f2", "p1"), Feed("f3", "p2")},
   input |-> {Input(rack, 1, "f1"), Input(rack, 2, "f3"), Input(s1, 1, "f1")},
   policy |-> [s \in Services |-> Standalone],
   env |-> [s \in Services |-> "prod"],
   cluster |-> [s \in Services |-> None],
   nodes |-> <<>>]

(* What group 1 is worth when one of its two chassis is lost. *)
Policies == {Standalone, Pol("active_active", 2, FALSE), Pol("active_passive", 0, FALSE),
             Pol("active_passive", 0, TRUE), Pol("quorum", 0, FALSE)}
ByPolicy == {[Base EXCEPT !.group[1].policy = p, !.uplink = u] :
               p \in Policies, u \in {{}, Base.uplink}}

(* Which edges there are, of which kind and on which plane. *)
ByEdges ==
  {[Base EXCEPT !.uplink = u, !.medium = x] :
     u \in {{}, {Uplink(1, 2, "data")}, {Uplink(1, 2, "mgmt"), Uplink(2, 3, "data")},
            {[Uplink(2, 3, "data") EXCEPT !.life = "retired"]}},
     x \in {{}, {Medium(l1, s1, s4), Medium(l2, s2, s4)},
            {[Medium(l1, s1, s3) EXCEPT !.breakout = "b"], [Medium(l2, s1, s4) EXCEPT !.breakout = "b"]},
            {[Medium(l1, s1, s3) EXCEPT !.life = "retired"], Medium(c1, s3, s4)},
            {Medium(l1, s1, s2), Medium(l2, s2, s3)}}}

(* How the hosts are attached: by their own, their rack's, pinned to one     *)
(* chassis, on another plane, to a group that is withdrawn, not at all.      *)
ByAttachment ==
  {[Base EXCEPT !.attachment = x, !.group[1].policy = Pol("active_active", 2, FALSE)] :
     x \in {{Attach(rack, 1, "data", {}), Attach(h2, 2, "data", {})},
            {Attach(h1, 1, "data", {s1}), Attach(rack, 3, "data", {}), Attach(h2, 2, "data", {})},
            {Attach(h1, 1, "data", {s1}), Attach(h1, 1, "data", {s2}), Attach(h2, 3, "data", {})},
            {Attach(h1, 1, "mgmt", {}), Attach(rack, 2, "data", {}), Attach(h2, 3, "mgmt", {}),
             Attach(h2, 1, "data", {s2})},
            {Attach(h2, 2, "data", {}), Attach(h2, 1, "data", {})},
            {[Attach(h1, 1, "data", {}) EXCEPT !.life = "retired"], Attach(h2, 2, "data", {s3})}}}

(* Chassis and groups that are not in service; a chassis in two groups. *)
ByLife ==
  {[Base EXCEPT !.life[s1] = l, !.group[2].life = "maintenance"] : l \in {"planned", "maintenance", "retired"}}
  \cup {[Base EXCEPT !.group[3].life = "retired"],
        [Base EXCEPT !.member = @ \cup {Member(2, s1, "standby")}],
        [Base EXCEPT !.member = {x \in @ : x.group # 2}]}

(* Services that need no network, that sit in a cluster, that are reached by *)
(* route; anchors of one environment.                                        *)
ByService ==
  {[Base EXCEPT !.endpoint = {Endpoint("e1", web, "loopback", None), Endpoint("e2", db, "unix", None)}],
   [Base EXCEPT !.endpoint = {Endpoint("e1", web, "vip", "environment"), Endpoint("e2", db, "host", "internet")},
                !.anchor = {[scope |-> "environment", group |-> 2, env |-> "prod", life |-> "active"],
                            [scope |-> "environment", group |-> 1, env |-> "test", life |-> "active"]}],
   [Base EXCEPT !.endpoint = {Endpoint("e1", web, "vip", "internet"), Endpoint("e2", db, "cluster_ip", "internal")},
                !.cluster = [s \in Services |-> IF s = db THEN "k8s" ELSE None],
                !.nodes = ("k8s" :> {h1, h2})],
   [Base EXCEPT !.dep = {Dep(db, "r1"), Dep(web, "e9")},
                !.instance = {[x EXCEPT !.disabled = (x.id = 2)] : x \in @}],
   [Base EXCEPT !.group = [g \in Groups |-> [life |-> "retired", policy |-> Standalone]],
                !.attachment = {}, !.anchor = {}]}

(* A ring of four cables, none, some or all with a port disabled, and one more *)
(* cable, disabled beside one of them or of the management plane.             *)
ByPlant ==
  {[Base EXCEPT !.uplink = {}, !.life[h2] = IF fifth.mgmt THEN "retired" ELSE "active",
                !.attachment = @ \cup {Attach(rack, 3, "data", {})},
                !.medium = {[Medium(x[1], x[2], x[3]) EXCEPT !.up = x[1] \notin down] : x \in
                              {<<l1, h1, s1>>, <<l2, s1, s3>>, <<l3, s3, h2>>, <<l4, h2, h1>>}}
                           \cup {fifth}] :
     down \in {{}, {l1}, {l2}, {l1, l3}, {l2, l4}, {l3, l4}, {l1, l2, l3, l4}},
     fifth \in {[Medium(l5, s1, s3) EXCEPT !.up = FALSE],
                [Medium(l5, s3, s4) EXCEPT !.mgmt = TRUE]}}

(* A disabled data cable with a management cable beside it. *)
Beside ==
  {[Base EXCEPT !.medium = {[Medium(l1, h1, s1) EXCEPT !.up = FALSE],
                            [Medium(l2, h1, s1) EXCEPT !.mgmt = TRUE], Medium(l3, s1, h2)}]}

(* Inputs that share a feed, a panel, a UPS, the grid or nothing; supplies in *)
(* a chain; what is retired on the way.                                       *)
ByPower ==
  {[Base EXCEPT !.input = i, !.source = u] :
     i \in {{Input(h1, 1, "f1"), Input(h1, 2, "f1")}, {Input(h1, 1, "f1"), Input(h1, 2, "f2"), Input(s3, 1, "f3")},
            {Input(h1, 1, "f1"), Input(h1, 2, "f3"), Input(h2, 1, "f2")}},
     u \in {Base.source, {Source("ups1", None, "ups"), Source("ups2", None, "ups")},
            {Source("ups1", None, "ups"), Source("ups2", "ups1", "transfer_switch")},
            {Source("grid", None, "utility"), Source("ups1", "grid", "ups"),
             [Source("ups2", "ups1", "ups") EXCEPT !.life = "retired"]}}}
  \cup {[Base EXCEPT !.feed = {[f EXCEPT !.life = IF f.id = "f3" THEN "retired" ELSE @] : f \in @}]}

MCRank == [a \in Assets |-> CASE a = rack -> 7 [] a = h1 -> 1 [] a = h2 -> 4
                              [] a = s1 -> 5 [] a = s2 -> 2 [] a = s3 -> 3 [] a = s4 -> 6]

MCTopologies == ByPolicy \cup ByEdges \cup ByAttachment \cup ByLife \cup ByService \cup ByPlant \cup Beside \cup ByPower
=============================================================================
