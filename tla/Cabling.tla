------------------------------ MODULE Cabling ------------------------------
(***************************************************************************)
(* Ports, cables and panel strands (internal/store/network.go, cabling.go, *)
(* RetireAsset of assets.go) under concurrent requests.  On SQLite a        *)
(* transaction is one step.  On PostgreSQL it opens (its SELECTs) and      *)
(* commits in two; CreateLink, CreateBreakout and RetireAsset are           *)
(* serializable and retried, everything else runs at READ COMMITTED.       *)
(* Only live cables and strands are state: no query of these operations    *)
(* looks at a retired one, and none comes back.                            *)
(***************************************************************************)
EXTENDS Integers, FiniteSets

CONSTANTS Ports,      \* a set of positive numbers
          AssetOf,    \* port -> the asset it belongs to
          Positions,  \* positions of a rear port
          Media,      \* medium and length of a cable
          Engines,    \* subset of {"sqlite", "postgres"}
          Plants,     \* the cables and strands there may be at the start
          BusyPorts,  \* bound: the ports that requests name
          BusyAssets, \* bound: the assets that requests name
          MaxStrands, \* bound: strands of a new breakout cable
          Requests,   \* concurrent HTTP requests
          MaxStarted, \* bound: requests started in a behaviour
          MaxRows,    \* bound: ids handed out to cables and strands
          Attempts    \* attempts of writeSerializable (3 in the code)

ASSUME PortsAssumption == Ports \subseteq Nat \ {0} /\ DOMAIN AssetOf = Ports
ASSUME EnginesAssumption == Engines \subseteq {"sqlite", "postgres"}
ASSUME BoundsAssumption == MaxStarted \in Nat /\ MaxRows \in Nat /\ Attempts \in Nat \ {0}
ASSUME BusyAssumption ==
  BusyPorts \subseteq Ports /\ IsFiniteSet(BusyPorts) /\ MaxStrands \in Nat

(* The plants to begin with: the first ids are theirs, and no port is cabled *)
(* twice but the a-end of a breakout.                                        *)
ASSUME PlantsAssumption ==
  \A plant \in Plants :
    LET n == Cardinality(plant.links) + Cardinality(plant.strands)
    IN /\ n \in Nat
       /\ \A l \in plant.links : l.id \in 1..n /\ l.brk \in 0..n
       /\ \A l, k \in plant.links : l # k =>
            /\ l.id # k.id
            /\ \A p \in {l.a, l.b} \cap {k.a, k.b} :
                 l.brk # 0 /\ l.brk = k.brk /\ p = l.a /\ p = k.a

Assets == {AssetOf[p] : p \in Ports}

VARIABLES engine,  \* the engine (never changes)
          asset,   \* asset -> lifecycle and row_version
          port,    \* port -> lifecycle and row_version
          links,   \* the live cables
          strands, \* the live pass-throughs
          ids,     \* ids handed out
          req,     \* what each request holds in memory
          started  \* requests started so far

vars == <<engine, asset, port, links, strands, ids, req, started>>
stored == <<asset, port, links, strands>>

Lives == {"active", "retired"}
Idle == [op |-> "idle"]

LinkRow == [id : 1..MaxRows, a : Ports, b : Ports, brk : 0..MaxRows, medium : Media, ver : Nat]
StrandRow == [id : 1..MaxRows, front : Ports, rear : Ports, position : Positions]

TypeOK ==
  /\ engine \in Engines /\ ids \in 0..MaxRows /\ started \in 0..MaxStarted
  /\ asset \in [Assets -> [life : Lives, ver : Nat]]
  /\ port \in [Ports -> [life : Lives, ver : Nat]]
  /\ \A l \in links : l \in LinkRow
  /\ \A t \in strands : t \in StrandRow
  /\ \A r \in Requests : req[r] # Idle =>
       req[r].op \in {"asked", "open"} /\ req[r].attempt \in 1..Attempts

----------------------------------------------------------------------------
(* The cables and the strands that end at a port. *)
Cables(p) == {l \in links : p \in {l.a, l.b}}
Strands(p) == {t \in strands : p \in {t.front, t.rear}}

Init ==
  /\ engine \in Engines
  /\ asset = [x \in Assets |-> [life |-> "active", ver |-> 1]]
  /\ port = [p \in Ports |-> [life |-> "active", ver |-> 1]]
  /\ \E plant \in Plants, m \in Media :
       /\ links = {[id |-> l.id, a |-> l.a, b |-> l.b, brk |-> l.brk, medium |-> m,
                    ver |-> 1] : l \in plant.links}
       /\ strands = plant.strands
       /\ ids = Cardinality(plant.links) + Cardinality(plant.strands)
  /\ req = [r \in Requests |-> Idle]
  /\ started = 0

(* A handler and its store method up to the transaction, with the ids the    *)
(* handler makes up (NewID).                                                 *)
Ask(r, do, with, new) ==
  /\ req[r] = Idle /\ started < MaxStarted /\ ids + new <= MaxRows
  /\ started' = started + 1 /\ ids' = ids + new
  /\ req' = [req EXCEPT ![r] = [op |-> "asked", do |-> do, with |-> with, attempt |-> 1]]
  /\ UNCHANGED <<engine, stored>>

(* The two ends of an ordinary cable are treated alike: a is the smaller. *)
LinkCreate(r) ==
  \E a, b \in BusyPorts, m \in Media : a < b /\
    Ask(r, "CreateLink", [id |-> ids + 1, a |-> a, bs |-> {b}, medium |-> m], 1)

(* BreakoutSpec.Validate: two strands or more, no port twice. *)
BreakoutCreate(r) ==
  \E a \in BusyPorts, m \in Media : \E bs \in SUBSET (BusyPorts \ {a}) :
    Cardinality(bs) \in 2..MaxStrands /\
    Ask(r, "CreateBreakout", [id |-> ids + 1, a |-> a, bs |-> bs, medium |-> m], Cardinality(bs))

(* The form carries the version of the cable it was drawn from. *)
LinkUpdate(r) ==
  \E l \in links, m \in Media :
    Ask(r, "UpdateLink", [id |-> l.id, brk |-> l.brk, medium |-> m, token |-> l.ver], 0)

LinkRetire(r) == \E l \in links : Ask(r, "RetireLink", [id |-> l.id], 0)

(* A port of that name is withdrawn: it is going to come back as itself. *)
InterfaceCreate(r) ==
  \E p \in BusyPorts : port[p].life = "retired" /\ Ask(r, "CreateInterface", [port |-> p], 0)

InterfaceRetire(r) ==
  \E p \in BusyPorts : port[p].life = "active" /\
    Ask(r, "RetireInterface", [port |-> p, token |-> port[p].ver], 0)

PassThroughCreate(r) ==
  \E f, q \in BusyPorts, n \in Positions : f # q /\
    Ask(r, "CreatePassThrough", [id |-> ids + 1, front |-> f, rear |-> q, position |-> n], 1)

PassThroughRetire(r) == \E t \in strands : Ask(r, "RetirePassThrough", [id |-> t.id], 0)

AssetRetire(r) ==
  \E x \in BusyAssets : asset[x].life = "active" /\ Ask(r, "RetireAsset", [asset |-> x], 0)

(* The edit form writes the lifecycle that was submitted, and no topology. *)
AssetUpdate(r) ==
  \E x \in BusyAssets, l \in Lives : l # asset[x].life /\
    Ask(r, "UpdateAsset", [asset |-> x, life |-> l, token |-> asset[x].ver], 0)

----------------------------------------------------------------------------
(* The checks inside the transactions. *)

requireLiveInterface(p) == port[p].life = "active"

(* COUNT of the active cables at a port. *)
Unpatched(p) == Cables(p) = {}

(* Mutant: the strands of a breakout are not compared. *)
requireNoBreakoutDriftNever(with) == TRUE

requireNoBreakoutDrift(with) ==
  with.brk # 0 =>
    \A l \in links : l.brk = with.brk /\ l.id # with.id => l.medium = with.medium

(* interfaceAttachments: the tables this model has. *)
attachmentHolds(p) == Cables(p) # {} \/ Strands(p) # {}

requireUniqueRearPosition(with) ==
  ~\E t \in strands : t.rear = with.rear /\ t.position = with.position

Passes(q) ==
  /\ q.do \in {"CreateLink", "CreateBreakout"} =>
       \A p \in {q.with.a} \cup q.with.bs : requireLiveInterface(p) /\ Unpatched(p)
  /\ q.do = "UpdateLink" => requireNoBreakoutDrift(q.with)
  /\ q.do = "CreateInterface" => port[q.with.port].life = "retired"
  /\ q.do = "RetireInterface" => ~attachmentHolds(q.with.port)
  /\ q.do = "CreatePassThrough" =>
       AssetOf[q.with.front] = AssetOf[q.with.rear] /\ requireUniqueRearPosition(q.with)

----------------------------------------------------------------------------
(* The statements.  Each is the whole transaction of the operation it is      *)
(* named after; one whose WHERE clause or index refuses leaves all as it is.  *)

(* One row for each b-end; the strands of a breakout share its id and a-end. *)
Rows(with, brk) ==
  LET nth(b) == with.id + Cardinality({c \in with.bs : c < b})
  IN {[id |-> nth(b), a |-> with.a, b |-> b, brk |-> brk, medium |-> with.medium,
       ver |-> 1] : b \in with.bs}

CreateLink(q) ==
  /\ q.do = "CreateLink"
  /\ links' = links \cup Rows(q.with, 0)
  /\ UNCHANGED <<asset, port, strands>>

CreateBreakout(q) ==
  /\ q.do = "CreateBreakout"
  /\ links' = links \cup Rows(q.with, q.with.id)
  /\ UNCHANGED <<asset, port, strands>>

(* A cable after UPDATE ... WHERE id AND row_version. *)
Edited(l, with) ==
  IF l.id = with.id /\ l.ver = with.token
  THEN [l EXCEPT !.medium = with.medium, !.ver = @ + 1] ELSE l

UpdateLink(q) ==
  /\ q.do = "UpdateLink"
  /\ links' = {Edited(l, q.with) : l \in links}
  /\ UNCHANGED <<asset, port, strands>>

RetireLink(q) ==
  /\ q.do = "RetireLink"
  /\ links' = {l \in links : l.id # q.with.id}
  /\ UNCHANGED <<asset, port, strands>>

SetPort(q, token, life) ==
  /\ port' = [port EXCEPT ![q.with.port] =
                IF @.ver = token THEN [life |-> life, ver |-> @.ver + 1] ELSE @]
  /\ UNCHANGED <<asset, links, strands>>

(* reactivateRetiredInterface: the version is that of the row it reads inside. *)
CreateInterface(q) == q.do = "CreateInterface" /\ SetPort(q, q.found, "active")

RetireInterface(q) == q.do = "RetireInterface" /\ SetPort(q, q.with.token, "retired")

(* The indexes on live rows: one row per front port, one per rear position. *)
CreatePassThrough(q) ==
  /\ q.do = "CreatePassThrough"
  /\ strands' = strands \cup
       {t \in {q.with} : ~\E o \in strands :
          o.front = t.front \/ (o.rear = t.rear /\ o.position = t.position)}
  /\ UNCHANGED <<asset, port, links>>

RetirePassThrough(q) ==
  /\ q.do = "RetirePassThrough"
  /\ strands' = {t \in strands : t.id # q.with.id}
  /\ UNCHANGED <<asset, port, links>>

(* retireAssetTopology unpatches the cables at the ports of the asset. *)
RetireAsset(q) ==
  /\ q.do = "RetireAsset"
  /\ asset' = [asset EXCEPT ![q.with.asset] = [life |-> "retired", ver |-> @.ver + 1]]
  /\ links' = {l \in links : l.id \notin q.takes}
  /\ UNCHANGED <<port, strands>>

UpdateAsset(q) ==
  /\ q.do = "UpdateAsset"
  /\ asset' = [asset EXCEPT ![q.with.asset] =
                 IF @.ver = q.with.token THEN [life |-> q.with.life, ver |-> @.ver + 1] ELSE @]
  /\ UNCHANGED <<port, links, strands>>

Execute(q) ==
  /\ \/ CreateLink(q) \/ CreateBreakout(q) \/ UpdateLink(q) \/ RetireLink(q)
     \/ CreateInterface(q) \/ RetireInterface(q)
     \/ CreatePassThrough(q) \/ RetirePassThrough(q)
     \/ RetireAsset(q) \/ UpdateAsset(q)
  /\ UNCHANGED <<engine, ids, started>>

----------------------------------------------------------------------------
PortsOf(x) == {p \in Ports : AssetOf[p] = x}

(* The transaction with what its SELECTs found: the version of the port that  *)
(* comes back, the cables to be unpatched.                                    *)
Opened(q) ==
  [op |-> "open", do |-> q.do, with |-> q.with, attempt |-> q.attempt, doomed |-> FALSE,
   found |-> IF q.do = "CreateInterface" THEN port[q.with.port].ver ELSE 0,
   takes |-> IF q.do = "RetireAsset"
               THEN {l.id : l \in UNION {Cables(p) : p \in PortsOf(q.with.asset)}} ELSE {}]

Refused(r) == req' = [req EXCEPT ![r] = Idle] /\ UNCHANGED <<engine, stored, ids, started>>

(* SQLite: the writer pool holds one connection. *)
RunTx(r) ==
  /\ engine = "sqlite" /\ req[r].op = "asked"
  /\ \/ /\ Passes(req[r])
        /\ Execute(Opened(req[r]))
        /\ req' = [req EXCEPT ![r] = Idle]
     \/ ~Passes(req[r]) /\ Refused(r)

OpenTx(r) ==
  /\ engine = "postgres" /\ req[r].op = "asked"
  /\ \/ /\ Passes(req[r])
        /\ req' = [req EXCEPT ![r] = Opened(req[r])]
        /\ UNCHANGED <<engine, stored, ids, started>>
     \/ ~Passes(req[r]) /\ Refused(r)

(* Mutant: cables are patched by a plain write. *)
SerialRetireOnly(q) == q.op = "open" /\ q.do = "RetireAsset"

Serial(q) == q.op = "open" /\ q.do \in {"CreateLink", "CreateBreakout", "RetireAsset"}

(* The ports whose cables a serializable transaction reads, and the ports     *)
(* whose cables it writes.                                                    *)
ReadPorts(q) ==
  IF q.do = "RetireAsset" THEN PortsOf(q.with.asset) ELSE {q.with.a} \cup q.with.bs
WritePorts(q) ==
  IF q.do = "RetireAsset" THEN UNION {{l.a, l.b} : l \in {k \in links : k.id \in q.takes}}
                          ELSE {q.with.a} \cup q.with.bs

(* The commit of q leaves an open serializable transaction t no serial order: *)
(* each has read what the other writes, or q wrote a row that t updates.      *)
Conflicts(t, q) ==
  \/ /\ Serial(q)
     /\ ReadPorts(t) \cap WritePorts(q) # {} /\ WritePorts(t) \cap ReadPorts(q) # {}
  \/ /\ t.do = "RetireAsset"
     /\ \/ q.do \in {"RetireAsset", "UpdateAsset"} /\ q.with.asset = t.with.asset
        \/ q.do = "RetireAsset" /\ q.takes \cap t.takes # {}
        \/ q.do \in {"RetireLink", "UpdateLink"} /\ q.with.id \in t.takes

(* A serializable transaction that lost gets SQLSTATE 40001. *)
Overtaken(t, q) ==
  IF Serial(t) /\ Conflicts(t, q) THEN [t EXCEPT !.doomed = TRUE] ELSE t

CommitTx(r) ==
  /\ req[r].op = "open" /\ ~req[r].doomed
  /\ Execute(req[r])
  /\ req' = [t \in Requests |->
       IF t = r THEN Idle ELSE Overtaken(req[t], req[r])]

(* The engine aborts a serializable transaction, on a conflict or on suspicion *)
(* of one; the closure runs again, or the error is returned.                   *)
AbortTx(r) ==
  /\ Serial(req[r])
  /\ LET q == req[r] IN
     req' = [req EXCEPT ![r] =
       IF q.attempt < Attempts
         THEN [op |-> "asked", do |-> q.do, with |-> q.with, attempt |-> q.attempt + 1]
         ELSE Idle]
  /\ UNCHANGED <<engine, stored, ids, started>>

Next ==
  \E r \in Requests :
    \/ LinkCreate(r) \/ BreakoutCreate(r) \/ LinkUpdate(r) \/ LinkRetire(r)
    \/ InterfaceCreate(r) \/ InterfaceRetire(r)
    \/ PassThroughCreate(r) \/ PassThroughRetire(r)
    \/ AssetRetire(r) \/ AssetUpdate(r)
    \/ RunTx(r) \/ OpenTx(r) \/ CommitTx(r) \/ AbortTx(r)

Spec == Init /\ [][Next]_vars
----------------------------------------------------------------------------
(* A port has one active cable, save that the strands of one breakout share  *)
(* its a-end: CreateLink and CreateBreakout count and insert in one          *)
(* serializable transaction, and of two that patch a port at the same time   *)
(* one is refused (network.go:453, :1006).                                   *)
OneCablePerPort ==
  \A p \in Ports : \A l, k \in Cables(p) :
    l.id # k.id => l.brk # 0 /\ l.brk = k.brk /\ p = l.a /\ p = k.a

(* On SQLite no live cable ends at a withdrawn port: RetireInterface looks    *)
(* for cables and CreateLink for the port's lifecycle, each in its own        *)
(* transaction (network.go:762).  PostgreSQL lets the two pass each other.    *)
WithdrawnPortIsUncabled ==
  engine = "sqlite" =>
    \A p \in Ports : port[p].life = "retired" => Cables(p) = {}

(* The ports are sound: never cabled twice, and on SQLite never withdrawn     *)
(* under a cable (CreateLink, CreateBreakout, RetireInterface).               *)
PortsAreSound == OneCablePerPort /\ WithdrawnPortIsUncabled

(* The live strands of a breakout agree on medium and length, whatever is     *)
(* edited and withdrawn concurrently: the drift guard of UpdateLink           *)
(* (network.go:1087) reads the siblings at READ COMMITTED.                    *)
BreakoutAgrees ==
  \A l, k \in links : l.brk # 0 /\ l.brk = k.brk => l.medium = k.medium
=============================================================================
