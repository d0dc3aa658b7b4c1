---------------------------- MODULE Containment ----------------------------
(***************************************************************************)
(* The asset containment tree (internal/store/assets.go): the asset table, *)
(* its closure table, optimistic row versions and what change_log replays  *)
(* to.  Requests are concurrent; each reads its row outside the            *)
(* transaction that then writes it.  With Engine = "sqlite" a write        *)
(* transaction is one step (the writer pool holds one connection).  With   *)
(* Engine = "postgres" a plain write runs at READ COMMITTED, so another    *)
(* transaction may commit between a statement that checks and the ones     *)
(* that write.                                                             *)
(***************************************************************************)
EXTENDS Integers, FiniteSets

CONSTANTS Assets,      \* asset ids
          Names,       \* asset names
          Null,        \* SQL NULL
          Requests,    \* concurrent HTTP requests
          Engine,      \* "sqlite" or "postgres"
          MaxVersion   \* bound on row_version

ASSUME NullAssumption == Null \notin Assets
ASSUME AssetsAssumption == IsFiniteSet(Assets)
ASSUME EngineAssumption == Engine \in {"sqlite", "postgres"}
ASSUME BoundAssumption == MaxVersion \in Nat

VARIABLES exists,    \* ids with a row in asset
          parent,    \* asset.parent_id
          name,      \* asset.name
          lifecycle, \* asset.lifecycle, "active" standing for every live one
          version,   \* asset.row_version
          closure,   \* asset_closure: <<ancestor_id, descendant_id, depth>>
          replay,    \* the row an auditor rebuilds from change_log
          req        \* what each request holds in memory

store == <<exists, parent, name, lifecycle, version, closure, replay>>
vars == <<store, req>>

Lifecycles == {"active", "retired"}
Parents == Assets \cup {Null}
Row == [parent : Parents, name : Names, lifecycle : Lifecycles]
Idle == [op |-> "idle"]

(* The row as GetAsset returns it. *)
RowOf(a) == [parent |-> parent[a], name |-> name[a], lifecycle |-> lifecycle[a]]

ClosureRow == Assets \X Assets \X Nat

Request ==
  {Idle}
  \cup [op : {"form"}, id : Assets, shown : Row, token : 0..MaxVersion]
  \cup [op : {"update"}, id : Assets, shown : Row, token : 0..MaxVersion,
        before : Row, new : Row]
  \cup [op : {"retire"}, id : Assets, before : Row]
  \cup [op : {"reparent", "checked"}, id : Assets, before : Row, to : Parents]
  \cup [op : {"written"}, id : Assets, before : Row, to : Parents,
        del : SUBSET ClosureRow, add : SUBSET ClosureRow]

TypeOK ==
  /\ exists \subseteq Assets
  /\ parent \in [Assets -> Parents]
  /\ name \in [Assets -> Names]
  /\ lifecycle \in [Assets -> Lifecycles]
  /\ version \in [Assets -> 0..MaxVersion]
  /\ closure \subseteq ClosureRow
  /\ replay \in [Assets -> Row]
  /\ req \in [Requests -> Request]

----------------------------------------------------------------------------
(* Statements the transactions are built from. *)

(* requireUniqueSiblingName: live siblings under p have other names. *)
SiblingFree(a, n, p, l) ==
  l = "retired" \/ \A b \in exists \ {a} :
    ~(parent[b] = p /\ name[b] = n /\ lifecycle[b] # "retired")

(* The two partial unique indexes on (parent_id, name), judged against the *)
(* row actually stored, whatever the request read earlier.                 *)
IndexAdmits(a, r) == SiblingFree(a, r.name, r.parent, r.lifecycle)

Subtree(a) == {c[2] : c \in {d \in closure : d[1] = a}}

(* insertClosureForNewNode *)
NewNodeRows(a, p) ==
  {<<a, a, 0>>} \cup {<<c[1], a, c[3] + 1>> : c \in {d \in closure : d[2] = p}}

(* Mutant: only the moved node's own rows are detached, not its subtree's. *)
DetachedNodeOnly(a) == {c \in closure : ~(c[2] = a /\ c[1] # a)}

(* ReparentAsset's DELETE: no edge from outside the subtree into it. *)
Detached(a) ==
  {c \in closure : ~(c[2] \in Subtree(a) /\ c[1] \notin Subtree(a))}

(* ReparentAsset's INSERT: ancestors of p crossed with descendants of a. *)
CrossRows(kept, a, p) ==
  {<<u[1], w[2], u[3] + w[3] + 1>> :
      u \in {c \in kept : c[2] = p}, w \in {c \in kept : c[1] = a}}

(* PRIMARY KEY (ancestor_id, descendant_id) *)
KeyFree(kept, rows) ==
  \A c \in rows, d \in kept : ~(c[1] = d[1] /\ c[2] = d[2])

(* Mutant: the whole after-image is logged, stale fields included. *)
LogUpdateWholeRow(a, before, after) == replay' = [replay EXCEPT ![a] = after]

(* logUpdate: only the fields that differ between before and after reach   *)
(* change_log, so only those move in the replayed row.                     *)
LogUpdate(a, before, after) ==
  replay' = [replay EXCEPT ![a] =
    [parent    |-> IF after.parent = before.parent THEN @.parent ELSE after.parent,
     name      |-> IF after.name = before.name THEN @.name ELSE after.name,
     lifecycle |-> IF after.lifecycle = before.lifecycle
                     THEN @.lifecycle ELSE after.lifecycle]]

Finish(r) == req' = [req EXCEPT ![r] = Idle]

(* A transaction that returned an error: rolled back, the request is over. *)
Refused(r) == Finish(r) /\ UNCHANGED store

----------------------------------------------------------------------------
Init ==
  /\ exists = {}
  /\ parent = [a \in Assets |-> Null]
  /\ name \in [Assets -> Names] /\ \A a, b \in Assets : name[a] = name[b]
  /\ lifecycle = [a \in Assets |-> "active"]
  /\ version = [a \in Assets |-> 0]
  /\ closure = {}
  /\ replay = [a \in Assets |-> RowOf(a)]
  /\ req = [r \in Requests |-> Idle]

(* CreateAsset: one transaction, insertAsset with its closure rows.  The   *)
(* foreign key wants the parent to exist.                                  *)
CreateAsset(a, p, n, l) ==
  /\ a \notin exists /\ p \in exists \cup {Null}
  /\ 1 <= MaxVersion
  /\ SiblingFree(a, n, p, l)
  /\ exists' = exists \cup {a}
  /\ parent' = [parent EXCEPT ![a] = p]
  /\ name' = [name EXCEPT ![a] = n]
  /\ lifecycle' = [lifecycle EXCEPT ![a] = l]
  /\ version' = [version EXCEPT ![a] = 1]
  /\ closure' = closure \cup NewNodeRows(a, p)
  /\ replay' = [replay EXCEPT ![a] = [parent |-> p, name |-> n, lifecycle |-> l]]
  /\ UNCHANGED req

(* The edit form is rendered: the operator sees the row and its token. *)
OpenForm(r, a) ==
  /\ req[r].op = "idle" /\ a \in exists
  /\ req' = [req EXCEPT ![r] =
       [op |-> "form", id |-> a, shown |-> RowOf(a), token |-> version[a]]]
  /\ UNCHANGED store

(* UpdateAsset up to the transaction: before is read from the reader pool, *)
(* the parent is forced to before's.                                       *)
SubmitForm(r, n, l) ==
  /\ req[r].op = "form"
  /\ LET a == req[r].id IN
     req' = [req EXCEPT ![r] =
       [op |-> "update", id |-> a, shown |-> req[r].shown, token |-> req[r].token,
        before |-> RowOf(a),
        new |-> [parent |-> parent[a], name |-> n, lifecycle |-> l]]]
  /\ UNCHANGED store

(* UpdateAsset's transaction: sibling check, UPDATE ... WHERE row_version,  *)
(* requireVersion, audit.  parent_id is not among the columns it writes.   *)
UpdateAsset(r) ==
  /\ req[r].op = "update"
  /\ LET q == req[r]
         a == q.id
         stored == [q.new EXCEPT !.parent = parent[a]]
     IN \/ /\ SiblingFree(a, q.new.name, q.new.parent, q.new.lifecycle)
           /\ q.token = version[a]
           /\ IndexAdmits(a, stored)
           /\ version[a] < MaxVersion
           /\ name' = [name EXCEPT ![a] = q.new.name]
           /\ lifecycle' = [lifecycle EXCEPT ![a] = q.new.lifecycle]
           /\ version' = [version EXCEPT ![a] = @ + 1]
           /\ LogUpdate(a, q.before, q.new)
           /\ Finish(r)
           /\ UNCHANGED <<exists, parent, closure>>
        \/ /\ \/ ~SiblingFree(a, q.new.name, q.new.parent, q.new.lifecycle)
              \/ q.token # version[a]
              \/ ~IndexAdmits(a, stored)
           /\ Refused(r)

(* RetireAsset up to the transaction; an asset already retired is left. *)
BeginRetire(r, a) ==
  /\ req[r].op = "idle" /\ a \in exists
  /\ lifecycle[a] # "retired"
  /\ req' = [req EXCEPT ![r] = [op |-> "retire", id |-> a, before |-> RowOf(a)]]
  /\ UNCHANGED store

(* Mutant: retiring forgets to move row_version. *)
RetireAssetSameVersion(r) ==
  /\ req[r].op = "retire"
  /\ LET a == req[r].id IN
     /\ lifecycle' = [lifecycle EXCEPT ![a] = "retired"]
     /\ replay' = [replay EXCEPT ![a].lifecycle = "retired"]
  /\ Finish(r)
  /\ UNCHANGED <<exists, parent, name, version, closure>>

(* RetireAsset's transaction: no version guard, but the version moves. *)
RetireAsset(r) ==
  /\ req[r].op = "retire"
  /\ LET a == req[r].id IN
     /\ version[a] < MaxVersion
     /\ lifecycle' = [lifecycle EXCEPT ![a] = "retired"]
     /\ version' = [version EXCEPT ![a] = @ + 1]
     /\ replay' = [replay EXCEPT ![a].lifecycle = "retired"]
  /\ Finish(r)
  /\ UNCHANGED <<exists, parent, name, closure>>

(* ReparentAsset up to the transaction: reads before, refuses self. *)
BeginReparent(r, a, p) ==
  /\ req[r].op = "idle" /\ a \in exists /\ p \in exists \cup {Null}
  /\ p # a
  /\ req' = [req EXCEPT ![r] =
       [op |-> "reparent", id |-> a, before |-> RowOf(a), to |-> p]]
  /\ UNCHANGED store

(* The SELECTs of ReparentAsset's transaction: not under its own           *)
(* descendant, and no live sibling there with the name that was read.  The *)
(* caller's permit over the new parent (t.authorize) is left out.          *)
MayMove(q) ==
  /\ q.to # Null => q.to \notin Subtree(q.id)
  /\ SiblingFree(q.id, q.before.name, q.to, q.before.lifecycle)

(* The closure rows its DELETE removes and its INSERT adds. *)
Removes(q) == closure \ Detached(q.id)
Adds(q) == IF q.to = Null THEN {} ELSE CrossRows(Detached(q.id), q.id, q.to)

(* The transaction's writes reach the table, with its UPDATE and its audit  *)
(* row; a unique key that refuses one of them rolls all of them back.       *)
Move(r, del, add) ==
  LET q == req[r]
      a == q.id
      kept == closure \ del
      stored == [RowOf(a) EXCEPT !.parent = q.to]
  IN \/ /\ KeyFree(kept, add) /\ IndexAdmits(a, stored)
        /\ version[a] < MaxVersion
        /\ closure' = kept \cup add
        /\ parent' = [parent EXCEPT ![a] = q.to]
        /\ version' = [version EXCEPT ![a] = @ + 1]
        /\ LogUpdate(a, q.before, [q.before EXCEPT !.parent = q.to])
        /\ Finish(r)
        /\ UNCHANGED <<exists, name, lifecycle>>
     \/ /\ ~(KeyFree(kept, add) /\ IndexAdmits(a, stored))
        /\ Refused(r)

(* On SQLite check and writes are one transaction nobody interleaves with. *)
ReparentAsset(r) ==
  /\ Engine = "sqlite" /\ req[r].op = "reparent"
  /\ \/ MayMove(req[r]) /\ Move(r, Removes(req[r]), Adds(req[r]))
     \/ ~MayMove(req[r]) /\ Refused(r)

(* On PostgreSQL, at READ COMMITTED: the SELECTs see what is committed now. *)
CheckReparent(r) ==
  /\ Engine = "postgres" /\ req[r].op = "reparent"
  /\ \/ MayMove(req[r]) /\ req' = [req EXCEPT ![r].op = "checked"] /\ UNCHANGED store
     \/ ~MayMove(req[r]) /\ Refused(r)

(* The DELETE and the INSERT see what is committed when they run, and their *)
(* effect stays invisible to others.  A DELETE waits for a row that another *)
(* open transaction has already deleted.                                    *)
WriteReparent(r) ==
  /\ Engine = "postgres" /\ req[r].op = "checked"
  /\ LET q == req[r] IN
     /\ \A s \in Requests :
           req[s].op = "written" => req[s].del \cap Removes(q) = {}
     /\ req' = [req EXCEPT ![r] =
          [op |-> "written", id |-> q.id, before |-> q.before, to |-> q.to,
           del |-> Removes(q), add |-> Adds(q)]]
  /\ UNCHANGED store

(* UPDATE, audit row and COMMIT; a key collision, on which PostgreSQL waits  *)
(* for the other transaction's outcome, is an error here.                    *)
CommitReparent(r) ==
  /\ Engine = "postgres" /\ req[r].op = "written"
  /\ Move(r, req[r].del, req[r].add)

Next ==
  \/ \E a \in Assets, p \in Parents, n \in Names, l \in Lifecycles :
        CreateAsset(a, p, n, l)
  \/ \E r \in Requests :
       \/ \E a \in Assets : OpenForm(r, a) \/ BeginRetire(r, a)
       \/ \E n \in Names, l \in Lifecycles : SubmitForm(r, n, l)
       \/ \E a \in Assets, p \in Parents : BeginReparent(r, a, p)
       \/ UpdateAsset(r)
       \/ RetireAsset(r)
       \/ ReparentAsset(r)
       \/ CheckReparent(r)
       \/ WriteReparent(r)
       \/ CommitReparent(r)

Spec == Init /\ [][Next]_vars
----------------------------------------------------------------------------
(* Properties *)

(* Closure rows of one node: itself at depth 0, and the closure rows of its *)
(* parent one level further; nothing else.                                  *)
RowsFollowParent ==
  \A n \in exists : {c \in closure : c[2] = n} = NewNodeRows(n, parent[n])

(* One row per (ancestor, descendant): no pair has two depths. *)
OneDepthPerPair ==
  \A c, d \in closure : (c[1] = d[1] /\ c[2] = d[2]) => c[3] = d[3]

(* The containment promise of ReparentAsset and insertClosureForNewNode:   *)
(* after any sequence of creates and moves the closure table says of every *)
(* asset exactly what its chain of parents says, with one depth per pair,  *)
(* and no asset is inside itself.                                          *)
ClosureExact ==
  /\ RowsFollowParent
  /\ OneDepthPerPair
  /\ \A c \in closure : c[1] \in exists /\ c[2] \in exists
  /\ \A a \in exists : parent[a] # Null => parent[a] \notin Subtree(a)

(* "Moving a node underneath its own descendant would detach the subtree   *)
(* into a cycle": no asset is its parent's ancestor by the closure table.  *)
NoContainmentCycle ==
  \A a \in exists : parent[a] # Null => parent[a] \notin Subtree(a)

(* Optimistic locking: an UpdateAsset that commits overwrites exactly the   *)
(* row its form showed, so the slower of two people never silently reverts  *)
(* the faster one, be that an edit, a move or a retirement.                 *)
NoLostUpdate ==
  [][\A r \in Requests :
      (req[r].op = "update" /\ UpdateAsset(r) /\ version' # version)
        => RowOf(req[r].id) = req[r].shown]_vars

(* change_log, replayed, gives the stored name and lifecycle: update diffs   *)
(* are taken against a row read before the transaction, and stay true.       *)
AuditReplaysNameAndLifecycle ==
  \A a \in exists :
    replay[a].name = name[a] /\ replay[a].lifecycle = lifecycle[a]

(* "Mutation of declared state writes a change_log row in the same           *)
(* transaction": replaying change_log gives the stored parent.               *)
AuditReplaysParent == \A a \in exists : replay[a].parent = parent[a]

----------------------------------------------------------------------------
(* The closure table without its depths is the forest's "inside". *)
Abstract == INSTANCE Forest WITH nodes <- exists, up <- parent,
                                 inside <- {<<c[1], c[2]>> : c \in closure}

(* The detailed specification implements the abstract one.  Every step of   *)
(* the asset table and its closure table is a step of the forest or leaves  *)
(* it alone: a create adds a leaf, a move takes the whole subtree along and *)
(* is refused into itself, an edit or a retirement moves nothing, and after *)
(* each of them SubtreeIDs answers what a walk up the parents answers.      *)
ImplementsForest == Abstract!Spec
=============================================================================
