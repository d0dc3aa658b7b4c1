------------------------------- MODULE Writes -------------------------------
(***************************************************************************)
(* The write path of internal/store (store.go: write, writeSerializable,   *)
(* writeTx, logUpdate, requireVersion) running the operations of the       *)
(* catalogue (StoreOp and the Ops modules) concurrently on two rows, a     *)
(* parent and a child that refers to it.  Init chooses the scenario, the   *)
(* engine and the rows.  On SQLite a transaction is one step.  On          *)
(* PostgreSQL it opens (its SELECTs) and commits in two, so that other     *)
(* transactions commit in between; a serializable one is retried.          *)
(***************************************************************************)
EXTENDS Integers, FiniteSets, Sequences, StoreOp

CONSTANTS Scenarios,  \* name -> [parent, child], each: operation name -> record
          Engines,    \* subset of {"sqlite", "postgres"}
          Requests,   \* concurrent HTTP requests
          MaxStarted, \* bound: requests started in a behaviour
          Attempts,   \* attempts of writeSerializable (3 in the code)
          Members,    \* ids a link table may hold
          Indexed,    \* <<scenario, side>> of the rows search_index holds
          Promised,   \* engine -> scenarios whose operations look both ways
          Exempt      \* property -> engine -> operations known not to keep it

ASSUME BoundsAssumption == MaxStarted \in Nat /\ Attempts \in Nat \ {0}
ASSUME EnginesAssumption == Engines \subseteq {"sqlite", "postgres"}

VARIABLES scen,    \* the scenario (never changes)
          engine,  \* the engine (never changes)
          row,     \* the two rows
          req,     \* what each request holds in memory
          started  \* requests started so far

vars == <<scen, engine, row, req, started>>

Sides == {"parent", "child"}
Lives == {"none", "active", "retired"}
Image == [life : Lives, body : {0, 1}, own : {0, 1}, set : SUBSET Members]
Idle == [op |-> "idle"]

Op(q) == Scenarios[scen][q.side][q.do]

(* The columns of a row, as a Get returns them. *)
Cols(x) == [life |-> x.life, body |-> x.body, own |-> x.own, set |-> x.set]

NewRow(l) ==
  LET i == [life |-> l, body |-> 0, own |-> 0, set |-> {}]
  IN [life |-> l, body |-> 0, own |-> 0, set |-> {}, ver |-> 1, doc |-> 0, log |-> i]

TypeOK ==
  /\ engine \in Engines /\ started \in 0..MaxStarted
  /\ \A s \in Sides :
       /\ Cols(row[s]) \in Image /\ row[s].log \in Image
       /\ row[s].ver \in Nat /\ row[s].doc \in {0, 1}
  /\ \A r \in Requests : req[r] # Idle =>
       /\ req[r].op \in {"drawing", "form", "asked", "open"} /\ req[r].side \in Sides
       /\ req[r].do \in DOMAIN Scenarios[scen][req[r].side]
       /\ req[r].attempt \in 1..Attempts

----------------------------------------------------------------------------
(* What the request asks for: values for the columns that come from it. *)
Values(f) ==
  [life : CASE f.act = "retire" -> {"retired"}
            [] f.act = "update" /\ "life" \in f.from -> {"active", "retired"}
            [] OTHER -> {"active"},
   body : IF "body" \in f.from THEN {0, 1} ELSE {0},
   own  : IF "own" \in f.from THEN {0, 1} ELSE {0},
   set  : IF "set" \in f.from THEN SUBSET Members ELSE {{}},
   named : IF f.partial THEN SUBSET Members ELSE {Members}]

(* What may be asked for, given the row as it is when the request arrives. *)
Wants(f, x) ==
  {want \in Values(f) :
     /\ want.set \subseteq want.named
     /\ f.delta => \E m \in Members : want.set \in {x.set \cup {m}, x.set \ {m}}}

(* The request's columns over the row that was read. *)
After(f, before, want) ==
  [c \in Columns |-> IF c \in f.from THEN want[c] ELSE before[c]]

Finish(r) == req' = [req EXCEPT ![r] = Idle]

(* What a withdrawal looks for before it goes ahead. *)
Holds(kind, side) ==
  LET child == row["child"] IN
  CASE kind = "members" -> row[side].set # {}
    [] kind = "live"    -> side = "parent" /\ child.life = "active"
    [] kind = "any"     -> side = "parent" /\ child.life # "none"
    [] kind = "refers"  -> side = "parent" /\ child.own # 0
    [] kind = "taken"   -> side = "parent" /\ child.set # {}

(* The checks made at one place, outside the transaction or inside it: the   *)
(* early returns, what depends on a row that is withdrawn, and what a row    *)
(* refers to.                                                                *)
Passes(f, side, place, before, want) ==
  /\ f.gate = place =>
       /\ before.life \notin f.skip \cup f.refuse
       /\ "own" \in f.refuse => before.own = 0
       /\ "same" \in f.skip => After(f, before, want) # before
  /\ f.held = place => ~Holds(f.holders, side)
  /\ f.needs = place /\ side = "child" /\ (f.act = "assign" => want.set \ before.set # {})
       => row["parent"].life = "active"

----------------------------------------------------------------------------
Init ==
  /\ scen \in DOMAIN Scenarios /\ engine \in Engines
  /\ \E p \in {"active", "retired"}, c \in Lives :
       /\ c = "active" => p = "active"
       /\ DOMAIN Scenarios[scen].parent = {} => p = "active"
       /\ row = [s \in Sides |-> IF s = "parent" THEN NewRow(p) ELSE NewRow(c)]
  /\ req = [r \in Requests |-> Idle]
  /\ started = 0

Start(r, held) ==
  /\ req[r] = Idle /\ started < MaxStarted
  /\ started' = started + 1
  /\ req' = [req EXCEPT ![r] = held]
  /\ UNCHANGED <<scen, engine, row>>

(* One query of a page: the row with its version, or its link table. *)
Read(q, what) ==
  LET x == row[q.side] IN
  IF what = "row" THEN [q EXCEPT !.shown = [Cols(x) EXCEPT !.set = q.shown.set],
                                 !.token = x.ver]
                  ELSE [q EXCEPT !.shown.set = x.set]

(* The form is complete when the queries it is drawn from have run. *)
Drawing(q, left) ==
  IF left = <<>> THEN [q EXCEPT !.op = "form", !.left = <<>>] ELSE [q EXCEPT !.left = left]

(* A page with an edit form: the first of its queries ... *)
OpenForm(r, s, n, f) ==
  LET q == [op |-> "drawing", side |-> s, do |-> n, attempt |-> 1, left |-> f.draws,
            shown |-> [Cols(row[s]) EXCEPT !.set = {}], token |-> row[s].ver]
  IN /\ f.guard = "form" /\ row[s].life # "none"
     /\ Start(r, Drawing(Read(q, Head(f.draws)), Tail(f.draws)))

(* ... and the next. *)
DrawNext(r) ==
  /\ req[r].op = "drawing"
  /\ LET q == req[r] IN
     req' = [req EXCEPT ![r] = Drawing(Read(q, Head(q.left)), Tail(q.left))]
  /\ UNCHANGED <<scen, engine, row, started>>

(* Mutant: every redrawn form carries the version of the row as it is. *)
RedrawnFresh(q, how) ==
  IF how = "page" THEN Idle
  ELSE [op |-> "form", side |-> q.side, do |-> q.do, attempt |-> 1, left |-> <<>>,
        shown |-> q.shown, token |-> row[q.side].ver]

(* What a refusal leaves on the screen.  How the page is drawn does not      *)
(* change what the person has seen of the stored row, unless it is reloaded. *)
Redrawn(q, how) ==
  LET now == Cols(row[q.side]) IN
  IF how = "page" THEN Idle
  ELSE [op |-> "form", side |-> q.side, do |-> q.do, attempt |-> 1, left |-> <<>>,
        shown |-> CASE how = "reload" -> now
                    [] how = "names"  -> [now EXCEPT !.set = q.shown.set]
                    [] OTHER          -> q.shown,
        token |-> IF how = "kept" THEN q.token ELSE row[q.side].ver]

(* The answers to a submission that is refused, and to one that is stale. *)
Refusals(f, q) == {Redrawn(q, how) : how \in IF f.guard = "form" THEN f.invalid ELSE {"page"}}
Stale(f, q) == Redrawn(q, IF f.guard = "form" THEN f.stale ELSE "page")

(* The handler and the store method up to the transaction: the reads from   *)
(* the reader pool and the early returns they decide.                       *)
Asked(s, n, shown, token, want) ==
  [op |-> "asked", side |-> s, do |-> n, attempt |-> 1, shown |-> shown,
   token |-> token, want |-> want, before |-> Cols(row[s])]

(* What the set asked for is built from: the form, or the link table as the  *)
(* request finds it when it only puts one id in or takes one out.            *)
Known(f, q) == IF f.delta THEN [q.shown EXCEPT !.set = row[q.side].set] ELSE q.shown

(* A submission: refused by the handler's validation or by the checks before *)
(* the transaction, or handed to it.                                         *)
SubmitForm(r) ==
  /\ req[r].op = "form"
  /\ \E q \in {req[r]}, f \in {Op(req[r])} :
     \/ \E answer \in Refusals(f, q) : req' = [req EXCEPT ![r] = answer]
     \/ \E want \in Wants(f, row[q.side]) :
          /\ Passes(f, q.side, "outside", Cols(row[q.side]), want)
          /\ req' = [req EXCEPT ![r] = Asked(q.side, q.do, Known(f, q), q.token, want)]
  /\ UNCHANGED <<scen, engine, row, started>>

(* An operation without a form; its guard, if any, is the version just read. *)
Ask(r, s, n, f) ==
  /\ f.guard # "form" /\ (f.act = "create" \/ row[s].life # "none")
  /\ \E want \in Wants(f, row[s]) :
       /\ Passes(f, s, "outside", Cols(row[s]), want)
       /\ Start(r, Asked(s, n, Cols(row[s]), row[s].ver, want))

----------------------------------------------------------------------------
(* The transaction. *)

(* Mutant: requireVersion does not compare the versions. *)
MatchesById(f, q, x) ==
  IF f.act = "create" THEN x.life = "none" \/ f.exists # "refuse"
                      ELSE f.guard = "live" => x.life = "active"

(* The UPDATE finds its row: the WHERE clause on the row as it is now. *)
Matches(f, q, x) ==
  IF f.act = "create"
    THEN \/ x.life = "none"
         \/ f.exists = "upsert"
         \/ /\ f.exists = "revive" /\ x.life = "retired"
            /\ f.guard = "read" => x.ver = q.token
    ELSE /\ f.guard \in {"form", "read"} => x.ver = q.token
         /\ f.guard = "live" => x.life = "active"
         /\ f.guard = "same" => x.own = q.before.own

(* diffJSON: only the columns in which the two images differ. *)
Diffed(log, before, new) == [c \in Columns |-> IF new[c] # before[c] THEN new[c] ELSE log[c]]

(* change_log, replayed: a diff moves only the columns in which the          *)
(* after-image differs from the row that was read.  An assignment reads its   *)
(* link table back for the after-image.                                      *)
Replayed(f, q, x, after, stored) ==
  IF f.act = "create" /\ x.life = "none" THEN stored
  ELSE CASE f.log = "snapshot" -> stored
         [] f.log = "fixed" -> [c \in Columns |-> IF c \in f.from THEN after[c] ELSE x.log[c]]
         [] f.log = "none" -> x.log
         [] OTHER ->
              Diffed(x.log, q.before, [after EXCEPT !.set = IF f.act = "assign" THEN stored.set ELSE @])

(* Mutant: the ids the request does not name are cleared too. *)
DoomedAll(f, q) == q.seen

(* The rows of a link table that the DELETE removes: those the transaction   *)
(* sees, or of them the ones the request names.                              *)
Doomed(f, q) == IF f.partial THEN q.seen \cap q.want.named ELSE q.seen

(* The row after the statement.  A link table is a DELETE and an INSERT of   *)
(* the new rows; rows committed by others after the DELETE began stay.       *)
Written(f, q, x) ==
  LET after == After(f, q.before, q.want)
      stored == [c \in Columns |->
                   IF c \notin f.sets THEN x[c]
                   ELSE IF c = "set" THEN (x.set \ Doomed(f, q)) \cup after.set
                   ELSE after[c]]
  IN [life |-> stored.life, body |-> stored.body, own |-> stored.own, set |-> stored.set,
      ver |-> IF f.bumps /\ x.life # "none" THEN x.ver + 1 ELSE x.ver,
      doc |-> IF f.index THEN after.body ELSE x.doc,
      log |-> Replayed(f, q, x, after, stored)]

(* A cascade retires the live child, with an audit row of its own. *)
Cascaded(f, q, x) ==
  IF f.cascade /\ q.side = "parent" /\ x.life = "active"
    THEN [x EXCEPT !.life = "retired", !.log.life = "retired"]
    ELSE x

(* The statements and COMMIT, or no row matched: an error, and a rollback. *)
Execute(f, q) ==
  /\ \/ /\ Matches(f, q, row[q.side])
        /\ row' = [s \in Sides |-> IF s = q.side THEN Written(f, q, row[s])
                                   ELSE Cascaded(f, q, row[s])]
     \/ /\ ~Matches(f, q, row[q.side])
        /\ UNCHANGED row
  /\ UNCHANGED <<scen, engine, started>>

(* Inside the transaction: the row before the change (and its version, where *)
(* that is the guard), and the link rows a DELETE would find.                *)
Looked(f, q) ==
  LET inside == f.before = "inside" IN
  [op |-> "open", side |-> q.side, do |-> q.do, attempt |-> q.attempt,
   shown |-> q.shown, want |-> q.want, seen |-> row[q.side].set,
   token |-> IF inside /\ f.guard = "read" THEN row[q.side].ver ELSE q.token,
   before |-> IF inside THEN Cols(row[q.side]) ELSE q.before,
   moved |-> FALSE, out |-> FALSE, doomed |-> FALSE]

(* Mutant: a withdrawal does not look for what depends on the row. *)
GoesWithoutCounting(f, q) == Passes([f EXCEPT !.held = "no"], q.side, "inside", q.before, q.want)

Goes(f, q) == Passes(f, q.side, "inside", q.before, q.want)

(* A check inside the transaction fails: a rollback. *)
Refused(r, f, q) ==
  /\ \E answer \in Refusals(f, q) : req' = [req EXCEPT ![r] = answer]
  /\ UNCHANGED <<scen, engine, row, started>>

(* What the person gets when the transaction ends. *)
Answer(f, q) == IF Matches(f, q, row[q.side]) THEN Idle ELSE Stale(f, q)

(* SQLite: the writer pool holds one connection. *)
RunTx(r) ==
  /\ engine = "sqlite" /\ req[r].op = "asked"
  /\ \E f \in {Op(req[r])} : \E q \in {Looked(f, req[r])} :
     \/ Goes(f, q) /\ Execute(f, q) /\ req' = [req EXCEPT ![r] = Answer(f, q)]
     \/ ~Goes(f, q) /\ Refused(r, f, q)

(* PostgreSQL: the SELECTs of the transaction. *)
OpenTx(r) ==
  /\ engine = "postgres" /\ req[r].op = "asked"
  /\ \E f \in {Op(req[r])} : \E q \in {Looked(f, req[r])} :
     \/ /\ Goes(f, q)
        /\ req' = [req EXCEPT ![r] = q]
        /\ UNCHANGED <<scen, engine, row, started>>
     \/ ~Goes(f, q) /\ Refused(r, f, q)

(* The sides a transaction reads and the sides it writes. *)
ReadSides(f, q) ==
  {q.side} \cup (IF q.side = "child" /\ f.needs = "inside" THEN {"parent"} ELSE {})
           \cup (IF q.side = "parent" /\ (f.held = "inside" \/ f.cascade)
                   THEN {"child"} ELSE {})
WriteSides(f, q) ==
  {q.side} \cup (IF q.side = "parent" /\ f.cascade THEN {"child"} ELSE {})

Serial(f, q) == q.op = "open" /\ f.tx = "serializable"

(* What the commit of q, which wrote the sides wrote, means to another       *)
(* transaction t if that is open and serializable: a row it is going to      *)
(* update moved, or it is the pivot of two conflicts of which the outgoing   *)
(* one committed first.                                                      *)
Doom(g, t, f, q, wrote) ==
  LET out == t.out \/ (Serial(f, q) /\ ReadSides(g, t) \cap wrote # {})
  IN IF Serial(g, t)
       THEN [t EXCEPT !.moved = @ \/ WriteSides(g, t) \cap wrote # {},
                      !.out = out,
                      !.doomed = @ \/ (/\ out /\ Serial(f, q)
                                       /\ WriteSides(g, t) \cap ReadSides(f, q) # {})]
       ELSE t

FinishCommit(r, f, q) ==
  LET wrote == {s \in Sides : row'[s] # row[s]} IN
  req' = [t \in Requests |-> IF t = r THEN Answer(f, q)
                             ELSE IF req[t].op = "open" THEN Doom(Op(req[t]), req[t], f, q, wrote)
                             ELSE req[t]]

(* A serializable transaction that lost gets SQLSTATE 40001. *)
CommitTx(r) ==
  /\ req[r].op = "open"
  /\ \E f \in {Op(req[r])} :
       /\ Serial(f, req[r]) => ~req[r].doomed /\ ~req[r].moved
       /\ Execute(f, req[r])
       /\ FinishCommit(r, f, req[r])

(* Mutant: the attempts are not counted. *)
NextAttemptForever(r, f, q) ==
  req' = [req EXCEPT ![r] = [Asked(q.side, q.do, q.shown, q.token, q.want)
                               EXCEPT !.before = q.before, !.attempt = q.attempt]]

(* The closure again, or the error after the last attempt.  Where the UPDATE *)
(* had found its row before COMMIT failed, requireVersion has advanced the   *)
(* token, and a token that outlives the closure stays advanced.              *)
NextAttempt(r, f, q) ==
  LET advanced == f.sticky /\ ~q.moved /\ Matches(f, q, row[q.side])
      token == IF advanced THEN q.token + 1 ELSE q.token
  IN IF q.attempt < Attempts
       THEN req' = [req EXCEPT ![r] =
              [Asked(q.side, q.do, q.shown, token, q.want)
                 EXCEPT !.before = q.before, !.attempt = q.attempt + 1]]
       ELSE Finish(r)

(* The engine aborts a serializable transaction, on a conflict or on         *)
(* suspicion of one (its locks cover pages, not rows).                       *)
AbortTx(r) ==
  /\ req[r].op = "open"
  /\ \E f \in {Op(req[r])} : Serial(f, req[r]) /\ NextAttempt(r, f, req[r])
  /\ UNCHANGED <<scen, engine, row, started>>

Step(r) == DrawNext(r) \/ RunTx(r) \/ OpenTx(r) \/ CommitTx(r) \/ AbortTx(r)

Next ==
  \E r \in Requests :
    \/ \E s \in Sides : \E n \in DOMAIN Scenarios[scen][s] :
         \E f \in {Scenarios[scen][s][n]} : OpenForm(r, s, n, f) \/ Ask(r, s, n, f)
    \/ SubmitForm(r)
    \/ Step(r)

Spec == Init /\ [][Next]_vars

(* Each request has a goroutine of its own, which the Go scheduler does not  *)
(* starve; a person may leave a form open for ever.                          *)
FairSpec == Spec /\ \A r \in Requests : WF_vars(Step(r))
----------------------------------------------------------------------------
(* Properties.  Exempt names, for each, the operations that are known not to  *)
(* keep it on an engine; everything else in the catalogue is claimed to.      *)

Keeps(property, n) == n \notin Exempt[property][engine]

Commits(r) == req[r] # Idle /\ req'[r] = Idle /\ row' # row

(* What an edit form overwrites is what it showed.  A form carries the       *)
(* row_version of the row it was rendered from (submittedVersion), and an    *)
(* UPDATE guarded by it (requireVersion) changes a column only from the      *)
(* value the person saw: no edit, retire or restore in between is reverted,  *)
(* also when the page was drawn from several queries, when a refused form    *)
(* was redrawn (rejected) and submitted again, and when the transaction is   *)
(* retried (writeSerializable).                                              *)
NoLostUpdate ==
  [][\A r \in Requests :
       Commits(r) /\ Op(req[r]).guard = "form" /\ Keeps("NoLostUpdate", req[r].do) =>
         \A c \in Op(req[r]).sets : row[req[r].side][c] = req[r].shown[c]]_vars

(* A retired row comes back only at the hands of an operation that was asked *)
(* to bring it back: an UPDATE that writes the lifecycle it read earlier     *)
(* (updateCost, UpdateEndpoint, UpdatePowerFeed, UpdateService ...) never    *)
(* undoes a withdrawal committed since.                                      *)
RetiredStaysRetired ==
  [][\A r \in Requests : Commits(r) /\ Keeps("RetiredStaysRetired", req[r].do) =>
       \A s \in Sides : row[s].life = "retired" /\ row'[s].life = "active" =>
         s = req[r].side /\ "life" \in Op(req[r]).from /\ req[r].want.life = "active"]_vars

(* change_log is the history of the row: the snapshots and diffs written by  *)
(* logCreate and logUpdate, applied in commit order, give the row.  A diff   *)
(* is computed from a row read earlier, so a write in between that the       *)
(* guard does not notice leaves a log that replays to something else.        *)
AuditReplays ==
  \A s \in Sides :
    (\A n \in DOMAIN Scenarios[scen][s] : Keeps("AuditReplays", n)) =>
      row[s].log = Cols(row[s])

(* The search document of an entity shows its present name: every operation  *)
(* that writes what the document is built from rewrites it (indexEntity)     *)
(* from the image that was stored, and none puts an older image back.        *)
SearchAgrees ==
  \A s \in Sides : <<scen, s>> \in Indexed => row[s].doc = row[s].body

(* What is kept beside a row agrees with it: its history in change_log and   *)
(* its document in the search index, both written by the request that wrote  *)
(* the row (tx.logUpdate, indexEntity).                                      *)
RecordsAgree == AuditReplays /\ SearchAgrees

(* Nothing that is live depends on something withdrawn, where the            *)
(* withdrawal counts what depends on the row and the dependent row checks    *)
(* its target, both in serializable transactions: whichever order the two    *)
(* run in, one of them is refused.                                           *)
NothingDangles ==
  scen \in Promised[engine] /\ row["child"].life = "active" => row["parent"].life = "active"

(* What the request says nothing about. *)
Untouched(r) == IF Op(req[r]).partial THEN row[req[r].side].set \ req[r].want.named ELSE {}

(* A link table replaced as a whole (SANs, tags, data classes, bundle        *)
(* members) holds what the request asked for when it commits, never the      *)
(* union of two requests.  Custom values are replaced only where the         *)
(* submission names them: "absent means untouched" (SetCustomValues).        *)
SetIsWhole ==
  [][\A r \in Requests :
       Commits(r) /\ "set" \in Op(req[r]).from /\ Keeps("SetIsWhole", req[r].do) =>
         row'[req[r].side].set = req[r].want.set \cup Untouched(r)]_vars

(* A commit writes what its request was asked for and no column it carried   *)
(* along: a withdrawal is not undone by the way, and a set is what one       *)
(* request made of it (the UPDATEs and the DELETE-then-INSERTs of the        *)
(* stores).                                                                  *)
CommitKeepsItsWord == RetiredStaysRetired /\ SetIsWhole

(* A submitted request is answered, with the next page or with its form: a   *)
(* transaction that keeps losing (SQLSTATE 40001) is tried Attempts times    *)
(* and then given up.                                                        *)
RequestsEnd ==
  \A r \in Requests : req[r].op \in {"asked", "open"} ~> req[r].op \in {"idle", "form"}
=============================================================================
