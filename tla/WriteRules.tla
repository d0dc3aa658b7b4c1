----------------------------- MODULE WriteRules -----------------------------
(***************************************************************************)
(* The rules that the operations of the catalogue follow, and from which   *)
(* the properties of Writes are proved for any catalogue that follows them *)
(* (WritesProofs).  Each is about what one operation checks, writes and    *)
(* logs; TLC evaluates them on the catalogue.  e is the engine, s the      *)
(* scenario, d the side the operation f works on, c a column.              *)
(***************************************************************************)
EXTENDS Writes

(* What a transaction has read stays as it was until it commits. *)
Isolated(e, f) == e = "postgres" => f.tx = "serializable"

(* The columns that some operation writes without moving row_version. *)
Silent(s, d) ==
  {c \in Columns :
     \/ \E n \in DOMAIN Scenarios[s][d] : c \in Scenarios[s][d][n].sets /\ ~Scenarios[s][d][n].bumps
     \/ c = "life" /\ d = "child" /\ \E n \in DOMAIN Scenarios[s].parent : Scenarios[s].parent[n].cascade}

(* The token is the version of a row that was read. *)
Honest(e, f) == e = "postgres" => ~f.sticky

(* The WHERE clause of the UPDATE notices when the column has moved. *)
Versioned(e, s, d, f, c) ==
  /\ f.guard \in {"form", "read"} /\ Honest(e, f) /\ c \notin Silent(s, d)
  /\ f.act = "create" => f.exists # "upsert" /\ f.guard = "read" /\ "life" \notin Silent(s, d)

(* An UPDATE that commits was built from the column as it is. *)
UpToDate(e, s, d, f, c) == Versioned(e, s, d, f, c) \/ (f.before = "inside" /\ Isolated(e, f))

(* A DELETE of a link table finds all its rows. *)
Whole(e, s, d, f) ==
  \/ Isolated(e, f)
  \/ Versioned(e, s, d, f, "set")
  \/ f.act = "create" /\ f.exists = "refuse"

(* Nothing brings back a row that was withdrawn. *)
Final(e, s, d) ==
  \A n \in DOMAIN Scenarios[s][d] : LET f == Scenarios[s][d][n] IN
    "life" \in f.sets =>
      IF f.act = "create" THEN f.exists = "refuse"
      ELSE IF "life" \in f.from THEN f.act = "retire"
      ELSE UpToDate(e, s, d, f, "life")

(* A diff shows the column whenever it has moved: the operation returns      *)
(* early when the column already was what it is going to be.                 *)
Shows(e, s, d, f, c) ==
  \/ c = "life" /\ f.act = "retire" /\ "life" \in f.from
       /\ (Final(e, s, d) \/ ("retired" \in f.skip \cup f.refuse /\ (f.gate = "inside" \/ f.before # "inside")))
  \/ c # "set" /\ f.from = {c} /\ "same" \in f.skip /\ (f.gate = "inside" \/ f.before # "inside")

----------------------------------------------------------------------------
(* A create says what the lifecycle is going to be. *)
Begins(f) == f.act = "create" => "life" \in f.from \cap f.sets

(* Early returns are decided outside the transaction or inside it. *)
Gated(f) == f.gate \in {"outside", "inside"}

(* An edit form carries the version of the row it shows, its set is read     *)
(* after the row, and a refused form comes back with the version it carried. *)
KeepsForm(e, s, d, f) ==
  f.guard = "form" =>
    /\ f.act # "create" /\ Honest(e, f) /\ f.sets \cap Silent(s, d) = {}
    /\ {f.stale} \cup f.invalid \subseteq {"page", "kept", "reload"}
    /\ f.draws = <<"row", "set">> \/ (f.draws = <<"row">> /\ ("set" \in f.sets => f.delta))

(* A lifecycle that is written back is the lifecycle the row has. *)
KeepsLife(e, s, d, f) == "life" \in f.sets \ f.from => UpToDate(e, s, d, f, "life")

(* A set is replaced with all its rows in sight. *)
KeepsSet(e, s, d, f) == "set" \in f.from => "set" \in f.sets /\ Whole(e, s, d, f)

(* What is logged is what the statement does to the row. *)
KeepsLog(e, s, d, f) ==
  CASE f.log = "snapshot" -> TRUE
    [] f.log = "none"     -> f.sets = {}
    [] f.log = "fixed"    -> f.from = f.sets /\ "set" \notin f.sets
    [] OTHER              ->
         /\ f.from \subseteq f.sets /\ (f.act = "assign" => "set" \in f.sets)
         /\ \A c \in f.sets : UpToDate(e, s, d, f, c) \/ Shows(e, s, d, f, c)
         /\ "set" \in f.from /\ f.act # "assign" => Whole(e, s, d, f) /\ ~f.partial

(* The search document is written with what it is built from. *)
KeepsDocument(e, s, d, f) ==
  IF f.index
    THEN \/ "body" \in f.sets
         \/ "body" \notin f.from /\ f.act # "create" /\ UpToDate(e, s, d, f, "body")
    ELSE "body" \notin f.sets

ASSUME CatalogueAssumption ==
  \A e \in Engines, s \in DOMAIN Scenarios, d \in Sides : \A n \in DOMAIN Scenarios[s][d] :
    LET f == Scenarios[s][d][n] IN
    /\ Begins(f) /\ Gated(f) /\ f.sets \subseteq Columns
    /\ n \notin Exempt["NoLostUpdate"][e] => KeepsForm(e, s, d, f)
    /\ n \notin Exempt["RetiredStaysRetired"][e] => KeepsLife(e, s, d, f)
    /\ n \notin Exempt["SetIsWhole"][e] => KeepsSet(e, s, d, f)
    /\ (DOMAIN Scenarios[s][d]) \cap Exempt["AuditReplays"][e] = {} => KeepsLog(e, s, d, f)
    /\ <<s, d>> \in Indexed => KeepsDocument(e, s, d, f)

----------------------------------------------------------------------------
(* What depends on a row is safe where the operations look both ways.  One   *)
(* on the parent leaves its lifecycle alone, leaves it live, or is a         *)
(* withdrawal that counts or retires the children inside its transaction;    *)
(* one on the child leaves its lifecycle alone, withdraws it, or looks at    *)
(* the parent inside its transaction.                                        *)
LeavesLive(f) ==
  \/ "life" \notin f.sets
  \/ "life" \in f.from /\ f.act \notin {"update", "retire"}
  \/ "life" \notin f.from /\ f.before = "outside" /\ f.gate = "outside" /\ "retired" \in f.skip \cup f.refuse
Withdraws(f) == "life" \notin f.sets \/ ("life" \in f.from /\ f.act = "retire")
Counts(f) == f.held = "inside" /\ f.holders \in {"live", "any"}
Looks(f) == f.needs = "inside" /\ f.act # "assign"

LooksBothWays(e, s) ==
  /\ \A n \in DOMAIN Scenarios[s].parent : LET f == Scenarios[s].parent[n] IN
       LeavesLive(f) \/ (Isolated(e, f) /\ (f.cascade \/ Counts(f)))
  /\ \A n \in DOMAIN Scenarios[s].child : LET f == Scenarios[s].child[n] IN
       Withdraws(f) \/ (Isolated(e, f) /\ Looks(f))

ASSUME PromiseAssumption ==
  \A e \in Engines : \A s \in DOMAIN Scenarios \cap Promised[e] : LooksBothWays(e, s)
=============================================================================
