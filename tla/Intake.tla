------------------------------- MODULE Intake -------------------------------
(***************************************************************************)
(* The observed-state webhook behind its gate (handlers/observations.go),  *)
(* the drift queue (store/observed.go) and retention (store/prune.go).     *)
(*                                                                         *)
(* A batch is recorded item by item, each in transactions of its own, and  *)
(* stops at the first that fails.  What a report does to the reading is    *)
(* module Observed's; here it leaves a transition row or none.  Time is    *)
(* the day.  lost is history.                                              *)
(***************************************************************************)
EXTENDS Integers, Sequences, FiniteSets

CONSTANTS
  Posts,              \* concurrent requests of the webhook
  Reporters,          \* monitoring credentials
  CredentialScope,    \* [Reporters -> the environments each may write for]
  Environments,
  InScope,            \* the environments flagged in_scope
  Placements,         \* sets of environments operators put an entity in
  Refs,               \* entity references a report may carry
  Batches,            \* the batches sent, sequences of Item
  MaxBatch,           \* MaxObservationBatch
  KeepDays,           \* what operators ask a prune to keep
  DriftCap,           \* MaxUnmatchedPerReporter
  MinDays,            \* MinInScopeRetentionDays
  MaxDay, MaxPosts, MaxMoves, MaxPrunes    \* bounds

(* A word of the reporter's vocabulary, one outside it, and a report that   *)
(* NewObservation refuses.                                                  *)
Words == {"word", "typo", "invalid"}
Item == [ref : Refs, word : Words]

ASSUME IntakeAssumption ==
  /\ InScope \subseteq Environments /\ Placements \subseteq SUBSET Environments
  /\ Batches \subseteq Seq(Item) /\ IsFiniteSet(Posts) /\ Posts # {}
  /\ CredentialScope \in [Reporters -> SUBSET Environments]
  /\ {MaxBatch, DriftCap, MinDays, MaxDay, MaxPosts, MaxMoves, MaxPrunes} \cup KeepDays \subseteq Nat

VARIABLES
  singleWriter, \* SQLite, with its one writer connection; a build serves one engine
  day,
  known,        \* [Refs -> the environments of the entity, or NotEntered]
  transitions,  \* rows of observed_transition
  recorded,     \* rows ever written to it
  drift,        \* [Reporters -> [the refs queued -> last_seen_at]]
  post,         \* [Posts -> what each request is doing]
  prune,        \* the prune an operator runs
  posts, moves, prunes,
  audited,      \* rows the change log says were pruned from the ledger
  lost          \* the rows that were, and whether they were in scope

intakeVars == <<singleWriter, day, known, transitions, recorded, drift, post, prune, posts, moves,
                prunes, audited, lost>>

NotEntered == {"absent"}
Waiting == [op |-> "idle"]

----------------------------------------------------------------------------
(* The webhook *)

(* The request is answered, whatever the answer: nothing follows it. *)
Answer(r) == post' = [post EXCEPT ![r] = Waiting]

(* decodeObservations and the vocabulary: a batch is refused whole before   *)
(* any of it is recorded.                                                   *)
Refused(batch) ==
  \/ Len(batch) = 0 \/ Len(batch) > MaxBatch
  \/ \E i \in DOMAIN batch : batch[i].word = "typo"

Record(r, who, batch) ==
  /\ posts < MaxPosts /\ post[r].op = "idle"
  /\ posts' = posts + 1
  /\ IF Refused(batch) THEN Answer(r)
     ELSE post' = [post EXCEPT ![r] = [op |-> "resolve", who |-> who, batch |-> batch]]
  /\ UNCHANGED <<singleWriter, day, known, transitions, recorded, drift, prune, moves, prunes, audited, lost>>

Ref(r) == Head(post[r].batch).ref

(* RecordObservation: valid, then known, then in the credential's scope;    *)
(* the last two are reads of their own.                                     *)
Resolve(r) ==
  /\ post[r].op = "resolve"
  /\ IF Head(post[r].batch).word = "invalid" THEN Answer(r)
     ELSE post' = [post EXCEPT ![r].op = IF known[Ref(r)] = NotEntered THEN "queue" ELSE "authorise"]
  /\ UNCHANGED <<singleWriter, day, known, transitions, recorded, drift, prune, posts, moves, prunes, audited, lost>>

(* authoriseScope: every environment of the entity, and at least one. *)
AllowsAll(who, envs) == envs # {} /\ envs \subseteq CredentialScope[who]

Authorise(r) ==
  /\ post[r].op = "authorise"
  /\ IF AllowsAll(post[r].who, known[Ref(r)]) THEN post' = [post EXCEPT ![r].op = "apply"]
     ELSE Answer(r)
  /\ UNCHANGED <<singleWriter, day, known, transitions, recorded, drift, prune, posts, moves, prunes, audited, lost>>

(* The report is recorded.  One row stands for all that it adds to the       *)
(* ledger, a flap_close before a transition included; an answer of 500 ends  *)
(* the item as any other.                                                    *)
Apply(r) ==
  /\ post[r].op = "apply"
  /\ \/ /\ transitions' = transitions \cup {[ref |-> Ref(r), at |-> day, id |-> recorded + 1]}
        /\ recorded' = recorded + 1
     \/ UNCHANGED <<transitions, recorded>>
  /\ IF Len(post[r].batch) = 1 THEN Answer(r)
     ELSE post' = [post EXCEPT ![r] = [op |-> "resolve", who |-> @.who, batch |-> Tail(@.batch)]]
  /\ UNCHANGED <<singleWriter, day, known, drift, prune, posts, moves, prunes, audited, lost>>

----------------------------------------------------------------------------
(* The drift queue *)

WriterIsFree ==
  singleWriter => prune.op # "deleted" /\ \A r \in Posts : post[r].op # "upsert"

(* Mutant: the cap is tested for being passed, not reached. *)
QueueFullAtMoreThanCap(who) == Cardinality(DOMAIN drift[who]) > DriftCap

QueueFull(who) == Cardinality(DOMAIN drift[who]) >= DriftCap

(* queueUnmatched: one transaction counts the reporter's rows and, below    *)
(* the cap, writes the row.                                                 *)
queueUnmatched(r) ==
  /\ post[r].op = "queue" /\ WriterIsFree
  /\ IF QueueFull(post[r].who) THEN Answer(r)
     ELSE post' = [post EXCEPT ![r].op = "upsert"]
  /\ UNCHANGED <<singleWriter, day, known, transitions, recorded, drift, prune, posts, moves, prunes, audited, lost>>

unmatchedUpsert(r) ==
  /\ post[r].op = "upsert"
  /\ drift' = [drift EXCEPT ![post[r].who] = [ref \in DOMAIN @ \cup {Ref(r)} |->
                                                IF ref = Ref(r) THEN day ELSE @[ref]]]
  /\ Answer(r)
  /\ UNCHANGED <<singleWriter, day, known, transitions, recorded, prune, posts, moves, prunes, audited, lost>>

----------------------------------------------------------------------------
(* Retention, from the command line by a named administrator *)

NoPrune == [op |-> "idle"]

(* Mutant: the floor is the later of the two, so the request decides. *)
FloorLater(before) == IF before < day - MinDays THEN day - MinDays ELSE before

Floor(before) == IF before < day - MinDays THEN before ELSE day - MinDays

(* A dry run counts and ends; it is not modelled. *)
PruneBegin(table, keepDays) ==
  /\ prunes < MaxPrunes /\ prune = NoPrune
  /\ prunes' = prunes + 1
  /\ LET before == day - keepDays
     IN prune' = [op |-> table, before |-> before, floor |-> Floor(before)]
  /\ UNCHANGED <<singleWriter, day, known, transitions, recorded, drift, post, posts, moves, audited, lost>>

IsInScope(ref) == known[ref] # NotEntered /\ known[ref] \cap InScope # {}

(* pruneDelete: older than the cutoff, and if in scope older than the floor *)
Deletable(p) ==
  {t \in transitions : t.at < p.before /\ (t.at < p.floor \/ ~IsInScope(t.ref))}

(* PruneObservedTransitions: the statement, and then the audit row and the  *)
(* commit, or a failure that undoes both.                                   *)
pruneDelete ==
  /\ prune.op = "transitions" /\ WriterIsFree
  /\ prune' = [op |-> "deleted",
               gone |-> {[row |-> t, on |-> day, inScope |-> IsInScope(t.ref)] : t \in Deletable(prune)}]
  /\ UNCHANGED <<singleWriter, day, known, transitions, recorded, drift, post, posts, moves, prunes, audited, lost>>

PruneCommit ==
  /\ prune.op = "deleted"
  /\ transitions' = transitions \ {g.row : g \in prune.gone}
  /\ audited' = audited + Cardinality(prune.gone)
  /\ lost' = lost \cup prune.gone
  /\ prune' = NoPrune
  /\ UNCHANGED <<singleWriter, day, known, recorded, drift, post, posts, moves, prunes>>

PruneFail ==
  /\ prune.op \in {"deleted", "drift"}
  /\ prune' = NoPrune
  /\ UNCHANGED <<singleWriter, day, known, transitions, recorded, drift, post, posts, moves, prunes, audited, lost>>

(* PruneUnmatchedObservations: by the day a ref was last reported. *)
PruneUnmatchedObservations ==
  /\ prune.op = "drift" /\ WriterIsFree
  /\ drift' = [who \in Reporters |->
                 LET kept == {ref \in DOMAIN drift[who] : drift[who][ref] >= prune.before}
                 IN [ref \in kept |-> drift[who][ref]]]
  /\ prune' = NoPrune
  /\ UNCHANGED <<singleWriter, day, known, transitions, recorded, post, posts, moves, prunes, audited, lost>>

----------------------------------------------------------------------------
(* The operators' edits: an entity is entered, or moved between environments *)

Place(ref, envs) ==
  /\ moves < MaxMoves /\ known[ref] # envs
  /\ known' = [known EXCEPT ![ref] = envs]
  /\ moves' = moves + 1
  /\ UNCHANGED <<singleWriter, day, transitions, recorded, drift, post, prune, posts, prunes, audited, lost>>

NextDay ==
  /\ day < MaxDay
  /\ day' = day + 1
  /\ UNCHANGED <<singleWriter, known, transitions, recorded, drift, post, prune, posts, moves, prunes, audited, lost>>

IntakeInit ==
  /\ singleWriter \in BOOLEAN
  /\ day = 0
  /\ known \in [Refs -> {NotEntered, InScope}]
  /\ transitions = {} /\ recorded = 0
  /\ drift = [who \in Reporters |-> <<>>]
  /\ post = [r \in Posts |-> Waiting]
  /\ prune = NoPrune
  /\ posts = 0 /\ moves = 0 /\ prunes = 0 /\ audited = 0 /\ lost = {}

IntakeNext ==
  \/ \E r \in Posts, who \in Reporters, batch \in Batches : Record(r, who, batch)
  \/ \E r \in Posts : Resolve(r) \/ Authorise(r) \/ Apply(r) \/ queueUnmatched(r) \/ unmatchedUpsert(r)
  \/ \E table \in {"transitions", "drift"}, keepDays \in KeepDays : PruneBegin(table, keepDays)
  \/ pruneDelete \/ PruneCommit \/ PruneFail \/ PruneUnmatchedObservations
  \/ \E ref \in Refs, envs \in Placements : Place(ref, envs)
  \/ NextDay

IntakeSpec == IntakeInit /\ [][IntakeNext]_intakeVars

----------------------------------------------------------------------------
(* Properties *)

(* The drift queue of a reporter stays at its cap, though the count is      *)
(* taken before the row is written: past it by at most one row for every    *)
(* other request that was between the two, and by none on SQLite            *)
(* (queueUnmatched).                                                        *)
QueueNearItsCap ==
  \A who \in Reporters :
    Cardinality(DOMAIN drift[who]) <= DriftCap + (IF singleWriter THEN 0 ELSE Cardinality(Posts) - 1)

(* Every transition ever recorded is in the ledger or counted by the change *)
(* log as pruned, also when a prune fails or rows are written during one;   *)
(* and what was pruned of an entity in scope was older than the minimum,    *)
(* whatever the operator asked for (PruneObservedTransitions).              *)
RetentionIsAccounted ==
  /\ Cardinality(transitions) + audited = recorded
  /\ \A l \in lost : l.inScope => l.on - l.row.at > MinDays
=============================================================================
