------------------------------ MODULE Observed ------------------------------
(***************************************************************************)
(* The observed write path (internal/store/observed.go), for one reading:  *)
(* one (entity_type, entity_id, reporter).  Keys share nothing but the     *)
(* moment the buffer is swapped, so one is enough.                         *)
(*                                                                         *)
(* A report is read against the stored row and the buffer, classified, and *)
(* then buffered or written through; a flusher empties the buffer beside   *)
(* it.  Reports are identified by the reporter's clock: a re-delivery      *)
(* carries the same reported_at.  Server time is abstracted: whether an    *)
(* episode has settled, and how many recorded changes are still inside the *)
(* window, are choices.                                                    *)
(***************************************************************************)
EXTENDS Integers, Sequences, FiniteSets

CONSTANTS States,         \* domain.HealthState
          None,           \* SQL NULL, an absent row, an empty buffer slot
          Requests,       \* concurrent calls of RecordObservation
          MaxTime,        \* the reporter's clock, bounded
          FlapThreshold,  \* domain.FlapThreshold
          Serialised,     \* SQLite's single writer connection
          MaxCrashes      \* process crashes, bounded

ASSUME StatesAssumption == IsFiniteSet(States) /\ None \notin States
ASSUME TimeAssumption == MaxTime \in Nat /\ None \notin Nat
ASSUME FlapAssumption == FlapThreshold \in Nat /\ MaxCrashes \in Nat
ASSUME EngineAssumption == Serialised \in BOOLEAN

VARIABLES row,       \* the asset_health row
          ledger,    \* observed_transition
          pending,   \* the buffered bump's reported_at
          flushing,  \* the bump Flush has swapped out and not yet written
          req,       \* what each call of RecordObservation is doing
          newest,    \* the newest report answered as applied
          changes,   \* how often the stored state changed
          raced,     \* a report overlapped another, a flush or a crash
          crashes

vars == <<row, ledger, pending, flushing, req, newest, changes, raced, crashes>>

Times == 1..MaxTime
Report == [at : Times, state : States]

(* The open episode's columns: flap_count, flap_first_state and flap_seen. *)
Episode == [count : Nat, first : States, seen : SUBSET States]
Health == [state : States, at : Times, flap : Episode \cup {None}]
Row == Health \cup {None}

ASSUME NoneAssumption == None \notin Times \cup Health \cup Report \cup Episode

LedgerRow ==
  [kind : {"transition", "flap_open"}, from : States \cup {None}, to : States]
  \cup [kind : {"flap_close"}, first : States, last : States, settled : States, count : Nat]

Idle == [op |-> "idle"]
Call ==
  {Idle}
  \cup [op : {"read"}, obs : Report, stored : Row]
  \cup [op : {"buffer", "transition", "settle"}, obs : Report]
  \cup [op : {"tx_transition", "tx_settle"}, obs : Report, cur : Row]
  \cup [op : {"forget"}]

TypeOK ==
  /\ row \in Row
  /\ ledger \in Seq(LedgerRow)
  /\ pending \in Times \cup {None} /\ flushing \in Times \cup {None}
  /\ req \in [Requests -> Call]
  /\ newest \in Report \cup {None}
  /\ changes \in Nat /\ crashes \in Nat
  /\ raced \in BOOLEAN

----------------------------------------------------------------------------
(* One reading, as classify, applyBump and planFlap see it. *)

Larger(a, b) == IF a > b THEN a ELSE b

(* applyBump *)
Overlay(stored, bump) ==
  IF bump = None THEN stored ELSE [stored EXCEPT !.at = Larger(stored.at, bump)]

(* Mutant: a report no newer than the stored one is applied. *)
ClassifyArrivalOrder(obs, cur) ==
  IF cur = None THEN "transitioned"
  ELSE IF cur.state # obs.state THEN "transitioned" ELSE "unchanged"

(* classify; duplicate and stale are both discarded *)
Classify(obs, cur) ==
  IF cur = None THEN "transitioned"
  ELSE IF obs.at <= cur.at THEN "discarded"
  ELSE IF cur.state # obs.state THEN "transitioned"
  ELSE "unchanged"

Flapping(h) == h # None /\ h.flap # None

(* Rows that stand for one state change: what recentTransitionCount counts. *)
Emitted == {i \in DOMAIN ledger : ledger[i].kind # "flap_close"}

Change(kind, cur, to) ==
  [kind |-> kind, from |-> IF cur = None THEN None ELSE cur.state, to |-> to]

(* recordFlapClose *)
Close(ep, last, settled) ==
  [kind |-> "flap_close", first |-> ep.first, last |-> last, settled |-> settled,
   count |-> ep.count]

(* Mutant: a compressed change is not counted. *)
AbsorbUncounted(ep, to) == [ep EXCEPT !.seen = ep.seen \cup {to}]

(* withState *)
Absorb(ep, to) == [ep EXCEPT !.count = ep.count + 1, !.seen = ep.seen \cup {to}]

(* Mutant: a novel value ends the episode without the bracket that says so. *)
PlanForgetsClose(cur, to, settled, churn) ==
  LET ep == cur.flap
      plain == [rows |-> <<Change("transition", cur, to)>>, flap |-> None]
  IN IF cur = None THEN plain
     ELSE IF ~Flapping(cur)
       THEN IF churn + 1 > FlapThreshold
              THEN [rows |-> <<Change("flap_open", cur, to)>>,
                    flap |-> [count |-> 1, first |-> cur.state, seen |-> {cur.state, to}]]
              ELSE plain
     ELSE IF to \in ep.seen THEN [rows |-> <<>>, flap |-> Absorb(ep, to)]
     ELSE plain

(* planFlap: the rows a change appends and the episode it leaves behind. *)
Plan(cur, to, settled, churn) ==
  LET ep == cur.flap IN
  IF cur = None
    THEN [rows |-> <<Change("transition", cur, to)>>, flap |-> None]
  ELSE IF ~Flapping(cur)
    THEN IF churn + 1 > FlapThreshold
           THEN [rows |-> <<Change("flap_open", cur, to)>>,
                 flap |-> [count |-> 1, first |-> cur.state, seen |-> {cur.state, to}]]
           ELSE [rows |-> <<Change("transition", cur, to)>>, flap |-> None]
  ELSE IF settled
    THEN [rows |-> <<Close(ep, cur.state, cur.state), Change("transition", cur, to)>>,
          flap |-> None]
  ELSE IF to \in ep.seen
    THEN [rows |-> <<>>, flap |-> Absorb(ep, to)]
  ELSE [rows |-> <<Close(Absorb(ep, to), cur.state, to), Change("transition", cur, to)>>,
        flap |-> None]

(* bumpHealth: timestamps only, and never backwards. *)
Bumped(h, at) == IF h # None /\ h.at <= at THEN [h EXCEPT !.at = at] ELSE h

----------------------------------------------------------------------------
Busy(r) == req[r] # Idle
InTx == {r \in Requests : req[r].op \in {"tx_transition", "tx_settle"}}
WriterFree == Serialised => InTx = {}

Set(r, call) == req' = [req EXCEPT ![r] = call]
Answered(obs) ==
  newest' = IF newest = None \/ obs.at > newest.at THEN obs ELSE newest

Init ==
  /\ row = None /\ ledger = <<>> /\ pending = None /\ flushing = None
  /\ req = [r \in Requests |-> Idle]
  /\ newest = None /\ changes = 0 /\ raced = FALSE /\ crashes = 0

(* A valid report of a known entity in scope: currentReading reads the row. *)
Receive(r, obs) ==
  /\ ~Busy(r)
  /\ Set(r, [op |-> "read", obs |-> obs, stored |-> row])
  /\ raced' = (raced \/ flushing # None \/ \E q \in Requests : Busy(q))
  /\ UNCHANGED <<row, ledger, pending, flushing, newest, changes, crashes>>

(* currentReading takes the lock and overlays the buffer, and the report is  *)
(* classified.  A settled episode is closed even when the state is the same. *)
Dispatch(r) ==
  /\ req[r].op = "read"
  /\ LET obs == req[r].obs
         cur == IF req[r].stored = None THEN None ELSE Overlay(req[r].stored, pending)
         what == Classify(obs, cur)
     IN \/ what = "discarded" /\ Set(r, Idle)
        \/ what = "transitioned" /\ Set(r, [op |-> "transition", obs |-> obs])
        \/ what = "unchanged" /\ Set(r, [op |-> "buffer", obs |-> obs])
        \/ /\ what = "unchanged" /\ Flapping(cur)
           /\ Set(r, [op |-> "settle", obs |-> obs])
  /\ UNCHANGED <<row, ledger, pending, flushing, newest, changes, raced, crashes>>

(* buffer *)
Buffer(r) ==
  /\ req[r].op = "buffer"
  /\ pending' = IF pending = None \/ pending <= req[r].obs.at THEN req[r].obs.at ELSE pending
  /\ Answered(req[r].obs)
  /\ Set(r, Idle)
  /\ UNCHANGED <<row, ledger, flushing, changes, raced, crashes>>

(* writeThrough and closeSettledEpisode open a transaction and re-read. *)
BeginTx(r) ==
  /\ req[r].op \in {"transition", "settle"} /\ WriterFree
  /\ Set(r, [op |-> IF req[r].op = "settle" THEN "tx_settle" ELSE "tx_transition",
             obs |-> req[r].obs, cur |-> row])
  /\ UNCHANGED <<row, ledger, pending, flushing, newest, changes, raced, crashes>>

(* healthUpsert's WHERE: the row written is still older than the report. *)
Applies(obs) == row # None => row.at < obs.at

(* writeThrough's transaction ends on a state change: the upsert, then the   *)
(* ledger rows planned from what the transaction read.                       *)
WriteTransition(r) ==
  /\ req[r].op = "tx_transition"
  /\ LET obs == req[r].obs
         cur == req[r].cur
     IN /\ Classify(obs, cur) = "transitioned"
        /\ Applies(obs)
        /\ \E settled \in BOOLEAN, churn \in 0..Cardinality(Emitted) :
             LET p == Plan(cur, obs.state, settled, churn)
             IN /\ row' = [state |-> obs.state, at |-> obs.at, flap |-> p.flap]
                /\ ledger' = ledger \o p.rows
        /\ changes' = IF row = None \/ row.state # obs.state THEN changes + 1 ELSE changes
        /\ Answered(obs)
  /\ Set(r, [op |-> "forget"])
  /\ UNCHANGED <<pending, flushing, raced, crashes>>

(* The re-read found the state already there (a bump), or the report too old *)
(* (no write); or the upsert's guard refused it.                             *)
WriteNoTransition(r) ==
  /\ req[r].op = "tx_transition"
  /\ LET obs == req[r].obs
         what == Classify(obs, req[r].cur)
     IN \/ /\ what = "unchanged"
           /\ row' = Bumped(row, obs.at)
           /\ Answered(obs)
        \/ /\ what = "discarded" \/ (what = "transitioned" /\ ~Applies(obs))
           /\ UNCHANGED <<row, newest>>
  /\ Set(r, [op |-> "forget"])
  /\ UNCHANGED <<ledger, pending, flushing, changes, raced, crashes>>

(* closeSettledEpisode's transaction; by the time it re-reads, the episode   *)
(* may have been closed or have moved on.                                    *)
WriteSettle(r) ==
  /\ req[r].op = "tx_settle"
  /\ LET obs == req[r].obs
         cur == req[r].cur
     IN \/ /\ Flapping(cur)
           /\ ledger' = Append(ledger, Close(cur.flap, cur.state, cur.state))
           /\ row' = Bumped([row EXCEPT !.flap = None], obs.at)
        \/ /\ row' = Bumped(row, obs.at)
           /\ UNCHANGED ledger
  /\ Answered(req[r].obs)
  /\ Set(r, [op |-> "forget"])
  /\ UNCHANGED <<pending, flushing, changes, raced, crashes>>

(* The transaction failed and rolled back; the reporter gets an error. *)
FailTx(r) ==
  /\ req[r].op \in {"tx_transition", "tx_settle"}
  /\ Set(r, Idle)
  /\ UNCHANGED <<row, ledger, pending, flushing, newest, changes, raced, crashes>>

(* forget, after the commit *)
Forget(r) ==
  /\ req[r].op = "forget"
  /\ pending' = None
  /\ Set(r, Idle)
  /\ UNCHANGED <<row, ledger, flushing, newest, changes, raced, crashes>>

(* Flush swaps the map under the lock. *)
FlushSwap ==
  /\ flushing = None /\ pending # None
  /\ flushing' = pending /\ pending' = None
  /\ raced' = (raced \/ \E r \in Requests : Busy(r))
  /\ UNCHANGED <<row, ledger, req, newest, changes, crashes>>

(* Flush's transaction. *)
FlushCommit ==
  /\ flushing # None /\ WriterFree
  /\ row' = Bumped(row, flushing)
  /\ flushing' = None
  /\ UNCHANGED <<ledger, pending, req, newest, changes, raced, crashes>>

(* Mutant: what arrived during the flush is overwritten. *)
RestoreOver == pending' = flushing

(* restore: "without overwriting anything newer that arrived while the flush *)
(* was in flight"                                                            *)
Restore == pending' = IF pending # None /\ pending >= flushing THEN pending ELSE flushing

(* The database refused: restore. *)
FlushFail ==
  /\ flushing # None /\ WriterFree
  /\ Restore
  /\ flushing' = None
  /\ UNCHANGED <<row, ledger, req, newest, changes, raced, crashes>>

(* The process dies: what was in memory is gone. *)
Crash ==
  /\ crashes < MaxCrashes
  /\ pending' = None /\ flushing' = None
  /\ req' = [r \in Requests |-> Idle]
  /\ raced' = TRUE
  /\ crashes' = crashes + 1
  /\ UNCHANGED <<row, ledger, newest, changes>>

Step(r) ==
  \/ Dispatch(r) \/ Buffer(r) \/ BeginTx(r)
  \/ WriteTransition(r) \/ WriteNoTransition(r) \/ WriteSettle(r) \/ FailTx(r)
  \/ Forget(r)

Next ==
  \/ \E r \in Requests : (\E obs \in Report : Receive(r, obs)) \/ Step(r)
  \/ FlushSwap \/ FlushCommit \/ FlushFail
  \/ Crash

Spec == Init /\ [][Next]_vars

----------------------------------------------------------------------------
(* Properties *)

(* The stored state as a reader of the ledger row i would know it. *)
After(i) == IF ledger[i].kind = "flap_close" THEN ledger[i].last ELSE ledger[i].to

(* Rule 9's brackets: a flap_close ends exactly the episode a flap_open      *)
(* began, with nothing in between, and an open bracket is an open episode.   *)
BracketsMatch ==
  /\ \A i \in DOMAIN ledger :
       ledger[i].kind = "flap_close" <=> i > 1 /\ ledger[i - 1].kind = "flap_open"
  /\ Flapping(row) <=> (ledger # <<>> /\ ledger[Len(ledger)].kind = "flap_open")

(* "from_state must name what this write actually replaces": each row starts *)
(* where the one before it ended, and the last one ends at the stored state. *)
LedgerIsAChain ==
  /\ row = None <=> ledger = <<>>
  /\ \A i \in DOMAIN ledger : ledger[i].kind # "flap_close" =>
       ledger[i].from = IF i = 1 THEN None ELSE After(i - 1)
  /\ row # None /\ ~Flapping(row) => After(Len(ledger)) = row.state

(* The ledger tells one story of the reading, state after state and bracket  *)
(* within bracket (writeThrough, planFlap, closeSettledEpisode).             *)
LedgerIsTrue == BracketsMatch /\ LedgerIsAChain

(* What a closed episode hid: its count, less the change its flap_open names *)
(* and the novel change that has a row of its own.                           *)
Hidden(c) == c.count - 1 - (IF c.settled # c.last THEN 1 ELSE 0)

(* "Compressed, never suppressed": every change of state is a ledger row or  *)
(* is counted by the episode that hid it.                                    *)
EveryChangeAccounted ==
  LET upTo[i \in 0..Len(ledger)] ==
        IF i = 0 THEN 0
        ELSE upTo[i - 1] + IF ledger[i].kind = "flap_close" THEN Hidden(ledger[i]) ELSE 1
  IN changes = upTo[Len(ledger)] + IF Flapping(row) THEN row.flap.count - 1 ELSE 0

(* Rule 4's order, for reports that do not overlap: however they are         *)
(* delayed, repeated, buffered, flushed or failed to flush, the stored state *)
(* is that of the report with the latest reported_at.                        *)
ReportsInOrder ==
  ~raced /\ (\A r \in Requests : ~Busy(r)) /\ newest # None =>
    /\ row.state = newest.state
    /\ newest.at \in {row.at, pending, flushing}

(* The times of reports that the row, the buffer and the flusher have. *)
Had == (IF row = None THEN {} ELSE {row.at}) \cup ({pending, flushing} \ {None})

(* A report that was accepted is never taken back for an older one, whatever *)
(* overlaps, and whether or not a flush fails with newer reports behind it;  *)
(* forget, which drops what a transaction has superseded, and a crash are    *)
(* the two that may drop one (buffer, Flush, restore, bumpHealth).           *)
NothingRewinds ==
  [][crashes' = crashes /\ (\A r \in Requests : req[r].op # "forget" \/ req'[r] = req[r])
       => \A at \in Had : \E later \in Had' : later >= at]_vars

(* What the order of reports comes to: the latest one is what is stored, and *)
(* what was accepted stays (RecordObservation, Flush).                       *)
ReportsKept == []ReportsInOrder /\ NothingRewinds

(* Rule 4: "discarded, not applied": a change is never written on the word   *)
(* of a report older than one already applied.                               *)
OlderReportDiscarded ==
  [][\A r \in Requests :
       WriteTransition(r) /\ newest # None => req[r].obs.at >= newest.at]_vars

(* "Closing twice would tell a reader the estate flapped twice": an episode  *)
(* has one flap_close.                                                       *)
EpisodeClosedOnce ==
  Cardinality({i \in DOMAIN ledger : ledger[i].kind = "flap_close"})
    <= Cardinality({i \in DOMAIN ledger : ledger[i].kind = "flap_open"})

(* "A durable write supersedes anything buffered for this key": forget drops *)
(* nothing that the table does not already have.                             *)
ForgetDropsOnlySuperseded ==
  [][\A r \in Requests : Forget(r) /\ pending # None => row.at >= pending]_vars
=============================================================================
