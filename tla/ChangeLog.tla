----------------------------- MODULE ChangeLog -----------------------------
(***************************************************************************)
(* Reading the change log while it is written (store/audit.go): a page at  *)
(* a time in either direction, and the timeline that folds the change log, *)
(* the observed transitions and the notes of an entity into one page.      *)
(*                                                                         *)
(* A row's place in the order is settled before it is written: its         *)
(* timestamp and id are taken when its transaction begins, so a row may    *)
(* appear below rows that are already there.  start, seen, twice and       *)
(* turned are history of the walk.                                         *)
(***************************************************************************)
EXTENDS Integers, FiniteSets

CONSTANTS
  Key,            \* place in the ledgers -> its <<at, id>>, all different
  Matching,       \* the places whose entity type the filter names
  PageSize,       \* rows on a page of the log
  TimelineLimit,  \* rows of a timeline
  NoteBudget,     \* notes of a timeline (JournalTimelineBudget)
  MaxRows         \* bound: rows written or removed in one behaviour

Places == DOMAIN Key
LedgerSources == {"change", "observed", "journal"}

ASSUME ChangeLogAssumption ==
  /\ IsFiniteSet(Places) /\ Key \in [Places -> Nat \X Nat]
  /\ \A p, q \in Places : Key[p] = Key[q] => p = q
  /\ Matching \subseteq Places
  /\ PageSize \in Nat \ {0} /\ TimelineLimit \in Nat \ {0}
  /\ NoteBudget \in Nat /\ MaxRows \in Nat

VARIABLES
  ledger,       \* [Places -> the source of the row written there, or "none"]
  reader,       \* the walk through the log
  rowsWritten   \* writes so far

logVars == <<ledger, reader, rowsWritten>>

NoCursor == <<>>

----------------------------------------------------------------------------
(* The change log *)

(* The order of the log: by timestamp, and by id within one. *)
Older(k, l) == k[1] < l[1] \/ (k[1] = l[1] /\ k[2] < l[2])

Newest(S, n) == {p \in S : Cardinality({q \in S : Older(Key[p], Key[q])}) < n}
Oldest(S, n) == {p \in S : Cardinality({q \in S : Older(Key[q], Key[p])}) < n}
KeyOfNewest(S) == Key[CHOOSE p \in S : \A q \in S \ {p} : ~Older(Key[p], Key[q])]
KeyOfOldest(S) == Key[CHOOSE p \in S : \A q \in S \ {p} : ~Older(Key[q], Key[p])]

Rows(source, match) == {p \in match : ledger[p] = source}

(* Mutant: that there is more is taken from the page being full. *)
ListChangesFullMeansMore(match, before, after) ==
  LET all == Rows("change", match)
      backwards == before = NoCursor /\ after # NoCursor
      beyond == CASE before # NoCursor -> {p \in all : Older(Key[p], before)}
                  [] backwards         -> {p \in all : Older(after, Key[p])}
                  [] OTHER             -> all
      rows == IF backwards THEN Oldest(beyond, PageSize) ELSE Newest(beyond, PageSize)
      more == Cardinality(rows) >= PageSize
  IN [rows  |-> rows,
      newer |-> IF rows # {} /\ (IF backwards THEN more ELSE before # NoCursor)
                THEN KeyOfNewest(rows) ELSE NoCursor,
      older |-> IF rows # {} /\ (backwards \/ more) THEN KeyOfOldest(rows) ELSE NoCursor]

(* ListChanges: the rows of a page, and the cursors of the pages beside it. *)
(* One row more than the page is asked for, to know whether there is more;  *)
(* the way the reader came from is taken to lead back.                      *)
ListChanges(match, before, after) ==
  LET all == Rows("change", match)
      backwards == before = NoCursor /\ after # NoCursor
      beyond == CASE before # NoCursor -> {p \in all : Older(Key[p], before)}
                  [] backwards         -> {p \in all : Older(after, Key[p])}
                  [] OTHER             -> all
      rows == IF backwards THEN Oldest(beyond, PageSize) ELSE Newest(beyond, PageSize)
      more == Cardinality(beyond) > PageSize
  IN [rows  |-> rows,
      newer |-> IF rows # {} /\ (IF backwards THEN more ELSE before # NoCursor)
                THEN KeyOfNewest(rows) ELSE NoCursor,
      older |-> IF rows # {} /\ (backwards \/ more) THEN KeyOfOldest(rows) ELSE NoCursor]

OpenLog(match) ==
  /\ reader.kind = "none"
  /\ LET page == ListChanges(match, NoCursor, NoCursor)
     IN reader' = [kind |-> "log", match |-> match, page |-> page, linked |-> FALSE, turned |-> FALSE,
                 start |-> Rows("change", match), seen |-> page.rows, twice |-> FALSE]
  /\ UNCHANGED <<ledger, rowsWritten>>

FollowOlder ==
  /\ reader.kind = "log" /\ reader.page.older # NoCursor
  /\ LET page == ListChanges(reader.match, reader.page.older, NoCursor)
     IN reader' = [reader EXCEPT !.page = page, !.linked = TRUE, !.seen = @ \cup page.rows,
                             !.twice = @ \/ (~reader.turned /\ page.rows \cap reader.seen # {})]
  /\ UNCHANGED <<ledger, rowsWritten>>

FollowNewer ==
  /\ reader.kind = "log" /\ reader.page.newer # NoCursor
  /\ LET page == ListChanges(reader.match, NoCursor, reader.page.newer)
     IN reader' = [reader EXCEPT !.page = page, !.linked = TRUE, !.turned = TRUE,
                             !.seen = @ \cup page.rows]
  /\ UNCHANGED <<ledger, rowsWritten>>

----------------------------------------------------------------------------
(* The timeline *)

timelineBudget(limit, hasObserved) ==
  IF ~hasObserved THEN [declared |-> limit, observed |-> 0]
  ELSE LET half == IF limit \div 2 < 1 THEN 1 ELSE limit \div 2
       IN [declared |-> half, observed |-> limit - half]

(* Timeline: the newest of each source within its budget, folded by time    *)
(* and cut at the limit.                                                    *)
Budget == timelineBudget(TimelineLimit, TRUE)
Declared == Newest(Rows("change", Places), Budget.declared)
Notes == Newest(Rows("journal", Places), NoteBudget)
Timeline ==
  Newest(Declared \cup Newest(Rows("observed", Places), Budget.observed) \cup Notes, TimelineLimit)

----------------------------------------------------------------------------
(* The writers.  A log row is for ever; a transition may be pruned and a    *)
(* note retired.                                                            *)

WriteRow(p, source) ==
  /\ rowsWritten < MaxRows /\ ledger[p] = "none"
  /\ ledger' = [ledger EXCEPT ![p] = source]
  /\ rowsWritten' = rowsWritten + 1
  /\ UNCHANGED reader

RemoveRow(p) ==
  /\ rowsWritten < MaxRows /\ ledger[p] \in {"observed", "journal"}
  /\ ledger' = [ledger EXCEPT ![p] = "none"]
  /\ rowsWritten' = rowsWritten + 1
  /\ UNCHANGED reader

LogInit ==
  /\ ledger = [p \in Places |-> "none"]
  /\ reader = [kind |-> "none"]
  /\ rowsWritten = 0

LogNext ==
  \/ \E match \in {Places, Matching} : OpenLog(match)
  \/ FollowOlder \/ FollowNewer
  \/ \E p \in Places, source \in LedgerSources : WriteRow(p, source)
  \/ \E p \in Places : RemoveRow(p)

LogSpec == LogInit /\ [][LogNext]_logVars

----------------------------------------------------------------------------
(* Properties *)

(* A walk of the log that follows "older" from the first page to the last  *)
(* has shown every row that was there when it began, none of them twice,    *)
(* whatever was written meanwhile; and a link that is offered, in either    *)
(* direction, never leads to an empty page.                                 *)
WalkIsWhole ==
  reader.kind = "log" =>
    /\ ~reader.twice
    /\ ~reader.turned /\ reader.page.older = NoCursor => reader.start \subseteq reader.seen
    /\ reader.linked => reader.page.rows # {}

(* However many transitions there are, the newest declared changes stay on  *)
(* the timeline: one of them is missing only where a note took its place.   *)
ChurnBuriesNoChange ==
  Cardinality(Declared \ Timeline) <= Cardinality(Notes)

(* A reader of the change log is denied no declared change: not by the      *)
(* paging, while the log grows (ListChanges' cursors and its extra row),    *)
(* nor by the churn beside it on a timeline (timelineBudget).               *)
NoChangeIsHidden == WalkIsWhole /\ ChurnBuriesNoChange

(* Not so: notes are never made to compete with the churn.  They have a     *)
(* budget of their own, but the fold is cut at the limit by age.            *)
NotesKeepTheirShare == Notes \subseteq Timeline
=============================================================================
