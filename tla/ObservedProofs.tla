--------------------------- MODULE ObservedProofs ---------------------------
(***************************************************************************)
(* Theorems about the observed write path, for every number of concurrent  *)
(* reports, every reporter's clock and every flap threshold.               *)
(***************************************************************************)
EXTENDS Observed, TLAPS

LEMMA CallCases ==
  ASSUME NEW c \in Call
  PROVE  /\ c.op \in {"idle", "read", "buffer", "transition", "settle",
                      "tx_transition", "tx_settle", "forget"}
         /\ c.op = "idle" <=> c = Idle
         /\ c.op = "read" => c.obs \in Report /\ c.stored \in Row
         /\ c.op \in {"buffer", "transition", "settle"} => c.obs \in Report
         /\ c.op \in {"tx_transition", "tx_settle"} => c.obs \in Report /\ c.cur \in Row
BY DEF Call, Idle

LEMMA RowCases ==
  ASSUME NEW h \in Row, h # None
  PROVE  /\ h \in Health /\ h.state \in States /\ h.at \in Times /\ h.at \in Nat
         /\ h.flap # None => h.flap \in Episode /\ h.flap.count \in Nat /\ h.flap.first \in States
BY TimeAssumption DEF Row, Health, Times, Episode

LEMMA ReportCases ==
  ASSUME NEW obs \in Report
  PROVE  obs.at \in Times /\ obs.at \in Nat /\ obs.state \in States /\ obs # None
BY TimeAssumption, NoneAssumption DEF Report, Times

LEMMA BumpedType ==
  ASSUME NEW h \in Row, NEW at \in Times
  PROVE  /\ Bumped(h, at) \in Row
         /\ Bumped(h, at) = None <=> h = None
         /\ h # None => /\ Bumped(h, at).state = h.state
                        /\ Bumped(h, at).flap = h.flap
                        /\ Bumped(h, at).at = IF h.at <= at THEN at ELSE h.at
<1>1. CASE h # None /\ h.at <= at
  <2>1. h \in Health
    BY <1>1 DEF Row
  <2>2. [h EXCEPT !.at = at] \in Health
    BY <2>1 DEF Health
  <2> QED
    BY <1>1, <2>1, <2>2, NoneAssumption DEF Bumped, Row, Health
<1>2. CASE ~(h # None /\ h.at <= at)
  BY <1>2 DEF Bumped
<1> QED
  BY <1>1, <1>2

----------------------------------------------------------------------------
(* planFlap, case by case: what a change appends to the ledger, the episode  *)
(* it leaves, and the changes that are in neither before and after.          *)

(* A new episode, or none. *)
LEMMA ChangeType ==
  ASSUME NEW cur \in Row, NEW to \in States, NEW kind \in {"transition", "flap_open"}
  PROVE  /\ Change(kind, cur, to) \in LedgerRow
         /\ Change(kind, cur, to).kind = kind
         /\ Change(kind, cur, to).to = to
         /\ Change(kind, cur, to).from = IF cur = None THEN None ELSE cur.state
BY RowCases DEF Change, LedgerRow

LEMMA CloseType ==
  ASSUME NEW ep \in Episode, NEW last \in States, NEW settled \in States
  PROVE  /\ Close(ep, last, settled) \in LedgerRow
         /\ Close(ep, last, settled).kind = "flap_close"
         /\ Close(ep, last, settled).last = last
         /\ Close(ep, last, settled).settled = settled
         /\ Close(ep, last, settled).count = ep.count
BY DEF Close, LedgerRow, Episode

LEMMA AbsorbType ==
  ASSUME NEW ep \in Episode, NEW to \in States
  PROVE  Absorb(ep, to) \in Episode /\ Absorb(ep, to).count = ep.count + 1
<1>1. ep.count + 1 \in Nat /\ ep.seen \cup {to} \in SUBSET States
  BY DEF Episode
<1> QED
  BY <1>1 DEF Absorb, Episode

(* What a change may do, from the row that was read. *)
PlanCases(cur, to, p) ==
  \/ /\ ~Flapping(cur)
     /\ p.rows = <<Change("transition", cur, to)>> /\ p.flap = None
  \/ /\ cur # None /\ ~Flapping(cur)
     /\ p.rows = <<Change("flap_open", cur, to)>>
     /\ p.flap \in Episode /\ p.flap.count = 1
  \/ /\ Flapping(cur)
     /\ p.rows = <<Close(cur.flap, cur.state, cur.state), Change("transition", cur, to)>>
     /\ p.flap = None
  \/ /\ Flapping(cur)
     /\ p.rows = <<>> /\ p.flap \in Episode /\ p.flap.count = cur.flap.count + 1
  \/ /\ Flapping(cur)
     /\ p.rows = <<Close(Absorb(cur.flap, to), cur.state, to), Change("transition", cur, to)>>
     /\ p.flap = None

LEMMA PlanSplits ==
  ASSUME NEW cur \in Row, NEW to \in States, NEW settled \in BOOLEAN, NEW churn
  PROVE  PlanCases(cur, to, Plan(cur, to, settled, churn))
<1>1. CASE cur = None
  BY <1>1 DEF Plan, PlanCases, Flapping
<1>2. CASE cur # None /\ ~Flapping(cur)
  <2>1. [count |-> 1, first |-> cur.state, seen |-> {cur.state, to}] \in Episode
    BY <1>2, RowCases DEF Episode
  <2> QED
    BY <1>2, <2>1 DEF Plan, PlanCases
<1>3. CASE Flapping(cur)
  <2>1. cur # None /\ cur.flap \in Episode
    BY <1>3, RowCases DEF Flapping
  <2> QED
    BY <1>3, <2>1, AbsorbType DEF Plan, PlanCases
<1> QED
  BY <1>1, <1>2, <1>3 DEF Flapping

LEMMA PlanType ==
  ASSUME NEW cur \in Row, NEW to \in States, NEW p, PlanCases(cur, to, p)
  PROVE  p.flap \in Episode \cup {None} /\ p.rows \in Seq(LedgerRow)
<1>1. Flapping(cur) => /\ cur.flap \in Episode /\ cur.state \in States
                       /\ Absorb(cur.flap, to) \in Episode
  BY RowCases, AbsorbType DEF Flapping
<1>2. /\ Change("transition", cur, to) \in LedgerRow
      /\ Change("flap_open", cur, to) \in LedgerRow
  BY ChangeType
<1>3. Flapping(cur) => /\ Close(cur.flap, cur.state, cur.state) \in LedgerRow
                       /\ Close(Absorb(cur.flap, to), cur.state, to) \in LedgerRow
  BY <1>1, CloseType
<1>4. \A a, b \in LedgerRow : <<>> \in Seq(LedgerRow) /\ <<a>> \in Seq(LedgerRow)
                               /\ <<a, b>> \in Seq(LedgerRow)
  OBVIOUS
<1>5. p.rows \in Seq(LedgerRow)
  BY <1>2, <1>3, <1>4, Zenon DEF PlanCases
<1> QED
  BY <1>5 DEF PlanCases

----------------------------------------------------------------------------
(* The type invariant. *)

LEMMA SetType ==
  ASSUME TypeOK, NEW r \in Requests, NEW c \in Call, Set(r, c)
  PROVE  req' \in [Requests -> Call]
BY DEF TypeOK, Set

LEMMA AnsweredType ==
  ASSUME TypeOK, NEW obs \in Report, Answered(obs)
  PROVE  newest' \in Report \cup {None}
BY DEF TypeOK, Answered

(* A row that a transaction has read is still there. *)
RowStays ==
  \A r \in Requests :
    req[r].op \in {"tx_transition", "tx_settle"} /\ req[r].cur # None => row # None

LEMMA TypeStep == TypeOK /\ RowStays /\ [Next]_vars => TypeOK'
<1> SUFFICES ASSUME TypeOK, RowStays, [Next]_vars PROVE TypeOK'
  OBVIOUS
<1>0. /\ row \in Row /\ ledger \in Seq(LedgerRow) /\ req \in [Requests -> Call]
      /\ changes \in Nat /\ crashes \in Nat
      /\ Idle \in Call /\ [op |-> "forget"] \in Call
  BY DEF TypeOK, Call
<1>1. ASSUME NEW r \in Requests, NEW obs \in Report, Receive(r, obs) PROVE TypeOK'
  <2>1. [op |-> "read", obs |-> obs, stored |-> row] \in Call
    BY <1>0 DEF Call
  <2>2. req' \in [Requests -> Call]
    BY <1>1, <2>1, SetType DEF Receive
  <2> QED
    BY <1>1, <2>2 DEF Receive, TypeOK
<1>2. ASSUME NEW r \in Requests, Dispatch(r) PROVE TypeOK'
  <2>1. req[r].obs \in Report
    BY <1>0, <1>2, CallCases DEF Dispatch
  <2>2. \A op \in {"buffer", "transition", "settle"} : [op |-> op, obs |-> req[r].obs] \in Call
    BY <2>1 DEF Call
  <2>3. \E c \in Call : Set(r, c)
    BY <1>0, <1>2, <2>2 DEF Dispatch
  <2>4. req' \in [Requests -> Call]
    BY <2>3, SetType
  <2> QED
    BY <1>2, <2>4 DEF Dispatch, TypeOK
<1>3. ASSUME NEW r \in Requests, Buffer(r) PROVE TypeOK'
  <2>1. req[r].obs \in Report /\ req[r].obs.at \in Times
    BY <1>0, <1>3, CallCases, ReportCases DEF Buffer
  <2>2. req' \in [Requests -> Call] /\ newest' \in Report \cup {None}
    BY <1>0, <1>3, <2>1, SetType, AnsweredType DEF Buffer
  <2> QED
    BY <1>3, <2>1, <2>2 DEF Buffer, TypeOK
<1>4. ASSUME NEW r \in Requests, BeginTx(r) PROVE TypeOK'
  <2>1. req[r].obs \in Report
    BY <1>0, <1>4, CallCases DEF BeginTx
  <2>2. [op |-> IF req[r].op = "settle" THEN "tx_settle" ELSE "tx_transition",
         obs |-> req[r].obs, cur |-> row] \in Call
    BY <1>0, <2>1 DEF Call
  <2>3. req' \in [Requests -> Call]
    BY <1>4, <2>2, SetType DEF BeginTx
  <2> QED
    BY <1>4, <2>3 DEF BeginTx, TypeOK
<1>5. ASSUME NEW r \in Requests, WriteTransition(r) PROVE TypeOK'
  <2>1. req[r].obs \in Report /\ req[r].cur \in Row /\ req[r].obs.state \in States
        /\ req[r].obs.at \in Times
    BY <1>0, <1>5, CallCases, ReportCases DEF WriteTransition
  <2>2. PICK p : /\ PlanCases(req[r].cur, req[r].obs.state, p)
                 /\ row' = [state |-> req[r].obs.state, at |-> req[r].obs.at, flap |-> p.flap]
                 /\ ledger' = ledger \o p.rows
    BY <1>5, <2>1, PlanSplits DEF WriteTransition
  <2>3. p.flap \in Episode \cup {None} /\ p.rows \in Seq(LedgerRow)
    BY <2>1, <2>2, PlanType
  <2>6. row' \in Row
    BY <2>1, <2>2, <2>3 DEF Row, Health
  <2>7. ledger' \in Seq(LedgerRow)
    BY <1>0, <2>2, <2>3
  <2>4. req' \in [Requests -> Call] /\ newest' \in Report \cup {None}
    BY <1>0, <1>5, <2>1, SetType, AnsweredType DEF WriteTransition
  <2>5. changes' \in Nat
    BY <1>0, <1>5 DEF WriteTransition
  <2> QED
    BY <1>5, <2>4, <2>5, <2>6, <2>7 DEF WriteTransition, TypeOK
<1>6. ASSUME NEW r \in Requests, WriteNoTransition(r) PROVE TypeOK'
  <2>1. req[r].obs \in Report /\ req[r].obs.at \in Times
    BY <1>0, <1>6, CallCases, ReportCases DEF WriteNoTransition
  <2>2. req' \in [Requests -> Call]
    BY <1>0, <1>6, SetType DEF WriteNoTransition
  <2>3. row' \in Row /\ newest' \in Report \cup {None}
    BY <1>0, <1>6, <2>1, BumpedType, AnsweredType DEF WriteNoTransition, TypeOK
  <2> QED
    BY <1>6, <2>2, <2>3 DEF WriteNoTransition, TypeOK
<1>7. ASSUME NEW r \in Requests, WriteSettle(r) PROVE TypeOK'
  <2>1. /\ req[r].obs \in Report /\ req[r].obs.at \in Times /\ req[r].cur \in Row
    BY <1>0, <1>7, CallCases, ReportCases DEF WriteSettle
  <2>2. req' \in [Requests -> Call] /\ newest' \in Report \cup {None}
    BY <1>0, <1>7, <2>1, SetType, AnsweredType DEF WriteSettle
  <2>3. CASE /\ Flapping(req[r].cur)
             /\ ledger' = Append(ledger, Close(req[r].cur.flap, req[r].cur.state, req[r].cur.state))
             /\ row' = Bumped([row EXCEPT !.flap = None], req[r].obs.at)
    <3>1. Close(req[r].cur.flap, req[r].cur.state, req[r].cur.state) \in LedgerRow
      BY <2>1, <2>3, RowCases, CloseType DEF Flapping
    <3>2. row # None
      BY <1>7, <2>3 DEF RowStays, WriteSettle, Flapping
    <3>3. [row EXCEPT !.flap = None] \in Row
      BY <1>0, <3>2 DEF Row, Health
    <3>4. row' \in Row /\ ledger' \in Seq(LedgerRow)
      BY <1>0, <2>1, <2>3, <3>1, <3>3, BumpedType
    <3> QED
      BY <1>7, <2>2, <3>4 DEF WriteSettle, TypeOK
  <2>4. CASE row' = Bumped(row, req[r].obs.at) /\ UNCHANGED ledger
    BY <1>0, <1>7, <2>1, <2>2, <2>4, BumpedType DEF WriteSettle, TypeOK
  <2> QED
    BY <1>7, <2>3, <2>4 DEF WriteSettle
<1>8. ASSUME NEW r \in Requests, FailTx(r) \/ Forget(r) PROVE TypeOK'
  BY <1>0, <1>8, SetType DEF FailTx, Forget, TypeOK
<1>9. CASE FlushSwap \/ FlushFail
  BY <1>9 DEF FlushSwap, FlushFail, Restore, TypeOK
<1>10. CASE FlushCommit
  BY <1>0, <1>10, BumpedType DEF FlushCommit, TypeOK
<1>11. CASE Crash
  BY <1>0, <1>11 DEF Crash, TypeOK
<1>12. CASE UNCHANGED vars
  BY <1>12 DEF vars, TypeOK
<1> QED
  BY <1>1, <1>2, <1>3, <1>4, <1>5, <1>6, <1>7, <1>8, <1>9, <1>10, <1>11, <1>12
  DEF Next, Step

(* No transaction takes the row away. *)
LEMMA RowNeverLeaves ==
  ASSUME TypeOK, RowStays, [Next]_vars, row # None PROVE row' # None
<1>0. row \in Row /\ req \in [Requests -> Call]
  BY DEF TypeOK
<1>1. ASSUME NEW r \in Requests, WriteTransition(r) PROVE row' # None
  <2>1. req[r].obs \in Report /\ req[r].cur \in Row
    BY <1>0, <1>1, CallCases DEF WriteTransition
  <2>2. PICK p : /\ PlanCases(req[r].cur, req[r].obs.state, p)
                 /\ row' = [state |-> req[r].obs.state, at |-> req[r].obs.at, flap |-> p.flap]
    BY <1>1, <2>1, PlanSplits, ReportCases DEF WriteTransition
  <2>3. p.flap \in Episode \cup {None}
    BY <2>1, <2>2, PlanType, ReportCases
  <2>4. row' \in Health
    BY <2>1, <2>2, <2>3, ReportCases DEF Health
  <2> QED
    BY <2>4, NoneAssumption
<1>2. ASSUME NEW r \in Requests, WriteNoTransition(r) PROVE row' # None
  BY <1>0, <1>2, CallCases, ReportCases, BumpedType DEF WriteNoTransition
<1>3. ASSUME NEW r \in Requests, WriteSettle(r) PROVE row' # None
  <2>1. req[r].obs \in Report /\ req[r].obs.at \in Times
    BY <1>0, <1>3, CallCases, ReportCases DEF WriteSettle
  <2>2. [row EXCEPT !.flap = None] \in Health
    BY <1>0 DEF Row, Health
  <2>3. [row EXCEPT !.flap = None] \in Row /\ [row EXCEPT !.flap = None] # None
    BY <2>2, NoneAssumption DEF Row
  <2>4. \/ row' = Bumped([row EXCEPT !.flap = None], req[r].obs.at)
        \/ row' = Bumped(row, req[r].obs.at)
    BY <1>3 DEF WriteSettle
  <2> QED
    BY <1>0, <2>1, <2>3, <2>4, BumpedType
<1>4. CASE FlushCommit
  BY <1>0, <1>4, BumpedType DEF FlushCommit, TypeOK
<1> QED
  BY <1>1, <1>2, <1>3, <1>4
  DEF Next, Step, vars, Receive, Dispatch, Buffer, BeginTx, FailTx, Forget, FlushSwap,
      FlushFail, Crash

(* The calls of other requests do not change, but for a crash. *)
LEMMA StepFrame ==
  ASSUME TypeOK, [Next]_vars, NEW q \in Requests
  PROVE  \/ req'[q] = req[q] \/ req'[q] = Idle
         \/ /\ req'[q].op \in {"read", "buffer", "transition", "settle", "forget"}
         \/ /\ BeginTx(q) /\ req'[q].cur = row /\ req'[q].obs = req[q].obs
            /\ req'[q].op = IF req[q].op = "settle" THEN "tx_settle" ELSE "tx_transition"
<1>0. req \in [Requests -> Call]
  BY DEF TypeOK
<1>1. ASSUME NEW r \in Requests, NEW obs \in Report, Receive(r, obs)
      PROVE  req'[q] = req[q] \/ req'[q].op = "read"
  BY <1>0, <1>1 DEF Receive, Set
<1>2. ASSUME NEW r \in Requests, Dispatch(r)
      PROVE  req'[q] = req[q] \/ req'[q] = Idle \/ req'[q].op \in {"buffer", "transition", "settle"}
  BY <1>0, <1>2 DEF Dispatch, Set
<1>3. ASSUME NEW r \in Requests, BeginTx(r), r # q PROVE req'[q] = req[q]
  BY <1>0, <1>3 DEF BeginTx, Set
<1>4. ASSUME BeginTx(q)
      PROVE  /\ req'[q].cur = row /\ req'[q].obs = req[q].obs
             /\ req'[q].op = IF req[q].op = "settle" THEN "tx_settle" ELSE "tx_transition"
  BY <1>0, <1>4 DEF BeginTx, Set
<1>5. ASSUME NEW r \in Requests, \/ Buffer(r) \/ WriteTransition(r) \/ WriteNoTransition(r)
                                 \/ WriteSettle(r) \/ FailTx(r) \/ Forget(r)
      PROVE  req'[q] = req[q] \/ req'[q] = Idle \/ req'[q].op = "forget"
  <2>1. CASE Buffer(r) \/ FailTx(r) \/ Forget(r)
    BY <1>0, <2>1 DEF Buffer, FailTx, Forget, Set
  <2>2. CASE WriteTransition(r)
    BY <1>0, <2>2 DEF WriteTransition, Set
  <2>3. CASE WriteNoTransition(r)
    BY <1>0, <2>3 DEF WriteNoTransition, Set
  <2>4. CASE WriteSettle(r)
    BY <1>0, <2>4 DEF WriteSettle, Set
  <2> QED
    BY <1>5, <2>1, <2>2, <2>3, <2>4, Zenon
<1>6. ASSUME FlushSwap \/ FlushCommit \/ FlushFail \/ Crash \/ UNCHANGED vars
      PROVE  req'[q] = req[q] \/ req'[q] = Idle
  BY <1>0, <1>6 DEF FlushSwap, FlushCommit, FlushFail, Crash, vars
<1> QED
  BY <1>1, <1>2, <1>3, <1>4, <1>5, <1>6, Zenon DEF Next, Step

LEMMA RowStaysStep == TypeOK /\ RowStays /\ [Next]_vars => RowStays'
<1> SUFFICES ASSUME TypeOK, RowStays, [Next]_vars, NEW q \in Requests,
                    req'[q].op \in {"tx_transition", "tx_settle"}, req'[q].cur # None
             PROVE  row' # None
  BY DEF RowStays
<1>1. row # None
  BY StepFrame DEF RowStays, Idle
<1> QED
  BY <1>1, RowNeverLeaves

LEMMA TypeInit == Init => TypeOK /\ RowStays
<1>1. Idle \in Call /\ Idle.op = "idle" /\ <<>> \in Seq(LedgerRow)
  BY DEF Call, Idle
<1>2. ASSUME Init PROVE TypeOK
  BY <1>1, <1>2 DEF Init, TypeOK, Row
<1>3. ASSUME Init PROVE RowStays
  BY <1>1, <1>3 DEF Init, RowStays
<1> QED
  BY <1>2, <1>3

(* Every variable keeps its type on both engines. *)
THEOREM TypeCorrect == Spec => []TypeOK
BY TypeInit, TypeStep, RowStaysStep, PTL DEF Spec

----------------------------------------------------------------------------
(* The ledger. *)

(* The state that a ledger row leaves behind, and LedgerIsTrue of a ledger l  *)
(* beside a row h.                                                            *)
Leaves(x) == IF x.kind = "flap_close" THEN x.last ELSE x.to
Story(l, h) ==
  /\ \A i \in 1..Len(l) : l[i].kind = "flap_close" <=> i > 1 /\ l[i - 1].kind = "flap_open"
  /\ Flapping(h) <=> (l # <<>> /\ l[Len(l)].kind = "flap_open")
  /\ h = None <=> l = <<>>
  /\ \A i \in 1..Len(l) : l[i].kind # "flap_close" =>
       l[i].from = IF i = 1 THEN None ELSE Leaves(l[i - 1])
  /\ h # None /\ ~Flapping(h) => Leaves(l[Len(l)]) = h.state

LEMMA StoryIsTrue == ASSUME TypeOK PROVE LedgerIsTrue <=> Story(ledger, row)
<1>1. DOMAIN ledger = 1..Len(ledger)
  BY DEF TypeOK
<1>2. \A i : After(i) = Leaves(ledger[i])
  BY DEF After, Leaves
<1>3. BracketsMatch <=>
        /\ \A i \in 1..Len(ledger) :
             ledger[i].kind = "flap_close" <=> i > 1 /\ ledger[i - 1].kind = "flap_open"
        /\ Flapping(row) <=> (ledger # <<>> /\ ledger[Len(ledger)].kind = "flap_open")
  BY <1>1, Zenon DEF BracketsMatch
<1>4. LedgerIsAChain <=>
        /\ row = None <=> ledger = <<>>
        /\ \A i \in 1..Len(ledger) : ledger[i].kind # "flap_close" =>
             ledger[i].from = IF i = 1 THEN None ELSE Leaves(ledger[i - 1])
        /\ row # None /\ ~Flapping(row) => Leaves(ledger[Len(ledger)]) = row.state
  <2>1. (row # None /\ ~Flapping(row) => Leaves(ledger[Len(ledger)]) = row.state)
          <=> (row # None /\ ~Flapping(row) => After(Len(ledger)) = row.state)
    BY <1>2
  <2>2. \A i \in 1..Len(ledger) : (IF i = 1 THEN None ELSE Leaves(ledger[i - 1]))
                                     = (IF i = 1 THEN None ELSE After(i - 1))
    BY <1>2
  <2> QED
    BY <1>1, <2>1, <2>2, Zenon DEF LedgerIsAChain
<1> QED
  BY <1>3, <1>4 DEF LedgerIsTrue, Story

(* One more change, plain or the first of an episode. *)
LEMMA StoryGoesOn ==
  ASSUME NEW l \in Seq(LedgerRow), NEW h \in Row, Story(l, h), ~Flapping(h),
         NEW x \in LedgerRow, x.kind \in {"transition", "flap_open"},
         x.from = IF h = None THEN None ELSE h.state,
         NEW g \in Row, g # None, g.state = x.to, Flapping(g) <=> x.kind = "flap_open"
  PROVE  Story(Append(l, x), g)
<1> DEFINE m == Append(l, x)
<1>1. /\ Len(m) = Len(l) + 1 /\ m[Len(m)] = x /\ m # <<>> /\ Len(l) \in Nat
      /\ \A i \in 1..Len(l) : m[i] = l[i]
      /\ l = <<>> <=> Len(l) = 0
  OBVIOUS
<1>2. l # <<>> => Len(l) \in 1..Len(l) /\ m[Len(l)] = l[Len(l)]
  BY <1>1
<1>3. ASSUME NEW i \in 1..Len(m)
      PROVE  m[i].kind = "flap_close" <=> i > 1 /\ m[i - 1].kind = "flap_open"
  <2>1. CASE i = Len(m)
    BY <1>1, <1>2, <2>1 DEF Story
  <2>2. CASE i # Len(m)
    <3>1. i \in 1..Len(l) /\ (i > 1 => i - 1 \in 1..Len(l))
      BY <1>1, <2>2
    <3> QED
      BY <1>1, <3>1 DEF Story
  <2> QED
    BY <2>1, <2>2
<1>4. ASSUME NEW i \in 1..Len(m), m[i].kind # "flap_close"
      PROVE  m[i].from = IF i = 1 THEN None ELSE Leaves(m[i - 1])
  <2>1. CASE i = Len(m)
    BY <1>1, <1>2, <2>1 DEF Story
  <2>2. CASE i # Len(m)
    <3>1. i \in 1..Len(l) /\ (i # 1 => i - 1 \in 1..Len(l))
      BY <1>1, <2>2
    <3> QED
      BY <1>1, <1>4, <3>1 DEF Story
  <2> QED
    BY <2>1, <2>2
<1>5. ~Flapping(g) => Leaves(m[Len(m)]) = g.state
  BY <1>1 DEF Leaves
<1> QED
  BY <1>1, <1>3, <1>4, <1>5 DEF Story

(* The end of an episode. *)
LEMMA StoryCloses ==
  ASSUME NEW l \in Seq(LedgerRow), NEW h \in Row, Story(l, h), Flapping(h),
         NEW x \in LedgerRow, x.kind = "flap_close", x.last = h.state,
         NEW g \in Row, g # None, g.state = h.state, ~Flapping(g)
  PROVE  Story(Append(l, x), g)
<1> DEFINE m == Append(l, x)
<1>1. /\ Len(m) = Len(l) + 1 /\ m[Len(m)] = x /\ m # <<>> /\ Len(l) \in Nat
      /\ \A i \in 1..Len(l) : m[i] = l[i]
      /\ l = <<>> <=> Len(l) = 0
  OBVIOUS
<1>2. l # <<>> /\ Len(l) \in 1..Len(l) /\ m[Len(l)].kind = "flap_open"
  BY <1>1 DEF Story
<1>3. ASSUME NEW i \in 1..Len(m)
      PROVE  m[i].kind = "flap_close" <=> i > 1 /\ m[i - 1].kind = "flap_open"
  <2>1. CASE i = Len(m)
    BY <1>1, <1>2, <2>1
  <2>2. CASE i # Len(m)
    <3>1. i \in 1..Len(l) /\ (i > 1 => i - 1 \in 1..Len(l))
      BY <1>1, <2>2
    <3> QED
      BY <1>1, <3>1 DEF Story
  <2> QED
    BY <2>1, <2>2
<1>4. ASSUME NEW i \in 1..Len(m), m[i].kind # "flap_close"
      PROVE  m[i].from = IF i = 1 THEN None ELSE Leaves(m[i - 1])
  <2>1. i \in 1..Len(l) /\ (i # 1 => i - 1 \in 1..Len(l))
    BY <1>1, <1>4
  <2> QED
    BY <1>1, <1>4, <2>1 DEF Story
<1>5. Leaves(m[Len(m)]) = g.state
  BY <1>1 DEF Leaves
<1> QED
  BY <1>1, <1>3, <1>4, <1>5 DEF Story

(* A change of nothing the ledger tells. *)
LEMMA StoryStands ==
  ASSUME NEW l, NEW h \in Row, NEW g \in Row, Story(l, h),
         g = None <=> h = None, Flapping(g) <=> Flapping(h),
         h # None /\ ~Flapping(h) => g.state = h.state
  PROVE  Story(l, g)
BY DEF Story

----------------------------------------------------------------------------
(* EveryChangeAccounted sums over the ledger with a recursive function.  No   *)
(* induction over the ledger is needed: the invariant says of every function  *)
(* that satisfies the recursion what its last value is, and one row more      *)
(* extends such a function.                                                   *)
Weight(x) == IF x.kind = "flap_close" THEN Hidden(x) ELSE 1
Tallies(l, f) ==
  f = [i \in 0..Len(l) |-> IF i = 0 THEN 0 ELSE f[i - 1] + Weight(l[i])]
Counted(l, n) == (\E f : Tallies(l, f)) /\ \A f : Tallies(l, f) => f[Len(l)] = n

LEMMA WeightType == ASSUME NEW x \in LedgerRow PROVE Weight(x) \in Int
BY DEF Weight, LedgerRow, Hidden

LEMMA CountedNothing == Counted(<<>>, 0)
<1>1. Tallies(<<>>, [i \in 0..0 |-> 0])
  BY DEF Tallies
<1>2. ASSUME NEW f, Tallies(<<>>, f) PROVE f[Len(<<>>)] = 0
  BY <1>2 DEF Tallies
<1> QED
  BY <1>1, <1>2 DEF Counted

LEMMA CountedOneMore ==
  ASSUME NEW l \in Seq(LedgerRow), NEW x \in LedgerRow, NEW n \in Int, Counted(l, n)
  PROVE  Counted(Append(l, x), n + Weight(x))
<1> DEFINE m == Append(l, x)
<1>1. /\ Len(m) = Len(l) + 1 /\ Len(l) \in Nat /\ m[Len(m)] = x
      /\ \A i \in 1..Len(l) : m[i] = l[i]
  OBVIOUS
<1> HIDE DEF m
<1>2. \E f : Tallies(m, f)
  <2>1. PICK f : Tallies(l, f)
    BY DEF Counted
  <2> DEFINE g == [i \in 0..Len(m) |-> IF i = Len(m) THEN f[Len(l)] + Weight(x) ELSE f[i]]
  <2>2. ASSUME NEW i \in 0..Len(m)
        PROVE  g[i] = IF i = 0 THEN 0 ELSE g[i - 1] + Weight(m[i])
    <3>1. CASE i = Len(m)
      BY <1>1, <3>1
    <3>2. CASE i # Len(m)
      <4>1. i \in 0..Len(l) /\ g[i] = f[i]
        BY <1>1, <3>2
      <4>2. f[i] = IF i = 0 THEN 0 ELSE f[i - 1] + Weight(l[i])
        BY <2>1, <4>1 DEF Tallies
      <4>3. i # 0 => g[i - 1] = f[i - 1] /\ m[i] = l[i]
        BY <1>1, <4>1
      <4> QED
        BY <4>1, <4>2, <4>3
    <3> QED
      BY <3>1, <3>2
  <2>3. g = [i \in 0..Len(m) |-> IF i = 0 THEN 0 ELSE g[i - 1] + Weight(m[i])]
    BY <2>2
  <2> QED
    BY <2>3 DEF Tallies
<1>3. ASSUME NEW f, Tallies(m, f) PROVE f[Len(m)] = n + Weight(x)
  <2> DEFINE g == [i \in 0..Len(l) |-> f[i]]
  <2>1. \A i \in 0..Len(m) : f[i] = IF i = 0 THEN 0 ELSE f[i - 1] + Weight(m[i])
    BY <1>3 DEF Tallies
  <2>2. ASSUME NEW i \in 0..Len(l)
        PROVE  g[i] = IF i = 0 THEN 0 ELSE g[i - 1] + Weight(l[i])
    <3>1. i \in 0..Len(m) /\ (i # 0 => i - 1 \in 0..Len(l) /\ m[i] = l[i])
      BY <1>1
    <3> QED
      BY <2>1, <3>1
  <2>3. Tallies(l, g)
    BY <2>2 DEF Tallies
  <2>4. f[Len(l)] = n
    BY <1>1, <2>3 DEF Counted
  <2>5. f[Len(m)] = f[Len(m) - 1] + Weight(m[Len(m)])
    BY <1>1, <2>1
  <2> QED
    BY <1>1, <2>4, <2>5
<1> QED
  BY <1>2, <1>3 DEF Counted, m

(* Changes that the open episode counts and the ledger does not show yet. *)
Open(h) == IF Flapping(h) THEN h.flap.count - 1 ELSE 0

LEMMA OpenType == ASSUME NEW h \in Row PROVE Open(h) \in Int
BY RowCases DEF Open, Flapping

LEMMA CountedIsAccounted ==
  ASSUME Counted(ledger, changes - Open(row)), TypeOK
  PROVE  EveryChangeAccounted
<1>1. PICK f : Tallies(ledger, f)
  BY DEF Counted
<1> DEFINE upTo == CHOOSE g : g = [i \in 0..Len(ledger) |->
                 IF i = 0 THEN 0
                 ELSE g[i - 1] + IF ledger[i].kind = "flap_close" THEN Hidden(ledger[i]) ELSE 1]
<1>2. Tallies(ledger, upTo)
  BY <1>1 DEF Tallies, Weight
<1>3. upTo[Len(ledger)] = changes - Open(row)
  BY <1>2 DEF Counted
<1>4. changes \in Int /\ Open(row) \in Int
  BY RowCases DEF TypeOK, Open, Flapping
<1>5. changes = upTo[Len(ledger)] + IF Flapping(row) THEN row.flap.count - 1 ELSE 0
  BY <1>3, <1>4 DEF Open
<1> QED
  BY <1>5 DEF EveryChangeAccounted

----------------------------------------------------------------------------
(* On the serialised engine a transaction writes the row that it read: there  *)
(* is one at a time, and the flusher waits for it.                            *)
OneWriter ==
  \A r \in InTx : req[r].cur = row /\ \A q \in InTx : q = r

LedgerInv ==
  /\ TypeOK /\ RowStays /\ OneWriter
  /\ Story(ledger, row)
  /\ Counted(ledger, changes - Open(row))

LEMMA OneWriterStep ==
  ASSUME Serialised PROVE TypeOK /\ OneWriter /\ [Next]_vars => OneWriter'
<1> SUFFICES ASSUME TypeOK, OneWriter, [Next]_vars, NEW r \in InTx'
             PROVE  req'[r].cur = row' /\ \A q \in InTx' : q = r
  BY DEF OneWriter
<1>0. req \in [Requests -> Call] /\ r \in Requests
  BY DEF TypeOK, InTx
<1>1. ASSUME NEW q \in Requests, BeginTx(q) PROVE req'[r].cur = row' /\ \A p \in InTx' : p = r
  <2>1. InTx = {} /\ row' = row
    BY <1>1 DEF BeginTx, WriterFree
  <2>2. \A p \in InTx' : p = q
    BY <1>0, <1>1, <2>1 DEF BeginTx, Set, InTx
  <2>3. req'[q].cur = row
    BY <1>0, <1>1 DEF BeginTx, Set
  <2> QED
    BY <2>1, <2>2, <2>3
<1>2. ASSUME \A q \in Requests : ~BeginTx(q) PROVE req'[r].cur = row' /\ \A p \in InTx' : p = r
  <2>1. \A p \in InTx' : p \in InTx /\ req'[p] = req[p]
    BY <1>2, StepFrame DEF InTx, Idle
  <2>2. \A p \in InTx' : p = r
    BY <2>1 DEF OneWriter
  <2>3. r \in InTx /\ req'[r] = req[r] /\ req[r].cur = row
    BY <2>1 DEF OneWriter
  <2>4. row' = row
    <3>1. ASSUME NEW q \in Requests, WriteTransition(q) \/ WriteNoTransition(q) \/ WriteSettle(q)
          PROVE  FALSE
      <4>1. q \in InTx /\ req'[q].op = "forget"
        BY <1>0, <3>1 DEF WriteTransition, WriteNoTransition, WriteSettle, Set, InTx
      <4> QED
        BY <2>3, <4>1 DEF OneWriter, InTx
    <3>2. ~FlushCommit
      BY <2>3 DEF FlushCommit, WriterFree
    <3> QED
      BY <1>2, <3>1, <3>2
      DEF Next, Step, vars, Receive, Dispatch, Buffer, FailTx, Forget, FlushSwap, FlushFail, Crash
  <2> QED
    BY <2>2, <2>3, <2>4
<1> QED
  BY <1>1, <1>2

(* A change of state, as a whole: the row, the ledger rows that planFlap      *)
(* plans for it, and the count.                                               *)
LEMMA ChangeKeepsLedger ==
  ASSUME NEW l \in Seq(LedgerRow), NEW h \in Row, NEW n \in Nat, NEW obs \in Report, NEW p,
         Story(l, h), Counted(l, n - Open(h)),
         h # None => h.state # obs.state,
         PlanCases(h, obs.state, p),
         NEW g, g = [state |-> obs.state, at |-> obs.at, flap |-> p.flap]
  PROVE  Story(l \o p.rows, g) /\ Counted(l \o p.rows, n + 1 - Open(g))
<1>0. /\ obs.state \in States /\ obs.at \in Times
      /\ p.flap \in Episode \cup {None}
      /\ Flapping(h) => /\ h # None /\ h.state \in States /\ h.flap \in Episode
                        /\ h.flap.count \in Nat
  BY ReportCases, RowCases, PlanType DEF Flapping
<1>1. /\ g \in Row /\ g # None /\ g.state = obs.state /\ g.flap = p.flap
      /\ Open(h) \in Int
  BY <1>0, NoneAssumption DEF Row, Health, Open
<1>2. Flapping(g) <=> p.flap # None
  BY <1>1 DEF Flapping
<1> DEFINE c == Change("transition", h, obs.state)
<1>3. /\ c \in LedgerRow /\ c.kind = "transition" /\ c.to = obs.state
      /\ c.from = IF h = None THEN None ELSE h.state
      /\ Weight(c) = 1
  BY <1>0, ChangeType DEF Weight
<1>4. CASE ~Flapping(h) /\ p.rows = <<c>> /\ p.flap = None
  <2>1. l \o p.rows = Append(l, c)
    BY <1>3, <1>4
  <2>2. Story(Append(l, c), g)
    BY <1>1, <1>2, <1>3, <1>4, StoryGoesOn
  <2>3. Counted(Append(l, c), n - Open(h) + 1)
    BY <1>1, <1>3, CountedOneMore
  <2>4. n - Open(h) + 1 = n + 1 - Open(g)
    BY <1>2, <1>4 DEF Open
  <2> QED
    BY <2>1, <2>2, <2>3, <2>4
<1>5. CASE /\ h # None /\ ~Flapping(h) /\ p.rows = <<Change("flap_open", h, obs.state)>>
           /\ p.flap \in Episode /\ p.flap.count = 1
  <2> DEFINE o == Change("flap_open", h, obs.state)
  <2>1. /\ o \in LedgerRow /\ o.kind = "flap_open" /\ o.to = obs.state
        /\ o.from = IF h = None THEN None ELSE h.state
        /\ Weight(o) = 1
    BY <1>0, ChangeType DEF Weight
  <2>2. l \o p.rows = Append(l, o)
    BY <1>5, <2>1
  <2>3. p.flap # None
    BY <1>5, NoneAssumption
  <2>4. Story(Append(l, o), g)
    BY <1>1, <1>2, <1>5, <2>1, <2>3, StoryGoesOn
  <2>5. Counted(Append(l, o), n - Open(h) + 1)
    BY <1>1, <2>1, CountedOneMore
  <2>6. n - Open(h) + 1 = n + 1 - Open(g)
    BY <1>1, <1>2, <1>5, <2>3 DEF Open
  <2> QED
    BY <2>2, <2>4, <2>5, <2>6
<1>6. ASSUME NEW x \in LedgerRow, Flapping(h), p.rows = <<x, c>>, p.flap = None,
             x.kind = "flap_close", x.last = h.state, Weight(x) = h.flap.count - 1
      PROVE  Story(l \o p.rows, g) /\ Counted(l \o p.rows, n + 1 - Open(g))
  <2> DEFINE k == [h EXCEPT !.flap = None]
             m == Append(l, x)
  <2>1. l \o p.rows = Append(m, c) /\ m \in Seq(LedgerRow)
    BY <1>3, <1>6
  <2>2. k \in Row /\ k # None /\ k.state = h.state /\ ~Flapping(k)
    BY <1>0, <1>6, NoneAssumption DEF Row, Health, Flapping
  <2>3. Story(m, k)
    BY <1>6, <2>2, StoryCloses
  <2>4. c.from = IF k = None THEN None ELSE k.state
    BY <1>0, <1>3, <1>6, <2>2
  <2>5. Story(Append(m, c), g)
    BY <1>1, <1>2, <1>3, <1>6, <2>1, <2>2, <2>3, <2>4, StoryGoesOn
  <2>6. Counted(m, n - Open(h) + Weight(x))
    BY <1>1, CountedOneMore
  <2>7. n - Open(h) + Weight(x) = n
    BY <1>0, <1>6 DEF Open
  <2>8. Counted(Append(m, c), n + 1)
    <3>1. Counted(m, n) /\ n \in Int
      BY <2>6, <2>7
    <3> HIDE DEF m, c
    <3>2. Counted(Append(m, c), n + Weight(c))
      BY <1>3, <2>1, <3>1, CountedOneMore
    <3> QED
      BY <1>3, <3>2
  <2>9. n + 1 - Open(g) = n + 1
    BY <1>2, <1>6 DEF Open
  <2> QED
    BY <2>1, <2>5, <2>8, <2>9
<1>7. CASE /\ Flapping(h) /\ p.flap = None
           /\ p.rows = <<Close(h.flap, h.state, h.state), c>>
  <2>1. /\ Close(h.flap, h.state, h.state) \in LedgerRow
        /\ Close(h.flap, h.state, h.state).kind = "flap_close"
        /\ Close(h.flap, h.state, h.state).last = h.state
        /\ Close(h.flap, h.state, h.state).settled = h.state
        /\ Close(h.flap, h.state, h.state).count = h.flap.count
    BY <1>0, <1>7, CloseType
  <2>2. Weight(Close(h.flap, h.state, h.state)) = h.flap.count - 1
    BY <1>0, <1>7, <2>1 DEF Weight, Hidden
  <2> QED
    BY <1>6, <1>7, <2>1, <2>2
<1>8. CASE /\ Flapping(h) /\ p.flap = None
           /\ p.rows = <<Close(Absorb(h.flap, obs.state), h.state, obs.state), c>>
  <2> DEFINE x == Close(Absorb(h.flap, obs.state), h.state, obs.state)
  <2>1. /\ x \in LedgerRow /\ x.kind = "flap_close" /\ x.last = h.state
        /\ x.settled = obs.state /\ x.count = h.flap.count + 1
    BY <1>0, <1>8, AbsorbType, CloseType
  <2>2. Weight(x) = h.flap.count - 1
    BY <1>0, <1>8, <2>1 DEF Weight, Hidden
  <2> QED
    BY <1>6, <1>8, <2>1, <2>2
<1>9. CASE /\ Flapping(h) /\ p.rows = <<>>
           /\ p.flap \in Episode /\ p.flap.count = h.flap.count + 1
  <2>1. l \o p.rows = l
    BY <1>9
  <2>2. p.flap # None
    BY <1>9, NoneAssumption
  <2>3. Story(l, g)
    <3>1. g \in Row /\ g # None /\ Flapping(g) /\ h # None /\ Flapping(h)
      BY <1>0, <1>1, <1>2, <1>9, <2>2, Zenon
    <3>2. /\ g = None <=> h = None
          /\ Flapping(g) <=> Flapping(h)
          /\ h # None /\ ~Flapping(h) => g.state = h.state
      BY <3>1, Zenon
    <3> QED
      BY <3>1, <3>2, StoryStands
  <2>4. n + 1 - Open(g) = n - Open(h)
    <3>1. Flapping(g) /\ Flapping(h) /\ g.flap.count = h.flap.count + 1 /\ h.flap.count \in Nat
      BY <1>0, <1>1, <1>2, <1>9, <2>2, Zenon
    <3>2. Open(g) = g.flap.count - 1 /\ Open(h) = h.flap.count - 1
      BY <3>1, Zenon DEF Open
    <3> QED
      BY <3>1, <3>2
  <2> QED
    BY <2>1, <2>3, <2>4
<1> QED
  BY <1>4, <1>5, <1>7, <1>8, <1>9 DEF PlanCases

LEMMA LedgerStep == ASSUME Serialised PROVE LedgerInv /\ [Next]_vars => LedgerInv'
<1> SUFFICES ASSUME LedgerInv, [Next]_vars PROVE LedgerInv'
  OBVIOUS
<1> USE DEF LedgerInv
<1>0. TypeOK' /\ RowStays' /\ OneWriter'
  BY TypeStep, RowStaysStep, OneWriterStep
<1>t. /\ row \in Row /\ row' \in Row /\ ledger \in Seq(LedgerRow) /\ req \in [Requests -> Call]
      /\ changes \in Nat
  BY <1>0 DEF TypeOK
<1>1. ASSUME NEW r \in Requests, WriteTransition(r)
      PROVE  Story(ledger, row)' /\ Counted(ledger, changes - Open(row))'
  <2>1. req[r].obs \in Report /\ req[r].cur = row
    BY <1>t, <1>1, CallCases DEF WriteTransition, OneWriter, InTx
  <2>2. PICK p : /\ PlanCases(row, req[r].obs.state, p)
                 /\ row' = [state |-> req[r].obs.state, at |-> req[r].obs.at, flap |-> p.flap]
                 /\ ledger' = ledger \o p.rows
    BY <1>t, <1>1, <2>1, PlanSplits, ReportCases DEF WriteTransition
  <2>3. row # None => row.state # req[r].obs.state
    BY <1>1, <2>1 DEF WriteTransition, Classify
  <2>4. changes' = changes + 1
    BY <1>1, <2>3 DEF WriteTransition
  <2>5. /\ Story(ledger \o p.rows, row')
        /\ Counted(ledger \o p.rows, changes + 1 - Open(row'))
    BY <1>t, <2>1, <2>2, <2>3, ChangeKeepsLedger
  <2>6. ledger' = ledger \o p.rows
    BY <2>2
  <2>7. Story(ledger', row')
    BY <2>5, <2>6
  <2>8. Counted(ledger', changes' - Open(row'))
    <3>1. changes' - Open(row') = changes + 1 - Open(row')
      BY <1>t, <2>4, OpenType
    <3> QED
      BY <2>5, <2>6, <3>1, Zenon
  <2> QED
    BY <2>7, <2>8
<1>2. ASSUME NEW r \in Requests, WriteSettle(r), Flapping(row),
             ledger' = Append(ledger, Close(row.flap, row.state, row.state)),
             row' = Bumped([row EXCEPT !.flap = None], req[r].obs.at)
      PROVE  Story(ledger, row)' /\ Counted(ledger, changes - Open(row))'
  <2> DEFINE x == Close(row.flap, row.state, row.state)
             k == [row EXCEPT !.flap = None]
  <2>1. req[r].obs.at \in Times
    BY <1>t, <1>2, CallCases, ReportCases DEF WriteSettle
  <2>2. /\ row # None /\ row.state \in States /\ row.flap \in Episode /\ row.flap.count \in Nat
    BY <1>t, <1>2, RowCases DEF Flapping
  <2>3. k \in Row /\ k # None /\ k.state = row.state /\ k.flap = None
    BY <1>t, <2>2, NoneAssumption DEF Row, Health
  <2>4. row' # None /\ row'.state = row.state /\ row'.flap = None
    BY <1>2, <2>1, <2>3, BumpedType
  <2>5. ~Flapping(row')
    BY <2>4 DEF Flapping
  <2>6. /\ x \in LedgerRow /\ x.kind = "flap_close" /\ x.last = row.state
        /\ x.settled = row.state /\ x.count = row.flap.count
    BY <2>2, CloseType
  <2>7. Story(Append(ledger, x), row')
    BY <1>t, <1>2, <2>4, <2>5, <2>6, StoryCloses
  <2>8. Weight(x) = row.flap.count - 1 /\ Open(row) = row.flap.count - 1 /\ Open(row') = 0
    BY <1>2, <2>2, <2>5, <2>6 DEF Weight, Hidden, Open
  <2>9. Counted(Append(ledger, x), changes - Open(row) + Weight(x))
    BY <1>t, <2>2, <2>6, <2>8, CountedOneMore
  <2>10. changes - Open(row) + Weight(x) = changes' - Open(row')
    BY <1>t, <1>2, <2>2, <2>8 DEF WriteSettle
  <2> QED
    BY <1>2, <2>7, <2>9, <2>10
<1>3. ASSUME ledger' = ledger, changes' = changes, row' = None <=> row = None,
             row # None => row'.state = row.state /\ row'.flap = row.flap
      PROVE  Story(ledger, row)' /\ Counted(ledger, changes - Open(row))'
  <2>1. Flapping(row') <=> Flapping(row)
    BY <1>3 DEF Flapping
  <2>2. Open(row') = Open(row)
    BY <1>3, <2>1 DEF Open, Flapping
  <2>3. Story(ledger, row')
    BY <1>t, <1>3, <2>1, StoryStands
  <2> QED
    BY <1>3, <2>2, <2>3
<1>4. ASSUME NEW at \in Times, row' = Bumped(row, at), ledger' = ledger, changes' = changes
      PROVE  Story(ledger, row)' /\ Counted(ledger, changes - Open(row))'
  BY <1>t, <1>3, <1>4, BumpedType
<1>5. ASSUME NEW r \in Requests, WriteNoTransition(r)
      PROVE  Story(ledger, row)' /\ Counted(ledger, changes - Open(row))'
  BY <1>t, <1>3, <1>4, <1>5, CallCases, ReportCases DEF WriteNoTransition
<1>6. ASSUME NEW r \in Requests, WriteSettle(r)
      PROVE  Story(ledger, row)' /\ Counted(ledger, changes - Open(row))'
  <2>1. req[r].obs.at \in Times /\ req[r].cur = row
    BY <1>t, <1>6, CallCases, ReportCases DEF WriteSettle, OneWriter, InTx
  <2>2. \/ /\ Flapping(row)
           /\ ledger' = Append(ledger, Close(row.flap, row.state, row.state))
           /\ row' = Bumped([row EXCEPT !.flap = None], req[r].obs.at)
        \/ row' = Bumped(row, req[r].obs.at) /\ ledger' = ledger
    BY <1>6, <2>1 DEF WriteSettle
  <2>3. changes' = changes
    BY <1>6 DEF WriteSettle
  <2> QED
    BY <1>2, <1>4, <1>6, <2>1, <2>2, <2>3
<1>7. CASE FlushCommit
  BY <1>0, <1>4, <1>7 DEF FlushCommit, TypeOK
<1>8. CASE UNCHANGED <<row, ledger, changes>>
  BY <1>0, <1>3, <1>8
<1> QED
  BY <1>0, <1>1, <1>5, <1>6, <1>7, <1>8
  DEF Next, Step, vars, Receive, Dispatch, Buffer, BeginTx, FailTx, Forget, FlushSwap,
      FlushFail, Crash

LEMMA LedgerInit == Init => LedgerInv
<1> SUFFICES ASSUME Init PROVE LedgerInv
  OBVIOUS
<1>1. row = None /\ ledger = <<>> /\ changes = 0 /\ ~Flapping(row)
  BY DEF Init, Flapping
<1>2. Story(ledger, row)
  BY <1>1 DEF Story
<1>3. Counted(ledger, changes - Open(row))
  BY <1>1, CountedNothing DEF Open
<1>4. OneWriter
  BY DEF Init, OneWriter, InTx, Idle
<1> QED
  BY <1>2, <1>3, <1>4, TypeInit DEF LedgerInv

(* With one writer at a time, the ledger tells one story of the reading,      *)
(* whatever overlaps, fails or crashes: every bracket closes the episode      *)
(* before it, every row starts where the one before it ended, and the last    *)
(* one ends at the stored state (writeThrough, planFlap, closeSettledEpisode).*)
THEOREM LedgerAlwaysTrue == ASSUME Serialised PROVE Spec => []LedgerIsTrue
<1>1. LedgerInv => LedgerIsTrue
  BY StoryIsTrue DEF LedgerInv
<1> QED
  BY <1>1, LedgerInit, LedgerStep, PTL DEF Spec

(* With one writer at a time, every change of the stored state is a row of    *)
(* the ledger or is counted by the episode that hid it ("compressed, never    *)
(* suppressed").                                                              *)
THEOREM EveryChangeIsAccounted == ASSUME Serialised PROVE Spec => []EveryChangeAccounted
<1>1. LedgerInv => EveryChangeAccounted
  BY CountedIsAccounted DEF LedgerInv
<1> QED
  BY <1>1, LedgerInit, LedgerStep, PTL DEF Spec

----------------------------------------------------------------------------
(* Reports that do not overlap, on both engines. *)

(* The row, the buffer and the flusher together know the newest report. *)
Known ==
  /\ row = None <=> newest = None
  /\ newest = None => pending = None /\ flushing = None
  /\ newest # None =>
       /\ row.state = newest.state /\ row.at <= newest.at
       /\ pending # None => pending <= newest.at
       /\ flushing # None => flushing <= newest.at
       /\ newest.at \in {row.at, pending, flushing}

(* Where the only report under way stands. *)
InStep(c, h, n) ==
  /\ c.op = "read" => c.stored = h
  /\ c.op \in {"transition", "tx_transition"} /\ n # None =>
       c.obs.at > n.at /\ c.obs.state # n.state
  /\ c.op \in {"buffer", "settle", "tx_settle"} =>
       n # None /\ c.obs.at > n.at /\ c.obs.state = n.state
  /\ c.op \in {"tx_transition", "tx_settle"} => c.cur = h
  /\ c.op = "forget" => n # None /\ n.at = h.at

Alone ==
  /\ \A r, q \in Requests : Busy(r) /\ Busy(q) => r = q
  /\ (\E r \in Requests : Busy(r)) => flushing = None

OrderInv == ~raced => Alone /\ Known /\ \A r \in Requests : InStep(req[r], row, newest)

(* The step of a request that is alone: nothing else is under way after it. *)
LEMMA AloneStep ==
  ASSUME TypeOK, Alone, NEW r \in Requests, Busy(r), NEW c, Set(r, c), flushing' = flushing
  PROVE  /\ Alone' /\ flushing = None
         /\ \A q \in Requests : req'[q] = IF q = r THEN c ELSE Idle
<1>1. \A q \in Requests : req'[q] = IF q = r THEN c ELSE req[q]
  BY DEF TypeOK, Set
<1>2. \A q \in Requests : q # r => req[q] = Idle
  BY DEF Alone, Busy
<1>3. flushing = None
  BY DEF Alone
<1> QED
  BY <1>1, <1>2, <1>3 DEF Alone, Busy

LEMMA OrderStep == TypeOK /\ RowStays /\ OrderInv /\ [Next]_vars => OrderInv'
<1> SUFFICES ASSUME TypeOK, RowStays, OrderInv, [Next]_vars, ~raced'
             PROVE  Alone' /\ Known' /\ \A r \in Requests : InStep(req'[r], row', newest')
  BY DEF OrderInv
<1>0. ~raced
  BY DEF TypeOK, Next, Step, vars, Receive, Dispatch, Buffer, BeginTx, WriteTransition,
         WriteNoTransition, WriteSettle, FailTx, Forget, FlushSwap, FlushCommit, FlushFail, Crash
<1>1. Alone /\ Known /\ \A r \in Requests : InStep(req[r], row, newest)
  BY <1>0 DEF OrderInv
<1>2. /\ row \in Row /\ req \in [Requests -> Call]
      /\ pending \in Times \cup {None} /\ flushing \in Times \cup {None}
      /\ newest \in Report \cup {None}
      /\ newest # None => newest.at \in Nat
      /\ row # None => row.at \in Nat /\ row.at \in Times
      /\ None \notin Nat /\ \A t \in Times : t \in Nat /\ t # None
  BY RowCases, ReportCases, TimeAssumption DEF TypeOK, Times
<1>i. InStep(Idle, row', newest')
  BY DEF InStep, Idle
<1>3. ASSUME NEW r \in Requests, NEW obs \in Report, Receive(r, obs)
      PROVE  Alone' /\ Known' /\ \A q \in Requests : InStep(req'[q], row', newest')
  <2>1. flushing = None /\ \A q \in Requests : req[q] = Idle
    BY <1>3 DEF Receive, Busy, TypeOK
  <2>2. \A q \in Requests : req'[q] =
          IF q = r THEN [op |-> "read", obs |-> obs, stored |-> row] ELSE Idle
    BY <1>2, <1>3, <2>1 DEF Receive, Set
  <2>3. Alone'
    BY <1>3, <2>1, <2>2 DEF Alone, Busy, Receive
  <2>4. Known'
    BY <1>1, <1>3 DEF Known, Receive
  <2>5. InStep([op |-> "read", obs |-> obs, stored |-> row], row', newest')
    BY <1>3 DEF InStep, Receive
  <2> QED
    BY <1>i, <2>2, <2>3, <2>4, <2>5
<1>4. ASSUME NEW r \in Requests, Dispatch(r)
      PROVE  Alone' /\ Known' /\ \A q \in Requests : InStep(req'[q], row', newest')
  <2> DEFINE obs == req[r].obs
             cur == IF row = None THEN None ELSE Overlay(row, pending)
  <2>1. req[r].stored = row /\ obs \in Report /\ Busy(r) /\ obs.at \in Nat
    BY <1>1, <1>2, <1>4, CallCases, ReportCases DEF Dispatch, InStep, Busy, Idle
  <2>2. flushing = None
    BY <1>1, <2>1 DEF Alone
  <2>3. row # None => /\ cur # None /\ cur.at = newest.at /\ cur.state = newest.state
    <3> SUFFICES ASSUME row # None
                 PROVE  cur # None /\ cur.at = newest.at /\ cur.state = newest.state
      OBVIOUS
    <3>1. row \in Health
      BY <1>2 DEF Row
    <3>2. pending # None => [row EXCEPT !.at = Larger(row.at, pending)] \in Health
      BY <1>2, <3>1 DEF Health, Larger
    <3>3. pending # None => /\ Larger(row.at, pending) = newest.at
      BY <1>1, <1>2, <2>2 DEF Known, Larger
    <3>4. CASE pending = None
      BY <1>1, <1>2, <2>2, <3>4 DEF Overlay, Known
    <3>5. CASE pending # None
      <4>1. cur = [row EXCEPT !.at = newest.at]
        BY <3>3, <3>5 DEF Overlay
      <4>2. cur.at = newest.at /\ cur.state = row.state
        BY <3>1, <4>1 DEF Health
      <4> QED
        BY <1>1, <3>2, <3>3, <3>5, <4>1, <4>2, NoneAssumption DEF Known
    <3> QED
      BY <3>4, <3>5
  <2> HIDE DEF cur
  <2>4. row = None => cur = None
    BY DEF cur
  <2>5. PICK c : Set(r, c) /\
          \/ c = Idle
          \/ Classify(obs, cur) = "transitioned" /\ c = [op |-> "transition", obs |-> obs]
          \/ Classify(obs, cur) = "unchanged" /\ c.obs = obs /\ c.op \in {"buffer", "settle"}
    BY <1>4, <2>1 DEF Dispatch, cur
  <2>6. /\ Alone' /\ \A q \in Requests : req'[q] = IF q = r THEN c ELSE Idle
    BY <1>1, <1>4, <2>1, <2>5, AloneStep DEF Dispatch
  <2>7. Known'
    BY <1>1, <1>4 DEF Known, Dispatch
  <2>8. newest' = newest /\ row' = row
    BY <1>4 DEF Dispatch
  <2>9. row = None <=> newest = None
    BY <1>1 DEF Known
  <2>10. InStep(c, row', newest')
    <3>1. CASE c = Idle
      BY <1>i, <3>1
    <3>2. CASE Classify(obs, cur) = "transitioned" /\ c = [op |-> "transition", obs |-> obs]
      BY <1>2, <2>1, <2>3, <2>8, <2>9, <3>2 DEF InStep, Classify
    <3>3. CASE Classify(obs, cur) = "unchanged" /\ c.obs = obs /\ c.op \in {"buffer", "settle"}
      BY <1>2, <2>1, <2>3, <2>4, <2>8, <2>9, <3>3 DEF InStep, Classify
    <3> QED
      BY <2>5, <3>1, <3>2, <3>3
  <2> QED
    BY <1>i, <2>6, <2>7, <2>10
<1>5. ASSUME NEW r \in Requests, Buffer(r)
      PROVE  Alone' /\ Known' /\ \A q \in Requests : InStep(req'[q], row', newest')
  <2>1. /\ Busy(r) /\ newest # None /\ req[r].obs \in Report
        /\ req[r].obs.at > newest.at /\ req[r].obs.state = newest.state
    BY <1>1, <1>2, <1>5, CallCases DEF Buffer, InStep, Busy, Idle
  <2>2. /\ Alone' /\ flushing = None /\ \A q \in Requests : req'[q] = Idle
    BY <1>1, <1>5, <2>1, AloneStep DEF Buffer
  <2>3. newest' = req[r].obs /\ newest' # None /\ newest'.at \in Nat
    BY <1>2, <1>5, <2>1, ReportCases DEF Buffer, Answered
  <2>4. pending' = newest'.at
    BY <1>1, <1>2, <1>5, <2>1, <2>3 DEF Buffer, Known
  <2>5. Known'
    BY <1>1, <1>2, <1>5, <2>1, <2>2, <2>3, <2>4 DEF Known, Buffer
  <2> QED
    BY <1>i, <2>2, <2>5
<1>6. ASSUME NEW r \in Requests, BeginTx(r)
      PROVE  Alone' /\ Known' /\ \A q \in Requests : InStep(req'[q], row', newest')
  <2> DEFINE c == [op |-> IF req[r].op = "settle" THEN "tx_settle" ELSE "tx_transition",
                   obs |-> req[r].obs, cur |-> row]
  <2>1. Busy(r) /\ InStep(req[r], row, newest)
    BY <1>1, <1>6 DEF BeginTx, Busy, Idle
  <2>2. /\ Alone' /\ \A q \in Requests : req'[q] = IF q = r THEN c ELSE Idle
    BY <1>1, <1>6, <2>1, AloneStep DEF BeginTx
  <2>3. InStep(c, row', newest')
    BY <1>6, <2>1 DEF InStep, BeginTx
  <2>4. Known'
    BY <1>1, <1>6 DEF Known, BeginTx
  <2> QED
    BY <1>i, <2>2, <2>3, <2>4
<1>7. ASSUME NEW r \in Requests, WriteTransition(r)
      PROVE  Alone' /\ Known' /\ \A q \in Requests : InStep(req'[q], row', newest')
  <2>1. /\ Busy(r) /\ req[r].obs \in Report /\ req[r].cur = row
        /\ newest # None => req[r].obs.at > newest.at
    BY <1>1, <1>2, <1>7, CallCases DEF WriteTransition, InStep, Busy, Idle
  <2>2. /\ Alone' /\ flushing = None
        /\ \A q \in Requests : req'[q] = IF q = r THEN [op |-> "forget"] ELSE Idle
    BY <1>1, <1>7, <2>1, AloneStep DEF WriteTransition
  <2>3. newest' = req[r].obs /\ newest' # None /\ newest'.at \in Nat
    BY <1>2, <1>7, <2>1, ReportCases DEF WriteTransition, Answered
  <2>4. row' # None /\ row'.state = newest'.state /\ row'.at = newest'.at
    <3>1. PICK p : /\ PlanCases(req[r].cur, req[r].obs.state, p)
                   /\ row' = [state |-> req[r].obs.state, at |-> req[r].obs.at, flap |-> p.flap]
      BY <1>2, <1>7, <2>1, PlanSplits, ReportCases DEF WriteTransition
    <3>2. p.flap \in Episode \cup {None}
      BY <1>2, <2>1, <3>1, PlanType, ReportCases
    <3>3. row' \in Health
      BY <2>1, <3>1, <3>2, ReportCases DEF Health
    <3> QED
      BY <2>3, <3>1, <3>3, NoneAssumption
  <2>5. (pending # None => pending <= newest'.at) /\ pending' = pending /\ flushing' = None
    BY <1>1, <1>2, <1>7, <2>1, <2>2, <2>3 DEF Known, WriteTransition
  <2>6. Known'
    BY <1>2, <2>3, <2>4, <2>5 DEF Known
  <2>7. InStep([op |-> "forget"], row', newest')
    BY <2>3, <2>4 DEF InStep
  <2> QED
    BY <1>i, <2>2, <2>6, <2>7
<1>8. ASSUME NEW r \in Requests, WriteNoTransition(r) PROVE FALSE
  <2>1. /\ req[r].obs \in Report /\ req[r].cur = row /\ req[r].obs.at \in Nat
        /\ newest # None => req[r].obs.at > newest.at /\ req[r].obs.state # newest.state
    BY <1>1, <1>2, <1>8, CallCases, ReportCases DEF WriteNoTransition, InStep
  <2>2. row # None => /\ row.at < req[r].obs.at /\ row.state # req[r].obs.state
    BY <1>1, <1>2, <2>1 DEF Known
  <2>3. Classify(req[r].obs, row) = "transitioned" /\ Applies(req[r].obs)
    BY <1>2, <2>1, <2>2 DEF Classify, Applies
  <2> QED
    BY <1>8, <2>1, <2>3 DEF WriteNoTransition
<1>9. ASSUME NEW r \in Requests, WriteSettle(r)
      PROVE  Alone' /\ Known' /\ \A q \in Requests : InStep(req'[q], row', newest')
  <2>1. /\ Busy(r) /\ req[r].obs \in Report /\ req[r].cur = row /\ newest # None
        /\ req[r].obs.at > newest.at /\ req[r].obs.state = newest.state
        /\ req[r].obs.at \in Times
    BY <1>1, <1>2, <1>9, CallCases, ReportCases DEF WriteSettle, InStep, Busy, Idle
  <2>2. /\ Alone' /\ flushing = None
        /\ \A q \in Requests : req'[q] = IF q = r THEN [op |-> "forget"] ELSE Idle
    BY <1>1, <1>9, <2>1, AloneStep DEF WriteSettle
  <2>3. newest' = req[r].obs /\ newest' # None /\ newest'.at \in Nat
    BY <1>2, <1>9, <2>1, ReportCases DEF WriteSettle, Answered
  <2>4. PICK h \in Row : /\ h # None /\ h.state = row.state /\ h.at = row.at
                         /\ row' = Bumped(h, req[r].obs.at)
    <3>1. row # None /\ row \in Health
      BY <1>1, <1>2, <2>1 DEF Known, Row
    <3>2. [row EXCEPT !.flap = None] \in Health
      BY <3>1 DEF Health
    <3>3. /\ [row EXCEPT !.flap = None] \in Row /\ [row EXCEPT !.flap = None] # None
          /\ [row EXCEPT !.flap = None].state = row.state
          /\ [row EXCEPT !.flap = None].at = row.at
      BY <3>1, <3>2, NoneAssumption DEF Row, Health
    <3>4. \/ row' = Bumped([row EXCEPT !.flap = None], req[r].obs.at)
          \/ row' = Bumped(row, req[r].obs.at)
      BY <1>9 DEF WriteSettle
    <3> QED
      BY <1>2, <3>1, <3>3, <3>4
  <2>5. row.at <= req[r].obs.at /\ row.state = newest.state
    BY <1>1, <1>2, <2>1, <2>3 DEF Known
  <2>6. row' # None /\ row'.state = newest'.state /\ row'.at = newest'.at
    BY <2>1, <2>3, <2>4, <2>5, BumpedType
  <2>7. (pending # None => pending <= newest'.at) /\ pending' = pending /\ flushing' = None
    BY <1>1, <1>2, <1>9, <2>1, <2>2, <2>3 DEF Known, WriteSettle
  <2>8. Known'
    BY <1>2, <2>3, <2>6, <2>7 DEF Known
  <2>9. InStep([op |-> "forget"], row', newest')
    BY <2>3, <2>6 DEF InStep
  <2> QED
    BY <1>i, <2>2, <2>8, <2>9
<1>10. ASSUME NEW r \in Requests, FailTx(r)
       PROVE  Alone' /\ Known' /\ \A q \in Requests : InStep(req'[q], row', newest')
  <2>1. Busy(r)
    BY <1>10 DEF FailTx, Busy, Idle
  <2>2. Alone' /\ \A q \in Requests : req'[q] = Idle
    BY <1>1, <1>10, <2>1, AloneStep DEF FailTx
  <2>3. Known'
    BY <1>1, <1>10 DEF Known, FailTx
  <2> QED
    BY <1>i, <2>2, <2>3
<1>11. ASSUME NEW r \in Requests, Forget(r)
       PROVE  Alone' /\ Known' /\ \A q \in Requests : InStep(req'[q], row', newest')
  <2>1. Busy(r) /\ newest # None /\ newest.at = row.at
    BY <1>1, <1>11 DEF Forget, Busy, Idle, InStep
  <2>2. Alone' /\ flushing = None /\ \A q \in Requests : req'[q] = Idle
    BY <1>1, <1>11, <2>1, AloneStep DEF Forget
  <2>3. Known'
    BY <1>1, <1>11, <2>1, <2>2 DEF Known, Forget
  <2> QED
    BY <1>i, <2>2, <2>3
<1>12. CASE FlushSwap
  <2>1. \A q \in Requests : req[q] = Idle
    BY <1>12 DEF FlushSwap, Busy, TypeOK
  <2>2. Alone'
    BY <1>12, <2>1 DEF FlushSwap, Alone, Busy
  <2>3. Known'
    BY <1>1, <1>2, <1>12 DEF Known, FlushSwap
  <2> QED
    BY <1>i, <1>12, <2>1, <2>2, <2>3 DEF FlushSwap
<1>13. CASE FlushCommit \/ FlushFail
  <2>1. \A q \in Requests : req[q] = Idle
    BY <1>1, <1>13 DEF FlushCommit, FlushFail, Alone, Busy
  <2>2. flushing # None /\ flushing \in Times /\ newest # None /\ row # None
    BY <1>1, <1>2, <1>13 DEF FlushCommit, FlushFail, Known
  <2>3. Alone' /\ newest' = newest /\ req' = req
    BY <1>13, <2>1 DEF FlushCommit, FlushFail, Alone, Busy
  <2>4. CASE FlushCommit
    <3>1. /\ row' # None /\ row'.state = row.state
          /\ row'.at = IF row.at <= flushing THEN flushing ELSE row.at
      BY <1>2, <2>2, <2>4, BumpedType DEF FlushCommit
    <3>2. Known'
      BY <1>1, <1>2, <2>2, <2>3, <2>4, <3>1 DEF FlushCommit, Known
    <3> QED
      BY <1>i, <2>1, <2>3, <3>2
  <2>5. CASE FlushFail
    <3>1. Known'
      BY <1>1, <1>2, <2>2, <2>3, <2>5 DEF FlushFail, Restore, Known
    <3> QED
      BY <1>i, <2>1, <2>3, <3>1
  <2> QED
    BY <1>13, <2>4, <2>5
<1>14. CASE UNCHANGED vars
  BY <1>1, <1>14 DEF vars, Alone, Known, Busy
<1>15. ~Crash
  BY DEF Crash
<1> QED
  BY <1>3, <1>4, <1>5, <1>6, <1>7, <1>8, <1>9, <1>10, <1>11, <1>12, <1>13, <1>14, <1>15
  DEF Next, Step

LEMMA OrderInit == Init => OrderInv
BY DEF Init, OrderInv, Alone, Known, InStep, Busy, Idle

(* Reports that do not overlap are applied in the reporter's order on both    *)
(* engines: however they are delayed, repeated, buffered, flushed or failed   *)
(* to flush, the stored state is that of the report with the latest           *)
(* reported_at, and that time is in the row, in the buffer or in the flusher  *)
(* (classify, healthUpsert, bumpHealth, restore).                             *)
THEOREM OrderKept == Spec => []ReportsInOrder
<1>1. OrderInv => ReportsInOrder
  BY DEF OrderInv, ReportsInOrder, Known
<1> QED
  BY <1>1, TypeInit, TypeStep, RowStaysStep, OrderInit, OrderStep, PTL DEF Spec

----------------------------------------------------------------------------
(* A report that was accepted is not taken back. *)

(* A heartbeat is buffered for a row that is there. *)
Grounded ==
  /\ pending # None \/ flushing # None => row # None
  /\ \A r \in Requests :
       req[r].op = "buffer" \/ (req[r].op = "read" /\ req[r].stored # None) => row # None

LEMMA GroundedStep == TypeOK /\ RowStays /\ Grounded /\ [Next]_vars => Grounded'
<1> SUFFICES ASSUME TypeOK, RowStays, Grounded, [Next]_vars PROVE Grounded'
  OBVIOUS
<1>0. req \in [Requests -> Call]
  BY DEF TypeOK
<1>1. CASE row # None
  BY <1>1, RowNeverLeaves DEF Grounded
<1>2. CASE row = None
  <2>1. /\ pending = None /\ flushing = None
        /\ \A r \in Requests : req[r].op # "buffer" /\ (req[r].op = "read" => req[r].stored = None)
    BY <1>2 DEF Grounded
  <2>2. ASSUME NEW r \in Requests, NEW obs \in Report, Receive(r, obs) PROVE Grounded'
    BY <1>0, <1>2, <2>1, <2>2 DEF Grounded, Receive, Set
  <2>3. ASSUME NEW r \in Requests, Dispatch(r) PROVE Grounded'
    <3>1. \/ Set(r, Idle) \/ Set(r, [op |-> "transition", obs |-> req[r].obs])
      BY <2>1, <2>3 DEF Dispatch, Classify, Flapping
    <3> QED
      BY <1>0, <2>1, <2>3, <3>1 DEF Grounded, Dispatch, Set, Idle
  <2>4. ASSUME NEW r \in Requests, BeginTx(r) \/ FailTx(r) \/ Forget(r) PROVE Grounded'
    BY <1>0, <2>1, <2>4 DEF Grounded, BeginTx, FailTx, Forget, Set, Idle
  <2>5. ASSUME NEW r \in Requests, WriteTransition(r) PROVE Grounded'
    BY <1>0, <2>1, <2>5 DEF Grounded, WriteTransition, Set
  <2>6. ASSUME NEW r \in Requests, WriteNoTransition(r) PROVE Grounded'
    BY <1>0, <2>1, <2>6 DEF Grounded, WriteNoTransition, Set
  <2>7. ASSUME NEW r \in Requests, WriteSettle(r) PROVE Grounded'
    BY <1>0, <2>1, <2>7 DEF Grounded, WriteSettle, Set
  <2>8. CASE Crash
    BY <2>8 DEF Grounded, Crash, Idle
  <2>9. CASE UNCHANGED vars
    BY <2>9 DEF Grounded, vars
  <2> QED
    BY <2>1, <2>2, <2>3, <2>4, <2>5, <2>6, <2>7, <2>8, <2>9
    DEF Next, Step, Buffer, FlushSwap, FlushCommit, FlushFail
<1> QED
  BY <1>1, <1>2

LEMMA GroundedInit == Init => Grounded
BY DEF Init, Grounded, Idle

(* A later time is had for everything that was had before. *)
Kept == \A at \in Had : \E later \in Had' : later >= at

LEMMA KeptStep ==
  ASSUME TypeOK, RowStays, Grounded, [Next]_vars, crashes' = crashes,
         \A r \in Requests : req[r].op # "forget" \/ req'[r] = req[r]
  PROVE  Kept
<1>0. /\ row \in Row /\ pending \in Times \cup {None} /\ flushing \in Times \cup {None}
      /\ req \in [Requests -> Call] /\ crashes \in Nat
      /\ row # None => row.at \in Nat
      /\ \A at \in Times : at \in Nat
  BY RowCases, TimeAssumption DEF TypeOK, Times
<1>1. Had \subseteq Nat
  BY <1>0 DEF Had
<1>2. CASE row' = row /\ pending' = pending /\ flushing' = flushing
  BY <1>1, <1>2 DEF Had, Kept
<1>3. ASSUME row # None, row' # None, row'.at \in Nat, row.at <= row'.at,
             UNCHANGED <<pending, flushing>>
      PROVE  Kept
  BY <1>0, <1>1, <1>3 DEF Had, Kept
<1>4. ASSUME NEW r \in Requests, Buffer(r) PROVE Kept
  <2>1. req[r].obs.at \in Nat /\ req[r].obs.at # None
    BY <1>0, <1>4, CallCases, ReportCases, NoneAssumption DEF Buffer
  <2> QED
    BY <1>0, <1>1, <1>4, <2>1 DEF Buffer, Had, Kept
<1>5. ASSUME NEW r \in Requests, WriteTransition(r) PROVE Kept
  <2>1. req[r].obs \in Report /\ req[r].cur \in Row
    BY <1>0, <1>5, CallCases DEF WriteTransition
  <2>2. /\ req[r].obs.at \in Nat /\ row'.at = req[r].obs.at /\ (row # None => row.at < row'.at)
        /\ UNCHANGED <<pending, flushing>>
    BY <2>1, <1>5, ReportCases DEF WriteTransition, Applies
  <2>3. CASE row = None
    BY <2>2, <2>3, <1>1 DEF Grounded, Had, Kept
  <2>4. CASE row # None
    BY <2>2, <2>4, <1>0, <1>3, RowNeverLeaves
  <2> QED
    BY <2>3, <2>4
<1>6. ASSUME NEW at \in Times, row' = Bumped(row, at), UNCHANGED <<pending, flushing>> PROVE Kept
  BY <1>0, <1>1, <1>2, <1>3, <1>6, BumpedType
<1>7. ASSUME NEW r \in Requests, WriteNoTransition(r) PROVE Kept
  <2>1. req[r].obs.at \in Times /\ UNCHANGED <<pending, flushing>>
    BY <1>0, <1>7, CallCases, ReportCases DEF WriteNoTransition
  <2>2. row' = row \/ row' = Bumped(row, req[r].obs.at)
    BY <1>7 DEF WriteNoTransition
  <2> QED
    BY <1>2, <1>6, <2>1, <2>2
<1>8. ASSUME NEW r \in Requests, WriteSettle(r) PROVE Kept
  <2>1. req[r].obs.at \in Times /\ UNCHANGED <<pending, flushing>>
    BY <1>0, <1>8, CallCases, ReportCases DEF WriteSettle
  <2>2. CASE row' = Bumped(row, req[r].obs.at)
    BY <1>6, <2>1, <2>2
  <2>3. CASE Flapping(req[r].cur) /\ row' = Bumped([row EXCEPT !.flap = None], req[r].obs.at)
    <3>1. row # None /\ row \in Health
      BY <1>0, <1>8, <2>3 DEF RowStays, WriteSettle, Flapping, Row
    <3>2. [row EXCEPT !.flap = None] \in Health /\ [row EXCEPT !.flap = None].at = row.at
      BY <3>1 DEF Health
    <3>3. [row EXCEPT !.flap = None] \in Row /\ [row EXCEPT !.flap = None] # None
      BY <3>2, NoneAssumption DEF Row
    <3>4. row'.at = IF row.at <= req[r].obs.at THEN req[r].obs.at ELSE row.at
      BY <2>1, <2>3, <3>2, <3>3, BumpedType
    <3> QED
      BY <1>0, <1>3, <2>1, <3>1, <3>4, RowNeverLeaves
  <2> QED
    BY <1>8, <2>2, <2>3 DEF WriteSettle
<1>9. CASE FlushSwap \/ FlushFail
  BY <1>0, <1>1, <1>9 DEF FlushSwap, FlushFail, Restore, Had, Kept
<1>10. CASE FlushCommit
  <2>1. row # None /\ flushing \in Times /\ row' = Bumped(row, flushing)
        /\ flushing' = None /\ pending' = pending
    BY <1>0, <1>10 DEF FlushCommit, Grounded
  <2>2. row' # None /\ row'.at = IF row.at <= flushing THEN flushing ELSE row.at
    BY <1>0, <2>1, BumpedType
  <2> QED
    BY <1>0, <1>1, <2>1, <2>2 DEF Had, Kept
<1>11. ASSUME NEW r \in Requests, Forget(r) PROVE FALSE
  BY <1>0, <1>11 DEF Forget, Set, Idle
<1>12. ~Crash
  BY <1>0 DEF Crash
<1> QED
  BY <1>2, <1>4, <1>5, <1>7, <1>8, <1>9, <1>10, <1>11, <1>12
  DEF Next, Step, vars, Receive, Dispatch, BeginTx, FailTx

(* A report that was accepted is never taken back for an older one, on both   *)
(* engines and however reports, flushes and failures overlap: not by a late   *)
(* heartbeat, not by a failed flush with newer reports behind it, not by a    *)
(* transaction that read an older row (buffer, Flush, restore, healthUpsert,  *)
(* bumpHealth).                                                               *)
THEOREM AcceptedNeverRewinds == Spec => NothingRewinds
<1>1. TypeOK /\ RowStays /\ Grounded /\ [Next]_vars =>
        [crashes' = crashes /\ (\A r \in Requests : req[r].op # "forget" \/ req'[r] = req[r])
           => \A at \in Had : \E later \in Had' : later >= at]_vars
  BY KeptStep, Zenon DEF Kept
<1> QED
  BY <1>1, TypeInit, TypeStep, RowStaysStep, GroundedInit, GroundedStep, PTL DEF Spec, NothingRewinds

(* Both together, for any number of reports, times and states, on both        *)
(* engines: what is stored is the latest of the reports that did not overlap, *)
(* and no accepted report is taken back (RecordObservation, Flush).           *)
THEOREM ReportsAlwaysKept == Spec => ReportsKept
BY OrderKept, AcceptedNeverRewinds, PTL DEF ReportsKept
=============================================================================
