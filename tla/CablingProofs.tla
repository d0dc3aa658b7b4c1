--------------------------- MODULE CablingProofs ---------------------------
(***************************************************************************)
(* Ports and cables under any number of concurrent requests, on both       *)
(* engines: a port is never cabled twice, on SQLite a withdrawn port is    *)
(* never cabled, and the strands of a breakout agree.                      *)
(*                                                                         *)
(* The invariant follows a request from the moment its id is made up: the  *)
(* ids it will write are nobody's (Apart), a serializable transaction that *)
(* is not doomed still has its ports to itself (Clear), and the edit of a  *)
(* strand that is still there agrees with the strands beside it (Guard).   *)
(***************************************************************************)
EXTENDS Cabling, FiniteSetTheorems, TLAPS

Creates == {"CreateLink", "CreateBreakout"}
Waiting == {"asked", "open"}
Creating(q) == q.op \in Waiting /\ q.do \in Creates
Updating(q) == q.op \in Waiting /\ q.do = "UpdateLink"

(* The ports of a new cable, and the ids of its rows. *)
EndsOf(w) == {w.a} \cup w.bs
IdsOf(w) == w.id .. (w.id + Cardinality(w.bs) - 1)

(* The cables themselves. *)
OnePerPort(ln) ==
  \A p \in Ports : \A l, k \in ln :
    p \in {l.a, l.b} /\ p \in {k.a, k.b} /\ l.id # k.id =>
      l.brk # 0 /\ l.brk = k.brk /\ p = l.a /\ p = k.a

SameId(ln) ==
  \A l, k \in ln : l.id = k.id => l.brk = k.brk /\ l.medium = k.medium /\ l.ver = k.ver

Agree(ln) == \A l, k \in ln : l.brk # 0 /\ l.brk = k.brk => l.medium = k.medium

Numbered(ln, n) == \A l \in ln : l.id \in 1..n /\ l.brk \in 0..n

(* What a request holds. *)
NewCable(w, n) ==
  /\ w.id \in Nat \ {0} /\ w.bs \subseteq Ports /\ IsFiniteSet(w.bs) /\ w.bs # {}
  /\ w.a \notin w.bs /\ w.id + Cardinality(w.bs) - 1 <= n

ShapeOf(q, n) ==
  /\ q = Idle \/ q.op \in Waiting
  /\ Creating(q) => NewCable(q.with, n) /\ (q.do = "CreateLink" => \E b : q.with.bs = {b})
  /\ Updating(q) => q.with.id \in 1..n /\ q.with.brk \in 0..n

Apart(q, ln) ==
  /\ Creating(q) => \A l \in ln : l.id \notin IdsOf(q.with) /\ l.brk \notin IdsOf(q.with)
  /\ Updating(q) => \A l \in ln : l.id = q.with.id => l.brk = q.with.brk

PairApart(q, s) ==
  /\ Creating(q) /\ Creating(s) => IdsOf(q.with) \cap IdsOf(s.with) = {}
  /\ Creating(q) /\ Updating(s) => s.with.id \notin IdsOf(q.with) /\ s.with.brk \notin IdsOf(q.with)

(* What a transaction has checked, as long as it holds. *)
ClearFor(w, ln) == \A p \in EndsOf(w) : \A l \in ln : p \notin {l.a, l.b}

GuardFor(w, ln) ==
  w.brk # 0 /\ (\E k \in ln : k.id = w.id) =>
    \A l \in ln : l.brk = w.brk /\ l.id # w.id => l.medium = w.medium

Checked(q, ln) ==
  /\ q.op = "open" /\ q.do \in Creates /\ ~q.doomed => ClearFor(q.with, ln)
  /\ q.op = "open" /\ q.do = "UpdateLink" => GuardFor(q.with, ln)

LinksInv == OnePerPort(links) /\ SameId(links) /\ Agree(links) /\ Numbered(links, ids)

RequestsInv ==
  /\ DOMAIN req = Requests /\ ids \in Nat
  /\ \A r \in Requests : ShapeOf(req[r], ids) /\ Apart(req[r], links) /\ Checked(req[r], links)
  /\ \A r, s \in Requests : r # s => PairApart(req[r], req[s])
  /\ engine = "sqlite" => \A r \in Requests : req[r].op # "open"

CablingInv == LinksInv /\ RequestsInv

----------------------------------------------------------------------------
(* The rows of a new cable: their ends, and ids that are the request's own. *)
LEMMA RowsOfCable ==
  ASSUME NEW w, NEW n, NewCable(w, n), NEW brk
  PROVE  /\ Cardinality(w.bs) \in Nat
         /\ w.id \in IdsOf(w)
         /\ \A l \in Rows(w, brk) : /\ l.id \in IdsOf(w) /\ l.a = w.a /\ l.b \in w.bs
                                    /\ l.brk = brk /\ l.medium = w.medium /\ l.ver = 1
         /\ \A l, k \in Rows(w, brk) : l.b = k.b => l = k
<1> DEFINE nth(b) == w.id + Cardinality({c \in w.bs : c < b})
           row(b) == [id |-> nth(b), a |-> w.a, b |-> b, brk |-> brk, medium |-> w.medium, ver |-> 1]
<1>0. IsFiniteSet(w.bs) /\ w.id \in Nat \ {0} /\ w.bs \subseteq Ports /\ w.bs # {}
  BY DEF NewCable
<1>1. Cardinality(w.bs) \in Nat /\ Cardinality(w.bs) # 0
  BY <1>0, FS_CardinalityType, FS_EmptySet
<1>2. ASSUME NEW b \in w.bs PROVE nth(b) \in IdsOf(w)
  <2> DEFINE S == {c \in w.bs : c < b}
             m == Cardinality(S)
             k == Cardinality(w.bs)
  <2>0. w.bs \subseteq Nat
    BY <1>0, PortsAssumption
  <2>1. S \subseteq w.bs /\ S # w.bs
    <3>1. b \notin S
      BY <2>0
    <3> QED
      BY <3>1
  <2>2. m \in Nat /\ m < k
    <3> HIDE DEF S
    <3>1. IsFiniteSet(S) /\ m <= k /\ (m = k => S = w.bs)
      BY <1>0, <2>1, FS_Subset
    <3>2. m \in Nat
      BY <3>1, FS_CardinalityType
    <3> QED
      BY <1>1, <2>1, <3>1, <3>2
  <2>3. nth(b) = w.id + m
    OBVIOUS
  <2> HIDE DEF S, m, nth
  <2> QED
    BY <1>0, <1>1, <2>2, <2>3 DEF IdsOf
<1>3. Rows(w, brk) = {row(b) : b \in w.bs}
  BY DEF Rows
<1>4. \A b \in w.bs : /\ row(b).id = nth(b) /\ row(b).a = w.a /\ row(b).b = b
                      /\ row(b).brk = brk /\ row(b).medium = w.medium /\ row(b).ver = 1
  OBVIOUS
<1> HIDE DEF nth, row
<1>5. w.id \in IdsOf(w)
  BY <1>0, <1>1 DEF IdsOf
<1> QED
  BY <1>1, <1>2, <1>3, <1>4, <1>5

(* An edit changes the medium and the version of the cable it names. *)
LEMMA EditedCable ==
  ASSUME NEW l, NEW w
  PROVE  LET e == Edited(l, w) IN
         /\ e.id = l.id /\ e.a = l.a /\ e.b = l.b /\ e.brk = l.brk
         /\ l.id = w.id /\ l.ver = w.token => e.medium = w.medium /\ e.ver = l.ver + 1
         /\ ~(l.id = w.id /\ l.ver = w.token) => e = l
<1>1. CASE l.id = w.id /\ l.ver = w.token
  <2>1. Edited(l, w) = [l EXCEPT !.medium = w.medium, !.ver = @ + 1]
    BY <1>1 DEF Edited
  <2> QED
    BY <1>1, <2>1
<1>2. CASE ~(l.id = w.id /\ l.ver = w.token)
  BY <1>2 DEF Edited
<1> QED
  BY <1>1, <1>2

(* What a committed transaction does to the cables. *)
Added(q, ln, ln2) ==
  /\ q.do \in Creates
  /\ \E brk : /\ brk = (IF q.do = "CreateLink" THEN 0 ELSE q.with.id)
              /\ ln2 = ln \cup Rows(q.with, brk)
Changed(q, ln, ln2) == q.do = "UpdateLink" /\ ln2 = {Edited(l, q.with) : l \in ln}
Removed(q, ln, ln2) == q.do \notin Creates /\ q.do # "UpdateLink" /\ ln2 \subseteq ln

LEMMA EffectOnCables ==
  ASSUME NEW q, Execute(q)
  PROVE  /\ Added(q, links, links') \/ Changed(q, links, links') \/ Removed(q, links, links')
         /\ engine' = engine /\ ids' = ids /\ started' = started
<1>1. engine' = engine /\ ids' = ids /\ started' = started
  BY DEF Execute
<1>2. CASE CreateLink(q)
  BY <1>1, <1>2 DEF CreateLink, Added, Creates
<1>3. CASE CreateBreakout(q)
  BY <1>1, <1>3 DEF CreateBreakout, Added, Creates
<1>4. CASE UpdateLink(q)
  BY <1>1, <1>4 DEF UpdateLink, Changed
<1>5. CASE RetireLink(q) \/ RetireAsset(q)
  BY <1>1, <1>5 DEF RetireLink, RetireAsset, Removed, Creates
<1>6. CASE CreateInterface(q) \/ RetireInterface(q) \/ CreatePassThrough(q) \/ RetirePassThrough(q)
           \/ UpdateAsset(q)
  BY <1>1, <1>6 DEF CreateInterface, RetireInterface, SetPort, CreatePassThrough, RetirePassThrough,
                    UpdateAsset, Removed, Creates
<1> QED
  BY <1>2, <1>3, <1>4, <1>5, <1>6 DEF Execute

Good(ln, n) == OnePerPort(ln) /\ SameId(ln) /\ Agree(ln) /\ Numbered(ln, n)

(* A new cable at ports that are clear. *)
LEMMA AddingKeeps ==
  ASSUME NEW ln, NEW ln2, NEW n \in Nat, Good(ln, n), NEW q, NewCable(q.with, n),
         q.do = "CreateLink" => \E b : q.with.bs = {b},
         \A l \in ln : l.id \notin IdsOf(q.with) /\ l.brk \notin IdsOf(q.with),
         ClearFor(q.with, ln), Added(q, ln, ln2)
  PROVE  Good(ln2, n)
<1> DEFINE w == q.with
<1>1. PICK brk : brk = (IF q.do = "CreateLink" THEN 0 ELSE w.id) /\ ln2 = ln \cup Rows(w, brk)
  BY DEF Added
<1> DEFINE R == Rows(w, brk)
<1>2. /\ w.id \in IdsOf(w) /\ Cardinality(w.bs) \in Nat
      /\ \A l \in R : /\ l.id \in IdsOf(w) /\ l.a = w.a /\ l.b \in w.bs
                      /\ l.brk = brk /\ l.medium = w.medium /\ l.ver = 1
      /\ \A l, k \in R : l.b = k.b => l = k
  BY RowsOfCable
<1>3. /\ OnePerPort(ln) /\ SameId(ln) /\ Agree(ln) /\ Numbered(ln, n)
      /\ w.a \notin w.bs /\ w.id \in Nat \ {0} /\ w.id + Cardinality(w.bs) - 1 <= n
  BY DEF Good, NewCable
<1>4. \A l \in ln : l.id \notin IdsOf(w) /\ l.brk \notin IdsOf(w)
  OBVIOUS
<1>5. \A p : \A l \in ln : \A k \in R : ~(p \in {l.a, l.b} /\ p \in {k.a, k.b})
  BY <1>2 DEF ClearFor, EndsOf
<1>6. ln2 = ln \cup R
  BY <1>1
<1>b. q.do = "CreateLink" => \E b : w.bs = {b}
  OBVIOUS
<1>c. brk = (IF q.do = "CreateLink" THEN 0 ELSE w.id)
  BY <1>1
<1> HIDE DEF w, R
<1>7. \A l, k \in R : l.id # k.id => brk # 0 /\ (\A p : p \in {l.a, l.b} /\ p \in {k.a, k.b} => p = w.a)
  <2> SUFFICES ASSUME NEW l \in R, NEW k \in R, l.id # k.id
               PROVE  brk # 0 /\ (\A p : p \in {l.a, l.b} /\ p \in {k.a, k.b} => p = w.a)
    OBVIOUS
  <2>1. l.b # k.b
    BY <1>2
  <2>2. q.do # "CreateLink"
    BY <1>2, <1>b, <2>1
  <2>3. brk # 0
    BY <1>3, <1>c, <2>2
  <2>4. \A p : p \in {l.a, l.b} /\ p \in {k.a, k.b} => p = w.a
    BY <1>2, <1>3, <2>1
  <2> QED
    BY <2>3, <2>4
<1>8. OnePerPort(ln2)
  <2> SUFFICES ASSUME NEW p \in Ports, NEW l \in ln2, NEW k \in ln2,
                      p \in {l.a, l.b}, p \in {k.a, k.b}, l.id # k.id
               PROVE  l.brk # 0 /\ l.brk = k.brk /\ p = l.a /\ p = k.a
    BY DEF OnePerPort
  <2>1. CASE l \in ln /\ k \in ln
    BY <1>3, <2>1 DEF OnePerPort
  <2>2. CASE l \in R /\ k \in R
    BY <1>2, <1>7, <2>2
  <2>3. CASE (l \in ln /\ k \in R) \/ (l \in R /\ k \in ln)
    BY <1>5, <2>3
  <2> QED
    BY <1>6, <2>1, <2>2, <2>3
<1>9. SameId(ln2)
  BY <1>2, <1>3, <1>4, <1>6 DEF SameId
<1>10. Agree(ln2)
  BY <1>2, <1>3, <1>4, <1>6, <1>c DEF Agree
<1>11. Numbered(ln2, n)
  <2>1. \A i \in IdsOf(w) : i \in 1..n
    BY <1>2, <1>3 DEF IdsOf
  <2>2. brk \in 0..n
    BY <1>2, <1>c, <2>1
  <2> QED
    BY <1>2, <1>3, <1>6, <2>1, <2>2 DEF Numbered
<1> QED
  BY <1>8, <1>9, <1>10, <1>11 DEF Good

(* An edit that agrees with the strands beside it. *)
LEMMA EditingKeeps ==
  ASSUME NEW ln, NEW ln2, NEW n \in Nat, Good(ln, n), NEW q, Changed(q, ln, ln2),
         GuardFor(q.with, ln), \A l \in ln : l.id = q.with.id => l.brk = q.with.brk
  PROVE  Good(ln2, n)
<1> DEFINE w == q.with
           E(l) == Edited(l, w)
<1>1. ln2 = {E(l) : l \in ln}
  BY DEF Changed
<1>2. \A l \in ln : /\ E(l).id = l.id /\ E(l).a = l.a /\ E(l).b = l.b /\ E(l).brk = l.brk
                    /\ l.id = w.id /\ l.ver = w.token => E(l).medium = w.medium /\ E(l).ver = l.ver + 1
                    /\ ~(l.id = w.id /\ l.ver = w.token) => E(l) = l
  BY EditedCable
<1>3. OnePerPort(ln) /\ SameId(ln) /\ Agree(ln) /\ Numbered(ln, n)
  BY DEF Good
<1>4. GuardFor(w, ln) /\ \A l \in ln : l.id = w.id => l.brk = w.brk
  OBVIOUS
<1> HIDE DEF E, w
<1>5. \A l, k \in ln : l.id = k.id => E(l).medium = E(k).medium /\ E(l).ver = E(k).ver
  BY <1>2, <1>3 DEF SameId
<1>6. \A l, k \in ln : l.brk # 0 /\ l.brk = k.brk => E(l).medium = E(k).medium
  <2> SUFFICES ASSUME NEW l \in ln, NEW k \in ln, l.brk # 0, l.brk = k.brk
               PROVE  E(l).medium = E(k).medium
    OBVIOUS
  <2>1. CASE l.id = k.id
    BY <1>5, <2>1
  <2>2. CASE l.id # k.id /\ l.id = w.id /\ l.ver = w.token
    BY <1>2, <1>4, <2>2 DEF GuardFor
  <2>3. CASE l.id # k.id /\ k.id = w.id /\ k.ver = w.token
    BY <1>2, <1>4, <2>3 DEF GuardFor
  <2>4. CASE ~(l.id = w.id /\ l.ver = w.token) /\ ~(k.id = w.id /\ k.ver = w.token)
    BY <1>2, <1>3, <2>4 DEF Agree
  <2> QED
    BY <2>1, <2>2, <2>3, <2>4
<1>7. \A e \in ln2 : \E l \in ln : e = E(l)
  BY <1>1
<1>8. OnePerPort(ln2)
  BY <1>2, <1>3, <1>7 DEF OnePerPort
<1>9. SameId(ln2) /\ Agree(ln2) /\ Numbered(ln2, n)
  BY <1>2, <1>3, <1>5, <1>6, <1>7 DEF SameId, Agree, Numbered
<1> QED
  BY <1>8, <1>9 DEF Good

LEMMA RemovingKeeps ==
  ASSUME NEW ln, NEW ln2, NEW n, Good(ln, n), ln2 \subseteq ln
  PROVE  Good(ln2, n)
<1>1. OnePerPort(ln2)
  BY DEF Good, OnePerPort
<1>2. SameId(ln2) /\ Agree(ln2) /\ Numbered(ln2, n)
  BY DEF Good, SameId, Agree, Numbered
<1> QED
  BY <1>1, <1>2 DEF Good

----------------------------------------------------------------------------
(* The other requests, when the transaction of q commits. *)

LEMMA ApartKept ==
  ASSUME NEW ln, NEW ln2, NEW n \in Nat, NEW q, NEW t, ShapeOf(t, n), Apart(t, ln),
         PairApart(t, q), PairApart(q, t), q.op \in Waiting,
         \/ Added(q, ln, ln2) /\ NewCable(q.with, n)
         \/ Changed(q, ln, ln2)
         \/ Removed(q, ln, ln2)
  PROVE  Apart(t, ln2)
<1>1. CASE Added(q, ln, ln2) /\ NewCable(q.with, n)
  <2>1. PICK brk : /\ brk = (IF q.do = "CreateLink" THEN 0 ELSE q.with.id)
                   /\ ln2 = ln \cup Rows(q.with, brk)
    BY <1>1 DEF Added
  <2>2. /\ q.with.id \in IdsOf(q.with)
        /\ \A l \in Rows(q.with, brk) : l.id \in IdsOf(q.with) /\ l.brk = brk
    BY <1>1, RowsOfCable
  <2>3. Creating(q)
    BY <1>1 DEF Added, Creating
  <2>4. ASSUME Creating(t)
        PROVE  \A l \in ln2 : l.id \notin IdsOf(t.with) /\ l.brk \notin IdsOf(t.with)
    <3>1. 0 \notin IdsOf(t.with)
      BY <2>4 DEF ShapeOf, NewCable, IdsOf
    <3>2. IdsOf(q.with) \cap IdsOf(t.with) = {}
      BY <2>3, <2>4 DEF PairApart
    <3>3. \A l \in ln : l.id \notin IdsOf(t.with) /\ l.brk \notin IdsOf(t.with)
      BY <2>4 DEF Apart
    <3> QED
      BY <2>1, <2>2, <3>1, <3>2, <3>3
  <2>5. ASSUME Updating(t)
        PROVE  \A l \in ln2 : l.id = t.with.id => l.brk = t.with.brk
    <3>1. t.with.id \notin IdsOf(q.with)
      BY <2>3, <2>5 DEF PairApart
    <3> QED
      BY <2>1, <2>2, <2>5, <3>1 DEF Apart
  <2> QED
    BY <2>4, <2>5 DEF Apart
<1>2. CASE Changed(q, ln, ln2)
  <2>1. \A e \in ln2 : \E l \in ln : e.id = l.id /\ e.brk = l.brk
    BY <1>2, EditedCable DEF Changed
  <2> QED
    BY <2>1 DEF Apart
<1>3. CASE Removed(q, ln, ln2)
  BY <1>3 DEF Apart, Removed
<1> QED
  BY <1>1, <1>2, <1>3

(* A serializable transaction keeps its ports or is doomed. *)
LEMMA OvertakenFields ==
  ASSUME NEW t, NEW q
  PROVE  /\ Overtaken(t, q).op = t.op /\ Overtaken(t, q).do = t.do /\ Overtaken(t, q).with = t.with
         /\ Overtaken(t, q) = t \/ Overtaken(t, q).doomed
         /\ Serial(t) /\ Conflicts(t, q) => Overtaken(t, q).doomed
         /\ t = Idle => Overtaken(t, q) = t
<1>1. CASE Serial(t) /\ Conflicts(t, q)
  <2>1. Overtaken(t, q) = [t EXCEPT !.doomed = TRUE]
    BY <1>1 DEF Overtaken
  <2>2. t # Idle
    BY <1>1 DEF Serial, Idle
  <2> QED
    BY <2>1, <2>2
<1>2. CASE ~(Serial(t) /\ Conflicts(t, q))
  BY <1>2 DEF Overtaken
<1> QED
  BY <1>1, <1>2

LEMMA ClearKept ==
  ASSUME NEW ln, NEW ln2, NEW n \in Nat, NEW q, NEW t,
         t.op = "open", t.do \in Creates, ~Overtaken(t, q).doomed, ClearFor(t.with, ln),
         \/ Added(q, ln, ln2) /\ NewCable(q.with, n) /\ q.op = "open"
         \/ Changed(q, ln, ln2)
         \/ Removed(q, ln, ln2)
  PROVE  ClearFor(t.with, ln2)
<1>1. CASE Added(q, ln, ln2) /\ NewCable(q.with, n) /\ q.op = "open"
  <2>1. PICK brk : ln2 = ln \cup Rows(q.with, brk)
    BY <1>1 DEF Added
  <2>2. \A l \in Rows(q.with, brk) : l.a \in EndsOf(q.with) /\ l.b \in EndsOf(q.with)
    BY <1>1, RowsOfCable DEF EndsOf
  <2>3. EndsOf(t.with) \cap EndsOf(q.with) = {}
    <3>1. Serial(t) /\ Serial(q)
      BY <1>1 DEF Serial, Creates, Added
    <3>2. /\ ReadPorts(t) = EndsOf(t.with) /\ WritePorts(t) = EndsOf(t.with)
          /\ ReadPorts(q) = EndsOf(q.with) /\ WritePorts(q) = EndsOf(q.with)
      BY <1>1 DEF ReadPorts, WritePorts, EndsOf, Creates, Added
    <3>3. ~Conflicts(t, q)
      BY <3>1, OvertakenFields
    <3> QED
      BY <3>1, <3>2, <3>3 DEF Conflicts
  <2> QED
    BY <2>1, <2>2, <2>3 DEF ClearFor
<1>2. CASE Changed(q, ln, ln2)
  <2>1. \A e \in ln2 : \E l \in ln : e.a = l.a /\ e.b = l.b
    BY <1>2, EditedCable DEF Changed
  <2> QED
    BY <2>1 DEF ClearFor
<1>3. CASE Removed(q, ln, ln2)
  BY <1>3 DEF ClearFor, Removed
<1> QED
  BY <1>1, <1>2, <1>3

(* The edit of a strand: two edits of one breakout can both go through only   *)
(* if they say the same, or if one of the two strands is gone.                *)
LEMMA GuardKept ==
  ASSUME NEW ln, NEW ln2, NEW n \in Nat, Good(ln, n), NEW q, NEW t,
         Updating(t), GuardFor(t.with, ln), Apart(t, ln), PairApart(q, t), q.op \in Waiting,
         \/ Added(q, ln, ln2) /\ NewCable(q.with, n)
         \/ Changed(q, ln, ln2) /\ GuardFor(q.with, ln) /\ Apart(q, ln)
         \/ Removed(q, ln, ln2)
  PROVE  GuardFor(t.with, ln2)
<1> DEFINE w == t.with
<1> SUFFICES ASSUME w.brk # 0, NEW k2 \in ln2, k2.id = w.id,
                    NEW l2 \in ln2, l2.brk = w.brk, l2.id # w.id
             PROVE  l2.medium = w.medium
  BY DEF GuardFor
<1>0. \A k \in ln : k.id = w.id => \A l \in ln : l.brk = w.brk /\ l.id # w.id => l.medium = w.medium
  BY DEF GuardFor
<1>1. CASE Added(q, ln, ln2) /\ NewCable(q.with, n)
  <2>1. PICK brk : /\ brk = (IF q.do = "CreateLink" THEN 0 ELSE q.with.id)
                   /\ ln2 = ln \cup Rows(q.with, brk)
    BY <1>1 DEF Added
  <2>2. /\ q.with.id \in IdsOf(q.with)
        /\ \A l \in Rows(q.with, brk) : l.id \in IdsOf(q.with) /\ l.brk = brk
    BY <1>1, RowsOfCable
  <2>3. w.id \notin IdsOf(q.with) /\ w.brk \notin IdsOf(q.with)
    BY <1>1 DEF PairApart, Added, Creating
  <2>4. k2 \in ln /\ l2 \in ln
    BY <2>1, <2>2, <2>3
  <2> QED
    BY <1>0, <2>4
<1>2. CASE Changed(q, ln, ln2) /\ GuardFor(q.with, ln) /\ Apart(q, ln)
  <2> DEFINE v == q.with
  <2>1. PICK k \in ln, l \in ln : k2 = Edited(k, v) /\ l2 = Edited(l, v)
    BY <1>2 DEF Changed
  <2>2. /\ k2.id = k.id /\ k2.brk = k.brk /\ l2.id = l.id /\ l2.brk = l.brk
        /\ l.id = v.id /\ l.ver = v.token => l2.medium = v.medium
        /\ ~(l.id = v.id /\ l.ver = v.token) => l2 = l
    BY <2>1, EditedCable
  <2>3. l.medium = w.medium /\ k.brk = w.brk
    BY <1>0, <2>2 DEF Apart
  <2>4. k.medium = l.medium
    BY <2>2, <2>3 DEF Good, Agree
  <2>5. CASE l.id = v.id /\ l.ver = v.token
    <3>1. v.brk = w.brk
      BY <1>2, <2>2, <2>5 DEF Apart, Updating, Changed
    <3>2. k.medium = v.medium
      BY <1>2, <2>2, <2>3, <2>5, <3>1 DEF GuardFor
    <3> QED
      BY <2>2, <2>3, <2>4, <2>5, <3>2
  <2>6. CASE ~(l.id = v.id /\ l.ver = v.token)
    BY <2>2, <2>3, <2>6
  <2> QED
    BY <2>5, <2>6
<1>3. CASE Removed(q, ln, ln2)
  BY <1>0, <1>3 DEF Removed
<1> QED
  BY <1>1, <1>2, <1>3

----------------------------------------------------------------------------
(* One step of a request. *)

LEMMA ShapeGrows ==
  ASSUME NEW q, NEW n \in Nat, NEW m \in Nat, n <= m, ShapeOf(q, n)
  PROVE  ShapeOf(q, m)
<1>1. Creating(q) => NewCable(q.with, m)
  <2> SUFFICES ASSUME Creating(q) PROVE NewCable(q.with, m)
    OBVIOUS
  <2>1. NewCable(q.with, n)
    BY DEF ShapeOf
  <2>2. Cardinality(q.with.bs) \in Nat /\ q.with.id \in Nat
    BY <2>1, FS_CardinalityType DEF NewCable
  <2> QED
    BY <2>1, <2>2 DEF NewCable
<1>2. Updating(q) => q.with.id \in 1..m /\ q.with.brk \in 0..m
  BY DEF ShapeOf
<1> QED
  BY <1>1, <1>2 DEF ShapeOf

(* The ids of a cable to come are among those handed out. *)
LEMMA IdsHandedOut ==
  ASSUME NEW w, NEW n \in Nat, NewCable(w, n)
  PROVE  \A i \in IdsOf(w) : i \in 1..n
<1>1. Cardinality(w.bs) \in Nat /\ w.id \in Nat \ {0}
  BY FS_CardinalityType DEF NewCable
<1> QED
  BY <1>1 DEF NewCable, IdsOf

LEMMA IdleFacts ==
  ASSUME NEW q, q = Idle, NEW ln, NEW n
  PROVE  /\ ~Creating(q) /\ ~Updating(q) /\ q.op # "open"
         /\ ShapeOf(q, n) /\ Apart(q, ln) /\ Checked(q, ln)
         /\ \A s : PairApart(q, s) /\ PairApart(s, q)
<1>1. ~Creating(q) /\ ~Updating(q) /\ q.op # "open"
  BY DEF Idle, Creating, Updating, Waiting
<1> QED
  BY <1>1 DEF ShapeOf, Apart, Checked, PairApart

(* A request asks for something, under ids made up for it. *)
AsksWell(do, with, new) ==
  /\ new \in Nat
  /\ do \in Creates => /\ with.id = ids + 1 /\ Cardinality(with.bs) = new /\ with.bs \subseteq Ports
                       /\ IsFiniteSet(with.bs) /\ with.bs # {} /\ with.a \notin with.bs
                       /\ do = "CreateLink" => \E b : with.bs = {b}
  /\ do = "UpdateLink" => \E l \in links : with.id = l.id /\ with.brk = l.brk

LEMMA AskKeeps ==
  ASSUME CablingInv, NEW r \in Requests, NEW do, NEW with, NEW new, AsksWell(do, with, new),
         Ask(r, do, with, new)
  PROVE  CablingInv'
<1> DEFINE q == [op |-> "asked", do |-> do, with |-> with, attempt |-> 1]
           n == ids + new
<1>1. /\ req' = [req EXCEPT ![r] = q] /\ ids' = n /\ links' = links /\ engine' = engine
      /\ ids \in Nat /\ n \in Nat /\ ids <= n
  BY DEF Ask, CablingInv, RequestsInv, stored, AsksWell
<1>2. q.op = "asked" /\ q.do = do /\ q.with = with
  OBVIOUS
<1> HIDE DEF q
<1>3. DOMAIN req' = Requests /\ req'[r] = q /\ \A s \in Requests \ {r} : req'[s] = req[s]
  BY <1>1 DEF CablingInv, RequestsInv
<1>4. ASSUME Creating(q)
      PROVE  /\ NewCable(with, n) /\ (do = "CreateLink" => \E b : with.bs = {b})
             /\ \A i \in IdsOf(with) : i \in Nat /\ i > ids
  <2>1. do \in Creates
    BY <1>2, <1>4 DEF Creating
  <2>2. NewCable(with, n)
    BY <1>1, <2>1 DEF NewCable, AsksWell
  <2> QED
    BY <1>1, <2>1, <2>2 DEF AsksWell, IdsOf
<1>5. ASSUME Updating(q) PROVE \E l \in links : with.id = l.id /\ with.brk = l.brk
  BY <1>2, <1>5 DEF Updating, AsksWell
<1>6. Numbered(links, ids) /\ SameId(links) /\ \A l \in links : l.id \in 1..ids /\ l.brk \in 0..ids
  BY DEF CablingInv, LinksInv, Numbered
<1>7. ShapeOf(q, n)
  BY <1>1, <1>2, <1>4, <1>5, <1>6 DEF ShapeOf, Waiting
<1>8. Apart(q, links)
  BY <1>1, <1>2, <1>4, <1>5, <1>6 DEF Apart, SameId
<1>9. Checked(q, links)
  BY <1>2 DEF Checked
<1>10. \A s \in Requests \ {r} : ShapeOf(req[s], n) /\ Apart(req[s], links) /\ Checked(req[s], links)
  BY <1>1, ShapeGrows DEF CablingInv, RequestsInv
<1>11. \A s \in Requests \ {r} : PairApart(q, req[s]) /\ PairApart(req[s], q)
  <2> SUFFICES ASSUME NEW s \in Requests \ {r} PROVE PairApart(q, req[s]) /\ PairApart(req[s], q)
    OBVIOUS
  <2> DEFINE t == req[s]
  <2>1. ShapeOf(t, ids) /\ Apart(t, links)
    BY DEF CablingInv, RequestsInv
  <2>2. Creating(t) => \A i \in IdsOf(t.with) : i \in 1..ids
    BY <1>1, <2>1, IdsHandedOut DEF ShapeOf
  <2>3. Updating(t) => t.with.id \in 1..ids /\ t.with.brk \in 0..ids
    BY <2>1 DEF ShapeOf
  <2>4. Creating(t) => \A l \in links : l.id \notin IdsOf(t.with) /\ l.brk \notin IdsOf(t.with)
    BY <2>1 DEF Apart
  <2> HIDE DEF t
  <2> QED
    BY <1>1, <1>2, <1>4, <1>5, <2>2, <2>3, <2>4 DEF PairApart, t
<1>12. RequestsInv'
  BY <1>1, <1>2, <1>3, <1>7, <1>8, <1>9, <1>10, <1>11 DEF CablingInv, RequestsInv
<1>13. LinksInv'
  BY <1>1, <1>6 DEF CablingInv, LinksInv, Numbered
<1> QED
  BY <1>12, <1>13 DEF CablingInv

(* Every form and every button asks well. *)
LEMMA AskingKeeps ==
  ASSUME CablingInv, NEW r \in Requests,
         \/ LinkCreate(r) \/ BreakoutCreate(r) \/ LinkUpdate(r) \/ LinkRetire(r)
         \/ InterfaceCreate(r) \/ InterfaceRetire(r)
         \/ PassThroughCreate(r) \/ PassThroughRetire(r)
         \/ AssetRetire(r) \/ AssetUpdate(r)
  PROVE  CablingInv'
<1>1. CASE LinkCreate(r)
  <2>1. PICK a \in BusyPorts, b \in BusyPorts, m \in Media :
          a < b /\ Ask(r, "CreateLink", [id |-> ids + 1, a |-> a, bs |-> {b}, medium |-> m], 1)
    BY <1>1 DEF LinkCreate
  <2>2. Cardinality({b}) = 1 /\ IsFiniteSet({b})
    BY FS_Singleton
  <2>3. a # b /\ b \in Ports
    BY <2>1, PortsAssumption, BusyAssumption
  <2>4. AsksWell("CreateLink", [id |-> ids + 1, a |-> a, bs |-> {b}, medium |-> m], 1)
    BY <2>2, <2>3 DEF AsksWell, Creates
  <2> QED
    BY <2>1, <2>4, AskKeeps
<1>2. CASE BreakoutCreate(r)
  <2>1. PICK a \in BusyPorts, m \in Media : \E bs \in SUBSET (BusyPorts \ {a}) :
          Cardinality(bs) \in 2..MaxStrands /\
          Ask(r, "CreateBreakout", [id |-> ids + 1, a |-> a, bs |-> bs, medium |-> m], Cardinality(bs))
    BY <1>2 DEF BreakoutCreate
  <2>2. PICK bs \in SUBSET (BusyPorts \ {a}) :
          Cardinality(bs) \in 2..MaxStrands /\
          Ask(r, "CreateBreakout", [id |-> ids + 1, a |-> a, bs |-> bs, medium |-> m], Cardinality(bs))
    BY <2>1
  <2>3. IsFiniteSet(bs) /\ bs \subseteq Ports /\ a \notin bs
    <3>1. bs \subseteq BusyPorts /\ a \notin bs
      OBVIOUS
    <3> QED
      BY <3>1, BusyAssumption, FS_Subset
  <2>4. Cardinality(bs) \in Nat /\ Cardinality(bs) # 0
    BY <2>2, BusyAssumption
  <2>5. bs # {}
    BY <2>4, FS_EmptySet
  <2>6. AsksWell("CreateBreakout", [id |-> ids + 1, a |-> a, bs |-> bs, medium |-> m], Cardinality(bs))
    BY <2>3, <2>4, <2>5 DEF AsksWell, Creates
  <2> QED
    BY <2>2, <2>6, AskKeeps
<1>3. CASE LinkUpdate(r)
  <2>1. PICK l \in links, m \in Media :
          Ask(r, "UpdateLink", [id |-> l.id, brk |-> l.brk, medium |-> m, token |-> l.ver], 0)
    BY <1>3 DEF LinkUpdate
  <2>2. AsksWell("UpdateLink", [id |-> l.id, brk |-> l.brk, medium |-> m, token |-> l.ver], 0)
    BY DEF AsksWell, Creates
  <2> QED
    BY <2>1, <2>2, AskKeeps
<1>4. ASSUME NEW do, do \notin Creates, do # "UpdateLink", NEW with, NEW new \in Nat,
             Ask(r, do, with, new)
      PROVE  CablingInv'
  <2>1. AsksWell(do, with, new)
    BY <1>4 DEF AsksWell
  <2> QED
    BY <1>4, <2>1, AskKeeps
<1>5. CASE LinkRetire(r) \/ PassThroughRetire(r)
  BY <1>4, <1>5 DEF LinkRetire, PassThroughRetire, Creates
<1>6. CASE InterfaceCreate(r) \/ InterfaceRetire(r)
  BY <1>4, <1>6 DEF InterfaceCreate, InterfaceRetire, Creates
<1>7. CASE PassThroughCreate(r)
  BY <1>4, <1>7 DEF PassThroughCreate, Creates
<1>8. CASE AssetRetire(r) \/ AssetUpdate(r)
  BY <1>4, <1>8 DEF AssetRetire, AssetUpdate, Creates
<1> QED
  BY <1>1, <1>2, <1>3, <1>5, <1>6, <1>7, <1>8

(* The checks of a transaction say what the invariant keeps of them. *)
LEMMA PassesChecks ==
  ASSUME NEW q, Passes(q), NEW n, ShapeOf(q, n), q.op \in Waiting
  PROVE  /\ q.do \in Creates => ClearFor(q.with, links)
         /\ q.do = "UpdateLink" => GuardFor(q.with, links)
<1>1. q.do \in Creates => ClearFor(q.with, links)
  BY DEF Passes, Creates, ClearFor, EndsOf, Unpatched, Cables
<1>2. q.do = "UpdateLink" => GuardFor(q.with, links)
  BY DEF Passes, requireNoBreakoutDrift, GuardFor
<1> QED
  BY <1>1, <1>2

LEMMA OpenedFields ==
  ASSUME NEW q
  PROVE  /\ Opened(q).op = "open" /\ Opened(q).do = q.do /\ Opened(q).with = q.with
         /\ Opened(q) # Idle
BY DEF Opened, Idle

(* A request that only changes its own state, and neither what it asked for   *)
(* nor whether it is open, unless it goes back to the start.                  *)
LEMMA RequestMoves ==
  ASSUME CablingInv, NEW r \in Requests, NEW q, req' = [req EXCEPT ![r] = q],
         q = Idle \/ (q.op \in Waiting /\ q.do = req[r].do /\ q.with = req[r].with
                      /\ req[r].op \in Waiting),
         Checked(q, links), engine = "sqlite" => q.op # "open",
         links' = links, ids' = ids, engine' = engine
  PROVE  CablingInv'
<1>1. DOMAIN req' = Requests /\ req'[r] = q /\ \A s \in Requests \ {r} : req'[s] = req[s]
  BY DEF CablingInv, RequestsInv
<1>2. /\ ShapeOf(req[r], ids) /\ Apart(req[r], links)
      /\ \A s \in Requests \ {r} : PairApart(req[r], req[s]) /\ PairApart(req[s], req[r])
  BY DEF CablingInv, RequestsInv
<1>3. /\ ShapeOf(q, ids) /\ Apart(q, links)
      /\ \A s \in Requests \ {r} : PairApart(q, req[s]) /\ PairApart(req[s], q)
  <2>1. CASE q = Idle
    BY <2>1, IdleFacts
  <2>2. CASE q.op \in Waiting /\ q.do = req[r].do /\ q.with = req[r].with /\ req[r].op \in Waiting
    <3>1. (Creating(q) <=> Creating(req[r])) /\ (Updating(q) <=> Updating(req[r]))
      BY <2>2 DEF Creating, Updating
    <3>2. ShapeOf(q, ids)
      BY <1>2, <2>2, <3>1 DEF ShapeOf
    <3>3. Apart(q, links)
      BY <1>2, <2>2, <3>1 DEF Apart
    <3>4. \A s \in Requests \ {r} : PairApart(q, req[s]) /\ PairApart(req[s], q)
      BY <1>2, <2>2, <3>1 DEF PairApart
    <3> QED
      BY <3>2, <3>3, <3>4
  <2> QED
    BY <2>1, <2>2
<1>4. RequestsInv'
  BY <1>1, <1>3 DEF CablingInv, RequestsInv
<1>5. LinksInv'
  BY DEF CablingInv, LinksInv
<1> QED
  BY <1>4, <1>5 DEF CablingInv

LEMMA RefusedKeeps ==
  ASSUME CablingInv, NEW r \in Requests, Refused(r)
  PROVE  CablingInv'
<1>1. req' = [req EXCEPT ![r] = Idle] /\ links' = links /\ ids' = ids /\ engine' = engine
  BY DEF Refused, stored
<1>2. Checked(Idle, links) /\ Idle.op # "open"
  BY IdleFacts
<1> QED
  BY <1>1, <1>2, RequestMoves

LEMMA OpenKeeps ==
  ASSUME CablingInv, NEW r \in Requests, OpenTx(r)
  PROVE  CablingInv'
<1>1. CASE Passes(req[r]) /\ req' = [req EXCEPT ![r] = Opened(req[r])]
           /\ UNCHANGED <<engine, stored, ids, started>>
  <2> DEFINE q == Opened(req[r])
  <2>1. /\ req[r].op = "asked" /\ engine = "postgres" /\ ShapeOf(req[r], ids)
        /\ links' = links /\ ids' = ids /\ engine' = engine /\ req' = [req EXCEPT ![r] = q]
    BY <1>1 DEF OpenTx, CablingInv, RequestsInv, stored
  <2>2. q.op = "open" /\ q.do = req[r].do /\ q.with = req[r].with
    BY OpenedFields
  <2> HIDE DEF q
  <2>3. Checked(q, links)
    BY <1>1, <2>1, <2>2, PassesChecks DEF Checked, Waiting
  <2> QED
    BY <2>1, <2>2, <2>3, RequestMoves DEF Waiting
<1>2. CASE Refused(r)
  BY <1>2, RefusedKeeps
<1> QED
  BY <1>1, <1>2 DEF OpenTx

LEMMA AbortKeeps ==
  ASSUME CablingInv, NEW r \in Requests, AbortTx(r)
  PROVE  CablingInv'
<1> DEFINE again == [op |-> "asked", do |-> req[r].do, with |-> req[r].with,
                     attempt |-> req[r].attempt + 1]
<1>1. /\ req[r].op = "open" /\ links' = links /\ ids' = ids /\ engine' = engine
      /\ req' = [req EXCEPT ![r] = again] \/ req' = [req EXCEPT ![r] = Idle]
  BY DEF AbortTx, Serial, stored
<1>2. again.op = "asked" /\ again.do = req[r].do /\ again.with = req[r].with
  OBVIOUS
<1>3. Checked(Idle, links) /\ Idle.op # "open"
  BY IdleFacts
<1> HIDE DEF again
<1>4. Checked(again, links) /\ again.op # "open" /\ again.op \in Waiting /\ req[r].op \in Waiting
  BY <1>1, <1>2 DEF Checked, Waiting
<1>5. CASE req' = [req EXCEPT ![r] = again]
  BY <1>1, <1>2, <1>4, <1>5, RequestMoves
<1>6. CASE req' = [req EXCEPT ![r] = Idle]
  BY <1>1, <1>3, <1>6, RequestMoves
<1> QED
  BY <1>1, <1>5, <1>6

(* A transaction is executed: q is the request as it stands, t another one    *)
(* and u what becomes of that.                                                *)
LEMMA ExecuteKeeps ==
  ASSUME CablingInv, NEW r \in Requests, NEW q, Execute(q),
         q.op = "open", req[r].op \in Waiting, q.do = req[r].do, q.with = req[r].with,
         q.do \in Creates => ClearFor(q.with, links),
         q.do = "UpdateLink" => GuardFor(q.with, links),
         DOMAIN req' = Requests, req'[r] = Idle,
         \/ \A s \in Requests \ {r} : req'[s] = Overtaken(req[s], q)
         \/ engine = "sqlite" /\ \A s \in Requests \ {r} : req'[s] = req[s]
  PROVE  CablingInv'
<1>1. /\ Added(q, links, links') \/ Changed(q, links, links') \/ Removed(q, links, links')
      /\ engine' = engine /\ ids' = ids
  BY EffectOnCables
<1>2. /\ ids \in Nat /\ Good(links, ids)
      /\ ShapeOf(req[r], ids) /\ Apart(req[r], links)
      /\ \A s \in Requests \ {r} : PairApart(req[r], req[s]) /\ PairApart(req[s], req[r])
  BY DEF CablingInv, RequestsInv, LinksInv, Good
<1>3. (Creating(q) <=> Creating(req[r])) /\ (Updating(q) <=> Updating(req[r])) /\ q.op \in Waiting
  BY DEF Creating, Updating, Waiting
<1>4. /\ \A s \in Requests \ {r} : PairApart(q, req[s]) /\ PairApart(req[s], q)
      /\ Apart(q, links)
  BY <1>2, <1>3 DEF PairApart, Apart
<1>5. q.do \in Creates =>
        /\ NewCable(q.with, ids) /\ (q.do = "CreateLink" => \E b : q.with.bs = {b})
        /\ \A l \in links : l.id \notin IdsOf(q.with) /\ l.brk \notin IdsOf(q.with)
  BY <1>2, <1>3 DEF ShapeOf, Apart, Creating
<1>6. q.do = "UpdateLink" => \A l \in links : l.id = q.with.id => l.brk = q.with.brk
  BY <1>2, <1>3 DEF Apart, Updating
<1>7. Good(links', ids)
  <2>1. CASE Added(q, links, links')
    <3>1. q.do \in Creates
      BY <2>1 DEF Added
    <3> QED
      BY <1>2, <1>5, <2>1, <3>1, AddingKeeps
  <2>2. CASE Changed(q, links, links')
    <3>1. q.do = "UpdateLink"
      BY <2>2 DEF Changed
    <3> QED
      BY <1>2, <1>6, <2>2, <3>1, EditingKeeps
  <2>3. CASE Removed(q, links, links')
    BY <1>2, <2>3, RemovingKeeps DEF Removed
  <2> QED
    BY <1>1, <2>1, <2>2, <2>3
<1>8. \/ Added(q, links, links') /\ NewCable(q.with, ids)
      \/ Changed(q, links, links') /\ GuardFor(q.with, links)
      \/ Removed(q, links, links')
  BY <1>1, <1>5 DEF Added, Changed
<1>9. ASSUME NEW s \in Requests \ {r}
      PROVE  /\ req'[s].op = req[s].op /\ req'[s].do = req[s].do /\ req'[s].with = req[s].with
             /\ req[s] = Idle => req'[s] = Idle
             /\ ShapeOf(req'[s], ids) /\ Apart(req'[s], links') /\ Checked(req'[s], links')
  <2> DEFINE t == req[s]
             u == req'[s]
  <2>0. (engine = "sqlite" /\ u = t) \/ u = Overtaken(t, q)
    OBVIOUS
  <2>2. ShapeOf(t, ids) /\ Apart(t, links) /\ Checked(t, links)
    BY DEF CablingInv, RequestsInv
  <2>3. engine = "sqlite" => t.op # "open"
    BY DEF CablingInv, RequestsInv
  <2>p. PairApart(q, t) /\ PairApart(t, q)
    BY <1>4
  <2> HIDE DEF t, u
  <2>1. /\ u.op = t.op /\ u.do = t.do /\ u.with = t.with /\ (t = Idle => u = Idle)
        /\ engine = "sqlite" \/ u = Overtaken(t, q)
    BY <2>0, OvertakenFields
  <2>4. u = t \/ u.doomed
    BY <2>0, OvertakenFields
  <2>5. (Creating(u) <=> Creating(t)) /\ (Updating(u) <=> Updating(t))
    BY <2>1 DEF Creating, Updating
  <2>6. ShapeOf(u, ids)
    BY <2>1, <2>2, <2>5 DEF ShapeOf
  <2>7. Apart(t, links')
    BY <1>2, <1>3, <1>8, <2>2, <2>p, ApartKept
  <2>8. Apart(u, links')
    BY <2>1, <2>5, <2>7 DEF Apart
  <2>9. Checked(u, links')
    <3>1. ASSUME u.op = "open", u.do \in Creates, ~u.doomed PROVE ClearFor(u.with, links')
      <4>1. u = t /\ u = Overtaken(t, q)
        BY <2>1, <2>3, <2>4, <3>1
      <4>2. t.op = "open" /\ t.do \in Creates /\ ~t.doomed /\ ~Overtaken(t, q).doomed
        BY <3>1, <4>1
      <4>3. ClearFor(t.with, links)
        BY <2>2, <4>2 DEF Checked
      <4>4. ClearFor(t.with, links')
        BY <1>2, <1>8, <4>2, <4>3, ClearKept
      <4> QED
        BY <4>1, <4>4
    <3>2. ASSUME u.op = "open", u.do = "UpdateLink" PROVE GuardFor(u.with, links')
      <4>1. Updating(t) /\ GuardFor(t.with, links)
        BY <2>1, <2>2, <3>2 DEF Updating, Waiting, Checked
      <4>2. GuardFor(t.with, links')
        BY <1>2, <1>3, <1>4, <1>8, <2>2, <2>p, <4>1, GuardKept
      <4> QED
        BY <2>1, <4>2
    <3> QED
      BY <3>1, <3>2 DEF Checked
  <2> QED
    BY <2>1, <2>6, <2>8, <2>9 DEF t, u
<1>10. ShapeOf(req'[r], ids) /\ Apart(req'[r], links') /\ Checked(req'[r], links') /\ req'[r].op # "open"
       /\ \A s : PairApart(req'[r], s) /\ PairApart(s, req'[r])
  BY IdleFacts
<1>11. \A s, t \in Requests : s # t => PairApart(req'[s], req'[t])
  <2> SUFFICES ASSUME NEW s \in Requests, NEW t \in Requests, s # t PROVE PairApart(req'[s], req'[t])
    OBVIOUS
  <2>1. CASE s = r \/ t = r
    BY <1>10, <2>1
  <2>2. CASE s # r /\ t # r
    <3>1. PairApart(req[s], req[t])
      BY DEF CablingInv, RequestsInv
    <3>2. /\ req'[s].op = req[s].op /\ req'[s].do = req[s].do /\ req'[s].with = req[s].with
          /\ req'[t].op = req[t].op /\ req'[t].do = req[t].do /\ req'[t].with = req[t].with
      BY <1>9, <2>2
    <3>3. (Creating(req'[s]) <=> Creating(req[s])) /\ (Creating(req'[t]) <=> Creating(req[t]))
          /\ (Updating(req'[t]) <=> Updating(req[t]))
      BY <3>2 DEF Creating, Updating
    <3> QED
      BY <3>1, <3>2, <3>3 DEF PairApart
  <2> QED
    BY <2>1, <2>2
<1>12. engine' = "sqlite" => \A s \in Requests : req'[s].op # "open"
  BY <1>1, <1>9, <1>10 DEF CablingInv, RequestsInv
<1>13. RequestsInv'
  <2>1. \A s \in Requests : ShapeOf(req'[s], ids') /\ Apart(req'[s], links') /\ Checked(req'[s], links')
    BY <1>1, <1>9, <1>10
  <2> QED
    BY <1>1, <1>2, <1>11, <1>12, <2>1 DEF RequestsInv
<1>14. LinksInv'
  BY <1>1, <1>7 DEF LinksInv, Good
<1> QED
  BY <1>13, <1>14 DEF CablingInv

LEMMA CommitKeeps ==
  ASSUME CablingInv, NEW r \in Requests, CommitTx(r)
  PROVE  CablingInv'
<1>1. /\ req[r].op = "open" /\ ~req[r].doomed /\ Execute(req[r])
      /\ req' = [t \in Requests |-> IF t = r THEN Idle ELSE Overtaken(req[t], req[r])]
  BY DEF CommitTx
<1>2. /\ DOMAIN req' = Requests /\ req'[r] = Idle
      /\ \A s \in Requests \ {r} : req'[s] = Overtaken(req[s], req[r])
  BY <1>1
<1>3. Checked(req[r], links)
  BY DEF CablingInv, RequestsInv
<1> QED
  BY <1>1, <1>2, <1>3, ExecuteKeeps DEF Checked, Waiting

LEMMA RunKeeps ==
  ASSUME CablingInv, NEW r \in Requests, RunTx(r)
  PROVE  CablingInv'
<1>1. CASE Passes(req[r]) /\ Execute(Opened(req[r])) /\ req' = [req EXCEPT ![r] = Idle]
  <2> DEFINE q == Opened(req[r])
  <2>1. req[r].op = "asked" /\ engine = "sqlite" /\ ShapeOf(req[r], ids)
    BY DEF RunTx, CablingInv, RequestsInv
  <2>2. q.op = "open" /\ q.do = req[r].do /\ q.with = req[r].with /\ Execute(q)
    BY <1>1, OpenedFields
  <2> HIDE DEF q
  <2>3. /\ q.do \in Creates => ClearFor(q.with, links)
        /\ q.do = "UpdateLink" => GuardFor(q.with, links)
    BY <1>1, <2>1, <2>2, PassesChecks DEF Waiting
  <2>4. DOMAIN req' = Requests /\ req'[r] = Idle /\ \A s \in Requests \ {r} : req'[s] = req[s]
    BY <1>1 DEF CablingInv, RequestsInv
  <2> QED
    BY <2>1, <2>2, <2>3, <2>4, ExecuteKeeps DEF Waiting
<1>2. CASE Refused(r)
  BY <1>2, RefusedKeeps
<1> QED
  BY <1>1, <1>2 DEF RunTx

LEMMA NextCablingInv == CablingInv /\ [Next]_vars => CablingInv'
<1> SUFFICES ASSUME CablingInv, [Next]_vars PROVE CablingInv'
  OBVIOUS
<1>1. CASE UNCHANGED vars
  BY <1>1 DEF vars, CablingInv, LinksInv, RequestsInv
<1>2. ASSUME NEW r \in Requests, RunTx(r) \/ OpenTx(r) \/ CommitTx(r) \/ AbortTx(r) PROVE CablingInv'
  BY <1>2, RunKeeps, OpenKeeps, CommitKeeps, AbortKeeps
<1> QED
  BY <1>1, <1>2, AskingKeeps DEF Next

LEMMA InitCablingInv == Init => CablingInv
<1> SUFFICES ASSUME Init PROVE CablingInv
  OBVIOUS
<1>1. PICK plant \in Plants, m \in Media :
        /\ links = {[id |-> l.id, a |-> l.a, b |-> l.b, brk |-> l.brk, medium |-> m, ver |-> 1]
                     : l \in plant.links}
        /\ ids = Cardinality(plant.links) + Cardinality(plant.strands)
  BY DEF Init
<1>2. /\ ids \in Nat
      /\ \A l \in plant.links : l.id \in 1..ids /\ l.brk \in 0..ids
      /\ \A l, k \in plant.links : l # k =>
           /\ l.id # k.id
           /\ \A p \in {l.a, l.b} \cap {k.a, k.b} : l.brk # 0 /\ l.brk = k.brk /\ p = l.a /\ p = k.a
  BY <1>1, PlantsAssumption
<1>3. \A x \in links : \E l \in plant.links :
        x.id = l.id /\ x.a = l.a /\ x.b = l.b /\ x.brk = l.brk /\ x.medium = m /\ x.ver = 1
  BY <1>1
<1>4. OnePerPort(links)
  <2> SUFFICES ASSUME NEW p \in Ports, NEW x \in links, NEW y \in links,
                      p \in {x.a, x.b}, p \in {y.a, y.b}, x.id # y.id
               PROVE  x.brk # 0 /\ x.brk = y.brk /\ p = x.a /\ p = y.a
    BY DEF OnePerPort
  <2>1. PICK l \in plant.links : x.id = l.id /\ x.a = l.a /\ x.b = l.b /\ x.brk = l.brk
    BY <1>3
  <2>2. PICK k \in plant.links : y.id = k.id /\ y.a = k.a /\ y.b = k.b /\ y.brk = k.brk
    BY <1>3
  <2>3. l # k /\ p \in {l.a, l.b} \cap {k.a, k.b}
    BY <2>1, <2>2
  <2> QED
    BY <1>2, <2>1, <2>2, <2>3
<1>5. SameId(links) /\ Agree(links) /\ Numbered(links, ids)
  BY <1>2, <1>3 DEF SameId, Agree, Numbered
<1>6. \A r \in Requests : req[r] = Idle
  BY DEF Init
<1>7. /\ \A r \in Requests : ShapeOf(req[r], ids) /\ Apart(req[r], links) /\ Checked(req[r], links)
      /\ \A r, s \in Requests : PairApart(req[r], req[s])
      /\ \A r \in Requests : req[r].op # "open"
  BY <1>6, IdleFacts
<1> QED
  BY <1>2, <1>4, <1>5, <1>7 DEF Init, CablingInv, LinksInv, RequestsInv

(* The live strands of a breakout agree on medium and length, although        *)
(* UpdateLink reads them at READ COMMITTED: for any number of strands and of  *)
(* edits, withdrawals and breakouts made at the same time.                    *)
THEOREM BreakoutsAlwaysAgree == Spec => []BreakoutAgrees
<1>1. CablingInv => BreakoutAgrees
  BY DEF CablingInv, LinksInv, Agree, BreakoutAgrees
<1> QED
  BY <1>1, InitCablingInv, NextCablingInv, PTL DEF Spec

----------------------------------------------------------------------------
(* On SQLite, where a transaction is one step, a withdrawn port has no cable. *)
PortInv ==
  /\ engine = "sqlite" => \A p \in Ports : port[p].life = "retired" =>
                            \A l \in links : p \notin {l.a, l.b}
  /\ DOMAIN port = Ports
  /\ CablingInv

LEMMA PortsOnExecute ==
  ASSUME PortInv, NEW r \in Requests, RunTx(r), Passes(req[r]), Execute(Opened(req[r]))
  PROVE  /\ \A p \in Ports : port'[p].life = "retired" => \A l \in links' : p \notin {l.a, l.b}
         /\ DOMAIN port' = Ports
<1> DEFINE q == Opened(req[r])
<1>1. /\ engine = "sqlite" /\ req[r].op = "asked" /\ ShapeOf(req[r], ids) /\ DOMAIN port = Ports
      /\ \A p \in Ports : port[p].life = "retired" => \A l \in links : p \notin {l.a, l.b}
  BY DEF RunTx, PortInv, CablingInv, RequestsInv
<1>2. /\ q.op = "open" /\ q.do = req[r].do /\ q.with = req[r].with
      /\ req[r].do = "CreateInterface" => q.found = port[q.with.port].ver
  BY OpenedFields DEF Opened
<1>3. Execute(q) /\ Passes(req[r])
  OBVIOUS
<1> HIDE DEF q
<1>4. Added(q, links, links') \/ Changed(q, links, links') \/ Removed(q, links, links')
  BY <1>3, EffectOnCables
<1>5. CASE q.do \in Creates
  <2>1. NewCable(q.with, ids) /\ port' = port
    BY <1>1, <1>2, <1>3, <1>5 DEF ShapeOf, Creating, Waiting, Execute, CreateLink, CreateBreakout,
         UpdateLink, RetireLink, CreateInterface, RetireInterface, CreatePassThrough,
         RetirePassThrough, RetireAsset, UpdateAsset, Creates
  <2>2. PICK brk : links' = links \cup Rows(q.with, brk)
    BY <1>4, <1>5 DEF Added, Changed, Removed, Creates
  <2>3. \A l \in Rows(q.with, brk) : l.a \in EndsOf(q.with) /\ l.b \in EndsOf(q.with)
    BY <2>1, RowsOfCable DEF EndsOf
  <2>4. \A p \in EndsOf(q.with) : port[p].life = "active"
    BY <1>2, <1>3, <1>5 DEF Passes, requireLiveInterface, EndsOf, Creates
  <2>5. "active" # "retired"
    OBVIOUS
  <2> QED
    BY <1>1, <2>1, <2>2, <2>3, <2>4, <2>5
<1>6. CASE q.do \notin Creates
  <2>1. \A l2 \in links' : \E l \in links : l2.a = l.a /\ l2.b = l.b
    BY <1>4, <1>6, EditedCable DEF Added, Changed, Removed
  <2>2. CASE port' = port
    BY <1>1, <2>1, <2>2
  <2>3. CASE CreateInterface(q)
    <3>1. /\ port' = [port EXCEPT ![q.with.port] =
                        IF @.ver = q.found THEN [life |-> "active", ver |-> @.ver + 1] ELSE @]
      BY <2>3 DEF CreateInterface, SetPort
    <3>2. \A p \in Ports : port'[p].life = "retired" => port[p].life = "retired"
      BY <1>1, <3>1
    <3>3. DOMAIN port' = Ports
      BY <1>1, <3>1
    <3> QED
      BY <1>1, <2>1, <3>2, <3>3
  <2>4. CASE RetireInterface(q)
    <3>1. /\ DOMAIN port' = Ports /\ q.do = "RetireInterface"
          /\ \A p \in Ports \ {q.with.port} : port'[p] = port[p]
      BY <1>1, <2>4 DEF RetireInterface, SetPort
    <3>2. \A l \in links : q.with.port \notin {l.a, l.b}
      BY <1>2, <1>3, <3>1 DEF Passes, attachmentHolds, Cables
    <3> QED
      BY <1>1, <2>1, <3>1, <3>2
  <2> QED
    BY <1>3, <2>2, <2>3, <2>4 DEF Execute, CreateLink, CreateBreakout, UpdateLink, RetireLink,
         CreatePassThrough, RetirePassThrough, RetireAsset, UpdateAsset
<1> QED
  BY <1>5, <1>6

LEMMA NextPortInv == PortInv /\ [Next]_vars => PortInv'
<1> SUFFICES ASSUME PortInv, [Next]_vars PROVE PortInv'
  OBVIOUS
<1>0. CablingInv'
  BY NextCablingInv DEF PortInv
<1>1. CASE engine' = engine /\ port' = port /\ links' = links
  BY <1>0, <1>1 DEF PortInv
<1>2. ASSUME NEW r \in Requests, RunTx(r), ~Refused(r) PROVE PortInv'
  <2>1. Passes(req[r]) /\ Execute(Opened(req[r])) /\ engine' = engine
    BY <1>2 DEF RunTx, Execute
  <2> QED
    BY <1>0, <1>2, <2>1, PortsOnExecute DEF PortInv
<1>3. ASSUME NEW r \in Requests, CommitTx(r) PROVE PortInv'
  <2>1. engine # "sqlite" /\ engine' = engine
    BY <1>3 DEF CommitTx, PortInv, CablingInv, RequestsInv, Execute
  <2>2. DOMAIN port' = Ports
    BY <1>3 DEF CommitTx, PortInv, Execute, CreateLink, CreateBreakout, UpdateLink, RetireLink,
         CreateInterface, RetireInterface, SetPort, CreatePassThrough, RetirePassThrough,
         RetireAsset, UpdateAsset
  <2> QED
    BY <1>0, <2>1, <2>2 DEF PortInv
<1>4. ASSUME NEW r \in Requests, Refused(r) PROVE PortInv'
  BY <1>1, <1>4 DEF Refused, stored
<1>5. ASSUME NEW r \in Requests, OpenTx(r) \/ AbortTx(r) PROVE PortInv'
  <2>1. engine' = engine /\ port' = port /\ links' = links
    BY <1>5 DEF OpenTx, Refused, AbortTx, stored
  <2> QED
    BY <1>1, <2>1
<1>6. ASSUME NEW r \in Requests, NEW do, NEW with, NEW new, Ask(r, do, with, new) PROVE PortInv'
  <2>1. engine' = engine /\ port' = port /\ links' = links
    BY <1>6 DEF Ask, stored
  <2> QED
    BY <1>1, <2>1
<1>7. ASSUME NEW r \in Requests,
             \/ LinkCreate(r) \/ BreakoutCreate(r) \/ LinkUpdate(r) \/ LinkRetire(r)
             \/ InterfaceCreate(r) \/ InterfaceRetire(r)
             \/ PassThroughCreate(r) \/ PassThroughRetire(r)
             \/ AssetRetire(r) \/ AssetUpdate(r)
      PROVE  PortInv'
  BY <1>6, <1>7 DEF LinkCreate, BreakoutCreate, LinkUpdate, LinkRetire, InterfaceCreate,
       InterfaceRetire, PassThroughCreate, PassThroughRetire, AssetRetire, AssetUpdate
<1>8. CASE UNCHANGED vars
  BY <1>1, <1>8 DEF vars
<1> QED
  BY <1>2, <1>3, <1>4, <1>5, <1>7, <1>8 DEF Next

(* The ports are sound, for any plant and any number of concurrent requests:  *)
(* never cabled twice on either engine, because of two serializable           *)
(* transactions that patch one port the second to commit is doomed            *)
(* (CreateLink, CreateBreakout), and on SQLite never withdrawn under a cable  *)
(* (RetireInterface).                                                         *)
THEOREM PortsAlwaysSound == Spec => []PortsAreSound
<1>1. Init => PortInv
  <2> SUFFICES ASSUME Init PROVE PortInv
    OBVIOUS
  <2>1. DOMAIN port = Ports /\ \A p \in Ports : port[p].life # "retired"
    BY DEF Init
  <2> QED
    BY <2>1, InitCablingInv DEF PortInv
<1>2. PortInv => PortsAreSound
  <2> SUFFICES ASSUME PortInv PROVE PortsAreSound
    OBVIOUS
  <2>1. OneCablePerPort
    BY DEF PortInv, CablingInv, LinksInv, OnePerPort, OneCablePerPort, Cables
  <2>2. WithdrawnPortIsUncabled
    BY DEF PortInv, WithdrawnPortIsUncabled, Cables
  <2> QED
    BY <2>1, <2>2 DEF PortsAreSound
<1> QED
  BY <1>1, <1>2, NextPortInv, PTL DEF Spec
=============================================================================
