---------------------------- MODULE WritesProofs ----------------------------
(***************************************************************************)
(* Theorems about the write path of the store, for any catalogue and any   *)
(* number of concurrent requests.                                          *)
(***************************************************************************)
EXTENDS WriteRules, TLAPS

----------------------------------------------------------------------------
(* The requests.  What a request holds has the fields of its stage, and names *)
(* an operation of the scenario.                                              *)

FormFields == {"op", "side", "do", "attempt", "left", "shown", "token"}
AskedFields == {"op", "side", "do", "attempt", "shown", "token", "want", "before"}
OpenFields == AskedFields \cup {"seen", "moved", "out", "doomed"}

Meant(c, q) == Scenarios[c][q.side][q.do]
Named(c, q) == q.side \in Sides /\ q.do \in DOMAIN Scenarios[c][q.side]
Shaped(c, e, q) ==
  \/ q = Idle
  \/ q.op \in {"drawing", "form"} /\ DOMAIN q = FormFields /\ Named(c, q)
  \/ q.op = "asked" /\ DOMAIN q = AskedFields /\ Named(c, q) /\ q.want \in Values(Meant(c, q))
  \/ /\ q.op = "open" /\ DOMAIN q = OpenFields /\ Named(c, q) /\ q.want \in Values(Meant(c, q))
     /\ q.doomed \in BOOLEAN /\ q.moved \in BOOLEAN /\ q.out \in BOOLEAN /\ e = "postgres"

RequestsInv ==
  /\ scen \in DOMAIN Scenarios /\ engine \in Engines
  /\ DOMAIN row = Sides /\ DOMAIN req = Requests
  /\ \A r \in Requests : Shaped(scen, engine, req[r])

LEMMA IdleOp == Idle.op = "idle"
BY DEF Idle

LEMMA AskedShape ==
  ASSUME NEW s \in Sides, NEW n \in DOMAIN Scenarios[scen][s], NEW shown, NEW token,
         NEW want \in Values(Scenarios[scen][s][n])
  PROVE  LET q == Asked(s, n, shown, token, want) IN
         Shaped(scen, engine, q) /\ q.op = "asked" /\ q.side = s /\ q.do = n /\ q.want = want /\ q.before = Cols(row[s])
<1> DEFINE q == Asked(s, n, shown, token, want)
<1>1. /\ q.op = "asked" /\ q.side = s /\ q.do = n /\ q.want = want /\ q.before = Cols(row[s])
      /\ DOMAIN q = AskedFields
  BY DEF Asked, AskedFields
<1> HIDE DEF q
<1>2. Shaped(scen, engine, q)
  BY <1>1 DEF Shaped, Named, Meant
<1> QED
  BY <1>1, <1>2 DEF q

LEMMA RedrawnShape ==
  ASSUME NEW q, Named(scen, q), NEW how PROVE Shaped(scen, engine, Redrawn(q, how)) /\ Redrawn(q, how).op \in {"idle", "form"}
<1>1. CASE how = "page"
  BY <1>1, IdleOp DEF Redrawn, Shaped
<1>2. CASE how # "page"
  <2> DEFINE p == Redrawn(q, how)
  <2>1. p.op = "form" /\ p.side = q.side /\ p.do = q.do /\ DOMAIN p = FormFields
    BY <1>2 DEF Redrawn, FormFields
  <2> HIDE DEF p
  <2>2. Shaped(scen, engine, p)
    BY <2>1 DEF Shaped, Named
  <2> QED
    BY <2>1, <2>2 DEF p
<1> QED
  BY <1>1, <1>2

LEMMA RefusalsShape ==
  ASSUME NEW q, Named(scen, q), NEW f, NEW answer \in Refusals(f, q)
  PROVE  Shaped(scen, engine, answer) /\ answer.op \in {"idle", "form"}
BY RedrawnShape DEF Refusals

LEMMA AnswerShape ==
  ASSUME NEW q, Named(scen, q), NEW f
  PROVE  Shaped(scen, engine, Answer(f, q)) /\ Answer(f, q).op \in {"idle", "form"}
<1>1. Shaped(scen, engine, Idle)
  BY DEF Shaped
<1> QED
  BY <1>1, RedrawnShape, IdleOp DEF Answer, Stale

LEMMA LookedShape ==
  ASSUME NEW q, NEW f, q.op = "asked", Shaped(scen, engine, q), engine = "postgres"
  PROVE  Shaped(scen, engine, Looked(f, q))
<1> DEFINE p == Looked(f, q)
<1>1. /\ p.op = "open" /\ p.side = q.side /\ p.do = q.do /\ p.want = q.want
      /\ p.doomed = FALSE /\ p.moved = FALSE /\ p.out = FALSE /\ DOMAIN p = OpenFields
  BY DEF Looked, OpenFields, AskedFields
<1>2. Named(scen, q) /\ q.want \in Values(Meant(scen, q))
  BY IdleOp DEF Shaped
<1> HIDE DEF p
<1>3. Named(scen, p) /\ p.want \in Values(Meant(scen, p))
  BY <1>1, <1>2 DEF Named, Meant
<1> QED
  BY <1>1, <1>3 DEF Shaped, p

LEMMA DoomShape ==
  ASSUME NEW p, p.op = "open", Shaped(scen, engine, p), NEW k, NEW f, NEW q, NEW wrote
  PROVE  LET d == Doom(k, p, f, q, wrote) IN
         /\ Shaped(scen, engine, d) /\ d.op = "open" /\ d.side = p.side /\ d.do = p.do /\ d.want = p.want /\ d.before = p.before
         /\ p.doomed => d.doomed
         /\ Serial(k, p) /\ Serial(f, q) /\ ReadSides(k, p) \cap wrote # {} /\ WriteSides(k, p) \cap ReadSides(f, q) # {}
              => d.doomed
<1> DEFINE d == Doom(k, p, f, q, wrote)
           out == p.out \/ (Serial(f, q) /\ ReadSides(k, p) \cap wrote # {})
           moved == p.moved \/ WriteSides(k, p) \cap wrote # {}
           doomed == p.doomed \/ (out /\ Serial(f, q) /\ WriteSides(k, p) \cap ReadSides(f, q) # {})
<1>1. DOMAIN p = OpenFields /\ Named(scen, p) /\ p.want \in Values(Meant(scen, p)) /\ p.doomed \in BOOLEAN
      /\ p.moved \in BOOLEAN /\ p.out \in BOOLEAN /\ engine = "postgres"
  BY IdleOp DEF Shaped
<1>2. CASE ~Serial(k, p)
  <2>1. d = p
    BY <1>2 DEF Doom
  <2> QED
    BY <1>2, <2>1
<1>3. CASE Serial(k, p)
  <2>1. d = [p EXCEPT !.moved = moved, !.out = out, !.doomed = doomed]
    BY <1>3, Zenon DEF Doom
  <2>2. out \in BOOLEAN /\ moved \in BOOLEAN /\ doomed \in BOOLEAN
    BY <1>1
  <2> HIDE DEF out, moved, doomed, d
  <2>3. /\ d.op = "open" /\ d.side = p.side /\ d.do = p.do /\ d.want = p.want /\ d.before = p.before
        /\ d.doomed = doomed /\ d.moved = moved /\ d.out = out /\ DOMAIN d = OpenFields
    BY <1>1, <2>1 DEF OpenFields, AskedFields
  <2>4. Named(scen, d) /\ d.want \in Values(Meant(scen, d))
    BY <1>1, <2>3 DEF Named, Meant
  <2>5. Shaped(scen, engine, d)
    BY <1>1, <2>2, <2>3, <2>4 DEF Shaped
  <2> QED
    BY <2>3, <2>5, <1>3 DEF d, out, doomed
<1> QED
  BY <1>2, <1>3

LEMMA DrawingShape ==
  ASSUME NEW q, q.op = "drawing", DOMAIN q = FormFields, Named(scen, q), NEW what, NEW left
  PROVE  Shaped(scen, engine, Drawing(Read(q, what), left)) /\ Drawing(Read(q, what), left).op \in {"drawing", "form"}
<1> DEFINE p == Read(q, what)
           d == Drawing(p, left)
<1>1. p.op = "drawing" /\ DOMAIN p = FormFields /\ p.side = q.side /\ p.do = q.do
  BY DEF Read, FormFields
<1> HIDE DEF p
<1>2. d.op \in {"drawing", "form"} /\ DOMAIN d = FormFields /\ d.side = q.side /\ d.do = q.do
  BY <1>1 DEF Drawing, FormFields
<1> HIDE DEF d
<1>3. Shaped(scen, engine, d)
  BY <1>2 DEF Shaped, Named
<1> QED
  BY <1>2, <1>3 DEF d, p

----------------------------------------------------------------------------
(* NothingDangles.  A request that looked keeps what it saw, or it is doomed. *)

Lasting == {"active", "retired"}
RowFields == {"life", "body", "own", "set", "ver", "doc", "log"}

(* The row was live when it was read, and this is what is written back. *)
WritesBackLive(f) ==
  "life" \notin f.from /\ f.before = "outside" /\ f.gate = "outside" /\ "retired" \in f.skip \cup f.refuse

Fit(c, q) ==
  q.op \in {"asked", "open"} /\ q.side = "parent" =>
    q.before.life \in Lasting /\ (WritesBackLive(Meant(c, q)) => q.before.life = "active")

(* What a serializable transaction that is open saw of the other row. *)
Warned(c, x, q) ==
  q.op = "open" /\ Meant(c, q).tx = "serializable" =>
    /\ q.side = "child" /\ Looks(Meant(c, q)) => x["parent"].life = "active" \/ q.doomed
    /\ q.side = "parent" /\ Counts(Meant(c, q)) => x["child"].life # "active" \/ q.doomed

Dangling(x) == x["child"].life = "active" /\ x["parent"].life # "active"

DangleInv ==
  /\ RequestsInv
  /\ \A s \in Sides : DOMAIN row[s] = RowFields
  /\ row["parent"].life \in Lasting
  /\ \A r \in Requests : Fit(scen, req[r])
  /\ scen \in Promised[engine] => ~Dangling(row) /\ \A r \in Requests : Warned(scen, row, req[r])

LEMMA SidesAre == "parent" \in Sides /\ "child" \in Sides /\ \A s \in Sides : s = "parent" \/ s = "child"
BY DEF Sides

LEMMA NewRowShape == ASSUME NEW l PROVE DOMAIN NewRow(l) = RowFields /\ NewRow(l).life = l
BY DEF NewRow, RowFields

LEMMA DangleInit == ASSUME Init PROVE DangleInv
<1>1. PICK p \in {"active", "retired"}, c \in Lives :
        (c = "active" => p = "active") /\ row = [s \in Sides |-> IF s = "parent" THEN NewRow(p) ELSE NewRow(c)]
  BY DEF Init
<1>2. row["parent"] = NewRow(p) /\ row["child"] = NewRow(c) /\ DOMAIN row = Sides
  BY <1>1, SidesAre
<1>3. \A r \in Requests : req[r] = Idle
  BY DEF Init
<1>4. RequestsInv
  BY <1>2, <1>3 DEF RequestsInv, Init, Shaped
<1>5. \A r \in Requests : Fit(scen, req[r]) /\ Warned(scen, row, req[r])
  BY <1>3, IdleOp DEF Fit, Warned
<1>6. \A s \in Sides : DOMAIN row[s] = RowFields
  BY <1>2, SidesAre, NewRowShape
<1>7. row["parent"].life = p /\ row["child"].life = c
  BY <1>2, NewRowShape
<1> QED
  BY <1>1, <1>4, <1>5, <1>6, <1>7 DEF DangleInv, Dangling, Lasting

(* A step that writes nothing. *)
LEMMA QuietStep ==
  ASSUME DangleInv, UNCHANGED <<scen, engine, row>>, NEW r \in Requests, NEW q,
         req' = [req EXCEPT ![r] = q], Shaped(scen, engine, q), Fit(scen, q),
         scen \in Promised[engine] => Warned(scen, row, q)
  PROVE  DangleInv'
<1>1. \A k \in Requests : req'[k] = IF k = r THEN q ELSE req[k]
  BY DEF DangleInv, RequestsInv
<1>2. RequestsInv'
  BY <1>1 DEF DangleInv, RequestsInv
<1> QED
  BY <1>1, <1>2 DEF DangleInv

(* Before it is submitted and after it is answered, a request is free. *)
LEMMA FreeStep ==
  ASSUME DangleInv, UNCHANGED <<scen, engine, row>>, NEW r \in Requests, NEW q,
         req' = [req EXCEPT ![r] = q], Shaped(scen, engine, q), q.op \in {"idle", "drawing", "form"}
  PROVE  DangleInv'
<1>1. Fit(scen, q) /\ Warned(scen, row, q)
  BY DEF Fit, Warned
<1> QED
  BY <1>1, QuietStep

(* The life of the two rows after the statements. *)
LEMMA ExecuteLife ==
  ASSUME DangleInv, NEW q, q.side \in Sides, NEW f, Execute(f, q)
  PROVE  /\ DOMAIN row' = Sides /\ \A s \in Sides : DOMAIN row'[s] = RowFields
         /\ UNCHANGED <<scen, engine, started>>
         /\ row' = row \/
              /\ row'[q.side].life =
                   IF "life" \in f.sets THEN IF "life" \in f.from THEN q.want.life ELSE q.before.life
                   ELSE row[q.side].life
              /\ \A o \in Sides \ {q.side} : row'[o].life =
                   IF f.cascade /\ q.side = "parent" /\ row[o].life = "active" THEN "retired" ELSE row[o].life
<1>1. UNCHANGED <<scen, engine, started>>
  BY DEF Execute
<1>2. DOMAIN row = Sides /\ \A s \in Sides : DOMAIN row[s] = RowFields
  BY DEF DangleInv, RequestsInv
<1>3. CASE row' = row
  BY <1>1, <1>2, <1>3
<1>4. CASE row' = [s \in Sides |-> IF s = q.side THEN Written(f, q, row[s]) ELSE Cascaded(f, q, row[s])]
  <2>1. ASSUME NEW x PROVE /\ DOMAIN Written(f, q, x) = RowFields
                           /\ Written(f, q, x).life =
                                IF "life" \in f.sets THEN IF "life" \in f.from THEN q.want.life ELSE q.before.life
                                ELSE x.life
    <3> DEFINE after == After(f, q.before, q.want)
               stored == [c \in Columns |-> IF c \notin f.sets THEN x[c]
                                            ELSE IF c = "set" THEN (x.set \ Doomed(f, q)) \cup after.set
                                            ELSE after[c]]
    <3>1. /\ DOMAIN Written(f, q, x) = RowFields
          /\ Written(f, q, x).life = stored.life
      BY DEF Written, RowFields
    <3>2. after["life"] = IF "life" \in f.from THEN q.want["life"] ELSE q.before["life"]
      BY DEF After, Columns
    <3> HIDE DEF after
    <3>3. stored["life"] = IF "life" \in f.sets THEN after["life"] ELSE x["life"]
      BY DEF Columns
    <3> HIDE DEF stored
    <3> QED
      BY <3>1, <3>2, <3>3
  <2>2. ASSUME NEW s \in Sides
        PROVE  /\ DOMAIN Cascaded(f, q, row[s]) = RowFields
               /\ Cascaded(f, q, row[s]).life =
                    IF f.cascade /\ q.side = "parent" /\ row[s].life = "active" THEN "retired" ELSE row[s].life
    BY <1>2 DEF Cascaded, RowFields
  <2>3. DOMAIN row' = Sides /\ \A s \in Sides : row'[s] = IF s = q.side THEN Written(f, q, row[s]) ELSE Cascaded(f, q, row[s])
    BY <1>4
  <2> QED
    BY <1>1, <2>1, <2>2, <2>3
<1> QED
  BY <1>3, <1>4 DEF Execute

(* A transaction whose looks still hold.  It leaves nothing dangling, and     *)
(* what it takes from under an open transaction it takes as one that looked.  *)
LEMMA Committed ==
  ASSUME DangleInv, NEW q, q.op = "open", Named(scen, q), q.want \in Values(Meant(scen, q)), Fit(scen, q),
         NEW f, f = Meant(scen, q), Execute(f, q),
         scen \in Promised[engine] /\ Isolated(engine, f) =>
           /\ q.side = "child" /\ Looks(f) => row["parent"].life = "active"
           /\ q.side = "parent" /\ Counts(f) => row["child"].life # "active"
  PROVE  /\ row'["parent"].life \in Lasting
         /\ scen \in Promised[engine] =>
              /\ ~Dangling(row')
              /\ row["parent"].life = "active" /\ row'["parent"].life # "active" =>
                   q.side = "parent" /\ Isolated(engine, f) /\ (f.cascade \/ Counts(f))
              /\ row["child"].life # "active" /\ row'["child"].life = "active" =>
                   q.side = "child" /\ Isolated(engine, f) /\ Looks(f)
<1>1. row["parent"].life \in Lasting /\ (scen \in Promised[engine] => ~Dangling(row))
      /\ scen \in DOMAIN Scenarios /\ engine \in Engines
  BY DEF DangleInv, RequestsInv
<1>2. CASE row' = row
  BY <1>1, <1>2
<1>3. q.want.life \in Lasting /\ (f.act = "retire" => q.want.life = "retired")
      /\ (f.act \notin {"retire", "update"} => q.want.life = "active")
  <2>1. q.want.life \in CASE f.act = "retire" -> {"retired"}
                          [] f.act = "update" /\ "life" \in f.from -> {"active", "retired"}
                          [] OTHER -> {"active"}
    BY DEF Values
  <2> QED
    BY <2>1 DEF Lasting
<1>4. ASSUME row' # row PROVE
        /\ row'[q.side].life =
             IF "life" \in f.sets THEN IF "life" \in f.from THEN q.want.life ELSE q.before.life
             ELSE row[q.side].life
        /\ \A o \in Sides \ {q.side} : row'[o].life =
             IF f.cascade /\ q.side = "parent" /\ row[o].life = "active" THEN "retired" ELSE row[o].life
  BY <1>4, ExecuteLife DEF Named
<1>5. CASE row' # row /\ q.side = "parent"
  <2>1. /\ row'["parent"].life = IF "life" \in f.sets THEN IF "life" \in f.from THEN q.want.life ELSE q.before.life
                                 ELSE row["parent"].life
        /\ row'["child"].life = IF f.cascade /\ row["child"].life = "active" THEN "retired" ELSE row["child"].life
    BY <1>4, <1>5, SidesAre
  <2>2. q.before.life \in Lasting /\ (WritesBackLive(f) => q.before.life = "active")
    BY <1>5 DEF Fit
  <2>3. scen \in Promised[engine] => LeavesLive(f) \/ (Isolated(engine, f) /\ (f.cascade \/ Counts(f)))
    BY <1>1, <1>5, PromiseAssumption DEF LooksBothWays, Named, Meant
  <2>4. LeavesLive(f) => row'["parent"].life = "active" \/ row'["parent"].life = row["parent"].life
    BY <1>3, <2>1, <2>2 DEF LeavesLive, WritesBackLive
  <2> QED
    BY <1>1, <1>3, <1>5, <2>1, <2>2, <2>3, <2>4 DEF Dangling, Lasting
<1>6. CASE row' # row /\ q.side = "child"
  <2>1. /\ row'["child"].life = IF "life" \in f.sets THEN IF "life" \in f.from THEN q.want.life ELSE q.before.life
                                 ELSE row["child"].life
        /\ row'["parent"].life = row["parent"].life
    BY <1>4, <1>6, SidesAre
  <2>2. scen \in Promised[engine] => Withdraws(f) \/ (Isolated(engine, f) /\ Looks(f))
    BY <1>1, <1>6, PromiseAssumption DEF LooksBothWays, Named, Meant
  <2>3. Withdraws(f) => row'["child"].life = "retired" \/ row'["child"].life = row["child"].life
    BY <1>3, <2>1 DEF Withdraws
  <2> QED
    BY <1>1, <1>6, <2>1, <2>2, <2>3 DEF Dangling, Lasting
<1> QED
  BY <1>2, <1>5, <1>6, SidesAre DEF Named

(* What is looked up inside the transaction. *)
LEMMA LookedIs ==
  ASSUME DangleInv, NEW q, q.op = "asked", Shaped(scen, engine, q), Fit(scen, q), NEW f, f = Meant(scen, q)
  PROVE  LET p == Looked(f, q) IN
         /\ p.op = "open" /\ p.doomed = FALSE /\ p.side = q.side /\ Meant(scen, p) = f
         /\ Named(scen, p) /\ p.want \in Values(Meant(scen, p)) /\ Fit(scen, p)
         /\ Goes(f, p) => /\ p.side = "child" /\ Looks(f) => row["parent"].life = "active"
                          /\ p.side = "parent" /\ Counts(f) => row["child"].life # "active"
<1> DEFINE p == Looked(f, q)
<1>1. /\ p.op = "open" /\ p.side = q.side /\ p.do = q.do /\ p.want = q.want /\ p.doomed = FALSE
      /\ p.before = IF f.before = "inside" THEN Cols(row[q.side]) ELSE q.before
  BY DEF Looked
<1>2. Named(scen, q) /\ q.want \in Values(Meant(scen, q))
  BY IdleOp DEF Shaped
<1> HIDE DEF p
<1>3. Meant(scen, p) = f /\ Named(scen, p) /\ p.want \in Values(Meant(scen, p))
  BY <1>1, <1>2 DEF Named, Meant
<1>4. Fit(scen, p)
  BY <1>1, <1>3 DEF Fit, DangleInv, Cols, WritesBackLive
<1>5. Goes(f, p) => /\ p.side = "child" /\ Looks(f) => row["parent"].life = "active"
                    /\ p.side = "parent" /\ Counts(f) => ~Holds(f.holders, "parent")
  BY DEF Goes, Passes, Looks, Counts
<1>6. Counts(f) /\ ~Holds(f.holders, "parent") => row["child"].life # "active"
  BY DEF Counts, Holds
<1> QED
  BY <1>1, <1>3, <1>4, <1>5, <1>6 DEF p

LEMMA DangleStart ==
  ASSUME DangleInv, NEW r \in Requests, NEW s \in Sides, NEW n \in DOMAIN Scenarios[scen][s], NEW f,
         f = Scenarios[scen][s][n], OpenForm(r, s, n, f) \/ Ask(r, s, n, f)
  PROVE  DangleInv'
<1>1. CASE OpenForm(r, s, n, f)
  <2> DEFINE q == [op |-> "drawing", side |-> s, do |-> n, attempt |-> 1, left |-> f.draws,
                   shown |-> [Cols(row[s]) EXCEPT !.set = {}], token |-> row[s].ver]
             d == Drawing(Read(q, Head(f.draws)), Tail(f.draws))
  <2>1. Start(r, d)
    BY <1>1, Zenon DEF OpenForm
  <2>2. q.op = "drawing" /\ DOMAIN q = FormFields /\ Named(scen, q)
    BY DEF FormFields, Named
  <2> HIDE DEF q
  <2>3. Shaped(scen, engine, d) /\ d.op \in {"drawing", "form"}
    BY <2>2, DrawingShape
  <2> HIDE DEF d
  <2> QED
    BY <2>1, <2>3, FreeStep DEF Start
<1>2. CASE Ask(r, s, n, f)
  <2>1. PICK want \in Wants(f, row[s]) :
          /\ Passes(f, s, "outside", Cols(row[s]), want)
          /\ Start(r, Asked(s, n, Cols(row[s]), row[s].ver, want))
    BY <1>2 DEF Ask
  <2> DEFINE q == Asked(s, n, Cols(row[s]), row[s].ver, want)
  <2>2. want \in Values(f)
    BY DEF Wants
  <2>3. Shaped(scen, engine, q) /\ q.op = "asked" /\ q.side = s /\ q.do = n /\ q.before = Cols(row[s])
    BY <2>2, AskedShape
  <2> HIDE DEF q
  <2>4. Fit(scen, q)
    BY <2>1, <2>3 DEF Fit, DangleInv, Cols, WritesBackLive, Passes, Meant, Lasting
  <2>5. Warned(scen, row, q)
    BY <2>3 DEF Warned
  <2> QED
    BY <2>1, <2>3, <2>4, <2>5, QuietStep DEF Start, q
<1> QED
  BY <1>1, <1>2

LEMMA DangleDraw == ASSUME DangleInv, NEW r \in Requests, DrawNext(r) PROVE DangleInv'
<1> DEFINE q == req[r]
           d == Drawing(Read(q, Head(q.left)), Tail(q.left))
<1>1. q.op = "drawing" /\ req' = [req EXCEPT ![r] = d] /\ UNCHANGED <<scen, engine, row>>
  BY DEF DrawNext
<1>2. DOMAIN q = FormFields /\ Named(scen, q)
  BY <1>1, IdleOp DEF DangleInv, RequestsInv, Shaped
<1>3. Shaped(scen, engine, d) /\ d.op \in {"drawing", "form"}
  <2> HIDE DEF q
  <2> QED
    BY <1>1, <1>2, DrawingShape
<1> HIDE DEF d
<1> QED
  BY <1>1, <1>3, FreeStep

LEMMA DangleSubmit == ASSUME DangleInv, NEW r \in Requests, SubmitForm(r) PROVE DangleInv'
<1> DEFINE f == Op(req[r])
<1>1. req[r].op = "form" /\ UNCHANGED <<scen, engine, row>>
  BY DEF SubmitForm
<1>2. Named(scen, req[r])
  BY <1>1, IdleOp DEF DangleInv, RequestsInv, Shaped
<1>3. CASE \E answer \in Refusals(f, req[r]) : req' = [req EXCEPT ![r] = answer]
  <2>1. PICK answer \in Refusals(f, req[r]) : req' = [req EXCEPT ![r] = answer]
    BY <1>3
  <2>2. Shaped(scen, engine, answer) /\ answer.op \in {"idle", "form"}
    BY <1>2, RefusalsShape
  <2> QED
    BY <1>1, <2>1, <2>2, FreeStep
<1>4. CASE \E want \in Wants(f, row[req[r].side]) :
             /\ Passes(f, req[r].side, "outside", Cols(row[req[r].side]), want)
             /\ req' = [req EXCEPT ![r] = Asked(req[r].side, req[r].do, Known(f, req[r]), req[r].token, want)]
  <2>1. PICK want \in Wants(f, row[req[r].side]) :
             /\ Passes(f, req[r].side, "outside", Cols(row[req[r].side]), want)
             /\ req' = [req EXCEPT ![r] = Asked(req[r].side, req[r].do, Known(f, req[r]), req[r].token, want)]
    BY <1>4
  <2> DEFINE s == req[r].side
             n == req[r].do
             q == Asked(s, n, Known(f, req[r]), req[r].token, want)
  <2>2. want \in Values(f) /\ s \in Sides /\ n \in DOMAIN Scenarios[scen][s] /\ f = Scenarios[scen][s][n]
    BY <1>2 DEF Wants, Op, Named
  <2>3. Shaped(scen, engine, q) /\ q.op = "asked" /\ q.side = s /\ q.do = n /\ q.before = Cols(row[s])
    <3> HIDE DEF s, n, f
    <3> QED
      BY <2>2, AskedShape
  <2> HIDE DEF q
  <2>4. Fit(scen, q)
    <3>1. Meant(scen, q) = f
      BY <2>2, <2>3 DEF Meant
    <3> HIDE DEF s, n, f
    <3>2. Passes(f, s, "outside", Cols(row[s]), want)
      BY <2>1 DEF s, f
    <3> QED
      BY <2>3, <3>1, <3>2 DEF Fit, DangleInv, Cols, WritesBackLive, Passes, Lasting
  <2>5. Warned(scen, row, q)
    BY <2>3 DEF Warned
  <2> QED
    BY <1>1, <2>1, <2>3, <2>4, <2>5, QuietStep DEF q
<1> QED
  BY <1>3, <1>4 DEF SubmitForm

LEMMA RequestIs ==
  ASSUME DangleInv, NEW r \in Requests, req[r].op \in {"asked", "open"}
  PROVE  /\ Shaped(scen, engine, req[r]) /\ Fit(scen, req[r]) /\ Named(scen, req[r])
         /\ req[r].want \in Values(Meant(scen, req[r])) /\ Op(req[r]) = Meant(scen, req[r])
         /\ scen \in Promised[engine] => Warned(scen, row, req[r])
         /\ req[r].op = "open" => engine = "postgres"
BY IdleOp DEF DangleInv, RequestsInv, Shaped, Op, Meant

LEMMA DangleRefused ==
  ASSUME DangleInv, NEW r \in Requests, NEW f, NEW q, Named(scen, q), Refused(r, f, q) PROVE DangleInv'
<1>1. PICK answer \in Refusals(f, q) : req' = [req EXCEPT ![r] = answer]
  BY DEF Refused
<1>2. Shaped(scen, engine, answer) /\ answer.op \in {"idle", "form"}
  BY RefusalsShape
<1> QED
  BY <1>1, <1>2, FreeStep DEF Refused

LEMMA DangleOpen == ASSUME DangleInv, NEW r \in Requests, OpenTx(r) PROVE DangleInv'
<1>1. PICK f \in {Op(req[r])} : \E q \in {Looked(f, req[r])} :
        \/ Goes(f, q) /\ req' = [req EXCEPT ![r] = q] /\ UNCHANGED <<scen, engine, row, started>>
        \/ ~Goes(f, q) /\ Refused(r, f, q)
  BY DEF OpenTx
<1>2. engine = "postgres" /\ req[r].op = "asked"
  BY DEF OpenTx
<1>3. f = Meant(scen, req[r]) /\ Shaped(scen, engine, req[r]) /\ Fit(scen, req[r])
  BY <1>1, <1>2, RequestIs
<1> DEFINE q == Looked(f, req[r])
<1>4. /\ q.op = "open" /\ q.doomed = FALSE /\ q.side = req[r].side /\ Meant(scen, q) = f
      /\ Named(scen, q) /\ Fit(scen, q)
      /\ Goes(f, q) => /\ q.side = "child" /\ Looks(f) => row["parent"].life = "active"
                       /\ q.side = "parent" /\ Counts(f) => row["child"].life # "active"
  BY <1>2, <1>3, LookedIs
<1>5. Shaped(scen, engine, q)
  BY <1>2, <1>3, LookedShape
<1> HIDE DEF q
<1>6. CASE Goes(f, q) /\ req' = [req EXCEPT ![r] = q] /\ UNCHANGED <<scen, engine, row, started>>
  <2>1. Warned(scen, row, q)
    BY <1>4, <1>6 DEF Warned
  <2> QED
    BY <1>4, <1>5, <1>6, <2>1, QuietStep
<1>7. CASE ~Goes(f, q) /\ Refused(r, f, q)
  BY <1>4, <1>7, DangleRefused
<1> QED
  BY <1>1, <1>6, <1>7 DEF q

LEMMA DangleAbort == ASSUME DangleInv, NEW r \in Requests, AbortTx(r) PROVE DangleInv'
<1>1. PICK f \in {Op(req[r])} : Serial(f, req[r]) /\ NextAttempt(r, f, req[r])
  BY DEF AbortTx
<1>2. req[r].op = "open" /\ UNCHANGED <<scen, engine, row, started>>
  BY DEF AbortTx
<1> DEFINE old == req[r]
<1>3. Shaped(scen, engine, old) /\ Fit(scen, old) /\ Named(scen, old) /\ old.want \in Values(Meant(scen, old))
  BY <1>2, RequestIs
<1>4. PICK token, attempt : \/ req' = [req EXCEPT ![r] = [Asked(old.side, old.do, old.shown, token, old.want)
                                                 EXCEPT !.before = old.before, !.attempt = attempt]]
                   \/ req' = [req EXCEPT ![r] = Idle]
  BY <1>1, Zenon DEF NextAttempt, Finish
<1>5. CASE req' = [req EXCEPT ![r] = Idle]
  <2>1. Shaped(scen, engine, Idle)
    BY DEF Shaped
  <2> QED
    BY <1>2, <1>5, <2>1, IdleOp, FreeStep
<1>6. CASE req' = [req EXCEPT ![r] = [Asked(old.side, old.do, old.shown, token, old.want)
                                        EXCEPT !.before = old.before, !.attempt = attempt]]
  <2> DEFINE q == [Asked(old.side, old.do, old.shown, token, old.want) EXCEPT !.before = old.before, !.attempt = attempt]
  <2>1. /\ q.op = "asked" /\ DOMAIN q = AskedFields /\ q.side = old.side /\ q.do = old.do
        /\ q.want = old.want /\ q.before = old.before
    BY DEF Asked, AskedFields
  <2> HIDE DEF q, old
  <2>2. Shaped(scen, engine, q)
    BY <1>3, <2>1 DEF Shaped, Named, Meant
  <2>3. Fit(scen, q)
    BY <1>2, <1>3, <2>1 DEF Fit, Meant, old
  <2>4. Warned(scen, row, q)
    BY <2>1 DEF Warned
  <2>5. req' = [req EXCEPT ![r] = q]
    BY <1>6 DEF q
  <2> QED
    BY <1>2, <2>2, <2>3, <2>4, <2>5, QuietStep
<1> QED
  BY <1>4, <1>5, <1>6

(* What a commit leaves of the invariant, once the requests are known. *)
LEMMA DangleWrites ==
  ASSUME DangleInv, NEW q, q.op = "open", Named(scen, q), q.want \in Values(Meant(scen, q)), Fit(scen, q),
         NEW f, f = Meant(scen, q), Execute(f, q),
         scen \in Promised[engine] /\ Isolated(engine, f) =>
           /\ q.side = "child" /\ Looks(f) => row["parent"].life = "active"
           /\ q.side = "parent" /\ Counts(f) => row["child"].life # "active",
         DOMAIN req' = Requests,
         \A k \in Requests : /\ Shaped(scen, engine, req'[k]) /\ Fit(scen, req'[k])
                             /\ scen \in Promised[engine] => Warned(scen, row', req'[k])
  PROVE  DangleInv'
<1>1. DOMAIN row' = Sides /\ (\A s \in Sides : DOMAIN row'[s] = RowFields) /\ UNCHANGED <<scen, engine>>
  BY ExecuteLife DEF Named
<1>2. row'["parent"].life \in Lasting /\ (scen \in Promised[engine] => ~Dangling(row'))
  BY Committed
<1>3. RequestsInv'
  BY <1>1 DEF DangleInv, RequestsInv
<1> QED
  BY <1>1, <1>2, <1>3 DEF DangleInv

LEMMA DangleRun == ASSUME DangleInv, NEW r \in Requests, RunTx(r) PROVE DangleInv'
<1>1. PICK f \in {Op(req[r])} : \E q \in {Looked(f, req[r])} :
        \/ Goes(f, q) /\ Execute(f, q) /\ req' = [req EXCEPT ![r] = Answer(f, q)]
        \/ ~Goes(f, q) /\ Refused(r, f, q)
  BY DEF RunTx
<1>2. engine = "sqlite" /\ req[r].op = "asked"
  BY DEF RunTx
<1>3. f = Meant(scen, req[r]) /\ Shaped(scen, engine, req[r]) /\ Fit(scen, req[r])
  BY <1>1, <1>2, RequestIs
<1> DEFINE q == Looked(f, req[r])
<1>4. /\ q.op = "open" /\ Meant(scen, q) = f /\ Named(scen, q) /\ Fit(scen, q)
      /\ q.want \in Values(Meant(scen, q))
      /\ Goes(f, q) => /\ q.side = "child" /\ Looks(f) => row["parent"].life = "active"
                       /\ q.side = "parent" /\ Counts(f) => row["child"].life # "active"
  BY <1>2, <1>3, LookedIs
<1> HIDE DEF q
<1>5. CASE Goes(f, q) /\ Execute(f, q) /\ req' = [req EXCEPT ![r] = Answer(f, q)]
  <2> DEFINE answer == Answer(f, q)
  <2>1. Shaped(scen, engine, answer) /\ answer.op \in {"idle", "form"}
    BY <1>4, AnswerShape
  <2> HIDE DEF answer
  <2>2. DOMAIN req' = Requests /\ \A k \in Requests : req'[k] = IF k = r THEN answer ELSE req[k]
    BY <1>5 DEF DangleInv, RequestsInv, answer
  <2>3. \A k \in Requests : Shaped(scen, engine, req[k]) /\ Fit(scen, req[k]) /\ req[k].op # "open"
    BY <1>2, RequestIs DEF DangleInv, RequestsInv
  <2>4. ASSUME NEW k \in Requests
        PROVE  Shaped(scen, engine, req'[k]) /\ Fit(scen, req'[k]) /\ Warned(scen, row', req'[k])
    <3>1. req'[k] = answer \/ req'[k] = req[k]
      BY <2>2
    <3>2. Shaped(scen, engine, req'[k]) /\ req'[k].op # "open"
      BY <3>1, <2>1, <2>3
    <3>3. Warned(scen, row', req'[k])
      BY <3>2 DEF Warned
    <3>4. Fit(scen, answer)
      BY <2>1 DEF Fit
    <3> QED
      BY <3>1, <3>2, <3>3, <3>4, <2>3
  <2> QED
    BY <1>4, <1>5, <2>2, <2>4, DangleWrites
<1>6. CASE ~Goes(f, q) /\ Refused(r, f, q)
  BY <1>4, <1>6, DangleRefused
<1> QED
  BY <1>1, <1>5, <1>6 DEF q

LEMMA DangleCommit == ASSUME DangleInv, NEW r \in Requests, CommitTx(r) PROVE DangleInv'
<1> DEFINE q == req[r]
           f == Op(req[r])
           wrote == {s \in Sides : row'[s] # row[s]}
<1>1. q.op = "open" /\ (Serial(f, q) => ~q.doomed) /\ Execute(f, q) /\ FinishCommit(r, f, q)
  BY DEF CommitTx
<1>2. /\ Fit(scen, q) /\ Named(scen, q) /\ q.want \in Values(Meant(scen, q)) /\ f = Meant(scen, q)
      /\ engine = "postgres" /\ (scen \in Promised[engine] => Warned(scen, row, q))
  BY <1>1, RequestIs
<1>3. scen \in Promised[engine] /\ Isolated(engine, f) =>
        /\ q.side = "child" /\ Looks(f) => row["parent"].life = "active"
        /\ q.side = "parent" /\ Counts(f) => row["child"].life # "active"
  BY <1>1, <1>2 DEF Warned, Isolated, Serial
<1>4. /\ DOMAIN req' = Requests
      /\ \A t \in Requests : req'[t] = IF t = r THEN Answer(f, q)
                                       ELSE IF req[t].op = "open" THEN Doom(Op(req[t]), req[t], f, q, wrote)
                                       ELSE req[t]
  BY <1>1, Zenon DEF FinishCommit
<1>5. UNCHANGED <<scen, engine>>
  BY <1>1 DEF Execute
<1> HIDE DEF q, f, wrote
<1>6. scen \in Promised[engine] =>
        /\ row["parent"].life = "active" /\ row'["parent"].life # "active" =>
             q.side = "parent" /\ Isolated(engine, f) /\ (f.cascade \/ Counts(f))
        /\ row["child"].life # "active" /\ row'["child"].life = "active" =>
             q.side = "child" /\ Isolated(engine, f) /\ Looks(f)
  BY <1>1, <1>2, <1>3, Committed
<1>7. ASSUME NEW t \in Requests
      PROVE  /\ Shaped(scen, engine, req'[t]) /\ Fit(scen, req'[t])
             /\ scen \in Promised[engine] => Warned(scen, row', req'[t])
  <2>1. CASE t = r
    <3>1. req'[t] = Answer(f, q)
      BY <1>4, <2>1
    <3>2. Shaped(scen, engine, Answer(f, q)) /\ Answer(f, q).op \in {"idle", "form"}
      BY <1>2, AnswerShape
    <3> QED
      BY <3>1, <3>2 DEF Fit, Warned
  <2>2. CASE t # r /\ req[t].op # "open"
    <3>1. req'[t] = req[t]
      BY <1>4, <2>2
    <3> QED
      BY <2>2, <3>1 DEF DangleInv, RequestsInv, Warned
  <2>3. CASE t # r /\ req[t].op = "open"
    <3> DEFINE p == req[t]
               k == Op(req[t])
               d == Doom(k, p, f, q, wrote)
    <3>1. req'[t] = d
      BY <1>4, <2>3
    <3>2. Shaped(scen, engine, p) /\ Fit(scen, p) /\ k = Meant(scen, p) /\ (scen \in Promised[engine] => Warned(scen, row, p))
      BY <2>3, RequestIs
    <3>0. p.op = "open"
      BY <2>3
    <3> HIDE DEF p, k
    <3>3. /\ Shaped(scen, engine, d) /\ d.op = "open" /\ d.side = p.side /\ d.do = p.do /\ d.before = p.before
          /\ p.doomed => d.doomed
          /\ Serial(k, p) /\ Serial(f, q) /\ ReadSides(k, p) \cap wrote # {} /\ WriteSides(k, p) \cap ReadSides(f, q) # {}
               => d.doomed
      BY <3>0, <3>2, DoomShape
    <3> HIDE DEF d
    <3>4. Fit(scen, d)
      BY <3>0, <3>2, <3>3 DEF Fit, Meant
    (* What p saw still holds, or it is the pivot of the two and doomed. *)
    <3>5. ASSUME scen \in Promised[engine] PROVE Warned(scen, row', d)
      <4>0. wrote = {s \in Sides : row'[s] # row[s]}
        BY DEF wrote
      <4>1. SUFFICES ASSUME k.tx = "serializable"
                     PROVE  /\ d.side = "child" /\ Looks(k) => row'["parent"].life = "active" \/ d.doomed
                            /\ d.side = "parent" /\ Counts(k) => row'["child"].life # "active" \/ d.doomed
        BY <3>2, <3>3 DEF Warned, Meant
      <4>2. Serial(k, p) /\ (Isolated(engine, f) => Serial(f, q))
        BY <1>1, <1>2, <3>0, <4>1 DEF Serial, Isolated
      <4>3. ASSUME d.side = "child", Looks(k), row'["parent"].life # "active" PROVE d.doomed
        <5>1. CASE p.doomed
          BY <5>1, <3>3
        <5>2. CASE row["parent"].life = "active"
          <6>1. q.side = "parent" /\ Serial(f, q) /\ (f.cascade \/ f.held = "inside")
            BY <1>6, <3>5, <4>2, <4>3, <5>2 DEF Counts
          <6>2. "parent" \in ReadSides(k, p) /\ "child" \in WriteSides(k, p)
            BY <3>3, <4>3 DEF ReadSides, WriteSides, Looks
          <6>3. "parent" \in wrote
            BY <4>0, <4>3, <5>2, SidesAre
          <6>4. "child" \in ReadSides(f, q)
            BY <6>1 DEF ReadSides
          <6> QED
            BY <3>3, <4>2, <6>1, <6>2, <6>3, <6>4
        <5> QED
          BY <3>0, <3>2, <3>3, <3>5, <4>1, <4>3, <5>1, <5>2 DEF Warned
      <4>4. ASSUME d.side = "parent", Counts(k), row'["child"].life = "active" PROVE d.doomed
        <5>1. CASE p.doomed
          BY <5>1, <3>3
        <5>2. CASE row["child"].life # "active"
          <6>1. q.side = "child" /\ Serial(f, q) /\ f.needs = "inside"
            BY <1>6, <3>5, <4>2, <4>4, <5>2 DEF Looks
          <6>2. "child" \in ReadSides(k, p) /\ "parent" \in WriteSides(k, p)
            BY <3>3, <4>4 DEF ReadSides, WriteSides, Counts
          <6>3. "child" \in wrote
            BY <4>0, <4>4, <5>2, SidesAre
          <6>4. "parent" \in ReadSides(f, q)
            BY <6>1 DEF ReadSides
          <6> QED
            BY <3>3, <4>2, <6>1, <6>2, <6>3, <6>4
        <5> QED
          BY <3>0, <3>2, <3>3, <3>5, <4>1, <4>4, <5>1, <5>2 DEF Warned
      <4> QED
        BY <4>3, <4>4
    <3> QED
      BY <3>1, <3>3, <3>4, <3>5
  <2> QED
    BY <2>1, <2>2, <2>3
<1> QED
  BY <1>1, <1>2, <1>3, <1>4, <1>7, DangleWrites

(* The theorem: nothing that is live depends on something withdrawn, for any *)
(* catalogue whose promised scenarios look both ways (the lookups of the     *)
(* Retire and Create operations inside writeSerializable, store.go), any     *)
(* number of requests and attempts.                                          *)
THEOREM NothingEverDangles == Spec => []NothingDangles
<1>1. Init => DangleInv
  BY DangleInit
<1>2. DangleInv /\ [Next]_vars => DangleInv'
  <2>1. ASSUME DangleInv, Next PROVE DangleInv'
    <3>1. PICK r \in Requests :
            \/ \E s \in Sides : \E n \in DOMAIN Scenarios[scen][s] :
                 \E f \in {Scenarios[scen][s][n]} : OpenForm(r, s, n, f) \/ Ask(r, s, n, f)
            \/ SubmitForm(r)
            \/ Step(r)
      BY <2>1 DEF Next
    <3>2. CASE \E s \in Sides : \E n \in DOMAIN Scenarios[scen][s] :
                 \E f \in {Scenarios[scen][s][n]} : OpenForm(r, s, n, f) \/ Ask(r, s, n, f)
      BY <2>1, <3>2, DangleStart
    <3>3. CASE SubmitForm(r)
      BY <2>1, <3>3, DangleSubmit
    <3>4. CASE Step(r)
      BY <2>1, <3>4, DangleDraw, DangleRun, DangleOpen, DangleCommit, DangleAbort DEF Step
    <3> QED
      BY <3>1, <3>2, <3>3, <3>4
  <2>2. ASSUME DangleInv, UNCHANGED vars PROVE DangleInv'
    BY <2>2 DEF DangleInv, RequestsInv, vars
  <2> QED
    BY <2>1, <2>2
<1>3. DangleInv => NothingDangles
  BY DEF DangleInv, NothingDangles, Dangling
<1> QED
  BY <1>1, <1>2, <1>3, PTL DEF Spec

----------------------------------------------------------------------------
(* What a request carries.  The image it read is the row as long as the       *)
(* version is the one it read; the rest of the invariant says when that is so.*)

RowsOK(x) ==
  \A d \in Sides :
    /\ DOMAIN x[d] = RowFields /\ DOMAIN x[d].log = Columns /\ x[d].ver \in Nat
    /\ x[d].life = "none" => x[d].set = {}

(* The early returns were not taken. *)
Checked(f, q) ==
  /\ q.before.life \notin f.skip \cup f.refuse
  /\ "same" \in f.skip => After(f, q.before, q.want) # q.before

IsImage(b) == b = [c \in Columns |-> b[c]]

(* Images by now: y is the row, b what was read of it at version v. *)
SameRow(s, d, b, v, y) ==
  v = y.ver =>
    /\ b.life # "none" => \A c \in Columns \ Silent(s, d) : b[c] = y[c]
    /\ b.life = "none" /\ "life" \notin Silent(s, d) => y.life # "retired"

Dated(s, e, y, q) ==
  LET f == Meant(s, q) IN
  /\ f.act # "create" => y.life # "none"
  /\ Honest(e, f) => q.token \in Nat /\ q.token <= y.ver

Submitted(s, e, y, q) ==
  LET f == Meant(s, q) IN
  q.op \in {"asked", "open"} =>
    /\ IsImage(q.before) /\ (f.act # "create" => q.before.life # "none")
    /\ q.before.life # "none" => y.life # "none"
    /\ Honest(e, f) => SameRow(s, q.side, q.before, q.token, y)
    /\ Final(e, s, q.side) /\ q.before.life = "retired" => y.life = "retired"

Gate(s, q) ==
  LET f == Meant(s, q) IN
  /\ q.op = "asked" /\ f.gate = "outside" /\ f.before # "inside" => Checked(f, q)
  /\ q.op = "open" /\ (f.gate = "inside" \/ f.before # "inside") => Checked(f, q)

Opened(s, e, y, q) ==
  LET f == Meant(s, q) IN
  q.op = "open" =>
    /\ Honest(e, f) /\ q.token = y.ver /\ q.before.life # "none" /\ "set" \notin Silent(s, q.side) => q.seen = y.set
    /\ e = "postgres" /\ f.tx = "serializable" /\ ~q.moved =>
         /\ f.before = "inside" => \A c \in Columns : q.before[c] = y[c]
         /\ q.seen = y.set

(* What the form of a request shows.  Its set is read last. *)
Complete(f, q) == q.op \in {"asked", "open"} \/ (q.op = "form" /\ f.draws = <<"row", "set">>)
Shown(s, e, y, q) ==
  LET f == Meant(s, q) IN
  f.guard = "form" /\ KeepsForm(e, s, q.side, f) =>
    /\ DOMAIN q.shown = Columns
    /\ q.op = "drawing" => q.left = <<"set">> /\ f.draws = <<"row", "set">>
    /\ q.token = y.ver => \A c \in f.sets : c # "set" \/ Complete(f, q) => q.shown[c] = y[c]

Carried(s, e, x, q) ==
  q # Idle =>
    /\ Dated(s, e, x[q.side], q) /\ Submitted(s, e, x[q.side], q) /\ Gate(s, q)
    /\ Opened(s, e, x[q.side], q) /\ Shown(s, e, x[q.side], q)

CarryInv == RequestsInv /\ RowsOK(row) /\ \A r \in Requests : Carried(scen, engine, row, req[r])

LEMMA RuleFor ==
  ASSUME scen \in DOMAIN Scenarios, engine \in Engines, NEW q, Named(scen, q), NEW f, f = Meant(scen, q)
  PROVE  /\ Begins(f) /\ Gated(f) /\ f.sets \subseteq Columns
         /\ Keeps("NoLostUpdate", q.do) => KeepsForm(engine, scen, q.side, f)
         /\ Keeps("RetiredStaysRetired", q.do) => KeepsLife(engine, scen, q.side, f)
         /\ Keeps("SetIsWhole", q.do) => KeepsSet(engine, scen, q.side, f)
         /\ (\A n \in DOMAIN Scenarios[scen][q.side] : Keeps("AuditReplays", n)) => KeepsLog(engine, scen, q.side, f)
         /\ <<scen, q.side>> \in Indexed => KeepsDocument(engine, scen, q.side, f)
<1>1. q.side \in Sides /\ q.do \in DOMAIN Scenarios[scen][q.side] /\ f = Scenarios[scen][q.side][q.do]
  BY DEF Named, Meant
<1>2. (\A n \in DOMAIN Scenarios[scen][q.side] : Keeps("AuditReplays", n))
        => (DOMAIN Scenarios[scen][q.side]) \cap Exempt["AuditReplays"][engine] = {}
  BY DEF Keeps
<1> QED
  BY <1>1, <1>2, CatalogueAssumption, Zenon DEF Keeps

LEMMA ColsAre ==
  ASSUME NEW x PROVE /\ IsImage(Cols(x)) /\ DOMAIN Cols(x) = Columns /\ \A c \in Columns : Cols(x)[c] = x[c]
                     /\ Cols(x).life = x.life /\ Cols(x).set = x.set
BY DEF Cols, Columns, IsImage

LEMMA CarryInit == ASSUME Init PROVE CarryInv
<1>1. RequestsInv /\ \A r \in Requests : req[r] = Idle
  BY DangleInit DEF DangleInv, Init
<1>2. PICK p \in {"active", "retired"}, c \in Lives :
        row = [s \in Sides |-> IF s = "parent" THEN NewRow(p) ELSE NewRow(c)]
  BY DEF Init
<1>3. ASSUME NEW l PROVE LET y == NewRow(l) IN
        DOMAIN y = RowFields /\ DOMAIN y.log = Columns /\ y.ver \in Nat /\ y.set = {}
  BY DEF NewRow, RowFields, Columns
<1>4. RowsOK(row)
  BY <1>2, <1>3, SidesAre DEF RowsOK
<1> QED
  BY <1>1, <1>4 DEF CarryInv, Carried

(* A step that writes nothing. *)
LEMMA CarryQuiet ==
  ASSUME CarryInv, UNCHANGED <<scen, engine, row>>, NEW r \in Requests, NEW q,
         req' = [req EXCEPT ![r] = q], Shaped(scen, engine, q), Carried(scen, engine, row, q)
  PROVE  CarryInv'
<1>1. \A k \in Requests : req'[k] = IF k = r THEN q ELSE req[k]
  BY DEF CarryInv, RequestsInv
<1>2. RequestsInv'
  BY <1>1 DEF CarryInv, RequestsInv
<1> QED
  BY <1>1, <1>2 DEF CarryInv

LEMMA CarriedIs ==
  ASSUME CarryInv, NEW r \in Requests, req[r] # Idle
  PROVE  /\ Shaped(scen, engine, req[r]) /\ Named(scen, req[r]) /\ Op(req[r]) = Meant(scen, req[r])
         /\ Dated(scen, engine, row[req[r].side], req[r]) /\ Submitted(scen, engine, row[req[r].side], req[r])
         /\ Gate(scen, req[r]) /\ Opened(scen, engine, row[req[r].side], req[r])
         /\ Shown(scen, engine, row[req[r].side], req[r])
         /\ req[r].op \in {"asked", "open"} => req[r].want \in Values(Meant(scen, req[r]))
         /\ req[r].op = "open" => engine = "postgres" /\ req[r].moved \in BOOLEAN
<1>1. Shaped(scen, engine, req[r]) /\ Carried(scen, engine, row, req[r])
  BY DEF CarryInv, RequestsInv
<1>2. Named(scen, req[r]) /\ (req[r].op \in {"asked", "open"} => req[r].want \in Values(Meant(scen, req[r])))
      /\ (req[r].op = "open" => engine = "postgres" /\ req[r].moved \in BOOLEAN)
  BY <1>1 DEF Shaped
<1> QED
  BY <1>1, <1>2 DEF Carried, Op, Meant

LEMMA AskedCarried ==
  ASSUME CarryInv, NEW s \in Sides, NEW n \in DOMAIN Scenarios[scen][s], NEW f, f = Scenarios[scen][s][n],
         NEW want \in Values(f), NEW shown, NEW token,
         Passes(f, s, "outside", Cols(row[s]), want),
         f.act # "create" => row[s].life # "none",
         Honest(engine, f) => token \in Nat /\ token <= row[s].ver,
         f.guard = "form" /\ KeepsForm(engine, scen, s, f) =>
           /\ DOMAIN shown = Columns
           /\ token = row[s].ver => \A c \in f.sets : shown[c] = row[s][c]
  PROVE  LET q == Asked(s, n, shown, token, want) IN
         Shaped(scen, engine, q) /\ Carried(scen, engine, row, q)
<1> DEFINE q == Asked(s, n, shown, token, want)
           y == row[s]
<1>1. /\ q.op = "asked" /\ q.side = s /\ q.do = n /\ q.want = want /\ q.before = Cols(y)
      /\ q.shown = shown /\ q.token = token
  BY DEF Asked
<1>2. Shaped(scen, engine, q)
  BY AskedShape
<1> HIDE DEF q
<1>3. Meant(scen, q) = f
  BY <1>1 DEF Meant
<1>4. Dated(scen, engine, y, q)
  BY <1>1, <1>3 DEF Dated
<1>5. Submitted(scen, engine, y, q)
  BY <1>1, <1>3, ColsAre DEF Submitted, SameRow
<1>6. Gate(scen, q)
  BY <1>1, <1>3 DEF Gate, Checked, Passes
<1>7. Opened(scen, engine, y, q)
  BY <1>1 DEF Opened
<1>8. Shown(scen, engine, y, q)
  BY <1>1, <1>3 DEF Shown
<1> QED
  BY <1>1, <1>2, <1>4, <1>5, <1>6, <1>7, <1>8 DEF Carried, q

(* A page that is drawn: the row first, then its set. *)
LEMMA DrawnCarried ==
  ASSUME CarryInv, NEW q, q.op = "drawing", DOMAIN q = FormFields, Named(scen, q), NEW f, f = Meant(scen, q),
         NEW what, NEW left, f.act # "create" => row[q.side].life # "none",
         Honest(engine, f) => q.token \in Nat /\ q.token <= row[q.side].ver,
         KeepsForm(engine, scen, q.side, f) /\ f.guard = "form" =>
           /\ DOMAIN q.shown = Columns
           /\ \/ what = "row" /\ left = Tail(f.draws)
              \/ /\ what = "set" /\ left = <<>> /\ f.draws = <<"row", "set">>
                 /\ q.token = row[q.side].ver => \A c \in f.sets : c # "set" => q.shown[c] = row[q.side][c]
  PROVE  LET d == Drawing(Read(q, what), left) IN
         Shaped(scen, engine, d) /\ Carried(scen, engine, row, d)
<1> DEFINE p == Read(q, what)
           d == Drawing(p, left)
           y == row[q.side]
<1>0. scen \in DOMAIN Scenarios /\ engine \in Engines /\ q.side \in Sides /\ y.ver \in Nat
  BY DEF CarryInv, RequestsInv, Named, RowsOK
<1>1. Shaped(scen, engine, d)
  BY DrawingShape
<1>2. /\ p.op = "drawing" /\ DOMAIN p = FormFields /\ p.side = q.side /\ p.do = q.do
      /\ what = "row" => p.token = y.ver /\ p.shown = [Cols(y) EXCEPT !.set = q.shown.set]
      /\ what # "row" => p.token = q.token /\ p.shown = [q.shown EXCEPT !.set = y.set]
  BY DEF Read, FormFields
<1> HIDE DEF p
<1>3. /\ d.side = q.side /\ d.do = q.do /\ d.token = p.token /\ d.shown = p.shown
      /\ left = <<>> => d.op = "form"
      /\ left # <<>> => d.op = "drawing" /\ d.left = left
  BY <1>2 DEF Drawing, FormFields
<1> HIDE DEF d
<1>4. Meant(scen, d) = f /\ d.op \in {"drawing", "form"}
  BY <1>3 DEF Meant
<1>5. Dated(scen, engine, y, d)
  BY <1>0, <1>2, <1>3, <1>4 DEF Dated
<1>6. Submitted(scen, engine, y, d) /\ Gate(scen, d) /\ Opened(scen, engine, y, d)
  BY <1>4 DEF Submitted, Gate, Opened
<1>7. Shown(scen, engine, y, d)
  <2> SUFFICES ASSUME f.guard = "form", KeepsForm(engine, scen, q.side, f)
               PROVE  /\ DOMAIN d.shown = Columns
                      /\ d.op = "drawing" => d.left = <<"set">> /\ f.draws = <<"row", "set">>
                      /\ d.token = y.ver => \A c \in f.sets : c # "set" \/ Complete(f, d) => d.shown[c] = y[c]
    BY <1>3, <1>4 DEF Shown
  <2>1. f.sets \subseteq Columns
    BY <1>0, RuleFor
  <2>2. f.draws = <<"row", "set">> \/ f.draws = <<"row">>
    BY DEF KeepsForm
  <2>3. CASE what = "row" /\ left = Tail(f.draws)
    <3>1. DOMAIN d.shown = Columns /\ \A c \in Columns : c # "set" => d.shown[c] = y[c]
      BY <1>2, <1>3, <2>3, ColsAre
    <3>2. CASE f.draws = <<"row", "set">>
      <4>1. left = <<"set">>
        BY <2>3, <3>2
      <4> QED
        BY <1>3, <2>1, <3>1, <3>2, <4>1 DEF Complete
    <3>3. CASE f.draws = <<"row">>
      <4>1. left = <<>> /\ <<"row">> # <<"row", "set">>
        BY <2>3, <3>3
      <4> QED
        BY <1>3, <2>1, <3>1, <3>3, <4>1 DEF Complete
    <3> QED
      BY <2>2, <3>2, <3>3
  <2>4. CASE /\ what = "set" /\ left = <<>> /\ f.draws = <<"row", "set">>
             /\ q.token = y.ver => \A c \in f.sets : c # "set" => q.shown[c] = y[c]
    <3>1. DOMAIN q.shown = Columns /\ "set" \in Columns
      BY DEF Columns
    <3>2. DOMAIN d.shown = Columns /\ d.token = q.token /\ d.shown["set"] = y.set
          /\ \A c \in Columns : c # "set" => d.shown[c] = q.shown[c]
      BY <1>2, <1>3, <2>4, <3>1
    <3> QED
      BY <1>3, <2>1, <2>4, <3>2
  <2> QED
    BY <2>3, <2>4
<1> QED
  BY <1>1, <1>3, <1>5, <1>6, <1>7 DEF Carried, d, p

LEMMA RowIs ==
  ASSUME CarryInv, NEW d \in Sides
  PROVE  /\ scen \in DOMAIN Scenarios /\ engine \in Engines /\ row[d].ver \in Nat
         /\ DOMAIN row[d] = RowFields /\ DOMAIN row[d].log = Columns
BY DEF CarryInv, RequestsInv, RowsOK

LEMMA CarryStart ==
  ASSUME CarryInv, NEW r \in Requests, NEW s \in Sides, NEW n \in DOMAIN Scenarios[scen][s], NEW f,
         f = Scenarios[scen][s][n], OpenForm(r, s, n, f) \/ Ask(r, s, n, f)
  PROVE  CarryInv'
<1>1. CASE OpenForm(r, s, n, f)
  <2> DEFINE q == [op |-> "drawing", side |-> s, do |-> n, attempt |-> 1, left |-> f.draws,
                   shown |-> [Cols(row[s]) EXCEPT !.set = {}], token |-> row[s].ver]
             d == Drawing(Read(q, Head(f.draws)), Tail(f.draws))
  <2>1. Start(r, d) /\ row[s].life # "none"
    BY <1>1, Zenon DEF OpenForm
  <2>2. /\ q.op = "drawing" /\ DOMAIN q = FormFields /\ Named(scen, q) /\ f = Meant(scen, q)
        /\ q.side = s /\ q.token = row[s].ver /\ q.shown = [Cols(row[s]) EXCEPT !.set = {}]
    BY DEF FormFields, Named, Meant
  <2> HIDE DEF q
  <2>3. DOMAIN q.shown = Columns /\ row[s].ver \in Nat
    BY <2>2, ColsAre, RowIs
  <2>4. KeepsForm(engine, scen, s, f) /\ f.guard = "form" => Head(f.draws) = "row"
    BY DEF KeepsForm
  <2> DEFINE what == Head(f.draws)
             left == Tail(f.draws)
  <2>5. Honest(engine, f) => q.token \in Nat /\ q.token <= row[q.side].ver
    BY <2>2, <2>3
  <2>6. KeepsForm(engine, scen, q.side, f) /\ f.guard = "form" =>
          DOMAIN q.shown = Columns /\ what = "row" /\ left = Tail(f.draws)
    BY <2>2, <2>3, <2>4
  <2>7. row[q.side].life # "none"
    BY <2>1, <2>2
  <2> HIDE DEF what, left
  <2>8. Shaped(scen, engine, Drawing(Read(q, what), left)) /\ Carried(scen, engine, row, Drawing(Read(q, what), left))
    BY <2>2, <2>5, <2>6, <2>7, DrawnCarried
  <2> HIDE DEF d
  <2> QED
    BY <2>1, <2>8, CarryQuiet DEF Start, d, what, left
<1>2. CASE Ask(r, s, n, f)
  <2>1. PICK want \in Wants(f, row[s]) :
          /\ Passes(f, s, "outside", Cols(row[s]), want)
          /\ Start(r, Asked(s, n, Cols(row[s]), row[s].ver, want))
    BY <1>2 DEF Ask
  <2>2. want \in Values(f)
    BY DEF Wants
  <2>3. f.guard # "form" /\ (f.act # "create" => row[s].life # "none") /\ row[s].ver \in Nat
    BY <1>2, RowIs DEF Ask
  <2> DEFINE q == Asked(s, n, Cols(row[s]), row[s].ver, want)
  <2>4. Shaped(scen, engine, q) /\ Carried(scen, engine, row, q)
    BY <2>1, <2>2, <2>3, AskedCarried
  <2> HIDE DEF q
  <2> QED
    BY <2>1, <2>4, CarryQuiet DEF Start, q
<1> QED
  BY <1>1, <1>2

LEMMA CarryDraw == ASSUME CarryInv, NEW r \in Requests, DrawNext(r) PROVE CarryInv'
<1> DEFINE q == req[r]
           f == Meant(scen, q)
           d == Drawing(Read(q, Head(q.left)), Tail(q.left))
<1>1. q.op = "drawing" /\ req' = [req EXCEPT ![r] = d] /\ UNCHANGED <<scen, engine, row>>
  BY DEF DrawNext
<1>2. DOMAIN q = FormFields /\ Named(scen, q) /\ q # Idle
  BY <1>1, IdleOp DEF CarryInv, RequestsInv, Shaped
<1>3. Dated(scen, engine, row[q.side], q) /\ Shown(scen, engine, row[q.side], q)
  BY <1>2, CarriedIs
<1> DEFINE what == Head(q.left)
           left == Tail(q.left)
<1>4. KeepsForm(engine, scen, q.side, f) /\ f.guard = "form" =>
        /\ DOMAIN q.shown = Columns /\ what = "set" /\ left = <<>> /\ f.draws = <<"row", "set">>
        /\ q.token = row[q.side].ver => \A c \in f.sets : c # "set" => q.shown[c] = row[q.side][c]
  <2> SUFFICES ASSUME KeepsForm(engine, scen, q.side, f), f.guard = "form"
               PROVE  /\ DOMAIN q.shown = Columns /\ what = "set" /\ left = <<>> /\ f.draws = <<"row", "set">>
                      /\ q.token = row[q.side].ver => \A c \in f.sets : c # "set" => q.shown[c] = row[q.side][c]
    OBVIOUS
  <2>1. /\ DOMAIN q.shown = Columns /\ q.left = <<"set">> /\ f.draws = <<"row", "set">>
        /\ q.token = row[q.side].ver => \A c \in f.sets : c # "set" => q.shown[c] = row[q.side][c]
    BY <1>1, <1>3, Zenon DEF Shown
  <2>2. what = "set" /\ left = <<>>
    BY <2>1
  <2> QED
    BY <2>1, <2>2
<1>5. (f.act # "create" => row[q.side].life # "none")
      /\ (Honest(engine, f) => q.token \in Nat /\ q.token <= row[q.side].ver)
  BY <1>3 DEF Dated
<1> HIDE DEF what, left, q, f
<1>6. f = Meant(scen, q)
  BY DEF f
<1>7. Shaped(scen, engine, Drawing(Read(q, what), left)) /\ Carried(scen, engine, row, Drawing(Read(q, what), left))
  BY <1>1, <1>2, <1>4, <1>5, <1>6, DrawnCarried
<1> QED
  BY <1>1, <1>7, CarryQuiet DEF what, left

LEMMA RedrawnCarried ==
  ASSUME CarryInv, NEW q, Named(scen, q), NEW f, f = Meant(scen, q), NEW how, q.op \in {"form", "open"},
         Dated(scen, engine, row[q.side], q), Shown(scen, engine, row[q.side], q),
         KeepsForm(engine, scen, q.side, f) /\ f.guard = "form" => how \in {"page", "kept", "reload"}
  PROVE  Shaped(scen, engine, Redrawn(q, how)) /\ Carried(scen, engine, row, Redrawn(q, how))
<1> DEFINE p == Redrawn(q, how)
           y == row[q.side]
<1>0. y.ver \in Nat /\ DOMAIN Cols(y) = Columns /\ \A c \in Columns : Cols(y)[c] = y[c]
  BY RowIs, ColsAre DEF Named
<1>1. Shaped(scen, engine, p)
  BY RedrawnShape
<1>2. CASE how = "page"
  BY <1>1, <1>2 DEF Redrawn, Carried
<1>3. CASE how # "page"
  <2>1. /\ p.op = "form" /\ p.side = q.side /\ p.do = q.do
        /\ how = "kept" => p.token = q.token /\ p.shown = q.shown
        /\ how # "kept" => p.token = y.ver
        /\ how = "reload" => p.shown = Cols(y)
    BY <1>3 DEF Redrawn
  <2> HIDE DEF p
  <2>2. Meant(scen, p) = f
    BY <2>1 DEF Meant
  <2>3. Dated(scen, engine, y, p)
    BY <1>0, <2>1, <2>2 DEF Dated
  <2>4. Submitted(scen, engine, y, p) /\ Gate(scen, p) /\ Opened(scen, engine, y, p)
    BY <2>1 DEF Submitted, Gate, Opened
  <2>5. Shown(scen, engine, y, p)
    <3> SUFFICES ASSUME f.guard = "form", KeepsForm(engine, scen, q.side, f)
                 PROVE  /\ DOMAIN p.shown = Columns
                        /\ p.token = y.ver => \A c \in f.sets : c # "set" \/ Complete(f, p) => p.shown[c] = y[c]
      BY <2>1, <2>2 DEF Shown
    <3>1. f.sets \subseteq Columns
      BY RuleFor DEF CarryInv, RequestsInv
    <3>2. CASE how = "kept"
      BY <2>1, <3>2 DEF Shown, Complete
    <3>3. CASE how = "reload"
      BY <1>0, <2>1, <3>1, <3>3
    <3> QED
      BY <1>3, <3>2, <3>3
  <2> QED
    BY <1>1, <2>1, <2>3, <2>4, <2>5 DEF Carried, p
<1> QED
  BY <1>2, <1>3

LEMMA RefusalsCarried ==
  ASSUME CarryInv, NEW q, Named(scen, q), NEW f, f = Meant(scen, q), q.op \in {"form", "open"},
         Dated(scen, engine, row[q.side], q), Shown(scen, engine, row[q.side], q), NEW answer \in Refusals(f, q)
  PROVE  Shaped(scen, engine, answer) /\ Carried(scen, engine, row, answer)
<1>1. PICK how \in IF f.guard = "form" THEN f.invalid ELSE {"page"} : answer = Redrawn(q, how)
  BY DEF Refusals
<1>2. KeepsForm(engine, scen, q.side, f) /\ f.guard = "form" => how \in {"page", "kept", "reload"}
  BY DEF KeepsForm
<1> QED
  BY <1>1, <1>2, RedrawnCarried

LEMMA CarrySubmit == ASSUME CarryInv, NEW r \in Requests, SubmitForm(r) PROVE CarryInv'
<1> DEFINE q == req[r]
           f == Op(req[r])
           y == row[q.side]
<1>1. q.op = "form" /\ UNCHANGED <<scen, engine, row>> /\ q # Idle
  BY IdleOp DEF SubmitForm
<1>2. /\ Named(scen, q) /\ f = Meant(scen, q)
      /\ Dated(scen, engine, y, q) /\ Shown(scen, engine, y, q)
  BY <1>1, CarriedIs
<1>3. CASE \E answer \in Refusals(f, q) : req' = [req EXCEPT ![r] = answer]
  <2>1. PICK answer \in Refusals(f, q) : req' = [req EXCEPT ![r] = answer]
    BY <1>3
  <2> HIDE DEF q, f
  <2>2. Shaped(scen, engine, answer) /\ Carried(scen, engine, row, answer)
    BY <1>1, <1>2, <2>1, RefusalsCarried
  <2> QED
    BY <1>1, <2>1, <2>2, CarryQuiet
<1>4. CASE \E want \in Wants(f, y) :
             /\ Passes(f, q.side, "outside", Cols(y), want)
             /\ req' = [req EXCEPT ![r] = Asked(q.side, q.do, Known(f, q), q.token, want)]
  <2>1. PICK want \in Wants(f, y) :
             /\ Passes(f, q.side, "outside", Cols(y), want)
             /\ req' = [req EXCEPT ![r] = Asked(q.side, q.do, Known(f, q), q.token, want)]
    BY <1>4
  <2> HIDE DEF q, f
  <2> DEFINE s == q.side
             n == q.do
             shown == Known(f, q)
  <2>2. want \in Values(f) /\ s \in Sides /\ n \in DOMAIN Scenarios[scen][s] /\ f = Scenarios[scen][s][n]
    BY <1>2 DEF Wants, Named, Meant
  <2>3. /\ f.act # "create" => row[s].life # "none"
        /\ Honest(engine, f) => q.token \in Nat /\ q.token <= row[s].ver
    BY <1>2 DEF Dated
  <2>4. ASSUME f.guard = "form", KeepsForm(engine, scen, s, f)
        PROVE  DOMAIN shown = Columns /\ (q.token = row[s].ver => \A c \in f.sets : shown[c] = row[s][c])
    <3>1. DOMAIN q.shown = Columns /\ f.sets \subseteq Columns /\ "set" \in Columns
      BY <1>2, <2>4, RuleFor DEF Shown, CarryInv, RequestsInv, Columns
    <3>2. q.token = row[s].ver => \A c \in f.sets : c # "set" \/ f.draws = <<"row", "set">> => q.shown[c] = row[s][c]
      BY <1>1, <1>2, <2>4 DEF Shown, Complete
    <3>3. CASE f.delta
      <4>1. shown = [q.shown EXCEPT !.set = row[s].set]
        BY <3>3 DEF Known
      <4>2. DOMAIN shown = Columns /\ shown["set"] = row[s].set /\ \A c \in Columns : c # "set" => shown[c] = q.shown[c]
        BY <3>1, <4>1
      <4> HIDE DEF shown
      <4> QED
        BY <3>1, <3>2, <4>2
    <3>4. CASE ~f.delta
      <4>1. "set" \in f.sets => f.draws = <<"row", "set">>
        BY <2>4, <3>4 DEF KeepsForm
      <4>2. shown = q.shown
        BY <3>4 DEF Known
      <4> QED
        BY <3>1, <3>2, <4>1, <4>2
    <3> QED
      BY <3>3, <3>4
  <2> HIDE DEF shown, s, n
  <2>5. Passes(f, s, "outside", Cols(row[s]), want)
    BY <2>1 DEF s
  <2>6. LET a == Asked(s, n, shown, q.token, want) IN Shaped(scen, engine, a) /\ Carried(scen, engine, row, a)
    BY <2>2, <2>3, <2>4, <2>5, AskedCarried
  <2> QED
    BY <1>1, <2>1, <2>6, CarryQuiet DEF s, n, shown
<1> QED
  BY <1>3, <1>4 DEF SubmitForm

(* The reads inside the transaction. *)
LEMMA LookedCarried ==
  ASSUME CarryInv, NEW q, q.op = "asked", Shaped(scen, engine, q), Named(scen, q), NEW f, f = Meant(scen, q),
         Dated(scen, engine, row[q.side], q), Submitted(scen, engine, row[q.side], q), Gate(scen, q),
         Shown(scen, engine, row[q.side], q)
  PROVE  LET p == Looked(f, q)
             y == row[q.side] IN
         /\ p.op = "open" /\ p.side = q.side /\ p.do = q.do /\ p.want = q.want /\ p.shown = q.shown
         /\ Meant(scen, p) = f /\ Named(scen, p)
         /\ Dated(scen, engine, y, p) /\ Submitted(scen, engine, y, p) /\ Opened(scen, engine, y, p)
         /\ Shown(scen, engine, y, p) /\ p.seen = y.set
         /\ f.before = "inside" => \A c \in Columns : p.before[c] = y[c]
         /\ Goes(f, p) => Gate(scen, p)
<1> DEFINE p == Looked(f, q)
           y == row[q.side]
<1>0. y.ver \in Nat /\ IsImage(Cols(y)) /\ Cols(y).life = y.life /\ \A c \in Columns : Cols(y)[c] = y[c]
  BY RowIs, ColsAre DEF Named
<1>1. /\ p.op = "open" /\ p.side = q.side /\ p.do = q.do /\ p.want = q.want /\ p.shown = q.shown /\ p.seen = y.set
      /\ p.token = IF f.before = "inside" /\ f.guard = "read" THEN y.ver ELSE q.token
      /\ p.before = IF f.before = "inside" THEN Cols(y) ELSE q.before
  BY DEF Looked
<1> HIDE DEF p
<1>2. Meant(scen, p) = f /\ Named(scen, p)
  BY <1>1 DEF Named, Meant
<1>3. Dated(scen, engine, y, p)
  BY <1>0, <1>1, <1>2 DEF Dated
<1>4. Submitted(scen, engine, y, p)
  <2>1. CASE f.before = "inside"
    BY <1>0, <1>1, <1>2, <2>1 DEF Submitted, SameRow, Dated
  <2>2. CASE f.before # "inside"
    BY <1>1, <1>2, <2>2 DEF Submitted
  <2> QED
    BY <2>1, <2>2
<1>5. Opened(scen, engine, y, p) /\ (f.before = "inside" => \A c \in Columns : p.before[c] = y[c])
  BY <1>0, <1>1, <1>2 DEF Opened
<1>6. Shown(scen, engine, y, p)
  BY <1>1, <1>2 DEF Shown, Complete
<1>7. Goes(f, p) => Gate(scen, p)
  <2> SUFFICES ASSUME Goes(f, p), f.gate = "inside" \/ f.before # "inside" PROVE Checked(f, p)
    BY <1>1, <1>2 DEF Gate
  <2>1. CASE f.gate = "inside"
    BY <2>1 DEF Goes, Passes, Checked
  <2>2. CASE f.gate # "inside"
    <3>1. Gated(f)
      BY RuleFor DEF CarryInv, RequestsInv
    <3>2. f.gate = "outside" /\ f.before # "inside" /\ p.before = q.before /\ p.want = q.want
      BY <1>1, <2>2, <3>1 DEF Gated
    <3> QED
      BY <3>2 DEF Gate, Checked
  <2> QED
    BY <2>1, <2>2
<1> QED
  BY <1>1, <1>2, <1>3, <1>4, <1>5, <1>6, <1>7 DEF p

LEMMA CarryRefused ==
  ASSUME CarryInv, NEW r \in Requests, NEW q, Named(scen, q), NEW f, f = Meant(scen, q), q.op = "open",
         Dated(scen, engine, row[q.side], q), Shown(scen, engine, row[q.side], q), Refused(r, f, q)
  PROVE  CarryInv'
<1>1. PICK answer \in Refusals(f, q) : req' = [req EXCEPT ![r] = answer]
  BY DEF Refused
<1>2. Shaped(scen, engine, answer) /\ Carried(scen, engine, row, answer)
  BY RefusalsCarried
<1> QED
  BY <1>1, <1>2, CarryQuiet DEF Refused

LEMMA CarryOpen == ASSUME CarryInv, NEW r \in Requests, OpenTx(r) PROVE CarryInv'
<1>1. PICK f \in {Op(req[r])} : \E q \in {Looked(f, req[r])} :
        \/ Goes(f, q) /\ req' = [req EXCEPT ![r] = q] /\ UNCHANGED <<scen, engine, row, started>>
        \/ ~Goes(f, q) /\ Refused(r, f, q)
  BY DEF OpenTx
<1> DEFINE a == req[r]
           q == Looked(f, a)
<1>2. engine = "postgres" /\ a.op = "asked" /\ a # Idle
  BY IdleOp DEF OpenTx
<1>3. /\ f = Meant(scen, a) /\ Shaped(scen, engine, a) /\ Named(scen, a) /\ Dated(scen, engine, row[a.side], a)
      /\ Submitted(scen, engine, row[a.side], a) /\ Gate(scen, a) /\ Shown(scen, engine, row[a.side], a)
  BY <1>1, <1>2, CarriedIs
<1>4. Shaped(scen, engine, q)
  BY <1>2, <1>3, LookedShape
<1>5. \/ Goes(f, q) /\ req' = [req EXCEPT ![r] = q] /\ UNCHANGED <<scen, engine, row, started>>
      \/ ~Goes(f, q) /\ Refused(r, f, q)
  BY <1>1
<1> HIDE DEF a
<1>6. /\ q.op = "open" /\ q.side = a.side /\ Meant(scen, q) = f /\ Named(scen, q)
      /\ Dated(scen, engine, row[q.side], q) /\ Submitted(scen, engine, row[q.side], q)
      /\ Opened(scen, engine, row[q.side], q) /\ Shown(scen, engine, row[q.side], q) /\ (Goes(f, q) => Gate(scen, q))
  BY <1>2, <1>3, LookedCarried
<1> HIDE DEF q
<1>7. CASE Goes(f, q) /\ req' = [req EXCEPT ![r] = q] /\ UNCHANGED <<scen, engine, row, started>>
  BY <1>4, <1>6, <1>7, CarryQuiet DEF Carried
<1>8. CASE ~Goes(f, q) /\ Refused(r, f, q)
  BY <1>6, <1>8, CarryRefused
<1> QED
  BY <1>5, <1>7, <1>8

LEMMA CarryAbort == ASSUME CarryInv, NEW r \in Requests, AbortTx(r) PROVE CarryInv'
<1>1. PICK f \in {Op(req[r])} : Serial(f, req[r]) /\ NextAttempt(r, f, req[r])
  BY DEF AbortTx
<1> DEFINE old == req[r]
           y == row[old.side]
<1>2. old.op = "open" /\ old # Idle /\ UNCHANGED <<scen, engine, row, started>>
  BY IdleOp DEF AbortTx
<1>3. /\ f = Meant(scen, old) /\ Shaped(scen, engine, old) /\ Named(scen, old) /\ Dated(scen, engine, y, old)
      /\ Submitted(scen, engine, y, old) /\ Gate(scen, old) /\ Shown(scen, engine, y, old)
      /\ old.want \in Values(f) /\ engine = "postgres"
  BY <1>1, <1>2, CarriedIs
<1>4. PICK token, attempt :
        \/ /\ req' = [req EXCEPT ![r] = [Asked(old.side, old.do, old.shown, token, old.want)
                                           EXCEPT !.before = old.before, !.attempt = attempt]]
           /\ ~f.sticky => token = old.token
        \/ req' = [req EXCEPT ![r] = Idle]
  BY <1>1, Zenon DEF NextAttempt, Finish
<1>5. CASE req' = [req EXCEPT ![r] = Idle]
  BY <1>2, <1>5, CarryQuiet DEF Carried, Shaped
<1>6. CASE /\ req' = [req EXCEPT ![r] = [Asked(old.side, old.do, old.shown, token, old.want)
                                           EXCEPT !.before = old.before, !.attempt = attempt]]
           /\ ~f.sticky => token = old.token
  <2> DEFINE q == [Asked(old.side, old.do, old.shown, token, old.want) EXCEPT !.before = old.before, !.attempt = attempt]
  <2>1. /\ q.op = "asked" /\ DOMAIN q = AskedFields /\ q.side = old.side /\ q.do = old.do
        /\ q.want = old.want /\ q.before = old.before /\ q.shown = old.shown /\ q.token = token
    BY DEF Asked, AskedFields
  <2>2. req' = [req EXCEPT ![r] = q] /\ (~f.sticky => q.token = old.token)
    BY <1>6, <2>1
  <2> HIDE DEF q, old
  <2>3. Meant(scen, q) = f /\ Shaped(scen, engine, q)
    BY <1>3, <2>1 DEF Shaped, Named, Meant
  <2>4. Honest(engine, f) => q.token = old.token
    BY <1>3, <2>2 DEF Honest
  <2>5. Dated(scen, engine, y, q)
    BY <1>3, <2>3, <2>4 DEF Dated
  <2>6. Submitted(scen, engine, y, q)
    BY <1>2, <1>3, <2>1, <2>3, <2>4 DEF Submitted, old
  <2>7. Gate(scen, q)
    <3>1. f.before # "inside" => Checked(f, old)
      BY <1>2, <1>3 DEF Gate, old
    <3> QED
      BY <2>1, <2>3, <3>1 DEF Gate, Checked
  <2>8. Opened(scen, engine, y, q)
    BY <2>1 DEF Opened
  <2>9. Shown(scen, engine, y, q)
    <3>0. Complete(f, q) /\ Complete(f, old)
      BY <1>2, <2>1 DEF Complete, old
    <3>1. KeepsForm(engine, scen, q.side, f) /\ f.guard = "form" => q.token = old.token
      BY <2>4 DEF KeepsForm
    <3> QED
      BY <1>3, <2>1, <2>3, <3>0, <3>1 DEF Shown
  <2> QED
    BY <1>2, <2>1, <2>2, <2>3, <2>5, <2>6, <2>7, <2>8, <2>9, CarryQuiet DEF Carried
<1> QED
  BY <1>4, <1>5, <1>6

----------------------------------------------------------------------------
(* The statements. *)

(* A request whose transaction is about to write the row y. *)
Ready(s, e, y, q) ==
  LET f == Meant(s, q) IN
  /\ q.op = "open" /\ q.want \in Values(f)
  /\ Dated(s, e, y, q) /\ Submitted(s, e, y, q) /\ Gate(s, q) /\ Opened(s, e, y, q) /\ Shown(s, e, y, q)
  /\ Isolated(e, f) => /\ f.before = "inside" => \A c \in Columns : q.before[c] = y[c]
                       /\ q.seen = y.set

LEMMA WantIs ==
  ASSUME NEW f, NEW want \in Values(f)
  PROVE  want.life # "none" /\ (f.act = "retire" => want.life = "retired") /\ (f.act = "create" => want.life = "active")
<1>1. want.life \in CASE f.act = "retire" -> {"retired"}
                      [] f.act = "update" /\ "life" \in f.from -> {"active", "retired"}
                      [] OTHER -> {"active"}
  BY DEF Values
<1> QED
  BY <1>1

LEMMA MatchesIs ==
  ASSUME NEW f, NEW q, NEW y, Matches(f, q, y)
  PROVE  /\ f.act = "create" =>
              \/ y.life = "none"
              \/ f.exists = "upsert"
              \/ /\ f.exists = "revive" /\ y.life = "retired"
                 /\ f.guard = "read" => y.ver = q.token
         /\ f.act # "create" /\ f.guard \in {"form", "read"} => y.ver = q.token
BY DEF Matches

(* What the image was built from is still there. *)
LEMMA VersionHolds ==
  ASSUME NEW s, NEW e, NEW y, NEW q, NEW f, f = Meant(s, q), Ready(s, e, y, q), Matches(f, q, y), NEW c,
         Versioned(e, s, q.side, f, c), f.act = "create" => y.life # "none"
  PROVE  q.before.life # "none" /\ q.token = y.ver /\ Honest(e, f)
<1>1. Honest(e, f) /\ f.guard \in {"form", "read"} /\ SameRow(s, q.side, q.before, q.token, y)
  BY DEF Versioned, Ready, Submitted
<1>2. CASE f.act # "create"
  BY <1>1, <1>2, MatchesIs DEF Ready, Submitted
<1>3. CASE f.act = "create"
  <2>0. f.exists # "upsert" /\ f.guard = "read" /\ "life" \notin Silent(s, q.side)
    BY <1>3 DEF Versioned
  <2>1. y.life = "retired" /\ q.token = y.ver /\ "life" \notin Silent(s, q.side)
    BY <1>3, <2>0, MatchesIs
  <2> QED
    BY <1>1, <2>1 DEF SameRow
<1> QED
  BY <1>2, <1>3

LEMMA BuiltFromRow ==
  ASSUME NEW s, NEW e, NEW y, NEW q, NEW f, f = Meant(s, q), Ready(s, e, y, q), Matches(f, q, y),
         NEW c \in Columns, UpToDate(e, s, q.side, f, c), f.act = "create" => y.life # "none"
  PROVE  q.before[c] = y[c]
<1>1. CASE Versioned(e, s, q.side, f, c)
  <2>1. q.before.life # "none" /\ q.token = y.ver /\ Honest(e, f)
    BY <1>1, VersionHolds
  <2>2. SameRow(s, q.side, q.before, q.token, y)
    BY <2>1 DEF Ready, Submitted
  <2> QED
    BY <1>1, <2>1, <2>2 DEF SameRow, Versioned
<1>2. CASE f.before = "inside" /\ Isolated(e, f)
  BY <1>2 DEF Ready
<1> QED
  BY <1>1, <1>2 DEF UpToDate

LEMMA SeesAll ==
  ASSUME NEW s, NEW e, NEW y, NEW q, NEW f, f = Meant(s, q), Ready(s, e, y, q), Matches(f, q, y),
         Whole(e, s, q.side, f), y.life = "none" => y.set = {}
  PROVE  y.set \ q.seen = {}
<1>1. CASE f.act = "create" /\ y.life = "none"
  BY <1>1
<1>2. CASE Isolated(e, f)
  BY <1>2 DEF Ready
<1>3. CASE Versioned(e, s, q.side, f, "set") /\ ~(f.act = "create" /\ y.life = "none")
  <2>1. q.before.life # "none" /\ q.token = y.ver /\ Honest(e, f) /\ "set" \notin Silent(s, q.side)
    BY <1>3, VersionHolds DEF Versioned
  <2> QED
    BY <2>1 DEF Ready, Opened
<1>4. CASE f.act = "create" /\ f.exists = "refuse"
  BY <1>1, <1>4, MatchesIs
<1> QED
  BY <1>1, <1>2, <1>3, <1>4 DEF Whole

(* The row after the statement, column by column. *)
LEMMA AfterIs ==
  ASSUME NEW f, NEW before, NEW want
  PROVE  /\ DOMAIN After(f, before, want) = Columns
         /\ \A c \in Columns : After(f, before, want)[c] = IF c \in f.from THEN want[c] ELSE before[c]
BY DEF After

StoredIn(f, q, x) ==
  [c \in Columns |-> IF c \notin f.sets THEN x[c]
                     ELSE IF c = "set" THEN (x.set \ Doomed(f, q)) \cup After(f, q.before, q.want).set
                     ELSE After(f, q.before, q.want)[c]]

LEMMA StoredIs ==
  ASSUME NEW f, NEW q, NEW x
  PROVE  LET after == After(f, q.before, q.want)
             new == StoredIn(f, q, x) IN
         /\ DOMAIN new = Columns
         /\ \A c \in Columns : c \notin f.sets => new[c] = x[c]
         /\ \A c \in Columns : c \in f.sets /\ c # "set" => new[c] = after[c]
         /\ "set" \in f.sets => new["set"] = (x.set \ Doomed(f, q)) \cup after["set"]
<1> DEFINE after == After(f, q.before, q.want)
<1> HIDE DEF after
<1>1. "set" \in Columns
  BY DEF Columns
<1> QED
  BY <1>1, AfterIs DEF StoredIn, after

LEMMA WrittenIs ==
  ASSUME NEW f, NEW q, NEW x
  PROVE  LET after == After(f, q.before, q.want)
             new == Written(f, q, x)
             stored == StoredIn(f, q, x) IN
         /\ DOMAIN new = RowFields
         /\ \A c \in Columns : new[c] = stored[c]
         /\ new.life = stored["life"] /\ new.set = stored["set"] /\ new.body = stored["body"]
         /\ new.ver = IF f.bumps /\ x.life # "none" THEN x.ver + 1 ELSE x.ver
         /\ new.doc = IF f.index THEN after["body"] ELSE x.doc
         /\ new.log = Replayed(f, q, x, after, stored)
<1> DEFINE after == After(f, q.before, q.want)
           stored == StoredIn(f, q, x)
<1>1. Written(f, q, x) =
        [life |-> stored.life, body |-> stored.body, own |-> stored.own, set |-> stored.set,
         ver |-> IF f.bumps /\ x.life # "none" THEN x.ver + 1 ELSE x.ver,
         doc |-> IF f.index THEN after.body ELSE x.doc,
         log |-> Replayed(f, q, x, after, stored)]
  BY Zenon DEF Written, StoredIn
<1> HIDE DEF after, stored
<1> QED
  BY <1>1 DEF RowFields, Columns, after, stored

LEMMA LogShape ==
  ASSUME NEW f, NEW q, NEW x, DOMAIN x.log = Columns
  PROVE  DOMAIN Replayed(f, q, x, After(f, q.before, q.want), StoredIn(f, q, x)) = Columns
<1> DEFINE after == After(f, q.before, q.want)
           stored == StoredIn(f, q, x)
<1>1. DOMAIN stored = Columns
  BY StoredIs
<1> HIDE DEF after, stored
<1>2. DOMAIN Replayed(f, q, x, after, stored) = Columns
  BY <1>1 DEF Replayed, Diffed
<1> QED
  BY <1>2 DEF after, stored

(* How a row may move. *)
Evolves(s, e, d, x, y) ==
  /\ DOMAIN y = RowFields /\ DOMAIN y.log = Columns /\ y.ver \in Nat /\ x.ver <= y.ver
  /\ y.life = "none" => y.set = {}
  /\ x.life # "none" => y.life # "none"
  /\ y.ver = x.ver /\ x.life # "none" => \A c \in Columns \ Silent(s, d) : y[c] = x[c]
  /\ x.life = "none" => y.life # "retired"
  /\ Final(e, s, d) /\ x.life = "retired" => y.life = "retired"

LEMMA WrittenLife ==
  ASSUME CarryInv, NEW q, Named(scen, q), NEW f, f = Meant(scen, q), Ready(scen, engine, row[q.side], q)
  PROVE  LET x == row[q.side]
             y == Written(f, q, x) IN
         /\ y.life # "none"
         /\ "life" \notin f.sets => y.life = x.life
         /\ "life" \in f.sets /\ "life" \in f.from => y.life = q.want.life
         /\ "life" \in f.sets /\ "life" \notin f.from => y.life = q.before.life
         /\ x.life = "none" => f.act = "create"
         /\ f.act = "create" => "life" \in f.sets /\ "life" \in f.from
<1> DEFINE x == row[q.side]
           y == Written(f, q, x)
<1>0. "life" \in Columns /\ "life" # "set"
  BY DEF Columns
<1>1. Begins(f)
  BY RuleFor DEF CarryInv, RequestsInv
<1>2. (x.life = "none" => f.act = "create") /\ (f.act # "create" => q.before.life # "none") /\ q.want \in Values(f)
  BY DEF Ready, Dated, Submitted
<1>3. q.want.life # "none"
  BY <1>2, WantIs
<1>4. /\ "life" \notin f.sets => y.life = x.life
      /\ "life" \in f.sets /\ "life" \in f.from => y.life = q.want.life
      /\ "life" \in f.sets /\ "life" \notin f.from => y.life = q.before.life
  BY <1>0, WrittenIs, StoredIs, AfterIs
<1> HIDE DEF y
<1> QED
  BY <1>1, <1>2, <1>3, <1>4 DEF Begins, y

LEMMA WrittenEvolves ==
  ASSUME CarryInv, NEW q, Named(scen, q), NEW f, f = Meant(scen, q), Ready(scen, engine, row[q.side], q),
         Matches(f, q, row[q.side])
  PROVE  Evolves(scen, engine, q.side, row[q.side], Written(f, q, row[q.side]))
<1> DEFINE x == row[q.side]
           y == Written(f, q, x)
           s == q.side
<1>0. x.ver \in Nat /\ DOMAIN x.log = Columns /\ s \in Sides /\ q.do \in DOMAIN Scenarios[scen][s] /\ f = Scenarios[scen][s][q.do]
  BY RowIs DEF Named, Meant
<1>1. /\ y.life # "none"
      /\ "life" \notin f.sets => y.life = x.life
      /\ "life" \in f.sets /\ "life" \in f.from => y.life = q.want.life
      /\ "life" \in f.sets /\ "life" \notin f.from => y.life = q.before.life
      /\ x.life = "none" => f.act = "create"
      /\ f.act = "create" => "life" \in f.sets /\ "life" \in f.from
  BY WrittenLife
<1>2. /\ DOMAIN y = RowFields /\ DOMAIN y.log = Columns
      /\ y.ver = IF f.bumps /\ x.life # "none" THEN x.ver + 1 ELSE x.ver
  BY <1>0, WrittenIs, LogShape
<1>3. \A c \in Columns : c \notin f.sets => y[c] = x[c]
  BY WrittenIs, StoredIs
<1> HIDE DEF y
<1>4. y.ver \in Nat /\ x.ver <= y.ver
  BY <1>0, <1>2
<1>5. ASSUME y.ver = x.ver, x.life # "none", NEW c \in Columns \ Silent(scen, s) PROVE y[c] = x[c]
  <2>1. ~f.bumps
    BY <1>0, <1>2, <1>5
  <2>2. c \notin f.sets
    BY <1>0, <1>5, <2>1 DEF Silent
  <2> QED
    BY <1>3, <2>2
<1>6. q.want \in Values(f)
  BY DEF Ready
<1>7. x.life = "none" => y.life # "retired"
  BY <1>1, <1>6, WantIs
<1>8. ASSUME Final(engine, scen, s), x.life = "retired" PROVE y.life = "retired"
  <2>1. "life" \in f.sets => IF f.act = "create" THEN f.exists = "refuse"
                             ELSE IF "life" \in f.from THEN f.act = "retire"
                             ELSE UpToDate(engine, scen, s, f, "life")
    BY <1>0, <1>8, Zenon DEF Final
  <2>2. CASE f.act = "create"
    BY <1>1, <1>8, <2>1, <2>2 DEF Matches
  <2>3. CASE f.act # "create" /\ "life" \in f.sets /\ "life" \in f.from
    BY <1>1, <1>6, <2>1, <2>3, WantIs
  <2>4. CASE f.act # "create" /\ "life" \in f.sets /\ "life" \notin f.from
    <3>1. UpToDate(engine, scen, q.side, f, "life") /\ "life" \in Columns
      BY <2>1, <2>4 DEF Columns
    <3>2. q.before["life"] = x["life"]
      BY <2>4, <3>1, BuiltFromRow
    <3> QED
      BY <1>1, <1>8, <2>4, <3>2
  <2>5. CASE "life" \notin f.sets
    BY <1>1, <1>8, <2>5
  <2> QED
    BY <2>2, <2>3, <2>4, <2>5
<1> QED
  BY <1>1, <1>2, <1>4, <1>5, <1>7, <1>8 DEF Evolves, y

LEMMA CascadedEvolves ==
  ASSUME CarryInv, NEW q, Named(scen, q), NEW f, f = Meant(scen, q), NEW o \in Sides, o # q.side
  PROVE  Evolves(scen, engine, o, row[o], Cascaded(f, q, row[o]))
<1> DEFINE x == row[o]
           y == Cascaded(f, q, x)
<1>0. DOMAIN x = RowFields /\ DOMAIN x.log = Columns /\ x.ver \in Nat /\ (x.life = "none" => x.set = {})
  BY DEF CarryInv, RowsOK
<1>1. CASE y = x
  BY <1>0, <1>1 DEF Evolves
<1>2. CASE y # x
  <2>1. f.cascade /\ q.side = "parent" /\ x.life = "active" /\ y = [x EXCEPT !.life = "retired", !.log.life = "retired"]
    BY <1>2 DEF Cascaded
  <2>2. /\ DOMAIN y = RowFields /\ DOMAIN y.log = Columns /\ y.ver = x.ver /\ y.life = "retired"
        /\ \A c \in Columns : c # "life" => y[c] = x[c]
    BY <1>0, <2>1 DEF RowFields, Columns
  <2> HIDE DEF y
  <2>3. o = "child" /\ q.do \in DOMAIN Scenarios[scen].parent /\ Scenarios[scen].parent[q.do].cascade
    BY <2>1, SidesAre DEF Named, Meant
  <2>4. "life" \in Silent(scen, o)
    BY <2>3 DEF Silent, Columns
  <2> QED
    BY <1>0, <2>1, <2>2, <2>4 DEF Evolves, y
<1> QED
  BY <1>1, <1>2

LEMMA ExecuteEvolves ==
  ASSUME CarryInv, NEW q, Named(scen, q), NEW f, f = Meant(scen, q), Ready(scen, engine, row[q.side], q), Execute(f, q)
  PROVE  /\ UNCHANGED <<scen, engine>> /\ DOMAIN row' = Sides /\ RowsOK(row')
         /\ \A d \in Sides : Evolves(scen, engine, d, row[d], row'[d])
         /\ ~Matches(f, q, row[q.side]) => row' = row
         /\ Matches(f, q, row[q.side]) =>
              /\ row'[q.side] = Written(f, q, row[q.side])
              /\ \A o \in Sides : o # q.side => row'[o] = Cascaded(f, q, row[o])
<1>0. \A d \in Sides : /\ DOMAIN row[d] = RowFields /\ DOMAIN row[d].log = Columns /\ row[d].ver \in Nat
                       /\ row[d].life = "none" => row[d].set = {}
  BY DEF CarryInv, RowsOK
<1>1. UNCHANGED <<scen, engine>> /\ DOMAIN row = Sides /\ q.side \in Sides
  BY DEF Execute, CarryInv, RequestsInv, Named
<1>2. CASE ~Matches(f, q, row[q.side])
  <2>1. row' = row
    BY <1>2 DEF Execute
  <2>2. \A d \in Sides : Evolves(scen, engine, d, row[d], row[d])
    BY <1>0 DEF Evolves
  <2> QED
    BY <1>0, <1>1, <1>2, <2>1, <2>2 DEF RowsOK
<1>3. CASE Matches(f, q, row[q.side])
  <2>1. row' = [s \in Sides |-> IF s = q.side THEN Written(f, q, row[s]) ELSE Cascaded(f, q, row[s])]
    BY <1>3 DEF Execute
  <2>2. /\ DOMAIN row' = Sides /\ row'[q.side] = Written(f, q, row[q.side])
        /\ \A o \in Sides : o # q.side => row'[o] = Cascaded(f, q, row[o])
    BY <1>1, <2>1
  <2>3. Evolves(scen, engine, q.side, row[q.side], row'[q.side])
    BY <1>3, <2>2, WrittenEvolves
  <2>4. \A o \in Sides : o # q.side => Evolves(scen, engine, o, row[o], row'[o])
    BY <2>2, CascadedEvolves
  <2>5. \A d \in Sides : Evolves(scen, engine, d, row[d], row'[d])
    BY <2>3, <2>4
  <2>6. RowsOK(row')
    BY <2>5 DEF RowsOK, Evolves
  <2> QED
    BY <1>1, <1>3, <2>2, <2>5, <2>6
<1> QED
  BY <1>2, <1>3

(* The other requests.  t becomes d: the same, unless it is serializable and *)
(* its row moved.                                                            *)
Follows(s, e, t, d, x, y) ==
  /\ d.op = t.op /\ d.side = t.side /\ d.do = t.do /\ d.shown = t.shown /\ d.token = t.token
  /\ t.op = "drawing" => d.left = t.left
  /\ d.want = t.want /\ d.before = t.before /\ d.seen = t.seen
  /\ t.op = "open" /\ Meant(s, t).tx = "serializable" /\ ~d.moved => ~t.moved /\ y[t.side] = x[t.side]

LEMMA OtherCarried ==
  ASSUME NEW s, NEW e, NEW x, NEW y, NEW t, t # Idle, Carried(s, e, x, t), Named(s, t), NEW d, Follows(s, e, t, d, x, y),
         Evolves(s, e, t.side, x[t.side], y[t.side]), x[t.side].ver \in Nat, Meant(s, t).sets \subseteq Columns
  PROVE  Carried(s, e, y, d)
<1> DEFINE f == Meant(s, t)
           a == x[t.side]
           b == y[t.side]
<1>0. /\ Dated(s, e, a, t) /\ Submitted(s, e, a, t) /\ Gate(s, t) /\ Opened(s, e, a, t) /\ Shown(s, e, a, t)
      /\ Evolves(s, e, t.side, a, b) /\ a.ver \in Nat /\ f.sets \subseteq Columns
  BY DEF Carried
<1>1. /\ d.op = t.op /\ d.side = t.side /\ d.do = t.do /\ d.shown = t.shown /\ d.token = t.token
      /\ t.op = "drawing" => d.left = t.left
      /\ d.want = t.want /\ d.before = t.before /\ d.seen = t.seen
      /\ t.op = "open" /\ f.tx = "serializable" /\ ~d.moved => ~t.moved /\ b = a
  BY DEF Follows
<1>2. Meant(s, d) = f
  BY <1>1 DEF Meant
<1>2a. f = Meant(s, t)
  OBVIOUS
<1> HIDE DEF f, a, b
<1>3. Dated(s, e, b, d)
  BY <1>0, <1>1, <1>2, <1>2a DEF Dated, Evolves
<1>4. Honest(e, f) /\ t.token = b.ver => t.token = a.ver /\ a.ver = b.ver
  BY <1>0, <1>2a DEF Dated, Evolves
<1>5. a.ver = b.ver /\ a.life # "none" => \A c \in Columns \ Silent(s, t.side) : b[c] = a[c]
  BY <1>0 DEF Evolves
<1>6. Submitted(s, e, b, d)
  <2> SUFFICES ASSUME t.op \in {"asked", "open"}
               PROVE  /\ IsImage(t.before) /\ (f.act # "create" => t.before.life # "none")
                      /\ t.before.life # "none" => b.life # "none"
                      /\ Honest(e, f) => SameRow(s, t.side, t.before, t.token, b)
                      /\ Final(e, s, t.side) /\ t.before.life = "retired" => b.life = "retired"
    BY <1>1, <1>2 DEF Submitted
  <2>1. /\ IsImage(t.before) /\ (f.act # "create" => t.before.life # "none")
        /\ t.before.life # "none" => a.life # "none"
        /\ Honest(e, f) => SameRow(s, t.side, t.before, t.token, a)
        /\ Final(e, s, t.side) /\ t.before.life = "retired" => a.life = "retired"
    BY <1>0, <1>2a DEF Submitted
  <2>2. ASSUME Honest(e, f), t.token = b.ver
        PROVE  /\ t.before.life # "none" => \A c \in Columns \ Silent(s, t.side) : t.before[c] = b[c]
               /\ t.before.life = "none" /\ "life" \notin Silent(s, t.side) => b.life # "retired"
    <3>1. t.token = a.ver /\ a.ver = b.ver
      BY <1>4, <2>2
    <3>2. /\ t.before.life # "none" => \A c \in Columns \ Silent(s, t.side) : t.before[c] = a[c]
          /\ t.before.life = "none" /\ "life" \notin Silent(s, t.side) => a.life # "retired"
      BY <2>1, <2>2, <3>1 DEF SameRow
    <3>3. "life" \in Columns
      BY DEF Columns
    <3>4. ASSUME t.before.life = "none", "life" \notin Silent(s, t.side) PROVE b.life # "retired"
      <4>1. CASE a.life = "none"
        BY <1>0, <4>1 DEF Evolves
      <4>2. CASE a.life # "none"
        BY <1>5, <3>1, <3>2, <3>3, <3>4, <4>2
      <4> QED
        BY <4>1, <4>2
    <3> QED
      BY <1>5, <2>1, <3>1, <3>2, <3>4
  <2>3. (t.before.life # "none" => b.life # "none") /\ (Final(e, s, t.side) /\ t.before.life = "retired" => b.life = "retired")
    BY <1>0, <2>1 DEF Evolves
  <2> QED
    BY <2>1, <2>2, <2>3 DEF SameRow
<1>7. Gate(s, d)
  BY <1>0, <1>1, <1>2, <1>2a DEF Gate, Checked
<1>8. Opened(s, e, b, d)
  <2> SUFFICES ASSUME t.op = "open"
               PROVE  /\ Honest(e, f) /\ t.token = b.ver /\ t.before.life # "none" /\ "set" \notin Silent(s, t.side) => t.seen = b.set
                      /\ e = "postgres" /\ f.tx = "serializable" /\ ~d.moved =>
                           /\ f.before = "inside" => \A c \in Columns : t.before[c] = b[c]
                           /\ t.seen = b.set
    BY <1>1, <1>2 DEF Opened
  <2>1. ASSUME Honest(e, f), t.token = b.ver, t.before.life # "none", "set" \notin Silent(s, t.side) PROVE t.seen = b.set
    <3>1. t.token = a.ver /\ a.ver = b.ver
      BY <1>4, <2>1
    <3>2. a.life # "none"
      BY <1>0, <1>2a, <2>1 DEF Submitted
    <3>3. t.seen = a.set
      BY <1>0, <1>2a, <2>1, <3>1 DEF Opened
    <3>4. b["set"] = a["set"]
      BY <1>5, <2>1, <3>1, <3>2 DEF Columns
    <3> QED
      BY <3>3, <3>4
  <2>2. ASSUME e = "postgres", f.tx = "serializable", ~d.moved
        PROVE  (f.before = "inside" => \A c \in Columns : t.before[c] = b[c]) /\ t.seen = b.set
    <3>1. ~t.moved /\ b = a
      BY <1>1, <2>2
    <3> QED
      BY <1>0, <1>2a, <2>2, <3>1 DEF Opened
  <2> QED
    BY <2>1, <2>2
<1>9. Shown(s, e, b, d)
  <2> SUFFICES ASSUME f.guard = "form", KeepsForm(e, s, t.side, f)
               PROVE  /\ DOMAIN t.shown = Columns
                      /\ t.op = "drawing" => t.left = <<"set">> /\ f.draws = <<"row", "set">>
                      /\ t.token = b.ver => \A c \in f.sets : c # "set" \/ Complete(f, t) => t.shown[c] = b[c]
    BY <1>1, <1>2 DEF Shown, Complete
  <2>1. /\ DOMAIN t.shown = Columns
        /\ t.op = "drawing" => t.left = <<"set">> /\ f.draws = <<"row", "set">>
        /\ t.token = a.ver => \A c \in f.sets : c # "set" \/ Complete(f, t) => t.shown[c] = a[c]
    BY <1>0, <1>2a DEF Shown
  <2>2. Honest(e, f) /\ f.act # "create" /\ \A c \in f.sets : c \notin Silent(s, t.side)
    BY DEF KeepsForm
  <2>3. a.life # "none"
    BY <1>0, <1>2a, <2>2 DEF Dated
  <2> QED
    BY <1>0, <1>4, <1>5, <2>1, <2>2, <2>3
<1> QED
  BY <1>1, <1>3, <1>6, <1>7, <1>8, <1>9 DEF Carried, b

LEMMA DoomFollows ==
  ASSUME NEW t, t.op = "open", Shaped(scen, engine, t), NEW g, g = Meant(scen, t), NEW f, NEW q,
         NEW x, NEW y, NEW wrote, wrote = {s \in Sides : y[s] # x[s]}
  PROVE  Follows(scen, engine, t, Doom(g, t, f, q, wrote), x, y)
<1> DEFINE d == Doom(g, t, f, q, wrote)
           out == t.out \/ (Serial(f, q) /\ ReadSides(g, t) \cap wrote # {})
           moved == t.moved \/ WriteSides(g, t) \cap wrote # {}
           doomed == t.doomed \/ (out /\ Serial(f, q) /\ WriteSides(g, t) \cap ReadSides(f, q) # {})
<1>1. DOMAIN t = OpenFields /\ t.side \in Sides
  BY IdleOp DEF Shaped, Named
<1>2. CASE ~Serial(g, t)
  <2>1. d = t /\ g.tx # "serializable"
    BY <1>2 DEF Doom, Serial
  <2> QED
    BY <2>1 DEF Follows
<1>3. CASE Serial(g, t)
  <2>1. d = [t EXCEPT !.moved = moved, !.out = out, !.doomed = doomed]
    BY <1>3, Zenon DEF Doom
  <2>2. ~moved => ~t.moved /\ t.side \notin wrote
    BY DEF WriteSides
  <2> HIDE DEF out, moved, doomed, d
  <2>3. /\ d.op = t.op /\ d.side = t.side /\ d.do = t.do /\ d.want = t.want /\ d.before = t.before
        /\ d.shown = t.shown /\ d.token = t.token /\ d.seen = t.seen /\ d.moved = moved
    BY <1>1, <2>1 DEF OpenFields, AskedFields
  <2> QED
    BY <1>1, <2>2, <2>3 DEF Follows, d
<1> QED
  BY <1>2, <1>3

LEMMA AnswerCarried ==
  ASSUME CarryInv, NEW q, Named(scen, q), NEW f, f = Meant(scen, q), Ready(scen, engine, row[q.side], q)
  PROVE  /\ Shaped(scen, engine, Answer(f, q)) /\ Carried(scen, engine, row, Answer(f, q))
         /\ Matches(f, q, row[q.side]) => Answer(f, q) = Idle
<1>1. CASE Matches(f, q, row[q.side])
  BY <1>1 DEF Answer, Shaped, Carried
<1>2. CASE ~Matches(f, q, row[q.side])
  <2> DEFINE how == IF f.guard = "form" THEN f.stale ELSE "page"
  <2>1. Answer(f, q) = Redrawn(q, how)
    BY <1>2 DEF Answer, Stale
  <2>2. KeepsForm(engine, scen, q.side, f) /\ f.guard = "form" => how \in {"page", "kept", "reload"}
    BY DEF KeepsForm
  <2>3. Dated(scen, engine, row[q.side], q) /\ Shown(scen, engine, row[q.side], q) /\ q.op = "open"
    BY DEF Ready
  <2> HIDE DEF how
  <2>4. Shaped(scen, engine, Redrawn(q, how)) /\ Carried(scen, engine, row, Redrawn(q, how))
    BY <2>2, <2>3, RedrawnCarried
  <2> QED
    BY <1>2, <2>1, <2>4
<1> QED
  BY <1>1, <1>2

(* A transaction ends. *)
LEMMA CarryWrites ==
  ASSUME CarryInv, NEW r \in Requests, NEW q, Named(scen, q), NEW f, f = Meant(scen, q),
         Ready(scen, engine, row[q.side], q), Execute(f, q), DOMAIN req' = Requests, req'[r] = Answer(f, q),
         \A k \in Requests \ {r} :
           IF req[k] = Idle THEN req'[k] = Idle
           ELSE Shaped(scen, engine, req'[k]) /\ Follows(scen, engine, req[k], req'[k], row, row')
  PROVE  CarryInv'
<1>1. /\ UNCHANGED <<scen, engine>> /\ DOMAIN row' = Sides /\ RowsOK(row')
      /\ \A d \in Sides : Evolves(scen, engine, d, row[d], row'[d])
      /\ ~Matches(f, q, row[q.side]) => row' = row
  BY ExecuteEvolves
<1>2. Shaped(scen, engine, req'[r]) /\ Carried(scen, engine, row', req'[r])
  <2> DEFINE a == Answer(f, q)
  <2>1. Shaped(scen, engine, a) /\ Carried(scen, engine, row, a) /\ (Matches(f, q, row[q.side]) => a = Idle)
    BY AnswerCarried
  <2>2. req'[r] = a
    OBVIOUS
  <2> HIDE DEF a
  <2>3. CASE Matches(f, q, row[q.side])
    BY <2>1, <2>2, <2>3 DEF Carried
  <2>4. CASE ~Matches(f, q, row[q.side])
    BY <1>1, <2>1, <2>2, <2>4
  <2> QED
    BY <2>3, <2>4
<1>3. ASSUME NEW k \in Requests \ {r} PROVE Shaped(scen, engine, req'[k]) /\ Carried(scen, engine, row', req'[k])
  <2>1. CASE req[k] = Idle
    BY <2>1 DEF Shaped, Carried
  <2>2. CASE req[k] # Idle
    <3> DEFINE t == req[k]
               d == req'[k]
    <3>1. Shaped(scen, engine, d) /\ Follows(scen, engine, t, d, row, row')
      BY <2>2
    <3>2. Named(scen, t) /\ Carried(scen, engine, row, t) /\ t # Idle
      BY <2>2, CarriedIs DEF CarryInv
    <3>3. Evolves(scen, engine, t.side, row[t.side], row'[t.side]) /\ row[t.side].ver \in Nat
      BY <1>1, <3>2, RowIs DEF Named
    <3>4. Meant(scen, t).sets \subseteq Columns
      BY <3>2, RuleFor DEF CarryInv, RequestsInv
    <3> HIDE DEF t, d
    <3>5. Carried(scen, engine, row', d)
      BY <3>1, <3>2, <3>3, <3>4, OtherCarried
    <3> QED
      BY <3>1, <3>5 DEF d
  <2> QED
    BY <2>1, <2>2
<1>4. \A k \in Requests : Shaped(scen, engine, req'[k]) /\ Carried(scen, engine, row', req'[k])
  BY <1>2, <1>3
<1>5. RequestsInv'
  BY <1>1, <1>4 DEF CarryInv, RequestsInv
<1> QED
  BY <1>1, <1>4, <1>5 DEF CarryInv

(* What a commit is: a transaction that was ready, and the others follow. *)
Ends(r, q, f) ==
  /\ Named(scen, q) /\ f = Meant(scen, q) /\ Ready(scen, engine, row[q.side], q) /\ Execute(f, q)
  /\ DOMAIN req' = Requests /\ req'[r] = Answer(f, q)
  /\ q.side = req[r].side /\ q.do = req[r].do /\ q.want = req[r].want /\ q.shown = req[r].shown /\ req[r] # Idle
  /\ \A k \in Requests \ {r} :
       IF req[k] = Idle THEN req'[k] = Idle
       ELSE Shaped(scen, engine, req'[k]) /\ Follows(scen, engine, req[k], req'[k], row, row')

LEMMA RunEnds ==
  ASSUME CarryInv, NEW r \in Requests, RunTx(r)
  PROVE  \/ \E q, f : Ends(r, q, f)
         \/ CarryInv' /\ UNCHANGED <<scen, engine, row>>
<1>1. PICK f \in {Op(req[r])} : \E q \in {Looked(f, req[r])} :
        \/ Goes(f, q) /\ Execute(f, q) /\ req' = [req EXCEPT ![r] = Answer(f, q)]
        \/ ~Goes(f, q) /\ Refused(r, f, q)
  BY DEF RunTx
<1> DEFINE a == req[r]
           q == Looked(f, a)
<1>2. engine = "sqlite" /\ a.op = "asked" /\ a # Idle
  BY IdleOp DEF RunTx
<1>3. /\ f = Meant(scen, a) /\ Shaped(scen, engine, a) /\ Named(scen, a) /\ Dated(scen, engine, row[a.side], a)
      /\ Submitted(scen, engine, row[a.side], a) /\ Gate(scen, a) /\ Shown(scen, engine, row[a.side], a)
      /\ a.want \in Values(f)
  BY <1>1, <1>2, CarriedIs
<1>5. \/ Goes(f, q) /\ Execute(f, q) /\ req' = [req EXCEPT ![r] = Answer(f, q)]
      \/ ~Goes(f, q) /\ Refused(r, f, q)
  BY <1>1
<1> HIDE DEF a
<1>6. /\ q.op = "open" /\ q.side = a.side /\ q.do = a.do /\ q.want = a.want /\ q.shown = a.shown
      /\ Meant(scen, q) = f /\ Named(scen, q)
      /\ Dated(scen, engine, row[q.side], q) /\ Submitted(scen, engine, row[q.side], q)
      /\ Opened(scen, engine, row[q.side], q) /\ Shown(scen, engine, row[q.side], q) /\ (Goes(f, q) => Gate(scen, q))
      /\ q.seen = row[q.side].set /\ (f.before = "inside" => \A c \in Columns : q.before[c] = row[q.side][c])
  BY <1>2, <1>3, LookedCarried
<1> HIDE DEF q
<1>7. CASE Goes(f, q) /\ Execute(f, q) /\ req' = [req EXCEPT ![r] = Answer(f, q)]
  <2>1. Ready(scen, engine, row[q.side], q)
    BY <1>3, <1>6, <1>7 DEF Ready
  <2>2. DOMAIN req' = Requests /\ \A k \in Requests : req'[k] = IF k = r THEN Answer(f, q) ELSE req[k]
    BY <1>7 DEF CarryInv, RequestsInv
  <2>3. ASSUME NEW k \in Requests \ {r}, req[k] # Idle
        PROVE  Shaped(scen, engine, req'[k]) /\ Follows(scen, engine, req[k], req'[k], row, row')
    <3>1. Shaped(scen, engine, req[k]) /\ req'[k] = req[k]
      BY <2>2 DEF CarryInv, RequestsInv
    <3>2. req[k].op # "open"
      BY <1>2, <2>3, CarriedIs
    <3> QED
      BY <3>1, <3>2 DEF Follows
  <2> QED
    BY <1>2, <1>6, <1>7, <2>1, <2>2, <2>3 DEF Ends, a
<1>8. CASE ~Goes(f, q) /\ Refused(r, f, q)
  BY <1>6, <1>8, CarryRefused DEF Refused
<1> QED
  BY <1>5, <1>7, <1>8

LEMMA CommitEnds ==
  ASSUME CarryInv, NEW r \in Requests, CommitTx(r)
  PROVE  \E q, f : Ends(r, q, f)
<1> DEFINE q == req[r]
           f == Op(req[r])
           wrote == {s \in Sides : row'[s] # row[s]}
<1>1. q.op = "open" /\ (Serial(f, q) => ~q.moved) /\ Execute(f, q) /\ FinishCommit(r, f, q) /\ q # Idle
  BY IdleOp DEF CommitTx
<1>2. /\ f = Meant(scen, q) /\ Shaped(scen, engine, q) /\ Named(scen, q) /\ Dated(scen, engine, row[q.side], q)
      /\ Submitted(scen, engine, row[q.side], q) /\ Gate(scen, q) /\ Shown(scen, engine, row[q.side], q)
      /\ Opened(scen, engine, row[q.side], q) /\ q.want \in Values(f) /\ engine = "postgres"
  BY <1>1, CarriedIs
<1>4. /\ DOMAIN req' = Requests
      /\ \A t \in Requests : req'[t] = IF t = r THEN Answer(f, q)
                                       ELSE IF req[t].op = "open" THEN Doom(Op(req[t]), req[t], f, q, wrote)
                                       ELSE req[t]
  BY <1>1, Zenon DEF FinishCommit
<1>0. wrote = {s \in Sides : row'[s] # row[s]} /\ q = req[r]
  OBVIOUS
<1> HIDE DEF q, f, wrote
<1>5. Ready(scen, engine, row[q.side], q)
  <2>1. ASSUME Isolated(engine, f)
        PROVE (f.before = "inside" => \A c \in Columns : q.before[c] = row[q.side][c]) /\ q.seen = row[q.side].set
    <3>1. f.tx = "serializable" /\ ~q.moved
      BY <1>1, <1>2, <2>1 DEF Isolated, Serial
    <3> QED
      BY <1>1, <1>2, <3>1 DEF Opened
  <2> QED
    BY <1>1, <1>2, <2>1 DEF Ready
<1>6. ASSUME NEW k \in Requests \ {r}, req[k] # Idle
      PROVE  Shaped(scen, engine, req'[k]) /\ Follows(scen, engine, req[k], req'[k], row, row')
  <2>1. Shaped(scen, engine, req[k]) /\ Op(req[k]) = Meant(scen, req[k])
    BY <1>6, CarriedIs
  <2>2. CASE req[k].op # "open"
    <3>1. req'[k] = req[k]
      BY <1>4, <2>2
    <3> QED
      BY <2>1, <2>2, <3>1 DEF Follows
  <2>3. CASE req[k].op = "open"
    <3> DEFINE t == req[k]
               g == Op(req[k])
    <3>1. req'[k] = Doom(g, t, f, q, wrote)
      BY <1>4, <2>3
    <3>2. t.op = "open" /\ Shaped(scen, engine, t) /\ g = Meant(scen, t)
      BY <2>1, <2>3
    <3>3. t = req[k]
      OBVIOUS
    <3> HIDE DEF t, g
    <3>4. Shaped(scen, engine, Doom(g, t, f, q, wrote))
      BY <3>2, DoomShape
    <3>5. Follows(scen, engine, t, Doom(g, t, f, q, wrote), row, row')
      BY <1>0, <3>2, DoomFollows
    <3> QED
      BY <3>1, <3>3, <3>4, <3>5
  <2> QED
    BY <2>2, <2>3
<1>7. \A k \in Requests : req[k] = Idle /\ k # r => req'[k] = Idle
  BY <1>4, IdleOp
<1>8. req'[r] = Answer(f, q)
  BY <1>4
<1> QED
  BY <1>0, <1>1, <1>2, <1>4, <1>5, <1>6, <1>7, <1>8 DEF Ends

LEMMA CarryEnds == ASSUME CarryInv, NEW r \in Requests, NEW q, NEW f, Ends(r, q, f) PROVE CarryInv'
<1>1. /\ Named(scen, q) /\ f = Meant(scen, q) /\ Ready(scen, engine, row[q.side], q) /\ Execute(f, q)
      /\ DOMAIN req' = Requests /\ req'[r] = Answer(f, q)
      /\ \A k \in Requests \ {r} :
           IF req[k] = Idle THEN req'[k] = Idle
           ELSE Shaped(scen, engine, req'[k]) /\ Follows(scen, engine, req[k], req'[k], row, row')
  BY DEF Ends
<1> QED
  BY <1>1, CarryWrites

(* The invariant holds after every step, and a step that writes a row is the *)
(* end of a transaction that was ready.                                      *)
LEMMA CarryStep ==
  ASSUME CarryInv, [Next]_vars
  PROVE  /\ CarryInv'
         /\ UNCHANGED <<scen, engine, row>> \/ \E r \in Requests : \E q, f : Ends(r, q, f)
<1>1. CASE UNCHANGED vars
  BY <1>1 DEF vars, CarryInv, RequestsInv
<1>2. ASSUME NEW r \in Requests, NEW s \in Sides, NEW n \in DOMAIN Scenarios[scen][s],
             NEW f \in {Scenarios[scen][s][n]}, OpenForm(r, s, n, f) \/ Ask(r, s, n, f)
      PROVE  CarryInv' /\ UNCHANGED <<scen, engine, row>>
  BY <1>2, CarryStart DEF OpenForm, Ask, Start
<1>3. ASSUME NEW r \in Requests, SubmitForm(r) PROVE CarryInv' /\ UNCHANGED <<scen, engine, row>>
  BY <1>3, CarrySubmit DEF SubmitForm
<1>4. ASSUME NEW r \in Requests, DrawNext(r) PROVE CarryInv' /\ UNCHANGED <<scen, engine, row>>
  BY <1>4, CarryDraw DEF DrawNext
<1>5. ASSUME NEW r \in Requests, RunTx(r)
      PROVE CarryInv' /\ (UNCHANGED <<scen, engine, row>> \/ \E q, f : Ends(r, q, f))
  BY <1>5, RunEnds, CarryEnds
<1>6. ASSUME NEW r \in Requests, OpenTx(r) PROVE CarryInv' /\ UNCHANGED <<scen, engine, row>>
  BY <1>6, CarryOpen DEF OpenTx, Refused
<1>7. ASSUME NEW r \in Requests, CommitTx(r) PROVE CarryInv' /\ \E q, f : Ends(r, q, f)
  BY <1>7, CommitEnds, CarryEnds
<1>8. ASSUME NEW r \in Requests, AbortTx(r) PROVE CarryInv' /\ UNCHANGED <<scen, engine, row>>
  BY <1>8, CarryAbort DEF AbortTx
<1>9. CASE Next
  <2>1. PICK r \in Requests :
          \/ \E s \in Sides : \E n \in DOMAIN Scenarios[scen][s] :
               \E f \in {Scenarios[scen][s][n]} : OpenForm(r, s, n, f) \/ Ask(r, s, n, f)
          \/ SubmitForm(r)
          \/ DrawNext(r) \/ RunTx(r) \/ OpenTx(r) \/ CommitTx(r) \/ AbortTx(r)
    BY <1>9 DEF Next, Step
  <2> QED
    BY <2>1, <1>2, <1>3, <1>4, <1>5, <1>6, <1>7, <1>8
<1> QED
  BY <1>1, <1>9

(* What the end of a transaction that wrote something did. *)
LEMMA EndsWriting ==
  ASSUME CarryInv, NEW r \in Requests, NEW q, NEW f, Ends(r, q, f), row' # row
  PROVE  /\ Named(scen, q) /\ f = Meant(scen, q) /\ Ready(scen, engine, row[q.side], q) /\ Matches(f, q, row[q.side])
         /\ row'[q.side] = Written(f, q, row[q.side]) /\ UNCHANGED <<scen, engine>>
         /\ \A o \in Sides : o # q.side => row'[o] = Cascaded(f, q, row[o])
<1>1. Named(scen, q) /\ f = Meant(scen, q) /\ Ready(scen, engine, row[q.side], q) /\ Execute(f, q)
  BY DEF Ends
<1> QED
  BY <1>1, ExecuteEvolves

----------------------------------------------------------------------------
(* What is kept beside the row. *)

(* The history: a diff moves the columns that the statement moves. *)
LEMMA LogFollows ==
  ASSUME CarryInv, NEW q, Named(scen, q), NEW f, f = Meant(scen, q), Ready(scen, engine, row[q.side], q),
         Matches(f, q, row[q.side]), KeepsLog(engine, scen, q.side, f), row[q.side].log = Cols(row[q.side])
  PROVE  LET y == Written(f, q, row[q.side]) IN y.log = Cols(y)
<1> DEFINE x == row[q.side]
           y == Written(f, q, x)
           after == After(f, q.before, q.want)
           stored == StoredIn(f, q, x)
           new == [after EXCEPT !.set = IF f.act = "assign" THEN stored.set ELSE @]
           log == Replayed(f, q, x, after, stored)
<1>1. \A c \in Columns : x.log[c] = x[c]
  BY ColsAre
<1>2. /\ \A c \in Columns : y[c] = stored[c]
      /\ y.log = log
  BY WrittenIs
<1>3. stored = [c \in Columns |-> stored[c]]
  BY DEF StoredIn
<1>a. /\ \A c \in Columns : c \notin f.sets => stored[c] = x[c]
      /\ \A c \in Columns : c \in f.sets /\ c # "set" => stored[c] = after[c]
      /\ "set" \in f.sets => stored["set"] = (x.set \ Doomed(f, q)) \cup after["set"]
  BY StoredIs
<1>4. /\ after = [c \in Columns |-> after[c]]
      /\ \A c \in Columns : after[c] = IF c \in f.from THEN q.want[c] ELSE q.before[c]
  BY AfterIs DEF After
<1>5. Cols(y) = [c \in Columns |-> stored[c]]
  BY <1>2, ColsAre DEF IsImage
<1>6. IsImage(q.before) /\ q.want \in Values(f) /\ (x.life = "none" => x.set = {}) /\ "set" \in Columns
  BY DEF Ready, Submitted, CarryInv, RowsOK, Named, Columns
<1>0. /\ log = Replayed(f, q, x, after, stored) /\ new = [after EXCEPT !.set = IF f.act = "assign" THEN stored.set ELSE @]
      /\ x = row[q.side]
  BY Zenon
<1> HIDE DEF y, after, stored, new, log, x
<1>7. SUFFICES log = stored
  BY <1>2, <1>3, <1>a, <1>5 DEF y, x
<1>8. CASE f.act = "create" /\ x.life = "none"
  BY <1>0, <1>8 DEF Replayed
<1>9. CASE ~(f.act = "create" /\ x.life = "none") /\ f.log = "snapshot"
  BY <1>0, <1>9 DEF Replayed
<1>10. CASE ~(f.act = "create" /\ x.life = "none") /\ f.log = "fixed"
  <2>1. log = [c \in Columns |-> IF c \in f.from THEN after[c] ELSE x.log[c]]
    BY <1>0, <1>10 DEF Replayed
  <2>2. f.from = f.sets /\ "set" \notin f.sets
    BY <1>10 DEF KeepsLog
  <2>3. \A c \in Columns : (IF c \in f.from THEN after[c] ELSE x.log[c]) = stored[c]
    BY <1>1, <1>3, <1>a, <2>2
  <2> QED
    BY <1>3, <1>a, <2>1, <2>3
<1>11. CASE ~(f.act = "create" /\ x.life = "none") /\ f.log = "none"
  <2>1. log = x.log /\ f.sets = {}
    BY <1>0, <1>11 DEF Replayed, KeepsLog
  <2>2. x.log = [c \in Columns |-> x.log[c]]
    BY <1>0, ColsAre DEF IsImage
  <2> QED
    BY <1>1, <1>3, <1>a, <2>1, <2>2
<1>12. CASE ~(f.act = "create" /\ x.life = "none") /\ f.log \notin {"snapshot", "fixed", "none"}
  <2>1. log = [c \in Columns |-> IF new[c] # q.before[c] THEN new[c] ELSE x.log[c]]
    BY <1>0, <1>12 DEF Replayed, Diffed
  <2>2. /\ f.from \subseteq f.sets /\ (f.act = "assign" => "set" \in f.sets)
        /\ \A c \in f.sets : UpToDate(engine, scen, q.side, f, c) \/ Shows(engine, scen, q.side, f, c)
        /\ "set" \in f.from /\ f.act # "assign" => Whole(engine, scen, q.side, f) /\ ~f.partial
    BY <1>12 DEF KeepsLog
  <2>3. /\ \A c \in Columns : c # "set" => new[c] = after[c]
        /\ new["set"] = IF f.act = "assign" THEN stored["set"] ELSE after["set"]
    BY <1>0, <1>4, <1>6
  <2>4. ASSUME NEW c \in Columns, UpToDate(engine, scen, q.side, f, c) PROVE q.before[c] = x[c]
    BY <1>0, <1>12, <2>4, BuiltFromRow
  <2>5. ASSUME NEW c \in Columns, c \in f.sets, Shows(engine, scen, q.side, f, c), after[c] = q.before[c]
        PROVE  x[c] = q.before[c] /\ c # "set"
    <3>0. f.gate = "inside" \/ f.before # "inside" => Checked(f, q)
      BY DEF Ready, Gate
    <3>1. CASE /\ c = "life" /\ f.act = "retire" /\ "life" \in f.from
               /\ (Final(engine, scen, q.side) \/ ("retired" \in f.skip \cup f.refuse /\ (f.gate = "inside" \/ f.before # "inside")))
      <4>1. q.want.life = "retired" /\ after["life"] = q.want["life"]
        BY <1>4, <1>6, <2>5, <3>1, WantIs
      <4>2. q.before.life = "retired"
        BY <2>5, <3>1, <4>1
      <4>3. Final(engine, scen, q.side)
        BY <3>0, <3>1, <4>2 DEF Checked
      <4>4. x.life = "retired"
        BY <1>0, <4>2, <4>3 DEF Ready, Submitted
      <4> QED
        BY <3>1, <4>2, <4>4
    <3>2. CASE c # "set" /\ f.from = {c} /\ "same" \in f.skip /\ (f.gate = "inside" \/ f.before # "inside")
      <4>1. after # q.before
        BY <3>0, <3>2 DEF Checked, after
      <4>2. \A k \in Columns : after[k] = q.before[k]
        BY <1>4, <2>5, <3>2
      <4> QED
        BY <1>4, <1>6, <4>1, <4>2 DEF IsImage
    <3> QED
      BY <2>5, <3>1, <3>2 DEF Shows
  <2>6. ASSUME NEW c \in Columns, c # "set"
        PROVE  (IF new[c] # q.before[c] THEN new[c] ELSE x.log[c]) = stored[c]
    <3>1. CASE c \notin f.sets
      BY <1>1, <1>3, <1>a, <1>4, <2>2, <2>3, <2>6, <3>1
    <3>2. CASE c \in f.sets
      BY <1>1, <1>3, <1>a, <2>2, <2>3, <2>4, <2>5, <2>6, <3>2
    <3> QED
      BY <3>1, <3>2
  <2>7. (IF new["set"] # q.before["set"] THEN new["set"] ELSE x.log["set"]) = stored["set"]
    <3>1. CASE "set" \notin f.sets
      BY <1>1, <1>3, <1>a, <1>4, <1>6, <2>2, <2>3, <3>1
    <3>2. CASE "set" \in f.sets
      <4>1. q.before["set"] = x["set"] /\ x.log["set"] = x["set"]
        BY <1>1, <1>6, <2>2, <2>4, <3>2 DEF Shows
      <4>2. CASE f.act = "assign"
        BY <2>3, <4>1, <4>2
      <4>3. CASE f.act # "assign" /\ "set" \in f.from
        <5>0. x.set \ q.seen = {}
          BY <1>0, <1>6, <2>2, <4>3, SeesAll
        <5>1. x.set \ Doomed(f, q) = {}
          BY <2>2, <4>3, <5>0 DEF Doomed
        <5> QED
          BY <1>3, <1>a, <2>3, <3>2, <4>1, <4>3, <5>1
      <4>4. CASE f.act # "assign" /\ "set" \notin f.from
        <5>1. after["set"] = x["set"]
          BY <1>4, <1>6, <4>1, <4>4
        <5> QED
          BY <1>3, <1>a, <2>3, <3>2, <4>1, <4>4, <5>1
      <4> QED
        BY <4>2, <4>3, <4>4
    <3> QED
      BY <3>1, <3>2
  <2> QED
    BY <1>3, <1>a, <2>1, <2>6, <2>7
<1> QED
  BY <1>8, <1>9, <1>10, <1>11, <1>12

(* The search document. *)
LEMMA DocumentFollows ==
  ASSUME CarryInv, NEW q, Named(scen, q), NEW f, f = Meant(scen, q), Ready(scen, engine, row[q.side], q),
         Matches(f, q, row[q.side]), KeepsDocument(engine, scen, q.side, f), row[q.side].doc = row[q.side].body
  PROVE  LET y == Written(f, q, row[q.side]) IN y.doc = y.body
<1> DEFINE x == row[q.side]
           y == Written(f, q, x)
           after == After(f, q.before, q.want)
<1>0. "body" \in Columns /\ "body" # "set"
  BY DEF Columns
<1>1. /\ y.doc = IF f.index THEN after["body"] ELSE x.doc
      /\ y.body = IF "body" \in f.sets THEN after["body"] ELSE x["body"]
      /\ after["body"] = IF "body" \in f.from THEN q.want["body"] ELSE q.before["body"]
  BY <1>0, WrittenIs, StoredIs, AfterIs
<1> HIDE DEF y, after
<1>2. CASE f.index /\ "body" \notin f.sets
  <2>1. "body" \notin f.from /\ f.act # "create" /\ UpToDate(engine, scen, q.side, f, "body")
    BY <1>2 DEF KeepsDocument
  <2>2. q.before["body"] = x["body"]
    BY <1>0, <2>1, BuiltFromRow
  <2> QED
    BY <1>1, <1>2, <2>1, <2>2 DEF y
<1>3. CASE f.index /\ "body" \in f.sets
  BY <1>1, <1>3 DEF y
<1>4. CASE ~f.index
  BY <1>1, <1>4 DEF KeepsDocument, y
<1> QED
  BY <1>2, <1>3, <1>4

LEMMA RecordsInit == ASSUME Init PROVE RecordsAgree
<1>1. PICK p \in {"active", "retired"}, c \in Lives :
        row = [s \in Sides |-> IF s = "parent" THEN NewRow(p) ELSE NewRow(c)]
  BY DEF Init
<1>2. ASSUME NEW l PROVE LET y == NewRow(l) IN y.log = Cols(y) /\ y.doc = y.body
  BY DEF NewRow, Cols
<1>3. \A s \in Sides : row[s].log = Cols(row[s]) /\ row[s].doc = row[s].body
  BY <1>1, <1>2
<1> QED
  BY <1>3 DEF RecordsAgree, AuditReplays, SearchAgrees

LEMMA CascadeRecords ==
  ASSUME NEW x, DOMAIN x = RowFields, DOMAIN x.log = Columns, NEW f, NEW q
  PROVE  LET y == Cascaded(f, q, x) IN
         /\ x.log = Cols(x) => y.log = Cols(y)
         /\ x.doc = x.body => y.doc = y.body
<1> DEFINE y == Cascaded(f, q, x)
<1>1. CASE y = x
  BY <1>1
<1>2. CASE y # x
  <2>1. y = [x EXCEPT !.life = "retired", !.log.life = "retired"]
    BY <1>2 DEF Cascaded
  <2>2. /\ y.life = "retired" /\ y.body = x.body /\ y.own = x.own /\ y.set = x.set /\ y.doc = x.doc
        /\ y.log = [x.log EXCEPT !.life = "retired"]
    BY <2>1 DEF RowFields
  <2> HIDE DEF y
  <2>3. x.log = Cols(x) => y.log = Cols(y)
    BY <2>2 DEF Cols
  <2> QED
    BY <2>2, <2>3 DEF y
<1> QED
  BY <1>1, <1>2

LEMMA RecordsStep == ASSUME CarryInv, RecordsAgree, [Next]_vars PROVE RecordsAgree'
<1>1. CASE UNCHANGED <<scen, engine, row>>
  BY <1>1 DEF RecordsAgree, AuditReplays, SearchAgrees, Keeps
<1>2. CASE row' # row
  <2>0. PICK r \in Requests : \E q, f : Ends(r, q, f)
    BY <1>2, CarryStep
  <2>1. PICK q, f : Ends(r, q, f)
    BY <2>0
  <2>2. /\ Named(scen, q) /\ f = Meant(scen, q) /\ Ready(scen, engine, row[q.side], q) /\ Matches(f, q, row[q.side])
        /\ row'[q.side] = Written(f, q, row[q.side]) /\ UNCHANGED <<scen, engine>>
        /\ \A o \in Sides : o # q.side => row'[o] = Cascaded(f, q, row[o])
    BY <1>2, <2>1, EndsWriting
  <2>3. /\ (\A n \in DOMAIN Scenarios[scen][q.side] : Keeps("AuditReplays", n)) => KeepsLog(engine, scen, q.side, f)
        /\ <<scen, q.side>> \in Indexed => KeepsDocument(engine, scen, q.side, f)
    BY <2>2, RuleFor DEF CarryInv, RequestsInv
  <2>4. ASSUME NEW s \in Sides
        PROVE  /\ (\A n \in DOMAIN Scenarios[scen][s] : Keeps("AuditReplays", n)) => row'[s].log = Cols(row'[s])
               /\ <<scen, s>> \in Indexed => row'[s].doc = row'[s].body
    <3>1. /\ (\A n \in DOMAIN Scenarios[scen][s] : Keeps("AuditReplays", n)) => row[s].log = Cols(row[s])
          /\ <<scen, s>> \in Indexed => row[s].doc = row[s].body
      BY DEF RecordsAgree, AuditReplays, SearchAgrees
    <3>2. CASE s = q.side
      BY <2>2, <2>3, <3>1, <3>2, LogFollows, DocumentFollows
    <3>3. CASE s # q.side
      <4>1. row'[s] = Cascaded(f, q, row[s]) /\ DOMAIN row[s] = RowFields /\ DOMAIN row[s].log = Columns
        BY <2>2, <3>3, RowIs
      <4> QED
        BY <3>1, <4>1, CascadeRecords
    <3> QED
      BY <3>2, <3>3
  <2>5. \A n : Keeps("AuditReplays", n)' <=> Keeps("AuditReplays", n)
    BY <2>2 DEF Keeps
  <2>6. AuditReplays'
    BY <2>2, <2>4, <2>5 DEF AuditReplays
  <2>7. SearchAgrees'
    BY <2>2, <2>4 DEF SearchAgrees
  <2> QED
    BY <2>6, <2>7 DEF RecordsAgree
<1>3. row' = row => UNCHANGED <<scen, engine>>
  <2> SUFFICES ASSUME NEW r \in Requests, NEW q, NEW f, Ends(r, q, f) PROVE UNCHANGED <<scen, engine>>
    BY CarryStep
  <2> QED
    BY DEF Ends, Execute
<1> QED
  BY <1>1, <1>2, <1>3

(* The theorem: what is kept beside a row agrees with it, its history in      *)
(* change_log and its search document, for any catalogue whose operations     *)
(* build their diff from a row that has not moved since (requireVersion, a    *)
(* read inside writeSerializable, or an early return) and index what they     *)
(* store, and for any number of concurrent requests.                          *)
THEOREM RecordsAlwaysAgree == Spec => []RecordsAgree
<1>1. Init => CarryInv /\ RecordsAgree
  BY CarryInit, RecordsInit
<1>2. CarryInv /\ RecordsAgree /\ [Next]_vars => (CarryInv /\ RecordsAgree)'
  <2> SUFFICES ASSUME CarryInv, RecordsAgree, [Next]_vars PROVE CarryInv' /\ RecordsAgree'
    OBVIOUS
  <2> QED
    BY CarryStep, RecordsStep
<1> QED
  BY <1>1, <1>2, PTL DEF Spec

----------------------------------------------------------------------------
(* What a commit does. *)

LEMMA CommitsAre ==
  ASSUME CarryInv, [Next]_vars, NEW r \in Requests, Commits(r)
  PROVE  \E q, f : Ends(r, q, f) /\ Op(req[r]) = f
<1>1. req[r] # Idle /\ req'[r] = Idle /\ row' # row
  BY DEF Commits
<1>0. PICK k \in Requests : \E q, f : Ends(k, q, f)
  BY <1>1, CarryStep
<1>2. PICK q, f : Ends(k, q, f)
  BY <1>0
<1>3. r = k
  <2> SUFFICES ASSUME r # k PROVE FALSE
    OBVIOUS
  <2>1. Follows(scen, engine, req[r], req'[r], row, row')
    BY <1>1, <1>2 DEF Ends
  <2>2. req[r].op = "idle"
    BY <1>1, <2>1, IdleOp DEF Follows
  <2> QED
    BY <1>1, <2>2 DEF CarryInv, RequestsInv, Shaped
<1>4. f = Meant(scen, q) /\ q.side = req[r].side /\ q.do = req[r].do
  BY <1>2, <1>3 DEF Ends
<1> QED
  BY <1>2, <1>3, <1>4 DEF Op, Meant

(* The theorem: an edit form overwrites what it showed (submittedVersion,     *)
(* requireVersion), for any catalogue whose forms carry the version of the    *)
(* row they show and whose operations move it with every column a form        *)
(* writes.                                                                    *)
THEOREM UpdatesNeverLost == Spec => NoLostUpdate
<1>1. ASSUME CarryInv, [Next]_vars, NEW r \in Requests, Commits(r), Op(req[r]).guard = "form", Keeps("NoLostUpdate", req[r].do)
      PROVE  \A c \in Op(req[r]).sets : row[req[r].side][c] = req[r].shown[c]
  <2>1. PICK q, f : Ends(r, q, f) /\ Op(req[r]) = f
    BY <1>1, CommitsAre
  <2>2. /\ Named(scen, q) /\ f = Meant(scen, q) /\ Ready(scen, engine, row[q.side], q) /\ Matches(f, q, row[q.side])
    BY <1>1, <2>1, EndsWriting DEF Commits
  <2>3. q.side = req[r].side /\ q.do = req[r].do /\ q.shown = req[r].shown
    BY <2>1 DEF Ends
  <2>4. KeepsForm(engine, scen, q.side, f) /\ f.guard = "form"
    BY <1>1, <2>1, <2>2, <2>3, RuleFor DEF CarryInv, RequestsInv
  <2>5. q.token = row[q.side].ver
    BY <2>2, <2>4, MatchesIs DEF KeepsForm
  <2>6. Shown(scen, engine, row[q.side], q) /\ Complete(f, q)
    BY <2>2 DEF Ready, Complete
  <2> QED
    BY <2>1, <2>2, <2>3, <2>4, <2>5, <2>6 DEF Shown
<1>2. Init => CarryInv
  BY CarryInit
<1>3. CarryInv /\ [Next]_vars => CarryInv'
  BY CarryStep
<1>4. CarryInv /\ [Next]_vars =>
        [\A r \in Requests :
           Commits(r) /\ Op(req[r]).guard = "form" /\ Keeps("NoLostUpdate", req[r].do) =>
             \A c \in Op(req[r]).sets : row[req[r].side][c] = req[r].shown[c]]_vars
  BY <1>1
<1> QED
  BY <1>2, <1>3, <1>4, PTL DEF Spec, NoLostUpdate

(* The theorem: a commit writes what it was asked for.  It brings no row back *)
(* that was withdrawn since it was read, and a link table it replaces is the  *)
(* one set it was given (the UPDATEs and the DELETE-then-INSERTs of the       *)
(* stores), for any catalogue whose operations write back only a lifecycle    *)
(* that has not moved and replace a set only where they see all of it.        *)
THEOREM CommitsKeepTheirWord == Spec => CommitKeepsItsWord
<1>1. ASSUME CarryInv, [Next]_vars, NEW r \in Requests, Commits(r), Keeps("RetiredStaysRetired", req[r].do),
             NEW s \in Sides, row[s].life = "retired", row'[s].life = "active"
      PROVE  s = req[r].side /\ "life" \in Op(req[r]).from /\ req[r].want.life = "active"
  <2>1. PICK q, f : Ends(r, q, f) /\ Op(req[r]) = f
    BY <1>1, CommitsAre
  <2>2. /\ Named(scen, q) /\ f = Meant(scen, q) /\ Ready(scen, engine, row[q.side], q) /\ Matches(f, q, row[q.side])
        /\ row'[q.side] = Written(f, q, row[q.side])
        /\ \A o \in Sides : o # q.side => row'[o] = Cascaded(f, q, row[o])
    BY <1>1, <2>1, EndsWriting DEF Commits
  <2>3. q.side = req[r].side /\ q.do = req[r].do /\ q.want = req[r].want
    BY <2>1 DEF Ends
  <2>4. s = q.side
    <3> SUFFICES ASSUME s # q.side PROVE FALSE
      OBVIOUS
    <3>1. Cascaded(f, q, row[s]) = row[s]
      BY <1>1 DEF Cascaded
    <3>2. row'[s] = row[s]
      BY <2>2, <3>1
    <3> QED
      BY <1>1, <3>2
  <2>5. KeepsLife(engine, scen, q.side, f)
    BY <1>1, <2>2, <2>3, RuleFor DEF CarryInv, RequestsInv
  <2>6. LET y == Written(f, q, row[q.side]) IN
        /\ "life" \notin f.sets => y.life = row[q.side].life
        /\ "life" \in f.sets /\ "life" \in f.from => y.life = q.want.life
        /\ "life" \in f.sets /\ "life" \notin f.from => y.life = q.before.life
    BY <1>1, <2>2, WrittenLife
  <2>7. CASE "life" \in f.sets /\ "life" \notin f.from
    <3>1. UpToDate(engine, scen, q.side, f, "life") /\ "life" \in Columns
      BY <2>5, <2>7 DEF KeepsLife, Columns
    <3>2. q.before["life"] = row[q.side]["life"]
      BY <1>1, <2>2, <2>4, <3>1, BuiltFromRow
    <3> QED
      BY <1>1, <2>2, <2>4, <2>6, <2>7, <3>2
  <2> QED
    BY <1>1, <2>1, <2>2, <2>3, <2>4, <2>6, <2>7
<1>2. ASSUME CarryInv, [Next]_vars, NEW r \in Requests, Commits(r), "set" \in Op(req[r]).from, Keeps("SetIsWhole", req[r].do)
      PROVE  row'[req[r].side].set = req[r].want.set \cup Untouched(r)
  <2>1. PICK q, f : Ends(r, q, f) /\ Op(req[r]) = f
    BY <1>2, CommitsAre
  <2>2. /\ Named(scen, q) /\ f = Meant(scen, q) /\ Ready(scen, engine, row[q.side], q) /\ Matches(f, q, row[q.side])
        /\ row'[q.side] = Written(f, q, row[q.side])
    BY <1>2, <2>1, EndsWriting DEF Commits
  <2>3. q.side = req[r].side /\ q.do = req[r].do /\ q.want = req[r].want
    BY <2>1 DEF Ends
  <2>4. KeepsSet(engine, scen, q.side, f)
    BY <1>2, <2>2, <2>3, RuleFor DEF CarryInv, RequestsInv
  <2>5. "set" \in f.sets /\ Whole(engine, scen, q.side, f) /\ "set" \in f.from /\ "set" \in Columns
    BY <1>2, <2>1, <2>4 DEF KeepsSet, Columns
  <2>6. row[q.side].life = "none" => row[q.side].set = {}
    BY <1>2, <2>2 DEF CarryInv, RowsOK, Named
  <2>7. row[q.side].set \ q.seen = {}
    BY <2>2, <2>5, <2>6, SeesAll
  <2>8. Written(f, q, row[q.side]).set = (row[q.side].set \ Doomed(f, q)) \cup q.want["set"]
    BY <2>5, WrittenIs, StoredIs, AfterIs
  <2>9. row[q.side].set \ Doomed(f, q) = Untouched(r)
    BY <2>1, <2>3, <2>7 DEF Doomed, Untouched
  <2> QED
    BY <2>2, <2>3, <2>8, <2>9
<1>3. Init => CarryInv
  BY CarryInit
<1>4. CarryInv /\ [Next]_vars => CarryInv'
  BY CarryStep
<1>5. CarryInv /\ [Next]_vars =>
        [\A r \in Requests : Commits(r) /\ Keeps("RetiredStaysRetired", req[r].do) =>
           \A s \in Sides : row[s].life = "retired" /\ row'[s].life = "active" =>
             s = req[r].side /\ "life" \in Op(req[r]).from /\ req[r].want.life = "active"]_vars
  BY <1>1
<1>6. CarryInv /\ [Next]_vars =>
        [\A r \in Requests :
           Commits(r) /\ "set" \in Op(req[r]).from /\ Keeps("SetIsWhole", req[r].do) =>
             row'[req[r].side].set = req[r].want.set \cup Untouched(r)]_vars
  BY <1>2
<1> QED
  BY <1>3, <1>4, <1>5, <1>6, PTL DEF Spec, CommitKeepsItsWord, RetiredStaysRetired, SetIsWhole
=============================================================================
