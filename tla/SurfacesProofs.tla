--------------------------- MODULE SurfacesProofs ---------------------------
(***************************************************************************)
(* Theorems about what people and machines meet from outside: the read     *)
(* API, the change log, the gate of the machine surfaces, the webhook with *)
(* its drift queue and its retention, and sessions and sign-in.            *)
(***************************************************************************)
EXTENDS Access, MachineGate, Intake, ReadAPI, ChangeLog, FiniteSetTheorems, SequenceTheorems, TLAPS

----------------------------------------------------------------------------
(* The first n of a finite set in a strict order R.  A page of the read API  *)
(* and of the change log is one.                                             *)

StrictOrder(R, S) ==
  /\ \A x \in S : <<x, x>> \notin R
  /\ \A x, y, z \in S : <<x, y>> \in R /\ <<y, z>> \in R => <<x, z>> \in R
  /\ \A x, y \in S : x # y => <<x, y>> \in R \/ <<y, x>> \in R

Below(R, S, x) == {y \in S : <<y, x>> \in R}
First(R, S, n) == {x \in S : Cardinality(Below(R, S, x)) < n}
Converse(R, S) == {p \in S \X S : <<p[2], p[1]>> \in R}

(* A family of finite sets has a smallest one. *)
LEMMA SmallestSet ==
  ASSUME NEW S, IsFiniteSet(S), NEW F, F \subseteq SUBSET S, F # {}
  PROVE  \E A \in F : \A B \in F : B \subseteq A => B = A
<1>1. FiniteSubsetsOf(S) = SUBSET S
  BY FS_FiniteSubsetsOfFinite
<1>2. IsWellFoundedOn(StrictSubsetOrdering(S), SUBSET S)
  BY <1>1, FS_StrictSubsetOrderingWellFounded
<1>3. PICK A \in F : \A B \in F : ~(<<B, A>> \in StrictSubsetOrdering(S))
  BY <1>2, WFMin
<1>4. ASSUME NEW B \in F, B \subseteq A PROVE B = A
  BY <1>3, <1>4 DEF StrictSubsetOrdering
<1> QED
  BY <1>4

LEMMA LeastExists ==
  ASSUME NEW S, IsFiniteSet(S), NEW R, StrictOrder(R, S), NEW T, T \subseteq S, T # {}
  PROVE  \E x \in T : \A y \in T : y # x => <<x, y>> \in R
<1> DEFINE F == {Below(R, T, x) : x \in T}
<1>0. PICK z \in T : TRUE
  OBVIOUS
<1>1. F \subseteq SUBSET S /\ F # {}
  <2>1. F \subseteq SUBSET S
    BY DEF Below
  <2>2. Below(R, T, z) \in F
    OBVIOUS
  <2> QED
    BY <2>1, <2>2
<1>2. PICK A \in F : \A B \in F : B \subseteq A => B = A
  <2> HIDE DEF F
  <2> QED
    BY <1>1, SmallestSet
<1>3. PICK x \in T : A = Below(R, T, x)
  OBVIOUS
<1>4. ASSUME NEW y \in T, <<y, x>> \in R PROVE FALSE
  <2>1. Below(R, T, y) \subseteq A
    BY <1>3, <1>4 DEF Below, StrictOrder
  <2>2. y \in A /\ y \notin Below(R, T, y)
    BY <1>3, <1>4 DEF Below, StrictOrder
  <2> QED
    BY <1>2, <2>1, <2>2
<1> QED
  BY <1>4 DEF StrictOrder

LEMMA ConverseOrder ==
  ASSUME NEW S, NEW R, StrictOrder(R, S)
  PROVE  /\ StrictOrder(Converse(R, S), S)
         /\ \A x, y \in S : <<x, y>> \in Converse(R, S) <=> <<y, x>> \in R
<1>1. \A x, y \in S : <<x, y>> \in Converse(R, S) <=> <<y, x>> \in R
  BY DEF Converse
<1> QED
  BY <1>1 DEF StrictOrder

LEMMA GreatestExists ==
  ASSUME NEW S, IsFiniteSet(S), NEW R, StrictOrder(R, S), NEW T, T \subseteq S, T # {}
  PROVE  \E x \in T : \A y \in T : y # x => <<y, x>> \in R
<1>1. PICK x \in T : \A y \in T : y # x => <<x, y>> \in Converse(R, S)
  BY ConverseOrder, LeastExists
<1> QED
  BY <1>1, ConverseOrder

LEMMA SuborderIsOrder ==
  ASSUME NEW S, NEW R, StrictOrder(R, S), NEW T, T \subseteq S
  PROVE  StrictOrder(R, T)
BY DEF StrictOrder

(* What the first n are: closed downwards; all of the set when there are no  *)
(* more than n; and n of them when there are.                                *)
LEMMA FirstClosed ==
  ASSUME NEW S, IsFiniteSet(S), NEW R, StrictOrder(R, S), NEW n \in Nat,
         NEW x \in First(R, S, n), NEW y \in S, <<y, x>> \in R
  PROVE  y \in First(R, S, n)
<1>1. Below(R, S, y) \subseteq Below(R, S, x)
  BY DEF Below, First, StrictOrder
<1>2. IsFiniteSet(Below(R, S, x))
  BY FS_Subset DEF Below
<1>3. /\ Cardinality(Below(R, S, y)) <= Cardinality(Below(R, S, x))
      /\ Cardinality(Below(R, S, y)) \in Nat /\ Cardinality(Below(R, S, x)) \in Nat
  BY <1>1, <1>2, FS_Subset, FS_CardinalityType
<1> QED
  BY <1>3 DEF First

LEMMA FirstSubset ==
  ASSUME NEW S, IsFiniteSet(S), NEW R, NEW n
  PROVE  First(R, S, n) \subseteq S /\ IsFiniteSet(First(R, S, n))
<1>1. First(R, S, n) \subseteq S
  BY DEF First
<1> QED
  BY <1>1, FS_Subset

LEMMA FirstShort ==
  ASSUME NEW S, IsFiniteSet(S), NEW R, StrictOrder(R, S), NEW n \in Nat,
         Cardinality(First(R, S, n)) < n
  PROVE  First(R, S, n) = S
<1> SUFFICES ASSUME First(R, S, n) # S PROVE FALSE
  OBVIOUS
<1> DEFINE T == S \ First(R, S, n)
<1>0. T \subseteq S /\ T # {}
  BY FirstSubset
<1>1. PICK x \in T : \A y \in T : y # x => <<x, y>> \in R
  <2> HIDE DEF T
  <2> QED
    BY <1>0, LeastExists
<1>2. Below(R, S, x) \subseteq First(R, S, n)
  BY <1>1 DEF Below, StrictOrder
<1>3. /\ Cardinality(Below(R, S, x)) <= Cardinality(First(R, S, n))
      /\ Cardinality(Below(R, S, x)) \in Nat /\ Cardinality(First(R, S, n)) \in Nat
  BY <1>2, FirstSubset, FS_Subset, FS_CardinalityType
<1> QED
  BY <1>1, <1>3 DEF First

LEMMA FirstAtMost ==
  ASSUME NEW S, IsFiniteSet(S), NEW R, StrictOrder(R, S), NEW n \in Nat
  PROVE  Cardinality(First(R, S, n)) <= n
<1> DEFINE P == First(R, S, n)
<1>0. P \subseteq S /\ IsFiniteSet(P) /\ Cardinality(P) \in Nat
  BY FirstSubset, FS_CardinalityType
<1>1. CASE P = {}
  BY <1>1, FS_EmptySet
<1>2. CASE P # {}
  <2>1. PICK x \in P : \A y \in P : y # x => <<y, x>> \in R
    BY <1>0, <1>2, GreatestExists
  <2>2. P \ {x} \subseteq Below(R, S, x)
    BY <1>0, <2>1 DEF Below
  <2>3. IsFiniteSet(Below(R, S, x)) /\ Cardinality(Below(R, S, x)) \in Nat
    BY FS_Subset, FS_CardinalityType DEF Below
  <2>4. Cardinality(P \ {x}) <= Cardinality(Below(R, S, x))
    BY <2>2, <2>3, FS_Subset
  <2>5. Cardinality(P \ {x}) = Cardinality(P) - 1
    BY <1>0, <2>1, FS_RemoveElement
  <2>6. Cardinality(Below(R, S, x)) < n
    BY <2>1 DEF First
  <2> QED
    BY <1>0, <2>3, <2>4, <2>5, <2>6
<1> QED
  BY <1>1, <1>2

LEMMA FirstAll ==
  ASSUME NEW S, IsFiniteSet(S), NEW R, StrictOrder(R, S), NEW n \in Nat, Cardinality(S) <= n
  PROVE  First(R, S, n) = S
<1>1. ASSUME NEW x \in S PROVE Cardinality(Below(R, S, x)) < n
  <2>1. Below(R, S, x) \subseteq S \ {x}
    BY DEF Below, StrictOrder
  <2>2. /\ IsFiniteSet(S \ {x}) /\ Cardinality(S \ {x}) = Cardinality(S) - 1
    BY FS_RemoveElement
  <2>3. Cardinality(Below(R, S, x)) <= Cardinality(S \ {x})
    BY <2>1, <2>2, FS_Subset
  <2>4. Cardinality(Below(R, S, x)) \in Nat /\ Cardinality(S) \in Nat
    BY <2>1, <2>2, FS_Subset, FS_CardinalityType
  <2> QED
    BY <2>2, <2>3, <2>4
<1> QED
  BY <1>1 DEF First

----------------------------------------------------------------------------
(* The read API *)

Kinds == {"assets", "ansible", "services", "addresses"}
IdOrder == {p \in Ids \X Ids : p[1] < p[2]}

LEMMA IdsOrdered == StrictOrder(IdOrder, Ids) /\ IsFiniteSet(Ids) /\ Limit \in Nat \ {0}
BY ReadAPIAssumption DEF StrictOrder, IdOrder

(* The rows beyond a cursor, and a page as the first of them. *)
Beyond(kind, after) == {i \in Visible(kind, asset, entry) : i > after}

LEMMA PageIsFirst ==
  ASSUME NEW kind, NEW after
  PROVE  /\ Beyond(kind, after) \subseteq Ids
         /\ APIList(kind, after) = First(IdOrder, Beyond(kind, after), Limit)
<1> DEFINE S == Beyond(kind, after)
<1>1. S \subseteq Ids
  BY DEF Beyond, Visible
<1>2. ASSUME NEW i \in S PROVE {j \in S : j < i} = Below(IdOrder, S, i)
  BY <1>1 DEF Below, IdOrder
<1>3. APIList(kind, after) = {i \in S : Cardinality({j \in S : j < i}) < Limit}
  BY DEF APIList, Beyond
<1> QED
  BY <1>1, <1>2, <1>3 DEF First

(* A page is below all that is beyond it; a short page is all there is; and  *)
(* the cursor after a full one is the largest id on it.                      *)
LEMMA PageFacts ==
  ASSUME NEW kind, NEW after \in Nat
  PROVE  /\ APIList(kind, after) \subseteq Beyond(kind, after)
         /\ nextCursor(APIList(kind, after)) \in Nat
         /\ nextCursor(APIList(kind, after)) = 0 => APIList(kind, after) = Beyond(kind, after)
         /\ nextCursor(APIList(kind, after)) # 0 =>
              /\ \A i \in APIList(kind, after) : i <= nextCursor(APIList(kind, after))
              /\ \A i \in Beyond(kind, after) :
                   i <= nextCursor(APIList(kind, after)) => i \in APIList(kind, after)
              /\ after < nextCursor(APIList(kind, after))
<1> DEFINE S == Beyond(kind, after)
           P == First(IdOrder, S, Limit)
<1>0. S \subseteq Ids /\ IsFiniteSet(S) /\ StrictOrder(IdOrder, S) /\ APIList(kind, after) = P
  BY PageIsFirst, IdsOrdered, FS_Subset, SuborderIsOrder
<1>1. P \subseteq S /\ IsFiniteSet(P) /\ Limit \in Nat /\ Cardinality(P) \in Nat
  BY <1>0, FirstSubset, IdsOrdered, FS_CardinalityType
<1>t. \A i \in S : i \in Nat /\ i # 0 /\ i > after
  BY <1>0, ReadAPIAssumption DEF Beyond
<1>2. CASE Cardinality(P) < Limit
  <2>1. nextCursor(P) = 0
    BY <1>2 DEF nextCursor
  <2>2. P = S
    BY <1>0, <1>1, <1>2, FirstShort
  <2> QED
    BY <1>0, <1>1, <2>1, <2>2
<1>3. CASE ~(Cardinality(P) < Limit)
  <2>1. P # {}
    BY <1>3, FS_EmptySet, IdsOrdered
  <2>2. PICK x \in P : \A y \in P : y # x => <<y, x>> \in IdOrder
    <3> HIDE DEF P
    <3> QED
      BY <1>0, <1>1, <2>1, GreatestExists
  <2>3. \A y \in P : y <= x
    <3>1. x \in Nat /\ \A y \in P : y \in Nat
      BY <1>1, <1>t
    <3>2. \A y \in P : y # x => y < x
      BY <2>2 DEF IdOrder
    <3> HIDE DEF P
    <3> QED
      BY <3>1, <3>2
  <2>4. nextCursor(P) = CHOOSE i \in P : \A j \in P : j <= i
    BY <1>3 DEF nextCursor
  <2>5. nextCursor(P) \in P /\ \A j \in P : j <= nextCursor(P)
    BY <2>3, <2>4
  <2>6. ASSUME NEW i \in S, i <= nextCursor(P) PROVE i \in P
    <3>1. CASE i = nextCursor(P)
      BY <2>5, <3>1
    <3>2. CASE i # nextCursor(P)
      <4>1. <<i, nextCursor(P)>> \in IdOrder
        BY <1>0, <1>1, <1>t, <2>5, <2>6, <3>2 DEF IdOrder
      <4> QED
        BY <1>0, <1>1, <2>5, <4>1, FirstClosed
    <3> QED
      BY <3>1, <3>2
  <2> QED
    BY <1>0, <1>1, <1>t, <2>5, <2>6
<1> QED
  BY <1>2, <1>3

(* What a reader's walk has done.  Between the two queries of a page the rows *)
(* may change, but the page is kept, so what it says of them is history.      *)
Walk == [kind : Kinds, pc : {"select", "decorate", "done"}, after : Nat, page : SUBSET Ids,
         seen : SUBSET Ids, twice : BOOLEAN, always : SUBSET Ids, shown : SUBSET Envs]

(* The rows that have been visible throughout are visible now, and those up   *)
(* to the cursor have been seen: nothing else has.                            *)
Progress(w) ==
  /\ ~w.twice
  /\ w.pc # "done" => w.always \subseteq Visible(w.kind, asset, entry)
  /\ w.pc = "select" => /\ \A i \in w.seen : i <= w.after
                        /\ \A i \in w.always : i <= w.after => i \in w.seen
  /\ w.pc = "decorate" =>
       /\ nextCursor(w.page) \in Nat
       /\ nextCursor(w.page) = 0 => w.always \subseteq w.seen
       /\ nextCursor(w.page) # 0 =>
            /\ \A i \in w.seen : i <= nextCursor(w.page)
            /\ \A i \in w.always : i <= nextCursor(w.page) => i \in w.seen
  /\ w.pc = "done" => w.always \subseteq w.seen

APIRows ==
  /\ asset \in [Ids -> [lifecycle : Lifecycles \cup {"none"}, envs : SUBSET Envs]]
  /\ entry \in [Ids -> [lifecycle : Lifecycles \cup {"none"}, env : Envs]]

APIInv == APIRows /\ (walk = [kind |-> "none"] \/ (walk \in Walk /\ Progress(walk)))

LEMMA APIInitInv == APIInit => APIInv
BY ReadAPIAssumption DEF APIInit, APIInv, APIRows, Lifecycles

LEMMA APIStep == APIInv /\ [APINext]_apiVars => APIInv'
<1> SUFFICES ASSUME APIInv, [APINext]_apiVars PROVE APIInv'
  OBVIOUS
<1>0. APIRows
  BY DEF APIInv
<1>1. ASSUME NEW kind \in Kinds, OpenAPI(kind) PROVE APIInv'
  <2>1. Visible(kind, asset, entry) \subseteq Ids
    BY DEF Visible
  <2>2. walk' \in Walk
    BY <1>1, <2>1 DEF OpenAPI, Walk
  <2>3. Progress(walk)'
    <3>1. /\ walk'.kind = kind /\ walk'.pc = "select" /\ walk'.after = 0 /\ walk'.seen = {}
          /\ walk'.twice = FALSE /\ walk'.always = Visible(kind, asset, entry)
          /\ asset' = asset /\ entry' = entry
      BY <1>1 DEF OpenAPI
    <3>2. \A i \in walk'.always : ~(i <= 0)
      <4>1. \A i \in Ids : i \in Nat /\ i # 0
        BY ReadAPIAssumption
      <4>2. \A i \in Ids : ~(i <= 0)
        BY <4>1
      <4> QED
        BY <2>1, <3>1, <4>2
    <3> QED
      BY <3>1, <3>2 DEF Progress, Visible
  <2> QED
    BY <1>0, <1>1, <2>2, <2>3 DEF OpenAPI, APIInv, APIRows
<1>2. ASSUME SelectPage PROVE APIInv'
  <2> DEFINE page == APIList(walk.kind, walk.after)
  <2>1. walk \in Walk /\ Progress(walk) /\ walk.pc = "select"
    BY <1>2 DEF SelectPage, APIInv
  <2>2. walk.after \in Nat /\ walk.always \subseteq Visible(walk.kind, asset, entry)
        /\ walk.always \subseteq Ids /\ walk.seen \subseteq Ids
    BY <2>1 DEF Walk, Progress
  <2>3. /\ page \subseteq Beyond(walk.kind, walk.after)
        /\ nextCursor(page) \in Nat
        /\ nextCursor(page) = 0 => page = Beyond(walk.kind, walk.after)
        /\ nextCursor(page) # 0 =>
             /\ \A i \in page : i <= nextCursor(page)
             /\ \A i \in Beyond(walk.kind, walk.after) : i <= nextCursor(page) => i \in page
             /\ walk.after < nextCursor(page)
    BY <2>2, PageFacts
  <2> HIDE DEF page
  <2>4. \A i \in Beyond(walk.kind, walk.after) : i \in Ids /\ i > walk.after
    BY DEF Beyond, Visible
  <2>i. \A i \in Ids : i \in Nat
    BY ReadAPIAssumption
  <2>5. page \cap walk.seen = {}
    BY <2>1, <2>2, <2>3, <2>4, <2>i DEF Progress
  <2>6. \A i \in walk.always : i <= walk.after \/ i \in Beyond(walk.kind, walk.after)
    BY <2>2, <2>i DEF Beyond
  <2>7. walk' = [walk EXCEPT !.page = page, !.pc = "decorate", !.seen = walk.seen \cup page,
                             !.twice = walk.twice \/ page \cap walk.seen # {}]
        /\ asset' = asset /\ entry' = entry
    BY <1>2 DEF SelectPage, page
  <2>8. walk' \in Walk
    BY <2>1, <2>3, <2>4, <2>7 DEF Walk
  <2>9. /\ walk'.kind = walk.kind /\ walk'.pc = "decorate" /\ walk'.page = page
        /\ walk'.seen = walk.seen \cup page /\ walk'.always = walk.always
        /\ walk'.twice = (walk.twice \/ page \cap walk.seen # {})
    BY <2>1, <2>7 DEF Walk
  <2>10. Progress(walk)'
    <3>1. ~walk'.twice
      BY <2>1, <2>5, <2>9 DEF Progress
    <3>2. walk'.always \subseteq Visible(walk.kind, asset, entry)
      BY <2>2, <2>9
    <3>3. nextCursor(page) = 0 => walk'.always \subseteq walk'.seen
      BY <2>1, <2>3, <2>6, <2>9 DEF Progress
    <3>4. nextCursor(page) # 0 =>
            /\ \A i \in walk'.seen : i <= nextCursor(page)
            /\ \A i \in walk'.always : i <= nextCursor(page) => i \in walk'.seen
      BY <2>1, <2>2, <2>3, <2>6, <2>9, <2>i DEF Progress
    <3> QED
      BY <2>3, <2>7, <2>9, <3>1, <3>2, <3>3, <3>4 DEF Progress, Visible
  <2> QED
    BY <1>0, <2>7, <2>8, <2>10 DEF APIInv, APIRows
<1>3. ASSUME DecoratePage PROVE APIInv'
  <2>1. walk \in Walk /\ Progress(walk) /\ walk.pc = "decorate"
    BY <1>3 DEF DecoratePage, APIInv
  <2> DEFINE n == nextCursor(walk.page)
             d == Decoration(walk.kind, walk.page)
  <2>2. d \subseteq Envs
    <3>1. walk.page \subseteq Ids /\ walk.kind \in Kinds
      BY <2>1 DEF Walk
    <3>2. \A i \in Ids : asset[i].envs \subseteq Envs
      BY <1>0 DEF APIRows
    <3>3. \/ d = decorateAPIAssets(walk.page) \/ d = decorateAPIServices(walk.page)
          \/ d = decorateAPIAddresses(walk.page)
      BY <3>1 DEF Decoration, Kinds
    <3> HIDE DEF d
    <3> QED
      BY <3>1, <3>2, <3>3 DEF decorateAPIAssets, decorateAPIAddresses, decorateAPIServices
  <2>3. n \in Nat
    BY <2>1 DEF Progress
  <2>4. walk' = [walk EXCEPT !.shown = walk.shown \cup d, !.after = n,
                             !.pc = IF n # 0 THEN "select" ELSE "done"]
        /\ asset' = asset /\ entry' = entry
    BY <1>3 DEF DecoratePage
  <2> HIDE DEF d
  <2>5. walk' \in Walk
    BY <2>1, <2>2, <2>3, <2>4 DEF Walk
  <2>6. /\ walk'.kind = walk.kind /\ walk'.pc = (IF n # 0 THEN "select" ELSE "done")
        /\ walk'.after = n /\ walk'.seen = walk.seen /\ walk'.always = walk.always
        /\ walk'.twice = walk.twice
    BY <2>1, <2>4 DEF Walk
  <2>7. Progress(walk)'
    BY <2>1, <2>4, <2>6 DEF Progress, Visible
  <2> QED
    BY <1>0, <2>4, <2>5, <2>7 DEF APIInv, APIRows
<1>4. ASSUME NEW assets, NEW entries, Written(assets, entries), APIRows' PROVE APIInv'
  <2>1. CASE Walking
    <3>1. walk \in Walk /\ Progress(walk) /\ walk.pc # "done"
      BY <2>1 DEF Walking, APIInv
    <3> DEFINE v == Visible(walk.kind, assets, entries)
    <3>2. walk' = [walk EXCEPT !.always = walk.always \cap v]
          /\ asset' = assets /\ entry' = entries
      BY <1>4, <2>1 DEF Written
    <3>3. walk' \in Walk
      BY <3>1, <3>2 DEF Walk
    <3>4. /\ walk'.kind = walk.kind /\ walk'.pc = walk.pc /\ walk'.page = walk.page
          /\ walk'.after = walk.after /\ walk'.seen = walk.seen /\ walk'.twice = walk.twice
          /\ walk'.always = walk.always \cap v
      BY <3>1, <3>2 DEF Walk
    <3>5. v = Visible(walk.kind, asset', entry')
      BY <3>2
    <3>6. Progress(walk)'
      BY <3>1, <3>4, <3>5 DEF Progress, Visible
    <3> QED
      BY <1>4, <3>3, <3>6 DEF APIInv
  <2>2. CASE ~Walking
    <3>1. walk' = walk
      BY <1>4, <2>2 DEF Written
    <3>2. walk = [kind |-> "none"] \/ (walk \in Walk /\ walk.pc = "done" /\ Progress(walk))
      BY <2>2 DEF APIInv, Walking, Walk, Kinds
    <3>3. ASSUME walk.pc = "done", Progress(walk) PROVE Progress(walk)'
      BY <3>1, <3>3 DEF Progress
    <3> QED
      BY <1>4, <3>1, <3>2, <3>3 DEF APIInv
  <2> QED
    BY <2>1, <2>2
<1>5. ASSUME NEW i \in Ids, NEW l \in Lifecycles, NEW e \in SUBSET Envs,
             WriteAsset(i, [lifecycle |-> l, envs |-> e])
      PROVE  APIInv'
  <2>1. APIRows'
    BY <1>0, <1>5 DEF APIRows, WriteAsset, Written
  <2> QED
    BY <1>4, <1>5, <2>1 DEF WriteAsset
<1>6. ASSUME NEW i \in Ids, NEW l \in Lifecycles, NEW e \in Envs,
             WriteEntry(i, [lifecycle |-> l, env |-> e])
      PROVE  APIInv'
  <2>1. APIRows'
    BY <1>0, <1>6 DEF APIRows, WriteEntry, Written
  <2> QED
    BY <1>4, <1>6, <2>1 DEF WriteEntry
<1>7. CASE UNCHANGED apiVars
  BY <1>7 DEF apiVars, APIInv, APIRows, Progress, Visible
<1> QED
  BY <1>1, <1>2, <1>3, <1>5, <1>6, <1>7 DEF APINext, Kinds

(* However many rows there are, however long the pages and whatever is        *)
(* written meanwhile, a walk of the read API shows a row that was listed all  *)
(* through it, and none twice (APIList, nextCursor, fetchAllAssets).          *)
THEOREM APIWalkAlwaysWhole == APISpec => []APIWalkIsWhole
<1>1. APIInv => APIWalkIsWhole
  BY DEF APIInv, APIWalkIsWhole, Progress
<1> QED
  BY <1>1, APIInitInv, APIStep, PTL DEF APISpec

----------------------------------------------------------------------------
(* The change log *)

LogOrder == {p \in Places \X Places : Older(Key[p[1]], Key[p[2]])}
NewFirst == Converse(LogOrder, Places)

LEMMA LogOrdered ==
  /\ StrictOrder(LogOrder, Places) /\ StrictOrder(NewFirst, Places) /\ IsFiniteSet(Places)
  /\ \A p, q \in Places : /\ <<p, q>> \in LogOrder <=> Older(Key[p], Key[q])
                          /\ <<p, q>> \in NewFirst <=> Older(Key[q], Key[p])
<1>0. /\ \A p \in Places : Key[p] \in Nat \X Nat /\ Key[p][1] \in Nat /\ Key[p][2] \in Nat
      /\ \A p, q \in Places : Key[p][1] = Key[q][1] /\ Key[p][2] = Key[q][2] => p = q
  BY ChangeLogAssumption
<1>1. \A p, q \in Places : <<p, q>> \in LogOrder <=> Older(Key[p], Key[q])
  BY DEF LogOrder
<1>2. StrictOrder(LogOrder, Places)
  BY <1>0, <1>1 DEF StrictOrder, Older
<1> QED
  BY <1>1, <1>2, ConverseOrder, ChangeLogAssumption DEF NewFirst

(* Older, of the keys of places, is a strict order. *)
LEMMA OlderFacts ==
  /\ \A p \in Places : ~Older(Key[p], Key[p])
  /\ \A p, q, s \in Places : Older(Key[p], Key[q]) /\ Older(Key[q], Key[s]) => Older(Key[p], Key[s])
  /\ \A p, q \in Places : p = q \/ Older(Key[p], Key[q]) \/ Older(Key[q], Key[p])
  /\ \A p \in Places : Key[p] # NoCursor
<1>1. \A p \in Places : Key[p] # NoCursor
  BY ChangeLogAssumption DEF NoCursor
<1> QED
  BY <1>1, LogOrdered DEF StrictOrder

(* The newest n: none of the others is newer than one of them. *)
LEMMA NewestFacts ==
  ASSUME NEW S, S \subseteq Places, NEW n \in Nat
  PROVE  /\ IsFiniteSet(S) /\ Cardinality(S) \in Nat
         /\ Newest(S, n) \subseteq S
         /\ \A p \in Newest(S, n), q \in S : Older(Key[p], Key[q]) => q \in Newest(S, n)
         /\ Cardinality(Newest(S, n)) \in Nat /\ Cardinality(Newest(S, n)) <= n
         /\ Cardinality(Newest(S, n)) < n => Newest(S, n) = S
         /\ Cardinality(S) <= n => Newest(S, n) = S
<1>1. IsFiniteSet(S) /\ StrictOrder(NewFirst, S) /\ Cardinality(S) \in Nat
  BY LogOrdered, FS_Subset, SuborderIsOrder, FS_CardinalityType
<1>2. Newest(S, n) = First(NewFirst, S, n)
  <2>1. ASSUME NEW p \in S PROVE {q \in S : Older(Key[p], Key[q])} = Below(NewFirst, S, p)
    BY LogOrdered DEF Below
  <2> QED
    BY <2>1 DEF Newest, First
<1>3. First(NewFirst, S, n) \subseteq S /\ Cardinality(First(NewFirst, S, n)) \in Nat
  BY <1>1, FirstSubset, FS_CardinalityType
<1>4. \A p \in First(NewFirst, S, n), q \in S :
        Older(Key[p], Key[q]) => q \in First(NewFirst, S, n)
  BY <1>1, <1>3, FirstClosed, LogOrdered
<1> QED
  BY <1>1, <1>2, <1>3, <1>4, FirstAtMost, FirstShort, FirstAll

LEMMA OldestFacts ==
  ASSUME NEW S, S \subseteq Places, NEW n \in Nat
  PROVE  /\ IsFiniteSet(S) /\ Cardinality(S) \in Nat
         /\ Oldest(S, n) \subseteq S
         /\ \A p \in Oldest(S, n), q \in S : Older(Key[q], Key[p]) => q \in Oldest(S, n)
         /\ Cardinality(Oldest(S, n)) \in Nat /\ Cardinality(Oldest(S, n)) <= n
         /\ Cardinality(Oldest(S, n)) < n => Oldest(S, n) = S
<1>1. IsFiniteSet(S) /\ StrictOrder(LogOrder, S) /\ Cardinality(S) \in Nat
  BY LogOrdered, FS_Subset, SuborderIsOrder, FS_CardinalityType
<1>2. Oldest(S, n) = First(LogOrder, S, n)
  <2>1. ASSUME NEW p \in S PROVE {q \in S : Older(Key[q], Key[p])} = Below(LogOrder, S, p)
    BY LogOrdered DEF Below
  <2> QED
    BY <2>1 DEF Oldest, First
<1>3. First(LogOrder, S, n) \subseteq S /\ Cardinality(First(LogOrder, S, n)) \in Nat
  BY <1>1, FirstSubset, FS_CardinalityType
<1>4. \A p \in First(LogOrder, S, n), q \in S :
        Older(Key[q], Key[p]) => q \in First(LogOrder, S, n)
  BY <1>1, <1>3, FirstClosed, LogOrdered
<1> QED
  BY <1>1, <1>2, <1>3, <1>4, FirstAtMost, FirstShort

LEMMA KeyOfExtremes ==
  ASSUME NEW S, S \subseteq Places, S # {}
  PROVE  /\ \E m \in S : KeyOfNewest(S) = Key[m] /\ \A p \in S : ~Older(Key[m], Key[p])
         /\ \E m \in S : KeyOfOldest(S) = Key[m] /\ \A p \in S : ~Older(Key[p], Key[m])
<1>1. PICK x \in S : \A y \in S : y # x => <<y, x>> \in LogOrder
  BY LogOrdered, GreatestExists
<1>2. PICK z \in S : \A y \in S : y # z => <<z, y>> \in LogOrder
  BY LogOrdered, LeastExists
<1>3. \A y \in S \ {x} : ~Older(Key[x], Key[y])
  BY <1>1, LogOrdered DEF StrictOrder
<1>4. \A y \in S \ {z} : ~Older(Key[y], Key[z])
  BY <1>2, LogOrdered DEF StrictOrder
<1>5. \E m \in S : KeyOfNewest(S) = Key[m] /\ \A p \in S : ~Older(Key[m], Key[p])
  BY <1>3, OlderFacts DEF KeyOfNewest
<1>6. \E m \in S : KeyOfOldest(S) = Key[m] /\ \A p \in S : ~Older(Key[p], Key[m])
  BY <1>4, OlderFacts DEF KeyOfOldest
<1> QED
  BY <1>5, <1>6

(* On a timeline, however many observed transitions there are: a declared     *)
(* change among the newest is missing only where a note took its place.       *)
LEMMA ChurnNeverBuries == ChurnBuriesNoChange
<1> DEFINE O == Newest(Rows("observed", Places), Budget.observed)
           A == Declared \cup O \cup Notes
           n == TimelineLimit
<1>1. Budget.declared \in Nat /\ Budget.observed \in Nat /\ Budget.declared + Budget.observed = n
      /\ n \in Nat /\ NoteBudget \in Nat
  BY ChangeLogAssumption DEF Budget, timelineBudget
<1>2. /\ Declared \subseteq Places /\ Cardinality(Declared) <= Budget.declared
      /\ O \subseteq Places /\ Cardinality(O) <= Budget.observed
      /\ Notes \subseteq Places
  <2>1. \A s : Rows(s, Places) \subseteq Places
    BY DEF Rows
  <2> QED
    BY <1>1, <2>1, NewestFacts DEF Declared, Notes
<1>3. Timeline = Newest(A, n) /\ A \subseteq Places
  BY <1>2 DEF Timeline
<1> DEFINE DO == Declared \cup O
           T == Timeline
<1>4. \A S : S \subseteq Places => IsFiniteSet(S) /\ Cardinality(S) \in Nat
  BY LogOrdered, FS_Subset, FS_CardinalityType
<1>5. Timeline \subseteq A /\ (Timeline = A \/ Cardinality(Timeline) >= n)
      /\ Cardinality(Timeline) \in Nat
  <2>1. /\ Newest(A, n) \subseteq A /\ Cardinality(Newest(A, n)) \in Nat
        /\ Cardinality(Newest(A, n)) < n => Newest(A, n) = A
    <3>1. A \subseteq Places /\ n \in Nat
      BY <1>1, <1>3
    <3> HIDE DEF A, n
    <3> QED
      BY <3>1, NewestFacts
  <2> HIDE DEF A
  <2> QED
    BY <1>1, <1>3, <2>1
<1> HIDE DEF O
<1>6. Cardinality(DO) <= n
  <2>1. Cardinality(DO) = Cardinality(Declared) + Cardinality(O) - Cardinality(Declared \cap O)
    BY <1>2, <1>4, FS_Union
  <2>2. Cardinality(Declared \cap O) \in Nat /\ Cardinality(Declared) \in Nat /\ Cardinality(O) \in Nat
    BY <1>2, <1>4
  <2> QED
    BY <1>1, <1>2, <2>1, <2>2
<1>7. CASE T = A
  <2>1. Declared \ Timeline = {}
    BY <1>7
  <2> QED
    BY <1>2, <1>4, <2>1, FS_EmptySet DEF ChurnBuriesNoChange
<1>8. CASE Cardinality(T) >= n
  <2>1. T = (DO \cap T) \cup (Notes \cap T)
    BY <1>5
  <2>2. DO \subseteq Places /\ T \subseteq Places /\ Notes \subseteq Places
    BY <1>2, <1>5
  <2>3. /\ Cardinality(DO \cap T) \in Nat /\ Cardinality(Notes \cap T) \in Nat
        /\ Cardinality((DO \cap T) \cap (Notes \cap T)) \in Nat /\ Cardinality(Notes) \in Nat
        /\ Cardinality(DO) \in Nat /\ Cardinality(DO \ T) \in Nat
        /\ Cardinality(Declared \ T) \in Nat
    BY <1>2, <1>4, <2>2
  <2>4. Cardinality(T) = Cardinality(DO \cap T) + Cardinality(Notes \cap T)
                           - Cardinality((DO \cap T) \cap (Notes \cap T))
    <3>1. IsFiniteSet(DO \cap T) /\ IsFiniteSet(Notes \cap T)
      BY <1>4, <2>2
    <3> HIDE DEF DO, T
    <3> QED
      BY <2>1, <3>1, FS_Union
  <2>5. Cardinality(Notes \cap T) <= Cardinality(Notes)
    BY <1>4, <2>2, FS_Intersection
  <2>6. Cardinality(DO \ T) = Cardinality(DO) - Cardinality(DO \cap T)
    BY <1>4, <2>2, FS_Difference
  <2>7. Cardinality(Declared \ T) <= Cardinality(DO \ T)
    <3>1. Declared \ T \in SUBSET (DO \ T) /\ IsFiniteSet(DO \ T)
      BY <1>4, <2>2
    <3> QED
      BY <3>1, FS_Subset
  <2>8. Cardinality(Declared \ T) <= Cardinality(Notes)
    <3> HIDE DEF DO, T
    <3> QED
      BY <1>1, <1>5, <1>6, <1>8, <2>3, <2>4, <2>5, <2>6, <2>7
  <2> QED
    BY <2>8 DEF ChurnBuriesNoChange
<1> QED
  BY <1>5, <1>7, <1>8

(* The rows a page is taken from, as ListChanges selects them. *)
Backwards(before, after) == before = NoCursor /\ after # NoCursor
Asked(match, before, after) ==
  CASE before # NoCursor        -> {p \in Rows("change", match) : Older(Key[p], before)}
    [] Backwards(before, after) -> {p \in Rows("change", match) : Older(after, Key[p])}
    [] OTHER                    -> Rows("change", match)

LEMMA AskedFacts ==
  ASSUME NEW match, match \subseteq Places, NEW before, NEW after
  PROVE  /\ Asked(match, before, after) \subseteq Rows("change", match)
         /\ Asked(match, before, after) \subseteq Places
         /\ before = NoCursor /\ after = NoCursor => Asked(match, before, after) = Rows("change", match)
         /\ before # NoCursor =>
              Asked(match, before, after) = {p \in Rows("change", match) : Older(Key[p], before)}
         /\ Backwards(before, after) =>
              Asked(match, before, after) = {p \in Rows("change", match) : Older(after, Key[p])}
BY DEF Asked, Rows, Backwards

(* A page towards the older rows: the newest of those asked for, whose        *)
(* "older" leads exactly to the rest of them.                                 *)
ForwardPage(page, S, before) ==
  /\ page.rows \subseteq S
  /\ S # {} => page.rows # {}
  /\ page.older = NoCursor => page.rows = S
  /\ page.older # NoCursor =>
       \E m \in page.rows :
         /\ page.older = Key[m] /\ \A p \in page.rows : ~Older(Key[p], Key[m])
         /\ \A p \in S : ~Older(Key[p], Key[m]) => p \in page.rows
         /\ \E q \in S : Older(Key[q], Key[m])
  /\ page.newer # NoCursor => before # NoCursor /\ \E m \in page.rows : page.newer = Key[m]

LEMMA PageForwards ==
  ASSUME NEW match, match \subseteq Places, NEW before, NEW after, ~Backwards(before, after)
  PROVE  ForwardPage(ListChanges(match, before, after), Asked(match, before, after), before)
<1> DEFINE S == Asked(match, before, after)
           P == Newest(S, PageSize)
           page == ListChanges(match, before, after)
<1>0. S \subseteq Places /\ PageSize \in Nat \ {0}
  BY AskedFacts, ChangeLogAssumption
<1>1. /\ page.rows = P
      /\ page.newer = IF P # {} /\ before # NoCursor THEN KeyOfNewest(P) ELSE NoCursor
      /\ page.older = IF P # {} /\ Cardinality(S) > PageSize THEN KeyOfOldest(P) ELSE NoCursor
  BY DEF ListChanges, Asked, Backwards
<1> HIDE DEF S, page
<1>2. /\ P \subseteq S /\ IsFiniteSet(S) /\ Cardinality(S) \in Nat
      /\ \A p \in P, q \in S : Older(Key[p], Key[q]) => q \in P
      /\ Cardinality(P) \in Nat /\ Cardinality(P) <= PageSize
      /\ Cardinality(P) < PageSize => P = S
      /\ Cardinality(S) <= PageSize => P = S
  BY <1>0, NewestFacts
<1> HIDE DEF P
<1>3. S # {} => P # {}
  BY <1>0, <1>2, FS_EmptySet
<1>4. P # {} => /\ \E m \in P : KeyOfNewest(P) = Key[m]
                /\ \E m \in P : KeyOfOldest(P) = Key[m] /\ \A p \in P : ~Older(Key[p], Key[m])
  BY <1>0, <1>2, KeyOfExtremes
<1>5. ASSUME page.older = NoCursor PROVE P = S
  <2>1. CASE P = {}
    BY <1>2, <1>3, <2>1
  <2>2. CASE P # {}
    <3>1. KeyOfOldest(P) # NoCursor
      BY <1>0, <1>2, <1>4, <2>2, OlderFacts
    <3>2. ~(Cardinality(S) > PageSize)
      BY <1>1, <1>5, <2>2, <3>1
    <3> QED
      BY <1>0, <1>2, <3>2
  <2> QED
    BY <2>1, <2>2
<1>6. ASSUME page.older # NoCursor
      PROVE  \E m \in P : /\ page.older = Key[m] /\ \A p \in P : ~Older(Key[p], Key[m])
                          /\ \A p \in S : ~Older(Key[p], Key[m]) => p \in P
                          /\ \E q \in S : Older(Key[q], Key[m])
  <2>1. P # {} /\ Cardinality(S) > PageSize /\ page.older = KeyOfOldest(P)
    BY <1>1, <1>6
  <2>2. PICK m \in P : KeyOfOldest(P) = Key[m] /\ \A p \in P : ~Older(Key[p], Key[m])
    BY <1>4, <2>1
  <2>3. P # S
    BY <1>0, <1>2, <2>1
  <2>4. PICK q \in S : q \notin P
    BY <1>2, <2>3
  <2>5. Older(Key[q], Key[m])
    BY <1>0, <1>2, <2>2, <2>4, OlderFacts
  <2>6. \A p \in S : ~Older(Key[p], Key[m]) => p \in P
    BY <1>0, <1>2, <2>2, OlderFacts
  <2> QED
    BY <2>1, <2>2, <2>5, <2>6
<1>7. page.newer # NoCursor => before # NoCursor /\ \E m \in P : page.newer = Key[m]
  BY <1>1, <1>4
<1> QED
  BY <1>1, <1>2, <1>3, <1>5, <1>6, <1>7 DEF S, page, ForwardPage

(* A page towards the newer rows. *)
BackwardPage(page, S) ==
  /\ page.rows \subseteq S
  /\ S # {} => page.rows # {}
  /\ page.older # NoCursor => \E m \in page.rows : page.older = Key[m]
  /\ page.newer # NoCursor =>
       \E m \in page.rows : page.newer = Key[m] /\ \E q \in S : Older(Key[m], Key[q])

LEMMA PageBackwards ==
  ASSUME NEW match, match \subseteq Places, NEW before, NEW after, Backwards(before, after)
  PROVE  BackwardPage(ListChanges(match, before, after), Asked(match, before, after))
<1> DEFINE S == Asked(match, before, after)
           P == Oldest(S, PageSize)
           page == ListChanges(match, before, after)
<1>0. S \subseteq Places /\ PageSize \in Nat \ {0}
  BY AskedFacts, ChangeLogAssumption
<1>1. /\ page.rows = P
      /\ page.newer = IF P # {} /\ Cardinality(S) > PageSize THEN KeyOfNewest(P) ELSE NoCursor
      /\ page.older = IF P # {} THEN KeyOfOldest(P) ELSE NoCursor
  BY DEF ListChanges, Asked, Backwards
<1> HIDE DEF S, page
<1>2. /\ P \subseteq S /\ IsFiniteSet(S) /\ Cardinality(S) \in Nat
      /\ \A p \in P, q \in S : Older(Key[q], Key[p]) => q \in P
      /\ Cardinality(P) \in Nat /\ Cardinality(P) <= PageSize
      /\ Cardinality(P) < PageSize => P = S
  BY <1>0, OldestFacts
<1> HIDE DEF P
<1>3. S # {} => P # {}
  BY <1>0, <1>2, FS_EmptySet
<1>4. P # {} => /\ \E m \in P : KeyOfOldest(P) = Key[m]
                /\ \E m \in P : KeyOfNewest(P) = Key[m] /\ \A p \in P : ~Older(Key[m], Key[p])
  BY <1>0, <1>2, KeyOfExtremes
<1>5. ASSUME page.newer # NoCursor
      PROVE  \E m \in P : page.newer = Key[m] /\ \E q \in S : Older(Key[m], Key[q])
  <2>1. P # {} /\ Cardinality(S) > PageSize /\ page.newer = KeyOfNewest(P)
    BY <1>1, <1>5
  <2>2. PICK m \in P : KeyOfNewest(P) = Key[m] /\ \A p \in P : ~Older(Key[m], Key[p])
    BY <1>4, <2>1
  <2>3. P # S
    BY <1>0, <1>2, <2>1
  <2>4. PICK q \in S : q \notin P
    BY <1>2, <2>3
  <2>5. Older(Key[m], Key[q])
    BY <1>0, <1>2, <2>2, <2>4, OlderFacts
  <2> QED
    BY <2>1, <2>2, <2>5
<1> QED
  BY <1>1, <1>2, <1>3, <1>4, <1>5 DEF S, page, BackwardPage

----------------------------------------------------------------------------
(* The walk through the log.  A declared row stays for ever, so a cursor that *)
(* was a row's key still is, and what lies beyond it is still there.          *)

Leads(page, all) ==
  /\ page.older # NoCursor => \E m, q \in all : page.older = Key[m] /\ Older(Key[q], Key[m])
  /\ page.newer # NoCursor => \E m, q \in all : page.newer = Key[m] /\ Older(Key[m], Key[q])

Read(w, all) ==
  /\ Leads(w.page, all)
  /\ w.start \subseteq all /\ w.seen \subseteq all
  /\ ~w.twice
  /\ w.linked => w.page.rows # {}
  /\ ~w.turned /\ w.page.older = NoCursor => w.start \subseteq w.seen
  /\ ~w.turned /\ w.page.older # NoCursor =>
       /\ \A p \in w.seen : ~Older(Key[p], w.page.older)
       /\ \A p \in w.start : ~Older(Key[p], w.page.older) => p \in w.seen

Reader == [kind : {"log"}, match : SUBSET Places,
           page : [rows : SUBSET Places, newer : {NoCursor} \cup (Nat \X Nat), older : {NoCursor} \cup (Nat \X Nat)],
           linked : BOOLEAN, turned : BOOLEAN, start : SUBSET Places, seen : SUBSET Places, twice : BOOLEAN]

LogInv ==
  /\ ledger \in [Places -> LedgerSources \cup {"none"}]
  /\ reader = [kind |-> "none"] \/ (reader \in Reader /\ Read(reader, Rows("change", reader.match)))

LEMMA PageType ==
  ASSUME NEW match, match \subseteq Places, NEW before, NEW after
  PROVE  ListChanges(match, before, after) \in
           [rows : SUBSET Places, newer : {NoCursor} \cup (Nat \X Nat), older : {NoCursor} \cup (Nat \X Nat)]
<1> DEFINE page == ListChanges(match, before, after)
<1>1. page = [rows |-> page.rows, newer |-> page.newer, older |-> page.older]
  BY DEF ListChanges
<1>2. page.rows \subseteq Places
  <2>1. page.rows \subseteq Asked(match, before, after)
    <3>1. CASE Backwards(before, after)
      BY <3>1, PageBackwards DEF BackwardPage
    <3>2. CASE ~Backwards(before, after)
      BY <3>2, PageForwards DEF ForwardPage
    <3> QED
      BY <3>1, <3>2
  <2> QED
    BY <2>1, AskedFacts
<1>3. (page.newer # NoCursor => \E m \in page.rows : page.newer = Key[m])
      /\ (page.older # NoCursor => \E m \in page.rows : page.older = Key[m])
  <2>1. CASE Backwards(before, after)
    BY <2>1, PageBackwards DEF BackwardPage
  <2>2. CASE ~Backwards(before, after)
    BY <2>2, PageForwards DEF ForwardPage
  <2> QED
    BY <2>1, <2>2
<1>4. \A m \in Places : Key[m] \in Nat \X Nat
  BY ChangeLogAssumption
<1> HIDE DEF page
<1>5. page \in [rows : SUBSET Places, newer : {NoCursor} \cup (Nat \X Nat), older : {NoCursor} \cup (Nat \X Nat)]
  BY <1>1, <1>2, <1>3, <1>4
<1> QED
  BY <1>5 DEF page

LEMMA LogInitInv == LogInit => LogInv
BY DEF LogInit, LogInv

LEMMA LogStep == LogInv /\ [LogNext]_logVars => LogInv'
<1> SUFFICES ASSUME LogInv, [LogNext]_logVars PROVE LogInv'
  OBVIOUS
<1>0. ledger \in [Places -> LedgerSources \cup {"none"}]
  BY DEF LogInv
<1>1. ASSUME NEW match \in {Places, Matching}, OpenLog(match) PROVE LogInv'
  <2> DEFINE page == ListChanges(match, NoCursor, NoCursor)
  <2>1. match \subseteq Places /\ ~Backwards(NoCursor, NoCursor)
    BY ChangeLogAssumption DEF Backwards
  <2>2. Asked(match, NoCursor, NoCursor) = Rows("change", match) /\ Rows("change", match) \subseteq Places
    BY <2>1, AskedFacts DEF Rows
  <2>3. /\ page.rows \subseteq Rows("change", match)
        /\ page.older = NoCursor => page.rows = Rows("change", match)
        /\ page.older # NoCursor =>
             \E m \in page.rows :
               /\ page.older = Key[m] /\ \A p \in page.rows : ~Older(Key[p], Key[m])
               /\ \A p \in Rows("change", match) : ~Older(Key[p], Key[m]) => p \in page.rows
               /\ \E q \in Rows("change", match) : Older(Key[q], Key[m])
        /\ page.newer = NoCursor
    <3>1. ForwardPage(page, Rows("change", match), NoCursor)
      BY <2>1, <2>2, PageForwards
    <3> HIDE DEF page
    <3> QED
      BY <3>1 DEF ForwardPage
  <2>4. page \in [rows : SUBSET Places, newer : {NoCursor} \cup (Nat \X Nat),
                  older : {NoCursor} \cup (Nat \X Nat)]
    BY <2>1, PageType
  <2>5. reader' = [kind |-> "log", match |-> match, page |-> page, linked |-> FALSE, turned |-> FALSE,
                   start |-> Rows("change", match), seen |-> page.rows, twice |-> FALSE]
        /\ ledger' = ledger
    BY <1>1 DEF OpenLog
  <2> HIDE DEF page
  <2>6. reader' \in Reader
    BY <2>1, <2>2, <2>3, <2>4, <2>5 DEF Reader
  <2>7. /\ reader'.match = match /\ reader'.page = page /\ reader'.linked = FALSE
        /\ reader'.start = Rows("change", match) /\ reader'.seen = page.rows /\ reader'.twice = FALSE
    BY <2>5
  <2>8. Leads(page, Rows("change", match))
    BY <2>3 DEF Leads
  <2>9. Read(reader', Rows("change", match))
    BY <2>3, <2>7, <2>8 DEF Read
  <2>10. Rows("change", reader.match)' = Rows("change", match)
    BY <2>5, <2>7 DEF Rows
  <2> QED
    BY <1>0, <2>5, <2>6, <2>9, <2>10 DEF LogInv
<1>2. ASSUME FollowOlder PROVE LogInv'
  <2>1. reader \in Reader /\ Read(reader, Rows("change", reader.match)) /\ reader.page.older # NoCursor
    BY <1>2 DEF FollowOlder, LogInv
  <2> DEFINE match == reader.match
             c == reader.page.older
             page == ListChanges(match, c, NoCursor)
             all == Rows("change", match)
             S == Asked(match, c, NoCursor)
  <2>2. match \subseteq Places /\ all \subseteq Places /\ ~Backwards(c, NoCursor)
    BY <2>1 DEF Reader, Backwards, Rows
  <2>3. S = {p \in all : Older(Key[p], c)}
    BY <2>1, <2>2, AskedFacts
  <2>4. PICK m0 \in all, q0 \in all : c = Key[m0] /\ Older(Key[q0], Key[m0])
    BY <2>1 DEF Read, Leads
  <2>5. /\ page.rows \subseteq S
        /\ S # {} => page.rows # {}
        /\ page.older = NoCursor => page.rows = S
        /\ page.older # NoCursor =>
             \E m \in page.rows :
               /\ page.older = Key[m] /\ \A p \in page.rows : ~Older(Key[p], Key[m])
               /\ \A p \in S : ~Older(Key[p], Key[m]) => p \in page.rows
               /\ \E q \in S : Older(Key[q], Key[m])
        /\ page.newer # NoCursor => \E m \in page.rows : page.newer = Key[m]
    <3>1. ForwardPage(page, S, c)
      BY <2>2, PageForwards
    <3> HIDE DEF page, S, c
    <3> QED
      BY <3>1 DEF ForwardPage
  <2>6. page \in [rows : SUBSET Places, newer : {NoCursor} \cup (Nat \X Nat),
                  older : {NoCursor} \cup (Nat \X Nat)]
    BY <2>2, PageType
  <2>7. reader' = [reader EXCEPT !.page = page, !.linked = TRUE, !.seen = reader.seen \cup page.rows,
                     !.twice = reader.twice \/ (~reader.turned /\ page.rows \cap reader.seen # {})]
        /\ ledger' = ledger
    BY <1>2 DEF FollowOlder
  <2> HIDE DEF page, S
  <2>8. page.rows # {} /\ page.rows \subseteq all
    BY <2>3, <2>4, <2>5
  <2>9. reader' \in Reader
    BY <2>1, <2>2, <2>6, <2>7, <2>8 DEF Reader
  <2>10. /\ reader'.match = match /\ reader'.page = page /\ reader'.start = reader.start
         /\ reader'.seen = reader.seen \cup page.rows /\ reader'.turned = reader.turned
         /\ reader'.twice = (reader.twice \/ (~reader.turned /\ page.rows \cap reader.seen # {}))
         /\ reader'.linked = TRUE
    BY <2>1, <2>7 DEF Reader
  <2>11. Leads(page, all)
    <3>1. ASSUME page.newer # NoCursor
          PROVE  \E m, q \in all : page.newer = Key[m] /\ Older(Key[m], Key[q])
      BY <2>3, <2>4, <2>5, <2>8, <3>1
    <3>2. ASSUME page.older # NoCursor
          PROVE  \E m, q \in all : page.older = Key[m] /\ Older(Key[q], Key[m])
      BY <2>3, <2>5, <2>8, <3>2
    <3> QED
      BY <3>1, <3>2 DEF Leads
  <2>12. reader.start \subseteq all /\ reader.seen \subseteq all /\ ~reader.twice
    BY <2>1 DEF Read
  <2>13. ASSUME ~reader.turned PROVE page.rows \cap reader.seen = {}
    BY <2>1, <2>3, <2>5, <2>13 DEF Read
  <2>14. ASSUME ~reader.turned, page.older = NoCursor
         PROVE  reader.start \subseteq reader.seen \cup page.rows
    BY <2>1, <2>3, <2>5, <2>12, <2>14 DEF Read
  <2>15. ASSUME ~reader.turned, page.older # NoCursor
         PROVE  /\ \A p \in reader.seen \cup page.rows : ~Older(Key[p], page.older)
                /\ \A p \in reader.start : ~Older(Key[p], page.older) => p \in reader.seen \cup page.rows
    <3>1. PICK m \in page.rows :
               /\ page.older = Key[m] /\ \A p \in page.rows : ~Older(Key[p], Key[m])
               /\ \A p \in S : ~Older(Key[p], Key[m]) => p \in page.rows
      BY <2>5, <2>15
    <3>2. Older(Key[m], Key[m0]) /\ m \in Places /\ m0 \in Places
      BY <2>2, <2>3, <2>4, <2>5, <2>8
    <3>3. ASSUME NEW p \in reader.seen PROVE ~Older(Key[p], Key[m])
      <4>1. ~Older(Key[p], Key[m0]) /\ p \in Places
        BY <2>1, <2>2, <2>4, <2>12, <2>15 DEF Read
      <4> QED
        BY <3>2, <4>1, OlderFacts
    <3>4. ASSUME NEW p \in reader.start, ~Older(Key[p], Key[m]) PROVE p \in reader.seen \cup page.rows
      <4>1. CASE Older(Key[p], c)
        BY <2>3, <2>12, <3>1, <3>4, <4>1
      <4>2. CASE ~Older(Key[p], c)
        BY <2>1, <2>15, <4>2 DEF Read
      <4> QED
        BY <4>1, <4>2
    <3> QED
      BY <3>1, <3>3, <3>4
  <2>16. Read(reader', all)
    BY <2>8, <2>10, <2>11, <2>12, <2>13, <2>14, <2>15 DEF Read
  <2>17. Rows("change", reader.match)' = all
    BY <2>7, <2>10 DEF Rows
  <2> QED
    BY <1>0, <2>7, <2>9, <2>16, <2>17 DEF LogInv
<1>3. ASSUME FollowNewer PROVE LogInv'
  <2>1. reader \in Reader /\ Read(reader, Rows("change", reader.match)) /\ reader.page.newer # NoCursor
    BY <1>3 DEF FollowNewer, LogInv
  <2> DEFINE match == reader.match
             c == reader.page.newer
             page == ListChanges(match, NoCursor, c)
             all == Rows("change", match)
             S == Asked(match, NoCursor, c)
  <2>2. match \subseteq Places /\ all \subseteq Places /\ Backwards(NoCursor, c)
    BY <2>1 DEF Reader, Backwards, Rows
  <2>3. S = {p \in all : Older(c, Key[p])}
    BY <2>1, <2>2, AskedFacts
  <2>4. PICK m0 \in all, q0 \in all : c = Key[m0] /\ Older(Key[m0], Key[q0])
    BY <2>1 DEF Read, Leads
  <2>5. /\ page.rows \subseteq S
        /\ S # {} => page.rows # {}
        /\ page.older # NoCursor => \E m \in page.rows : page.older = Key[m]
        /\ page.newer # NoCursor =>
             \E m \in page.rows : page.newer = Key[m] /\ \E q \in S : Older(Key[m], Key[q])
    <3>1. BackwardPage(page, S)
      BY <2>2, PageBackwards
    <3> HIDE DEF page, S, c
    <3> QED
      BY <3>1 DEF BackwardPage
  <2>6. page \in [rows : SUBSET Places, newer : {NoCursor} \cup (Nat \X Nat),
                  older : {NoCursor} \cup (Nat \X Nat)]
    BY <2>2, PageType
  <2>7. reader' = [reader EXCEPT !.page = page, !.linked = TRUE, !.turned = TRUE,
                                 !.seen = reader.seen \cup page.rows]
        /\ ledger' = ledger
    BY <1>3 DEF FollowNewer
  <2> HIDE DEF page, S
  <2>8. page.rows # {} /\ page.rows \subseteq all
    BY <2>3, <2>4, <2>5
  <2>9. reader' \in Reader
    BY <2>1, <2>2, <2>6, <2>7, <2>8 DEF Reader
  <2>10. /\ reader'.match = match /\ reader'.page = page /\ reader'.start = reader.start
         /\ reader'.seen = reader.seen \cup page.rows /\ reader'.turned = TRUE
         /\ reader'.twice = reader.twice
    BY <2>1, <2>7 DEF Reader
  <2>11. Leads(page, all)
    <3>1. ASSUME page.newer # NoCursor
          PROVE  \E m, q \in all : page.newer = Key[m] /\ Older(Key[m], Key[q])
      BY <2>3, <2>5, <2>8, <3>1
    <3>2. ASSUME page.older # NoCursor
          PROVE  \E m, q \in all : page.older = Key[m] /\ Older(Key[q], Key[m])
      BY <2>3, <2>4, <2>5, <2>8, <3>2
    <3> QED
      BY <3>1, <3>2 DEF Leads
  <2>12. reader.start \subseteq all /\ reader.seen \subseteq all /\ ~reader.twice
    BY <2>1 DEF Read
  <2>13. Read(reader', all)
    BY <2>8, <2>10, <2>11, <2>12 DEF Read
  <2>14. Rows("change", reader.match)' = all
    BY <2>7, <2>10 DEF Rows
  <2> QED
    BY <1>0, <2>7, <2>9, <2>13, <2>14 DEF LogInv
<1>4. ASSUME ledger' \in [Places -> LedgerSources \cup {"none"}], reader' = reader,
             \A p \in Places : ledger[p] = "change" => ledger'[p] = "change"
      PROVE  LogInv'
  <2>1. CASE reader = [kind |-> "none"]
    BY <1>4, <2>1 DEF LogInv
  <2>2. CASE reader \in Reader /\ Read(reader, Rows("change", reader.match))
    <3>1. Rows("change", reader.match) \subseteq Rows("change", reader.match)'
      BY <1>4, <2>2 DEF Rows, Reader
    <3> DEFINE old == Rows("change", reader.match)
               new == Rows("change", reader.match)'
    <3> HIDE DEF old, new
    <3>2. Read(reader, old) /\ old \subseteq new
      BY <2>2, <3>1 DEF old, new
    <3>3. Read(reader, new)
      BY <3>2 DEF Read, Leads
    <3> QED
      BY <1>4, <2>2, <3>3 DEF LogInv, new
  <2> QED
    BY <2>1, <2>2 DEF LogInv
<1>5. ASSUME NEW p \in Places, NEW source \in LedgerSources, WriteRow(p, source) PROVE LogInv'
  BY <1>0, <1>4, <1>5 DEF WriteRow
<1>6. ASSUME NEW p \in Places, RemoveRow(p) PROVE LogInv'
  BY <1>0, <1>4, <1>6 DEF RemoveRow
<1>7. CASE UNCHANGED logVars
  BY <1>0, <1>4, <1>7 DEF logVars
<1> QED
  BY <1>1, <1>2, <1>3, <1>5, <1>6, <1>7 DEF LogNext

(* However the log grows while it is read, whatever the page and whatever the *)
(* filter: a walk through "older" shows every row that was there when it      *)
(* began, none twice, a link never leads to an empty page, and on a timeline  *)
(* churn buries no declared change (ListChanges, timelineBudget, Timeline).   *)
THEOREM NoChangeIsEverHidden == LogSpec => []NoChangeIsHidden
<1>1. LogInv => WalkIsWhole
  BY DEF LogInv, WalkIsWhole, Read
<1>2. LogInv => NoChangeIsHidden
  BY <1>1, ChurnNeverBuries DEF NoChangeIsHidden
<1> QED
  BY <1>2, LogInitInv, LogStep, PTL DEF LogSpec

----------------------------------------------------------------------------
(* The webhook, its drift queue and retention *)

PostState ==
  {Waiting} \cup [op : {"resolve", "queue", "authorise", "apply", "upsert"}, who : Reporters,
                  batch : {b \in Seq(Item) : Len(b) > 0}]

(* A row that a prune has deleted, with the day and the scope it was in then. *)
GoneOld(g) == g.inScope => g.on - g.row.at > MinDays
PruneFits(p) ==
  \/ p = NoPrune
  \/ /\ p.op \in {"transitions", "drift"} /\ p.before \in Int /\ p.floor \in Int
     /\ p.floor <= day - MinDays
  \/ /\ p.op = "deleted" /\ IsFiniteSet(p.gone)
     /\ \A g \in p.gone : g.row \in transitions /\ GoneOld(g)
     /\ \A g, h \in p.gone : g.row = h.row => g = h

(* What retention rests on: ids are given out once, and the rows that a prune *)
(* under way has deleted are all still there for its commit to take.          *)
RetentionInv ==
  /\ day \in Nat /\ recorded \in Nat /\ audited \in Nat
  /\ IsFiniteSet(transitions)
  /\ \A t \in transitions : t.id \in Nat /\ t.id <= recorded /\ t.at \in Nat
  /\ Cardinality(transitions) + audited = recorded
  /\ PruneFits(prune)
  /\ \A g \in lost : GoneOld(g)

LEMMA IntakeConstants ==
  /\ MinDays \in Nat /\ DriftCap \in Nat /\ KeepDays \subseteq Nat
  /\ IsFiniteSet(Posts) /\ Posts # {} /\ Cardinality(Posts) \in Nat /\ Cardinality(Posts) >= 1
<1>1. MinDays \in Nat /\ DriftCap \in Nat /\ KeepDays \subseteq Nat /\ IsFiniteSet(Posts) /\ Posts # {}
  BY IntakeAssumption
<1>2. Cardinality(Posts) \in Nat /\ Cardinality(Posts) # 0
  BY <1>1, FS_CardinalityType, FS_EmptySet
<1> QED
  BY <1>1, <1>2

(* As many rows as the prune deleted are gone. *)
LEMMA PruneCounts ==
  ASSUME NEW T, IsFiniteSet(T), NEW G, IsFiniteSet(G), \A g \in G : g.row \in T,
         \A g, h \in G : g.row = h.row => g = h
  PROVE  /\ IsFiniteSet(T \ {g.row : g \in G})
         /\ Cardinality(T \ {g.row : g \in G}) = Cardinality(T) - Cardinality(G)
<1> DEFINE R == {g.row : g \in G}
           f == [g \in G |-> g.row]
<1>1. f \in Surjection(G, R) /\ f \in Injection(G, R)
  BY DEF Surjection, Injection, IsInjective
<1>2. Cardinality(R) = Cardinality(G)
  <2> HIDE DEF f, R
  <2> QED
    BY <1>1, FS_Surjection
<1>3. T \cap R = R
  OBVIOUS
<1>4. IsFiniteSet(T \ R) /\ Cardinality(T \ R) = Cardinality(T) - Cardinality(T \cap R)
  <2> HIDE DEF R
  <2> QED
    BY FS_Difference
<1> QED
  BY <1>2, <1>3, <1>4

LEMMA RetentionStep == RetentionInv /\ [IntakeNext]_intakeVars => RetentionInv'
<1> SUFFICES ASSUME RetentionInv, [IntakeNext]_intakeVars PROVE RetentionInv'
  OBVIOUS
<1>0. /\ day \in Nat /\ recorded \in Nat /\ audited \in Nat /\ IsFiniteSet(transitions)
      /\ Cardinality(transitions) \in Nat /\ MinDays \in Nat
      /\ PruneFits(prune)
  BY FS_CardinalityType, IntakeConstants DEF RetentionInv
<1>1. CASE UNCHANGED <<day, transitions, recorded, prune, audited, lost>>
  BY <1>1 DEF RetentionInv, PruneFits
<1>2. ASSUME NEW r \in Posts, Apply(r) PROVE RetentionInv'
  <2>1. CASE UNCHANGED <<transitions, recorded>>
    BY <1>1, <1>2, <2>1 DEF Apply
  <2>2. CASE /\ transitions' = transitions \cup {[ref |-> Ref(r), at |-> day, id |-> recorded + 1]}
             /\ recorded' = recorded + 1
    <3> DEFINE t == [ref |-> Ref(r), at |-> day, id |-> recorded + 1]
    <3>1. t.id = recorded + 1 /\ t.at = day
      OBVIOUS
    <3> HIDE DEF t
    <3>2. t \notin transitions
      BY <1>0, <3>1 DEF RetentionInv
    <3>3. transitions' = transitions \cup {t}
      BY <2>2 DEF t
    <3>4. IsFiniteSet(transitions') /\ Cardinality(transitions') = Cardinality(transitions) + 1
      BY <1>0, <3>2, <3>3, FS_AddElement
    <3>5. UNCHANGED <<day, prune, audited, lost>>
      BY <1>2 DEF Apply
    <3>6. Cardinality(transitions') + audited' = recorded'
      BY <1>0, <2>2, <3>4, <3>5 DEF RetentionInv
    <3>7. \A s \in transitions' : s.id \in Nat /\ s.id <= recorded' /\ s.at \in Nat
      BY <1>0, <2>2, <3>1, <3>3 DEF RetentionInv
    <3>8. PruneFits(prune)'
      BY <1>0, <3>3, <3>5 DEF PruneFits
    <3> QED
      BY <1>0, <2>2, <3>4, <3>5, <3>6, <3>7, <3>8 DEF RetentionInv
  <2> QED
    BY <1>2, <2>1, <2>2 DEF Apply
<1>3. ASSUME NEW table \in {"transitions", "drift"}, NEW keepDays \in KeepDays,
             PruneBegin(table, keepDays)
      PROVE  RetentionInv'
  <2>1. /\ prune' = [op |-> table, before |-> day - keepDays, floor |-> Floor(day - keepDays)]
        /\ UNCHANGED <<day, transitions, recorded, audited, lost>>
    BY <1>3 DEF PruneBegin
  <2>2. keepDays \in Nat
    BY IntakeConstants
  <2>3. /\ day - keepDays \in Int /\ Floor(day - keepDays) \in Int
        /\ Floor(day - keepDays) <= day - MinDays
    BY <1>0, <2>2 DEF Floor
  <2>4. PruneFits(prune)'
    BY <2>1, <2>3 DEF PruneFits
  <2> QED
    BY <2>1, <2>4 DEF RetentionInv
<1>4. CASE pruneDelete
  <2> DEFINE D == Deletable(prune)
             G == {[row |-> t, on |-> day, inScope |-> IsInScope(t.ref)] : t \in D}
  <2>1. /\ prune' = [op |-> "deleted", gone |-> G]
        /\ UNCHANGED <<day, transitions, recorded, audited, lost>>
    BY <1>4 DEF pruneDelete
  <2>2. prune.before \in Int /\ prune.floor \in Int /\ prune.floor <= day - MinDays
    BY <1>0, <1>4 DEF PruneFits, pruneDelete, NoPrune
  <2>3. D \subseteq transitions
    BY DEF Deletable
  <2>4. ASSUME NEW t \in D PROVE IsInScope(t.ref) => day - t.at > MinDays
    <3>1. t.at \in Nat /\ (IsInScope(t.ref) => t.at < prune.floor)
      BY <2>3 DEF Deletable, RetentionInv
    <3> QED
      BY <1>0, <2>2, <3>1
  <2>5. IsFiniteSet(D)
    BY <1>0, <2>3, FS_Subset
  <2> DEFINE f == [t \in D |-> [row |-> t, on |-> day, inScope |-> IsInScope(t.ref)]]
  <2>6. IsFiniteSet(G)
    <3>1. f \in Surjection(D, G)
      BY DEF Surjection
    <3> HIDE DEF f, D, G
    <3> QED
      BY <2>5, <3>1, FS_Surjection
  <2>7. \A g \in G : g.row \in transitions /\ GoneOld(g)
    BY <2>3, <2>4 DEF GoneOld
  <2>8. \A g, h \in G : g.row = h.row => g = h
    OBVIOUS
  <2> HIDE DEF G
  <2>9. PruneFits(prune)'
    BY <2>1, <2>6, <2>7, <2>8 DEF PruneFits
  <2> QED
    BY <2>1, <2>9 DEF RetentionInv
<1>5. CASE PruneCommit
  <2>1. /\ prune.op = "deleted" /\ IsFiniteSet(prune.gone)
        /\ \A g \in prune.gone : g.row \in transitions /\ GoneOld(g)
        /\ \A g, h \in prune.gone : g.row = h.row => g = h
    BY <1>0, <1>5 DEF PruneFits, PruneCommit, NoPrune
  <2>2. /\ transitions' = transitions \ {g.row : g \in prune.gone}
        /\ audited' = audited + Cardinality(prune.gone)
        /\ lost' = lost \cup prune.gone /\ prune' = NoPrune
        /\ UNCHANGED <<day, recorded>>
    BY <1>5 DEF PruneCommit
  <2>3. /\ IsFiniteSet(transitions')
        /\ Cardinality(transitions') = Cardinality(transitions) - Cardinality(prune.gone)
    BY <1>0, <2>1, <2>2, PruneCounts
  <2>4. Cardinality(prune.gone) \in Nat
    BY <2>1, FS_CardinalityType
  <2>5. audited' \in Nat /\ Cardinality(transitions') + audited' = recorded'
    BY <1>0, <2>2, <2>3, <2>4 DEF RetentionInv
  <2>6. \A t \in transitions' : t.id \in Nat /\ t.id <= recorded' /\ t.at \in Nat
    BY <2>2 DEF RetentionInv
  <2>7. \A g \in lost' : GoneOld(g)
    BY <2>1, <2>2 DEF RetentionInv
  <2>8. PruneFits(prune)'
    BY <2>2 DEF PruneFits
  <2> QED
    BY <1>0, <2>2, <2>3, <2>5, <2>6, <2>7, <2>8 DEF RetentionInv
<1>6. CASE PruneFail \/ PruneUnmatchedObservations
  <2>1. prune' = NoPrune /\ UNCHANGED <<day, transitions, recorded, audited, lost>>
    BY <1>6 DEF PruneFail, PruneUnmatchedObservations
  <2>2. PruneFits(prune)'
    BY <2>1 DEF PruneFits
  <2> QED
    BY <2>1, <2>2 DEF RetentionInv
<1>7. CASE NextDay
  <2>1. day' = day + 1 /\ UNCHANGED <<transitions, recorded, prune, audited, lost>>
    BY <1>7 DEF NextDay
  <2>2. PruneFits(prune)'
    BY <1>0, <2>1 DEF PruneFits
  <2> QED
    BY <1>0, <2>1, <2>2 DEF RetentionInv
<1> QED
  BY <1>1, <1>2, <1>3, <1>4, <1>5, <1>6, <1>7
  DEF IntakeNext, intakeVars, Record, Resolve, Authorise, queueUnmatched, unmatchedUpsert, Place

LEMMA RetentionInit == IntakeInit => RetentionInv
BY FS_EmptySet DEF IntakeInit, RetentionInv, PruneFits

(* However requests, prunes, failures and the operators' edits interleave:    *)
(* every transition ever recorded is in the ledger or in the count the change *)
(* log has of pruned rows, and what was pruned of an entity in scope was      *)
(* older than the minimum (PruneObservedTransitions, pruneDelete).            *)
THEOREM RetentionAlwaysAccounted == IntakeSpec => []RetentionIsAccounted
<1>1. RetentionInv => RetentionIsAccounted
  BY DEF RetentionInv, RetentionIsAccounted, GoneOld
<1> QED
  BY <1>1, RetentionInit, RetentionStep, PTL DEF IntakeSpec

----------------------------------------------------------------------------
(* The drift queue: requests that were below the cap when they counted and    *)
(* have not written yet.                                                      *)

Upserting(who) == {r \in Posts : post[r].op = "upsert" /\ post[r].who = who}
Queued(who) == Cardinality(DOMAIN drift[who])

QueueInv ==
  /\ singleWriter \in BOOLEAN
  /\ post \in [Posts -> PostState]
  /\ DOMAIN drift = Reporters /\ \A who \in Reporters : IsFiniteSet(DOMAIN drift[who])
  /\ singleWriter =>
       /\ \A r, q \in Posts : post[r].op = "upsert" /\ post[q].op = "upsert" => r = q
       /\ \A who \in Reporters : /\ Queued(who) <= DriftCap
                                 /\ Upserting(who) # {} => Queued(who) < DriftCap
  /\ ~singleWriter =>
       \A who \in Reporters :
         Queued(who) + Cardinality(Upserting(who)) <= DriftCap + Cardinality(Posts) - 1

LEMMA PostCases ==
  ASSUME NEW p \in PostState
  PROVE  /\ p.op \in {"idle", "resolve", "queue", "authorise", "apply", "upsert"}
         /\ p.op = "idle" => p = Waiting
         /\ p.op # "idle" => /\ p.who \in Reporters /\ p.batch \in Seq(Item) /\ Len(p.batch) > 0
                             /\ \A op \in {"resolve", "queue", "authorise", "apply", "upsert"} :
                                  [p EXCEPT !.op = op] \in PostState
BY DEF PostState, Waiting

LEMMA TailOfLonger ==
  ASSUME NEW S, NEW b \in Seq(S), Len(b) > 0, Len(b) # 1
  PROVE  Tail(b) \in Seq(S) /\ Len(Tail(b)) > 0
<1>1. Len(b) \in Nat /\ b # <<>>
  OBVIOUS
<1>2. \A n \in Nat : n > 0 /\ n # 1 => n - 1 > 0
  OBVIOUS
<1>3. Len(b) - 1 > 0
  BY <1>1, <1>2
<1> QED
  BY <1>1, <1>3, HeadTailProperties

LEMMA QueueCounts ==
  ASSUME QueueInv, NEW who \in Reporters
  PROVE  /\ Queued(who) \in Nat /\ Upserting(who) \subseteq Posts /\ IsFiniteSet(Upserting(who))
         /\ Cardinality(Upserting(who)) \in Nat
         /\ Cardinality(Upserting(who)) <= Cardinality(Posts)
<1>1. Upserting(who) \subseteq Posts /\ IsFiniteSet(DOMAIN drift[who])
  BY DEF Upserting, QueueInv
<1> QED
  BY <1>1, IntakeConstants, FS_Subset, FS_CardinalityType DEF Queued

(* A step that neither begins nor ends an upsert and takes no row away from   *)
(* the other side of the count.                                               *)
LEMMA QueueStands ==
  ASSUME QueueInv, singleWriter' = singleWriter, post' \in [Posts -> PostState],
         \A q \in Posts : \/ post'[q] = post[q]
                          \/ post[q].op # "upsert" /\ post'[q].op # "upsert",
         DOMAIN drift' = Reporters,
         \A who \in Reporters : DOMAIN drift'[who] \subseteq DOMAIN drift[who]
  PROVE  QueueInv'
<1>1. \A who \in Reporters : Upserting(who)' = Upserting(who)
  BY DEF Upserting, QueueInv
<1>2. ASSUME NEW who \in Reporters
      PROVE  /\ IsFiniteSet(DOMAIN drift'[who]) /\ Queued(who)' \in Nat /\ Queued(who) \in Nat
             /\ Queued(who)' <= Queued(who)
  BY FS_Subset, FS_CardinalityType DEF QueueInv, Queued
<1>3. \A who \in Reporters : Cardinality(Upserting(who)) \in Nat
  BY QueueCounts
<1>4. ASSUME singleWriter
      PROVE  /\ \A r, q \in Posts : post'[r].op = "upsert" /\ post'[q].op = "upsert" => r = q
             /\ \A who \in Reporters : /\ Queued(who)' <= DriftCap
                                       /\ Upserting(who)' # {} => Queued(who)' < DriftCap
  <2>1. \A r, q \in Posts : post'[r].op = "upsert" /\ post'[q].op = "upsert" => r = q
    BY <1>4 DEF QueueInv
  <2>2. \A who \in Reporters : /\ Queued(who)' <= DriftCap
                               /\ Upserting(who)' # {} => Queued(who)' < DriftCap
    BY <1>1, <1>2, <1>4, IntakeConstants DEF QueueInv
  <2> QED
    BY <2>1, <2>2
<1>5. ASSUME ~singleWriter, NEW who \in Reporters
      PROVE  Queued(who)' + Cardinality(Upserting(who)') <= DriftCap + Cardinality(Posts) - 1
  <2>1. Queued(who) + Cardinality(Upserting(who)) <= DriftCap + Cardinality(Posts) - 1
    BY <1>5 DEF QueueInv
  <2>2. Cardinality(Upserting(who)') = Cardinality(Upserting(who))
    BY <1>1
  <2> QED
    BY <1>2, <1>3, <2>1, <2>2, IntakeConstants
<1> QED
  BY <1>2, <1>4, <1>5 DEF QueueInv

LEMMA QueueStep == QueueInv /\ [IntakeNext]_intakeVars => QueueInv'
<1> SUFFICES ASSUME QueueInv, [IntakeNext]_intakeVars PROVE QueueInv'
  OBVIOUS
<1>0. post \in [Posts -> PostState] /\ DOMAIN drift = Reporters /\ Waiting \in PostState
      /\ Waiting.op = "idle"
  BY DEF QueueInv, PostState, Waiting
<1>1. CASE UNCHANGED <<singleWriter, drift, post>>
  BY <1>0, <1>1, QueueStands
<1>2. ASSUME NEW r \in Posts, NEW p \in PostState, post[r].op # "upsert", p.op # "upsert",
             post' = [post EXCEPT ![r] = p], UNCHANGED <<singleWriter, drift>>
      PROVE  QueueInv'
  <2>1. post' \in [Posts -> PostState]
        /\ \A q \in Posts : post'[q] = post[q] \/ (post[q].op # "upsert" /\ post'[q].op # "upsert")
    BY <1>0, <1>2
  <2> QED
    BY <1>0, <1>2, <2>1, QueueStands
<1>3. ASSUME NEW r \in Posts, NEW who \in Reporters, NEW batch \in Batches, Record(r, who, batch)
      PROVE  QueueInv'
  <2>1. CASE Refused(batch)
    BY <1>0, <1>2, <1>3, <2>1 DEF Record, Answer
  <2>2. CASE ~Refused(batch)
    <3>1. batch \in Seq(Item) /\ Len(batch) \in Nat
      BY IntakeAssumption
    <3>2. [op |-> "resolve", who |-> who, batch |-> batch] \in PostState
      BY <2>2, <3>1 DEF Refused, PostState
    <3> QED
      BY <1>2, <1>3, <2>2, <3>2 DEF Record
  <2> QED
    BY <2>1, <2>2
<1>4. ASSUME NEW r \in Posts, Resolve(r) \/ Authorise(r) PROVE QueueInv'
  <2>1. post[r] \in PostState /\ post[r].op # "idle" /\ post[r].op # "upsert"
    BY <1>0, <1>4 DEF Resolve, Authorise
  <2>2. \A op \in {"queue", "authorise", "apply"} :
          [post[r] EXCEPT !.op = op] \in PostState /\ [post[r] EXCEPT !.op = op].op = op
    BY <2>1, PostCases DEF PostState, Waiting
  <2>3. \/ Answer(r)
        \/ \E op \in {"queue", "authorise", "apply"} :
             post' = [post EXCEPT ![r] = [post[r] EXCEPT !.op = op]]
    BY <1>4 DEF Resolve, Authorise
  <2>4. UNCHANGED <<singleWriter, drift>>
    BY <1>4 DEF Resolve, Authorise
  <2> QED
    BY <1>0, <1>2, <2>1, <2>2, <2>3, <2>4 DEF Answer
<1>5. ASSUME NEW r \in Posts, Apply(r) PROVE QueueInv'
  <2>1. post[r] \in PostState /\ post[r].op = "apply"
    BY <1>0, <1>5 DEF Apply
  <2>2. CASE Len(post[r].batch) = 1
    BY <1>0, <1>2, <1>5, <2>1, <2>2 DEF Apply, Answer
  <2>3. CASE Len(post[r].batch) # 1
    <3> DEFINE p == [op |-> "resolve", who |-> post[r].who, batch |-> Tail(post[r].batch)]
    <3>1. post[r].who \in Reporters /\ post[r].batch \in Seq(Item) /\ Len(post[r].batch) > 0
      BY <2>1, PostCases
    <3>2. Tail(post[r].batch) \in Seq(Item) /\ Len(Tail(post[r].batch)) > 0
      BY <2>3, <3>1, TailOfLonger
    <3>4. p \in PostState /\ p.op = "resolve"
      BY <3>1, <3>2 DEF PostState
    <3>5. post' = [post EXCEPT ![r] = p]
      BY <1>5, <2>3 DEF Apply
    <3>6. UNCHANGED <<singleWriter, drift>>
      BY <1>5 DEF Apply
    <3> HIDE DEF p
    <3> QED
      BY <1>2, <2>1, <3>4, <3>5, <3>6
  <2> QED
    BY <2>2, <2>3
<1>6. ASSUME NEW r \in Posts, queueUnmatched(r) PROVE QueueInv'
  <2>1. post[r] \in PostState /\ post[r].op = "queue" /\ WriterIsFree
    BY <1>0, <1>6 DEF queueUnmatched
  <2>2. CASE QueueFull(post[r].who)
    BY <1>0, <1>2, <1>6, <2>1, <2>2 DEF queueUnmatched, Answer
  <2>3. CASE ~QueueFull(post[r].who)
    <3> DEFINE p == [post[r] EXCEPT !.op = "upsert"]
               w == post[r].who
    <3>1. w \in Reporters /\ p \in PostState /\ p.op = "upsert" /\ p.who = w
      BY <2>1, PostCases DEF PostState, Waiting
    <3>2. post' = [post EXCEPT ![r] = p] /\ UNCHANGED <<singleWriter, drift>>
      BY <1>6, <2>3 DEF queueUnmatched
    <3> HIDE DEF p, w
    <3>3. post' \in [Posts -> PostState] /\ \A q \in Posts : post'[q] = IF q = r THEN p ELSE post[q]
      BY <1>0, <3>1, <3>2
    <3>4. \A who \in Reporters : Queued(who)' = Queued(who) /\ IsFiniteSet(DOMAIN drift'[who])
      BY <3>2 DEF Queued, QueueInv
    <3>5. Queued(w) < DriftCap /\ Queued(w) \in Nat
      <4>1. Queued(w) \in Nat /\ ~(Queued(w) >= DriftCap)
        BY <2>3, <3>1, QueueCounts DEF QueueFull, Queued, w
      <4> QED
        BY <4>1, IntakeConstants
    <3>6. \A who \in Reporters : who # w => Upserting(who)' = Upserting(who)
      BY <2>1, <3>1, <3>3 DEF Upserting, w
    <3>7. ASSUME singleWriter
          PROVE  /\ \A s, q \in Posts : post'[s].op = "upsert" /\ post'[q].op = "upsert" => s = q
                 /\ \A who \in Reporters : /\ Queued(who)' <= DriftCap
                                           /\ Upserting(who)' # {} => Queued(who)' < DriftCap
      <4>1. \A q \in Posts : post[q].op # "upsert"
        BY <2>1, <3>7 DEF WriterIsFree
      <4>2. \A s, q \in Posts : post'[s].op = "upsert" /\ post'[q].op = "upsert" => s = q
        BY <3>3, <4>1
      <4>3. ASSUME NEW who \in Reporters
            PROVE  Queued(who)' <= DriftCap /\ (Upserting(who)' # {} => Queued(who)' < DriftCap)
        <5>1. CASE who = w
          BY <3>4, <3>5, <4>3, <5>1, IntakeConstants
        <5>2. CASE who # w
          BY <3>4, <3>6, <3>7, <4>3, <5>2 DEF QueueInv
        <5> QED
          BY <5>1, <5>2
      <4> QED
        BY <4>2, <4>3
    <3>8. ASSUME ~singleWriter, NEW who \in Reporters
          PROVE  Queued(who)' + Cardinality(Upserting(who)') <= DriftCap + Cardinality(Posts) - 1
      <4>1. CASE who = w
        <5>1. Upserting(who)' \subseteq Posts
          BY DEF Upserting
        <5>2. Cardinality(Upserting(who)') <= Cardinality(Posts) /\ Cardinality(Upserting(who)') \in Nat
          BY <5>1, IntakeConstants, FS_Subset, FS_CardinalityType
        <5> QED
          BY <3>4, <3>5, <3>8, <4>1, <5>2, IntakeConstants
      <4>2. CASE who # w
        BY <3>4, <3>6, <3>8, <4>2 DEF QueueInv
      <4> QED
        BY <4>1, <4>2
    <3> QED
      BY <1>0, <3>2, <3>3, <3>4, <3>7, <3>8 DEF QueueInv
  <2> QED
    BY <2>2, <2>3
<1>7. ASSUME NEW r \in Posts, unmatchedUpsert(r) PROVE QueueInv'
  <2>0. post[r] \in PostState /\ post[r].op = "upsert" /\ post[r].who \in Reporters
    BY <1>0, <1>7, PostCases DEF unmatchedUpsert
  <2>1. PICK w \in Reporters : w = post[r].who
    BY <2>0
  <2> DEFINE e == [ref \in DOMAIN drift[w] \cup {Ref(r)} |-> IF ref = Ref(r) THEN day ELSE drift[w][ref]]
  <2>2. post' = [post EXCEPT ![r] = Waiting] /\ drift' = [drift EXCEPT ![w] = e]
        /\ singleWriter' = singleWriter
    BY <1>7, <2>1 DEF unmatchedUpsert, Answer
  <2>3. DOMAIN e = DOMAIN drift[w] \cup {Ref(r)}
    OBVIOUS
  <2> HIDE DEF e
  <2>4. post' \in [Posts -> PostState] /\ \A q \in Posts : post'[q] = IF q = r THEN Waiting ELSE post[q]
    BY <1>0, <2>2
  <2>5. DOMAIN drift' = Reporters /\ \A who \in Reporters : drift'[who] = IF who = w THEN e ELSE drift[who]
    BY <1>0, <2>2
  <2>6. \A who \in Reporters : who # w => Upserting(who)' = Upserting(who) /\ Queued(who)' = Queued(who)
    BY <1>0, <2>1, <2>4, <2>5 DEF Upserting, Queued
  <2>7. Upserting(w)' = Upserting(w) \ {r} /\ r \in Upserting(w)
    BY <1>0, <2>0, <2>1, <2>4 DEF Upserting
  <2>8. IsFiniteSet(DOMAIN drift[w]) /\ Queued(w) \in Nat
    BY <2>1, QueueCounts DEF QueueInv
  <2>9. IsFiniteSet(DOMAIN e) /\ Queued(w)' \in Nat /\ Queued(w)' <= Queued(w) + 1
    <3>1. IsFiniteSet(DOMAIN e) /\ Cardinality(DOMAIN e) \in Nat
          /\ Cardinality(DOMAIN e) <= Cardinality(DOMAIN drift[w]) + 1
      <4> DEFINE A == DOMAIN drift[w]
                 x == Ref(r)
      <4>1. IsFiniteSet(A) /\ Cardinality(A) \in Nat /\ DOMAIN e = A \cup {x}
        BY <2>3, <2>8 DEF Queued
      <4> HIDE DEF A, x
      <4>2. IsFiniteSet(A \cup {x}) /\ Cardinality(A \cup {x}) \in {Cardinality(A), Cardinality(A) + 1}
        BY <4>1, FS_AddElement
      <4> QED
        BY <4>1, <4>2 DEF A
    <3>2. Queued(w)' = Cardinality(DOMAIN e)
      BY <2>5 DEF Queued
    <3> QED
      BY <3>1, <3>2 DEF Queued
  <2>10. \A who \in Reporters : IsFiniteSet(DOMAIN drift'[who])
    BY <2>5, <2>9 DEF QueueInv
  <2>11. ASSUME singleWriter
         PROVE  /\ \A s, q \in Posts : post'[s].op = "upsert" /\ post'[q].op = "upsert" => s = q
                /\ \A who \in Reporters : /\ Queued(who)' <= DriftCap
                                          /\ Upserting(who)' # {} => Queued(who)' < DriftCap
    <3>1. \A q \in Posts : post'[q].op # "upsert"
      BY <1>0, <2>0, <2>4, <2>11 DEF QueueInv
    <3>2. \A who \in Reporters : Upserting(who)' = {}
      BY <3>1 DEF Upserting
    <3>3. Queued(w) < DriftCap
      BY <2>7, <2>11 DEF QueueInv
    <3>4. Queued(w)' <= DriftCap
      BY <2>8, <2>9, <3>3, IntakeConstants
    <3>5. \A who \in Reporters : Queued(who)' <= DriftCap
      BY <2>6, <2>11, <3>4 DEF QueueInv
    <3> QED
      BY <3>1, <3>2, <3>5
  <2>12. ASSUME ~singleWriter, NEW who \in Reporters
         PROVE  Queued(who)' + Cardinality(Upserting(who)') <= DriftCap + Cardinality(Posts) - 1
    <3>1. CASE who = w
      <4>1. /\ Cardinality(Upserting(w)') = Cardinality(Upserting(w)) - 1
            /\ Cardinality(Upserting(w)) \in Nat
        BY <2>1, <2>7, QueueCounts, FS_RemoveElement
      <4>2. Queued(w) + Cardinality(Upserting(w)) <= DriftCap + Cardinality(Posts) - 1
        BY <2>1, <2>12 DEF QueueInv
      <4>3. Queued(w)' + Cardinality(Upserting(w)') <= DriftCap + Cardinality(Posts) - 1
        BY <2>8, <2>9, <4>1, <4>2, IntakeConstants
      <4> QED
        BY <3>1, <4>3
    <3>2. CASE who # w
      BY <2>6, <2>12, <3>2 DEF QueueInv
    <3> QED
      BY <3>1, <3>2
  <2> QED
    BY <2>2, <2>4, <2>5, <2>10, <2>11, <2>12 DEF QueueInv
<1>8. CASE PruneUnmatchedObservations
  BY <1>0, <1>8, QueueStands DEF PruneUnmatchedObservations
<1> QED
  BY <1>1, <1>3, <1>4, <1>5, <1>6, <1>7, <1>8
  DEF IntakeNext, intakeVars, PruneBegin, pruneDelete, PruneCommit, PruneFail, Place, NextDay

LEMMA QueueInit == IntakeInit => QueueInv
<1> SUFFICES ASSUME IntakeInit PROVE QueueInv
  OBVIOUS
<1>1. post = [r \in Posts |-> Waiting] /\ drift = [who \in Reporters |-> <<>>] /\ singleWriter \in BOOLEAN
  BY DEF IntakeInit
<1>2. Waiting \in PostState /\ Waiting.op = "idle"
  BY DEF PostState, Waiting
<1>3. \A who \in Reporters : DOMAIN drift[who] = {} /\ Upserting(who) = {}
  BY <1>1, <1>2 DEF Upserting
<1>4. \A who \in Reporters : /\ IsFiniteSet(DOMAIN drift[who]) /\ Queued(who) = 0
                             /\ Cardinality(Upserting(who)) = 0
  BY <1>3, FS_EmptySet DEF Queued
<1> QED
  BY <1>1, <1>2, <1>3, <1>4, IntakeConstants DEF QueueInv

(* For every number of requests and reporters: the drift queue passes its cap *)
(* by at most one row for each other request between the count and the write, *)
(* and on SQLite never (queueUnmatched).                                      *)
THEOREM QueueStaysNearItsCap == IntakeSpec => []QueueNearItsCap
<1>1. QueueInv => QueueNearItsCap
  <2> SUFFICES ASSUME QueueInv, NEW who \in Reporters
               PROVE  Queued(who) <= DriftCap + (IF singleWriter THEN 0 ELSE Cardinality(Posts) - 1)
    BY DEF QueueNearItsCap, Queued
  <2>1. Queued(who) \in Nat /\ Cardinality(Upserting(who)) \in Nat
    BY QueueCounts
  <2>2. singleWriter => Queued(who) <= DriftCap
    BY DEF QueueInv
  <2>3. ~singleWriter => Queued(who) + Cardinality(Upserting(who)) <= DriftCap + Cardinality(Posts) - 1
    BY DEF QueueInv
  <2> QED
    BY <2>1, <2>2, <2>3, IntakeConstants
<1> QED
  BY <1>1, QueueInit, QueueStep, PTL DEF IntakeSpec

----------------------------------------------------------------------------
(* The gate of the machine surfaces *)

(* What multiplication is needed for. *)
LEMMA Products ==
  /\ \A a, b, c, r \in Int : (a - c) * r = (a - b) * r + (b - c) * r
  /\ \A a, u \in Int : (a + 1) * u = a * u + u /\ (a + 0) * u = a * u
  /\ \A a, r \in Int : (a - a) * r = 0 /\ 0 * r = 0 /\ a * r \in Int
<1>1. \A a, b, c, r \in Int : (a - c) * r = (a - b) * r + (b - c) * r
  OBVIOUS
<1>2. \A a, u \in Int : (a + 1) * u = a * u + u /\ (a + 0) * u = a * u
  OBVIOUS
<1>3. \A a, r \in Int : (a - a) * r = 0 /\ 0 * r = 0 /\ a * r \in Int
  OBVIOUS
<1> QED
  BY <1>1, <1>2, <1>3

Try == [at : Nat, ok : BOOLEAN]
Admitted(t, j, i) == Cardinality({m \in j..i : t[m].ok})

LEMMA KeyConstants ==
  ASSUME NEW k \in Keys
  PROVE  rate(k) \in Nat /\ burst(k) \in Nat /\ Unit \in Nat
<1>1. PICK s \in Surfaces : k \in {s} \X (Credentials[s] \cup {Unknown})
  BY DEF Keys
<1>2. k[1] = s
  BY <1>1
<1>3. /\ Rate[k[1]] \in Nat /\ Burst[k[1]] \in Nat /\ UnknownRate \in Nat /\ UnknownBurst \in Nat
      /\ Unit \in Nat
  BY <1>2, MachineGateAssumption
<1>4. \A x, y \in Nat : x * y \in Nat
  OBVIOUS
<1> QED
  BY <1>3, <1>4 DEF rate, burst

LEMMA AdmittedFinite ==
  ASSUME NEW t, NEW j \in Int, NEW i \in Int
  PROVE  IsFiniteSet({m \in j..i : t[m].ok})
<1>1. IsFiniteSet(j..i)
  BY FS_Interval
<1> QED
  BY <1>1, FS_Subset

LEMMA AdmittedType ==
  ASSUME NEW t, NEW j \in Int, NEW i \in Int
  PROVE  Admitted(t, j, i) \in Nat
BY AdmittedFinite, FS_CardinalityType DEF Admitted

(* One more request: the requests before it count as they did. *)
OneMore(t, e, u, n) ==
  /\ n \in Nat /\ u \in Seq(Try) /\ Len(u) = n + 1 /\ u[n + 1] = e
  /\ \A i \in 1..n : u[i] = t[i]
  /\ \A j \in 1..(n + 1), i \in 0..n : Admitted(u, j, i) = Admitted(t, j, i)
  /\ \A j \in 1..(n + 1) :
       Admitted(u, j, n + 1) = Admitted(t, j, n) + (IF e.ok THEN 1 ELSE 0)
  /\ Admitted(t, n + 1, n) = 0

LEMMA AdmittedOneMore ==
  ASSUME NEW t \in Seq(Try), NEW e \in Try
  PROVE  OneMore(t, e, Append(t, e), Len(t))
<1> DEFINE n == Len(t)
           u == Append(t, e)
<1>1. /\ n \in Nat /\ u \in Seq(Try) /\ Len(u) = n + 1 /\ u[n + 1] = e
      /\ \A i \in 1..n : u[i] = t[i]
  OBVIOUS
<1> HIDE DEF n, u
<1>2. ASSUME NEW j \in 1..(n + 1), NEW i \in 0..n PROVE Admitted(u, j, i) = Admitted(t, j, i)
  <2>1. {m \in j..i : u[m].ok} = {m \in j..i : t[m].ok}
    BY <1>1
  <2> QED
    BY <2>1 DEF Admitted
<1>3. ASSUME NEW j \in 1..(n + 1)
      PROVE  Admitted(u, j, n + 1) = Admitted(t, j, n) + (IF e.ok THEN 1 ELSE 0)
  <2> DEFINE S == {m \in j..n : t[m].ok}
             T == {m \in j..(n + 1) : u[m].ok}
  <2>a. j \in Int /\ n \in Int
    BY <1>1
  <2>b. IsFiniteSet(S)
    BY <2>a, AdmittedFinite, Zenon
  <2>c. Cardinality(S) \in Nat
    <3> HIDE DEF S
    <3> QED
      BY <2>b, FS_CardinalityType
  <2>d. n + 1 \notin S
    BY <1>1
  <2>1. IsFiniteSet(S) /\ Cardinality(S) \in Nat /\ n + 1 \notin S
    BY <2>b, <2>c, <2>d
  <2>2. CASE e.ok
    <3>1. T = S \cup {n + 1}
      BY <1>1, <2>2
    <3>2. Cardinality(S \cup {n + 1}) = Cardinality(S) + 1
      <4> HIDE DEF S
      <4> QED
        BY <2>1, FS_AddElement
    <3> QED
      BY <2>2, <3>1, <3>2 DEF Admitted
  <2>3. CASE ~e.ok
    <3>1. T = S
      BY <1>1, <2>3
    <3>2. Cardinality(T) = Cardinality(S) + 0
      <4> HIDE DEF S, T
      <4> QED
        BY <2>1, <3>1
    <3> QED
      BY <2>3, <3>2 DEF Admitted
  <2> QED
    BY <2>2, <2>3
<1>4. Admitted(t, n + 1, n) = 0
  <2>1. {m \in (n + 1)..n : t[m].ok} = {}
    BY <1>1
  <2> QED
    BY <2>1, FS_EmptySet DEF Admitted
<1>5. OneMore(t, e, u, n)
  BY <1>1, <1>2, <1>3, <1>4, Zenon DEF OneMore
<1> QED
  BY <1>5 DEF n, u

(* The budget's verdict on the i-th request, from the requests alone; and the *)
(* level of a bucket as the least that is left of any span that ends now.     *)
Exact(t, i, B, R) ==
  t[i].ok <=> \A j \in 1..i : (Admitted(t, j, i - 1) + 1) * Unit <= B + (t[i].at - t[j].at) * R

Left(t, j, now, B, R) == B + (now - t[j].at) * R - Admitted(t, j, Len(t)) * Unit

Least(t, x, now, B, R) ==
  /\ now \in Nat /\ x \in Int /\ x <= B
  /\ \A j \in 1..Len(t) : x <= Left(t, j, now, B, R)
  /\ x = B \/ \E j \in 1..Len(t) : x = Left(t, j, now, B, R)

Level(t, b, B, R) == Least(t, b.tokens, b.last, B, R)

(* The invariant: of every key, the bucket is the level of its requests, and  *)
(* each of its requests was judged as the budget says.                        *)
Bucket == [tokens : Int, last : Nat]

KeyOK(t, b, now, B, R) ==
  /\ \/ t = <<>> /\ b = None
     \/ t # <<>> /\ b \in Bucket /\ Level(t, b, B, R) /\ b.last <= now
  /\ \A i \in 1..Len(t) : Exact(t, i, B, R)

GateInv ==
  /\ clock \in Nat
  /\ bucket \in [Keys -> Bucket \cup {None}] /\ tried \in [Keys -> Seq(Try)]
  /\ \A k \in Keys : KeyOK(tried[k], bucket[k], clock, burst(k), rate(k))

LEMMA LeftType ==
  ASSUME NEW t \in Seq(Try), NEW j \in 1..Len(t), NEW now \in Int, NEW B \in Int, NEW R \in Int,
         Unit \in Int
  PROVE  /\ t[j].at \in Nat /\ (now - t[j].at) * R \in Int
         /\ Admitted(t, j, Len(t)) * Unit \in Int /\ Left(t, j, now, B, R) \in Int
<1>0. j \in Int /\ Len(t) \in Int /\ t[j] \in Try
  OBVIOUS
<1>1. t[j].at \in Nat /\ j \in Int /\ Len(t) \in Int
  BY <1>0 DEF Try
<1>2. Admitted(t, j, Len(t)) \in Nat
  BY <1>1, AdmittedType, Zenon
<1>3. (now - t[j].at) * R \in Int /\ Admitted(t, j, Len(t)) * Unit \in Int
  BY <1>1, <1>2, Products
<1> QED
  BY <1>1, <1>3 DEF Left

LEMMA Sums ==
  ASSUME NEW x \in Int, NEW y \in Int, NEW z \in Int, NEW v \in Int
  PROVE  /\ \A w \in Int : w <= x + y - z /\ w >= v => z + v <= x + y
         /\ \A w \in Int : w = x + y - z /\ z + v <= x + y => w >= v
OBVIOUS

LEMMA Differences ==
  ASSUME NEW x \in Int, NEW y \in Int, NEW z \in Int, NEW v \in Int
  PROVE  (x + y - z) - v = x + y - (z + v)
OBVIOUS

(* A request at time now, on a bucket refilled to T: it is judged exactly and *)
(* the level is exact after it.                                               *)
Judged(t, u, b, B, R) ==
  /\ u \in Seq(Try)
  /\ Level(u, b, B, R)
  /\ Exact(u, Len(u), B, R)
  /\ \A i \in 1..Len(t) : Exact(t, i, B, R) => Exact(u, i, B, R)

LEMMA JudgedExactly ==
  ASSUME NEW t \in Seq(Try), NEW B \in Nat, NEW R \in Nat, Unit \in Nat, NEW now \in Nat,
         NEW T, Least(t, T, now, B, R),
         NEW e \in Try, e.at = now, e.ok <=> T >= Unit,
         NEW n, n = Len(t), NEW u, u = Append(t, e),
         NEW b, b = [tokens |-> IF T >= Unit THEN T - Unit ELSE T, last |-> now]
  PROVE  Judged(t, u, b, B, R)
<1>0. e \in Try /\ e.at = now /\ (e.ok <=> T >= Unit)
  OBVIOUS
<1>l. /\ T \in Int /\ T <= B
      /\ \A j \in 1..Len(t) : T <= Left(t, j, now, B, R)
      /\ T = B \/ \E j \in 1..Len(t) : T = Left(t, j, now, B, R)
  BY DEF Least
<1>1. /\ n \in Nat /\ u \in Seq(Try) /\ Len(u) = n + 1 /\ u[n + 1] = e
      /\ \A i \in 1..n : u[i] = t[i]
      /\ \A j \in 1..(n + 1), i \in 0..n : Admitted(u, j, i) = Admitted(t, j, i)
      /\ \A j \in 1..(n + 1) : Admitted(u, j, n + 1) = Admitted(t, j, n) + (IF e.ok THEN 1 ELSE 0)
      /\ Admitted(t, n + 1, n) = 0
  <2>1. OneMore(t, e, u, n)
    BY AdmittedOneMore
  <2> QED
    BY <2>1 DEF OneMore
<1>2. ASSUME NEW i \in 1..n, Exact(t, i, B, R) PROVE Exact(u, i, B, R)
  <2>1. u[i] = t[i] /\ i - 1 \in 0..n /\ i \in Int
    BY <1>1
  <2>2. \A j \in 1..i : u[j] = t[j] /\ Admitted(u, j, i - 1) = Admitted(t, j, i - 1)
    <3> TAKE j \in 1..i
    <3>1. j \in 1..n /\ j \in 1..(n + 1)
      BY <1>1, <2>1
    <3> QED
      BY <1>1, <2>1, <3>1
  <2> QED
    BY <1>2, <2>1, <2>2 DEF Exact
<1> DEFINE P(j) == (now - t[j].at) * R
           A(j) == Admitted(t, j, n)
           Q(j) == A(j) * Unit
           d == IF e.ok THEN Unit ELSE 0
<1>t. \A j \in 1..n : P(j) \in Int /\ Q(j) \in Int /\ A(j) \in Nat
  <2> TAKE j \in 1..n
  <2>1. P(j) \in Int /\ Q(j) \in Int
    <3>1. t \in Seq(Try) /\ now \in Int /\ B \in Int /\ R \in Int /\ Unit \in Int
      OBVIOUS
    <3> QED
      BY <3>1, LeftType
  <2>2. j \in Int /\ n \in Int
    BY <1>1
  <2>3. A(j) \in Nat
    BY <2>2, AdmittedType, Zenon
  <2> QED
    BY <2>1, <2>3
<1>3. /\ \A j \in 1..n : T <= B + P(j) - Q(j)
      /\ T = B \/ \E j \in 1..n : T = B + P(j) - Q(j)
  BY <1>l DEF Left
<1>4. \A j \in 1..n : (u[n + 1].at - u[j].at) * R = P(j)
  BY <1>0, <1>1
<1>5. (u[n + 1].at - u[n + 1].at) * R = 0
  BY <1>0, <1>1, Products
<1>6. \A j \in 1..n : (Admitted(u, j, n) + 1) * Unit = Q(j) + Unit
  <2> TAKE j \in 1..n
  <2>a. j \in 1..(n + 1) /\ n \in 0..n
    BY <1>1
  <2>1. Admitted(u, j, n) = A(j) /\ A(j) \in Int /\ Unit \in Int
    BY <1>1, <1>t, <2>a
  <2> HIDE DEF A
  <2>2. (A(j) + 1) * Unit = A(j) * Unit + Unit
    BY <2>1, Products
  <2> QED
    BY <2>1, <2>2
<1>7. (Admitted(u, n + 1, n) + 1) * Unit = Unit
  <2>1. Admitted(u, n + 1, n) = 0
    BY <1>1
  <2> QED
    BY <2>1, Products
<1>8. \A j \in 1..n : Admitted(u, j, n + 1) * Unit = Q(j) + d
  <2> TAKE j \in 1..n
  <2>1. Admitted(u, j, n + 1) = A(j) + (IF e.ok THEN 1 ELSE 0) /\ A(j) \in Int /\ Unit \in Int
    BY <1>1, <1>t
  <2> HIDE DEF A
  <2>2. (A(j) + 1) * Unit = A(j) * Unit + Unit /\ (A(j) + 0) * Unit = A(j) * Unit
    BY <2>1, Products
  <2>3. A(j) * Unit \in Int
    BY <2>1, Products
  <2>4. CASE e.ok
    BY <2>1, <2>2, <2>4
  <2>5. CASE ~e.ok
    BY <2>1, <2>2, <2>3, <2>5
  <2> QED
    BY <2>4, <2>5
<1>9. Admitted(u, n + 1, n + 1) * Unit = d
  <2>1. Admitted(u, n + 1, n + 1) = 0 + (IF e.ok THEN 1 ELSE 0)
    BY <1>1
  <2> QED
    BY <2>1, Products
<1> HIDE DEF P, Q, A
<1>10. Exact(u, Len(u), B, R)
  <2>1. (\A j \in 1..(n + 1) : (Admitted(u, j, n) + 1) * Unit <= B + (u[n + 1].at - u[j].at) * R)
          <=> Unit <= B /\ \A j \in 1..n : Q(j) + Unit <= B + P(j)
    <3> DEFINE F(j) == (Admitted(u, j, n) + 1) * Unit <= B + (u[n + 1].at - u[j].at) * R
    <3>1. \A j \in 1..n : F(j) <=> Q(j) + Unit <= B + P(j)
      BY <1>4, <1>6
    <3>2. F(n + 1) <=> Unit <= B
      BY <1>5, <1>7
    <3> HIDE DEF F
    <3>3. (\A j \in 1..(n + 1) : F(j)) <=> (F(n + 1) /\ \A j \in 1..n : F(j))
      BY <1>1
    <3> QED
      BY <3>1, <3>2, <3>3 DEF F
  <2>2. T >= Unit <=> Unit <= B /\ \A j \in 1..n : Q(j) + Unit <= B + P(j)
    <3>0. T \in Int /\ B \in Int /\ Unit \in Int
      BY <1>l
    <3>1. ASSUME T >= Unit, NEW j \in 1..n PROVE Q(j) + Unit <= B + P(j)
      <4>1. P(j) \in Int /\ Q(j) \in Int /\ T <= B + P(j) - Q(j)
        BY <1>t, <1>3
      <4> HIDE DEF P, Q
      <4> QED
        BY <3>1, <4>1, <3>0, Sums, Zenon
    <3>2. ASSUME Unit <= B, NEW j \in 1..n, T = B + P(j) - Q(j), Q(j) + Unit <= B + P(j)
          PROVE  T >= Unit
      <4>1. P(j) \in Int /\ Q(j) \in Int
        BY <1>t
      <4> HIDE DEF P, Q
      <4> QED
        BY <3>2, <4>1, <3>0, Sums, Zenon
    <3>3. T >= Unit => Unit <= B
      BY <1>l
    <3>4. T = B => (T >= Unit <=> Unit <= B)
      BY <3>0
    <3> QED
      BY <1>3, <3>1, <3>2, <3>3, <3>4
  <2>3. u[n + 1].ok <=> T >= Unit
    BY <1>0, <1>1
  <2>4. n + 1 - 1 = n
    BY <1>1
  <2> QED
    BY <1>1, <2>1, <2>2, <2>3, <2>4 DEF Exact
<1>11. Level(u, b, B, R)
  <2>1. b.last = now /\ b.tokens = T - d
    BY <1>0, <1>l
  <2>2. d \in Int /\ d >= 0
    OBVIOUS
  <2>3. \A j \in 1..n : Left(u, j, now, B, R) = B + P(j) - (Q(j) + d)
    BY <1>0, <1>1, <1>4, <1>8 DEF Left
  <2>4. Left(u, n + 1, now, B, R) = B - d
    BY <1>0, <1>1, <1>5, <1>9, <2>2 DEF Left
  <2> HIDE DEF d
  <2>5. \A j \in 1..n : T - d <= Left(u, j, now, B, R)
    BY <1>l, <1>t, <1>3, <2>2, <2>3
  <2>6. T - d <= Left(u, n + 1, now, B, R)
    BY <1>l, <2>2, <2>4
  <2>7. \A j \in 1..(n + 1) : T - d <= Left(u, j, now, B, R)
    <3>1. \A j \in 1..(n + 1) : j = n + 1 \/ j \in 1..n
      BY <1>1
    <3> QED
      BY <2>5, <2>6, <3>1
  <2>8. \E j \in 1..(n + 1) : T - d = Left(u, j, now, B, R)
    <3>1. CASE T = B
      BY <1>1, <2>4, <3>1
    <3>2. CASE \E j \in 1..n : T = B + P(j) - Q(j)
      <4>1. PICK j \in 1..n : T = B + P(j) - Q(j)
        BY <3>2
      <4>2. P(j) \in Int /\ Q(j) \in Int /\ Left(u, j, now, B, R) = B + P(j) - (Q(j) + d)
        BY <1>t, <2>3
      <4>3. T \in Int /\ B \in Int /\ j \in 1..(n + 1)
        BY <1>1, <1>l
      <4>4. T - d = B + P(j) - (Q(j) + d)
        <5>1. (B + P(j) - Q(j)) - d = B + P(j) - (Q(j) + d)
          BY <2>2, <4>2, <4>3, Differences
        <5> QED
          BY <4>1, <5>1, Zenon
      <4> QED
        BY <4>2, <4>3, <4>4, Zenon
    <3> QED
      BY <1>3, <3>1, <3>2
  <2>9. T - d \in Int /\ T - d <= B
    BY <1>l, <2>2
  <2> QED
    BY <1>1, <2>1, <2>7, <2>8, <2>9 DEF Level, Least
<1> QED
  BY <1>1, <1>2, <1>10, <1>11 DEF Judged

(* Refilling for the time since keeps the level exact: what is left of every  *)
(* span grows by the same amount, and the burst is what an empty span leaves. *)
LEMMA Capped ==
  ASSUME NEW x \in Int, NEW D \in Nat, NEW B \in Nat,
         NEW T, T = IF x + D > B THEN B ELSE x + D
  PROVE  /\ T \in Int /\ T <= B /\ (T = B \/ T = x + D)
         /\ \A y \in Int : x <= y => T <= y + D
OBVIOUS

LEMMA LeftLater ==
  ASSUME NEW t \in Seq(Try), NEW B \in Nat, NEW R \in Nat, Unit \in Nat, NEW j \in 1..Len(t),
         NEW last \in Nat, NEW now \in Nat
  PROVE  /\ Left(t, j, last, B, R) \in Int
         /\ Left(t, j, now, B, R) = Left(t, j, last, B, R) + (now - last) * R
<1>1. B \in Int /\ R \in Int /\ Unit \in Int /\ now \in Int /\ last \in Int /\ now - last \in Int
  OBVIOUS
<1>2. /\ t[j].at \in Int /\ (last - t[j].at) * R \in Int
      /\ Admitted(t, j, Len(t)) * Unit \in Int /\ Left(t, j, last, B, R) \in Int
  BY <1>1, LeftType
<1>3. (now - t[j].at) * R = (now - last) * R + (last - t[j].at) * R
  BY <1>1, <1>2, Products
<1>4. (now - last) * R \in Int
  BY <1>1, Products
<1> DEFINE p == (last - t[j].at) * R
           q == Admitted(t, j, Len(t)) * Unit
           r == (now - last) * R
<1>5. Left(t, j, now, B, R) = B + (r + p) - q /\ Left(t, j, last, B, R) = B + p - q
  BY <1>3, Zenon DEF Left
<1>6. p \in Int /\ q \in Int /\ r \in Int /\ B \in Int
  BY <1>1, <1>2, <1>4
<1> HIDE DEF p, q, r
<1>7. Left(t, j, now, B, R) = Left(t, j, last, B, R) + r
  BY <1>5, <1>6
<1> QED
  BY <1>2, <1>7 DEF r

LEMMA RefilledExactly ==
  ASSUME NEW t \in Seq(Try), NEW B \in Nat, NEW R \in Nat, Unit \in Nat,
         NEW now \in Nat, NEW last \in Nat, last <= now, NEW x, Least(t, x, last, B, R),
         NEW T, T = IF x + (now - last) * R > B THEN B ELSE x + (now - last) * R
  PROVE  Least(t, T, now, B, R)
<1> DEFINE D == (now - last) * R
<1>1. D \in Nat
  <2>1. now - last \in Nat
    OBVIOUS
  <2>2. \A m, n \in Nat : m * n \in Nat
    OBVIOUS
  <2> QED
    BY <2>1, <2>2
<1>2. \A j \in 1..Len(t) : /\ Left(t, j, last, B, R) \in Int
                           /\ Left(t, j, now, B, R) = Left(t, j, last, B, R) + D
  <2> TAKE j \in 1..Len(t)
  <2> QED
    BY LeftLater
<1>3. T = IF x + D > B THEN B ELSE x + D
  OBVIOUS
<1> HIDE DEF D
<1>4. x \in Int
  BY DEF Least
<1>5. /\ T \in Int /\ T <= B /\ (T = B \/ T = x + D)
      /\ \A y \in Int : x <= y => T <= y + D
  BY <1>1, <1>3, <1>4, Capped, Zenon
<1>6. \A j \in 1..Len(t) : T <= Left(t, j, now, B, R)
  BY <1>2, <1>5, Zenon DEF Least
<1>7. x = B => T = B
  BY <1>1, <1>3
<1>8. T = B \/ \E j \in 1..Len(t) : T = Left(t, j, now, B, R)
  BY <1>2, <1>5, <1>7, Zenon DEF Least
<1> QED
  BY <1>5, <1>6, <1>8 DEF Least

LEMMA AllowParts ==
  ASSUME NEW k, Allow(k)
  PROVE  /\ clock' = clock
         /\ tried' = [tried EXCEPT ![k] = Append(@, [at |-> clock, ok |-> Refilled(k).tokens >= Unit])]
         /\ bucket' = [bucket EXCEPT ![k] = IF Refilled(k).tokens >= Unit
                                           THEN [Refilled(k) EXCEPT !.tokens = @ - Unit]
                                           ELSE Refilled(k)]
BY Zenon DEF Allow

(* A request asks the bucket of key k: the key's part of the invariant holds *)
(* of the request sequence and the bucket that Allow leaves.                  *)
LEMMA AllowIsExact ==
  ASSUME GateInv, NEW k \in Keys, Allow(k)
  PROVE  /\ tried'[k] \in Seq(Try) /\ bucket'[k] \in Bucket
         /\ KeyOK(tried'[k], bucket'[k], clock, burst(k), rate(k))
<1> DEFINE t == tried[k]
           B == burst(k)
           R == rate(k)
           f == IF bucket[k] = None THEN [tokens |-> burst(k), last |-> clock] ELSE bucket[k]
<1>1. /\ B \in Nat /\ R \in Nat /\ Unit \in Nat /\ clock \in Nat /\ t \in Seq(Try)
      /\ KeyOK(t, bucket[k], clock, B, R)
      /\ bucket \in [Keys -> Bucket \cup {None}] /\ tried \in [Keys -> Seq(Try)]
  BY KeyConstants DEF GateInv
<1>2. PICK T : Refilled(k) = [tokens |-> T, last |-> clock] /\ Least(t, T, clock, B, R)
  <2>1. CASE t = <<>> /\ bucket[k] = None
    <3>1. Refilled(k) = [tokens |-> B, last |-> clock]
      <4>1. f = [tokens |-> B, last |-> clock] /\ ~(clock > f.last)
        BY <1>1, <2>1
      <4> QED
        BY <4>1 DEF Refilled
    <3>2. Least(t, B, clock, B, R)
      <4>1. \A j \in 1..Len(t) : FALSE
        BY <2>1
      <4> HIDE DEF B, t
      <4> QED
        BY <1>1, <4>1 DEF Least
    <3> QED
      BY <3>1, <3>2
  <2>2. CASE t # <<>> /\ bucket[k] \in Bucket /\ Level(t, bucket[k], B, R) /\ bucket[k].last <= clock
    <3> DEFINE b == bucket[k]
               x == b.tokens
               last == b.last
               D == (clock - last) * R
               T == IF x + D > B THEN B ELSE x + D
    <3>0. b \in Bucket /\ last \in Nat /\ x \in Int /\ x <= B /\ last <= clock
          /\ Least(t, x, last, B, R)
      BY <2>2 DEF Level, Least
    <3>1. b # None
      BY <3>0 DEF None
    <3>2. f = b
      BY <3>1
    <3>3. Least(t, T, clock, B, R)
      <4> HIDE DEF b, t, B, R, x, last
      <4> QED
        BY <1>1, <3>0, RefilledExactly
    <3>4. Refilled(k) = [tokens |-> T, last |-> clock]
      <4>1. CASE clock > last
        BY <3>2, <4>1 DEF Refilled
      <4>2. CASE ~(clock > last)
        <5>1. clock = last
          BY <1>1, <3>0, <4>2
        <5>3. D = 0
          <6> HIDE DEF last, R
          <6>1. clock - last = 0 /\ R \in Int
            BY <1>1, <3>0, <5>1
          <6> QED
            BY <6>1, Products
        <5>4. T = x
          <6> HIDE DEF D, x, B
          <6> QED
            BY <1>1, <3>0, <5>3
        <5>5. b = [tokens |-> x, last |-> last]
          BY <3>0 DEF Bucket
        <5>6. Refilled(k) = b
          BY <3>2, <4>2 DEF Refilled
        <5> HIDE DEF T, b, x, last
        <5> QED
          BY <5>1, <5>4, <5>5, <5>6
      <4> QED
        BY <4>1, <4>2
    <3> HIDE DEF T
    <3> QED
      BY <3>3, <3>4
  <2> QED
    BY <1>1, <2>1, <2>2 DEF KeyOK
<1>t. T \in Int
  BY <1>2 DEF Least
<1> DEFINE e == [at |-> clock, ok |-> T >= Unit]
           b2 == [tokens |-> IF T >= Unit THEN T - Unit ELSE T, last |-> clock]
<1>4. e \in Try /\ e.at = clock /\ (e.ok <=> T >= Unit)
  <2>1. CASE T >= Unit
    <3>1. (T >= Unit) = TRUE
      BY <2>1
    <3>2. e = [at |-> clock, ok |-> TRUE]
      BY <3>1, Zenon
    <3> QED
      BY <1>1, <2>1, <3>2 DEF Try
  <2>2. CASE ~(T >= Unit)
    <3>1. (T >= Unit) = FALSE
      BY <2>2
    <3>2. e = [at |-> clock, ok |-> FALSE]
      BY <3>1, Zenon
    <3> QED
      BY <1>1, <2>2, <3>2 DEF Try
  <2> QED
    BY <2>1, <2>2
<1>5. tried'[k] = Append(t, e) /\ bucket'[k] = b2
  <2>1. Refilled(k).tokens = T
    BY <1>2
  <2>2. tried'[k] = Append(t, e)
    BY <1>1, <2>1, AllowParts
  <2>3. bucket'[k] = IF T >= Unit THEN [Refilled(k) EXCEPT !.tokens = @ - Unit] ELSE Refilled(k)
    BY <1>1, <2>1, AllowParts
  <2>4. [Refilled(k) EXCEPT !.tokens = @ - Unit] = [tokens |-> T - Unit, last |-> clock]
    BY <1>2
  <2> QED
    BY <1>2, <2>2, <2>3, <2>4
<1>6. /\ tried'[k] \in Seq(Try) /\ Level(tried'[k], b2, B, R)
      /\ Exact(tried'[k], Len(tried'[k]), B, R)
      /\ \A i \in 1..Len(t) : Exact(t, i, B, R) => Exact(tried'[k], i, B, R)
  <2> DEFINE u == tried'[k]
  <2>1. u = Append(t, e)
    BY <1>5
  <2> DEFINE n == Len(t)
  <2>a. n = Len(t) /\ b2 = [tokens |-> IF T >= Unit THEN T - Unit ELSE T, last |-> clock]
    OBVIOUS
  <2> HIDE DEF u, t, B, R, e, b2, n
  <2>2. Judged(t, u, b2, B, R)
    BY <1>1, <1>2, <1>4, <2>a, <2>1, JudgedExactly, Zenon
  <2> QED
    BY <2>2 DEF u, Judged
<1>7. b2 \in Bucket /\ b2.last = clock
  BY <1>1, <1>t DEF Bucket
<1>8. tried'[k] # <<>> /\ Len(tried'[k]) = Len(t) + 1 /\ Len(t) \in Nat
  <2>1. tried'[k] = Append(t, e) /\ e \in Try
    BY <1>4, <1>5
  <2>2. t \in Seq(Try)
    BY <1>1
  <2> HIDE DEF t, e
  <2>3. /\ Append(t, e) # <<>> /\ Len(Append(t, e)) = Len(t) + 1 /\ Len(t) \in Nat
    BY <2>1, <2>2, AppendProperties
  <2> QED
    BY <2>1, <2>3
<1>9. \A i \in 1..Len(tried'[k]) : Exact(tried'[k], i, B, R)
  <2>1. \A i \in 1..Len(t) : Exact(t, i, B, R)
    BY <1>1 DEF KeyOK
  <2>2. \A i \in 1..(Len(t) + 1) : i \in 1..Len(t) \/ i = Len(t) + 1
    BY <1>8
  <2> QED
    BY <1>6, <1>8, <2>1, <2>2
<1> HIDE DEF b2
<1>10. clock <= clock
  BY <1>1
<1> QED
  BY <1>5, <1>6, <1>7, <1>8, <1>9, <1>10 DEF KeyOK

(* A request of any key, known or not, keeps the invariant. *)
LEMMA AllowKeeps ==
  ASSUME GateInv, NEW k, Allow(k)
  PROVE  GateInv'
<1>1. /\ clock \in Nat /\ clock' = clock
      /\ bucket \in [Keys -> Bucket \cup {None}] /\ tried \in [Keys -> Seq(Try)]
      /\ \A x \in Keys : KeyOK(tried[x], bucket[x], clock, burst(x), rate(x))
  BY AllowParts DEF GateInv
<1>p. PICK v, w : tried' = [tried EXCEPT ![k] = v] /\ bucket' = [bucket EXCEPT ![k] = w]
  <2> DEFINE v == Append(tried[k], [at |-> clock, ok |-> Refilled(k).tokens >= Unit])
             w == IF Refilled(k).tokens >= Unit THEN [Refilled(k) EXCEPT !.tokens = @ - Unit]
                                                ELSE Refilled(k)
  <2>1. tried' = [tried EXCEPT ![k] = v] /\ bucket' = [bucket EXCEPT ![k] = w]
    BY AllowParts, Zenon
  <2> HIDE DEF v, w
  <2> QED
    BY <2>1, Zenon
<1>2. \A x \in Keys : x # k => tried'[x] = tried[x] /\ bucket'[x] = bucket[x]
  BY <1>1, <1>p
<1>3. DOMAIN bucket' = Keys /\ DOMAIN tried' = Keys
      /\ bucket' = [x \in Keys |-> bucket'[x]] /\ tried' = [x \in Keys |-> tried'[x]]
  BY <1>1, <1>p
<1>4. \A x \in Keys : /\ tried'[x] \in Seq(Try) /\ bucket'[x] \in Bucket \cup {None}
                      /\ KeyOK(tried'[x], bucket'[x], clock, burst(x), rate(x))
  <2> TAKE x \in Keys
  <2>1. CASE x = k
    BY <2>1, AllowIsExact
  <2>2. CASE x # k
    BY <1>1, <1>2, <2>2
  <2> QED
    BY <2>1, <2>2
<1>5. bucket' \in [Keys -> Bucket \cup {None}] /\ tried' \in [Keys -> Seq(Try)]
  BY <1>3, <1>4
<1> QED
  BY <1>1, <1>4, <1>5 DEF GateInv, burst, rate

(* Whether a machine's request is let through is what the budget of its own   *)
(* credential says, for every rate, burst and history of requests:            *)
(* RateLimiter.Allow forgets no admission and grants none twice, although it  *)
(* keeps a level and a time only.                                             *)
THEOREM BudgetAlwaysExact == GateSpec => []BudgetIsExact
<1>1. GateInit => GateInv
  <2> SUFFICES ASSUME GateInit PROVE GateInv
    OBVIOUS
  <2>1. clock \in Nat /\ bucket = [k \in Keys |-> None] /\ tried = [k \in Keys |-> <<>>]
    BY DEF GateInit
  <2>2. <<>> \in Seq(Try) /\ \A i \in 1..Len(<<>>) : FALSE
    OBVIOUS
  <2>3. \A k \in Keys : KeyOK(<<>>, None, clock, burst(k), rate(k))
    BY <2>2 DEF KeyOK
  <2> QED
    BY <2>1, <2>2, <2>3 DEF GateInv
<1>2. GateInv /\ [GateNext]_gateVars => GateInv'
  <2> SUFFICES ASSUME GateInv, [GateNext]_gateVars PROVE GateInv'
    OBVIOUS
  <2>1. ASSUME NEW c \in Credentials["agent"] \cup {Unknown}, RequireAgent(c) PROVE GateInv'
    BY <2>1, AllowKeeps DEF RequireAgent
  <2>2. ASSUME NEW c \in Credentials["reader"] \cup {Unknown}, RequireReader(c) PROVE GateInv'
    BY <2>2, AllowKeeps DEF RequireReader
  <2>3. CASE Turned \/ UNCHANGED gateVars
    BY <2>3 DEF Turned, gateVars, GateInv, burst, rate
  <2>4. CASE Tick
    <3>1. clock' \in Nat /\ clock \in Nat /\ clock <= clock' /\ bucket' = bucket /\ tried' = tried
      BY <2>4 DEF Tick, GateInv
    <3>2. ASSUME NEW k \in Keys PROVE KeyOK(tried[k], bucket[k], clock', burst(k), rate(k))
      <4>1. KeyOK(tried[k], bucket[k], clock, burst(k), rate(k))
        BY DEF GateInv
      <4>2. bucket[k].last \in Nat /\ bucket[k].last <= clock => bucket[k].last <= clock'
        BY <3>1
      <4> QED
        BY <4>1, <4>2 DEF KeyOK, Level, Least
    <3> QED
      BY <3>1, <3>2 DEF GateInv, burst, rate
  <2> QED
    BY <2>1, <2>2, <2>3, <2>4 DEF GateNext
<1>3. GateInv => BudgetIsExact
  <2> SUFFICES ASSUME GateInv, NEW k \in Keys, NEW i \in DOMAIN tried[k]
               PROVE  Exact(tried[k], i, burst(k), rate(k))
    BY DEF BudgetIsExact, Exact, Admitted
  <2>1. tried[k] \in Seq(Try)
    BY DEF GateInv
  <2>2. i \in 1..Len(tried[k])
    BY <2>1
  <2> QED
    BY <2>2 DEF GateInv, KeyOK
<1> QED
  BY <1>1, <1>2, <1>3, PTL DEF GateSpec

----------------------------------------------------------------------------
(* Sessions and sign-in.  Distinct: the rows are unique by name and by      *)
(* subject.  Judged: what a request may do is covered by what it could have *)
(* done since it arrived.  Owned: every session id belongs to one browser.  *)

Attempt == [code : {"none", "issued", "spent"}, subject : Subjects \cup {""}, name : Claimed \cup {""},
            browser : Browsers \cup {""}]
Request ==
  [pc : {"authenticate", "handle", "commit"}, browser : Browsers, ask : Asks, token : 0 .. MaxTokens,
   data : Session, status : {"unmodified", "modified", "destroyed"}, user : Accounts \cup {""},
   row : Row \cup {NoRow}, named : Names \cup {""}, could : SUBSET Gates, acted : Gates \cup {""}]
Table == [Accounts -> Row \cup {NoRow}]

AccessTypes ==
  /\ account \in Table
  /\ store \in [Tokens -> Session]
  /\ cookie \in [Browsers -> 0 .. MaxTokens]
  /\ attempt \in [Attempts -> Attempt]
  /\ req \in [Requests -> Request \cup {Idle}]
  /\ minted \in 0 .. MaxTokens /\ begun \in 0 .. MaxAttempts
  /\ planted \subseteq Tokens /\ ended \subseteq Tokens /\ shared \subseteq ended

Clash(p, q) ==
  /\ p.exists /\ q.exists
  /\ p.name = q.name \/ (p.subject # "" /\ p.subject = q.subject)
Distinct(rows) == \A x, y \in Accounts : Clash(rows[x], rows[y]) => x = y

Issued == \A n \in Attempts : attempt[n].code = "issued" =>
            attempt[n].subject \in Subjects /\ attempt[n].name \in Claimed

LEMMA AccessBounds == MaxTokens \in Nat /\ MaxAttempts \in Nat
BY AccessAssumption

LEMMA SessionShape ==
  /\ NoSession \in Session /\ NoSession.user = "" /\ NoSession.flow = 0 /\ NoSession.via = 0
  /\ Absent \in Session /\ Absent.user = "" /\ Absent.flow = -1
<1>1. -1 \in -1 .. MaxAttempts /\ 0 \in -1 .. MaxAttempts /\ 0 \in 0 .. MaxAttempts
  BY AccessBounds
<1>2. NoSession \in Session /\ NoSession.user = "" /\ NoSession.flow = 0 /\ NoSession.via = 0
  BY <1>1 DEF NoSession, Session
<1>3. Absent.user = "" /\ Absent.flow = -1
  BY DEF Absent
<1>4. Absent \in Session
  BY <1>1, Zenon DEF Absent, Session
<1> QED
  BY <1>2, <1>3, <1>4

(* What a request at rest, and a row that is none, look like. *)
LEMMA IdleShape == Idle.pc = "idle" /\ (\A q \in Request : q.pc # "idle" /\ q # Idle)
<1>1. Idle.pc = "idle"
  BY DEF Idle
<1>2. ASSUME NEW q \in Request PROVE q.pc # "idle"
  BY DEF Request
<1> QED
  BY <1>1, <1>2

LEMMA RowShape == \A x \in Row \cup {NoRow} : x.exists => x \in Row
BY DEF NoRow

LEMMA AskShape ==
  ASSUME NEW ask \in Asks
  PROVE  /\ ask.kind = "login" => ask.name \in Names
         /\ ask.kind = "callback" => ask.attempt \in Attempts
<1>1. CASE ask \in [kind : Routes \cup {"logout", "start"}]
  BY <1>1, AccessAssumption DEF Gates
<1>2. CASE ask \in [kind : {"login"}, name : Names, right : BOOLEAN]
  BY <1>2
<1>3. CASE ask \in [kind : {"callback"}, attempt : Attempts]
  BY <1>3
<1> QED
  BY <1>1, <1>2, <1>3 DEF Asks

(* Noting what an account could do changes only could. *)
Enriched(q, p) ==
  /\ p \in Request /\ p.pc = q.pc /\ p.browser = q.browser /\ p.ask = q.ask /\ p.token = q.token
  /\ p.data = q.data /\ p.status = q.status /\ p.user = q.user /\ p.row = q.row
  /\ p.named = q.named /\ p.acted = q.acted /\ q.could \subseteq p.could

LEMMA NotedShape ==
  ASSUME NEW q \in Request \cup {Idle}, NEW rows
  PROVE  /\ q = Idle => Noted(q, rows) = Idle
         /\ q # Idle => /\ Enriched(q, Noted(q, rows))
                        /\ q.named # "" => GatesOf(q.named, rows) \subseteq Noted(q, rows).could
<1>1. CASE q = Idle
  BY <1>1, IdleShape DEF Noted
<1>2. CASE q # Idle /\ q.named = ""
  BY <1>2, IdleShape DEF Noted, Enriched
<1>3. CASE q # Idle /\ q.named # ""
  <2>1. q \in Request /\ q.pc # "idle"
    BY <1>3, IdleShape
  <2>2. Noted(q, rows) = [q EXCEPT !.could = @ \cup GatesOf(q.named, rows)]
    BY <1>3, <2>1 DEF Noted
  <2>3. GatesOf(q.named, rows) \subseteq Gates
    BY DEF GatesOf
  <2> QED
    BY <1>3, <2>1, <2>2, <2>3 DEF Request, Enriched
<1> QED
  BY <1>1, <1>2, <1>3

(* A sign-in: the other requests note, this one goes on under a new id. *)
LEMMA SignedInShape ==
  ASSUME AccessTypes, NEW r \in Requests, req[r] # Idle, NEW a \in Accounts, NEW rows \in Table,
         rows[a] \in Row, NEW via \in 0 .. MaxAttempts, SignedIn(r, a, rows, via)
  PROVE  /\ minted' = minted + 1 /\ minted' \in 0 .. MaxTokens /\ store' \in [Tokens -> Session]
         /\ req' \in [Requests -> Request \cup {Idle}]
         /\ \A s \in Requests \ {r} : req'[s] = Noted(req[s], rows)
         /\ req'[r] \in Request /\ req'[r].pc = "commit" /\ req'[r].browser = req[r].browser
         /\ req'[r].token = minted + 1 /\ req'[r].acted = req[r].acted
         /\ req'[r].data = [user |-> rows[a].name, who |-> a, via |-> via,
                            flow |-> IF via = 0 THEN req[r].data.flow ELSE 0]
<1> DEFINE q == Noted(req[r], rows)
           d == [user |-> rows[a].name, who |-> a, via |-> via,
                 flow |-> IF via = 0 THEN req[r].data.flow ELSE 0]
           p == [q EXCEPT !.pc = "commit", !.status = "modified", !.token = minted + 1, !.data = d]
<1>0. /\ minted < MaxTokens /\ minted' = minted + 1 /\ minted \in 0 .. MaxTokens
      /\ minted + 1 \in 0 .. MaxTokens
  <2>1. minted < MaxTokens /\ minted' = minted + 1 /\ minted \in 0 .. MaxTokens
    BY DEF SignedIn, AccessTypes
  <2> QED
    BY <2>1, AccessBounds
<1>1. req[r] \in Request /\ Enriched(req[r], q)
  BY NotedShape DEF AccessTypes
<1>2. d \in Session
  <2>1. req[r].data \in Session
    BY <1>1 DEF Request
  <2>2. rows[a].name \in Names
    BY DEF Row
  <2>3. req[r].data.flow \in -1 .. MaxAttempts
    BY <2>1 DEF Session
  <2>4. 0 \in -1 .. MaxAttempts
    BY AccessBounds
  <2>5. (IF via = 0 THEN req[r].data.flow ELSE 0) \in -1 .. MaxAttempts
    BY <2>3, <2>4
  <2> QED
    BY <2>2, <2>5 DEF Session
<1>3. req' = [Noting(rows) EXCEPT ![r] = p]
  <2>1. Noting(rows)[r] = q
    BY DEF Noting
  <2>2. DOMAIN Noting(rows) = Requests
    BY DEF Noting
  <2> QED
    BY <2>1, <2>2 DEF SignedIn
<1>4. /\ p \in Request /\ p.pc = "commit" /\ p.browser = req[r].browser /\ p.token = minted + 1
      /\ p.acted = req[r].acted /\ p.data = d
  <2> HIDE DEF d, q
  <2> QED
    BY <1>0, <1>1, <1>2 DEF Enriched, Request
<1>5. req'[r] = p /\ \A s \in Requests \ {r} : req'[s] = Noted(req[s], rows)
  <2> HIDE DEF p
  <2> QED
    BY <1>3 DEF Noting
<1>6. \A s \in Requests : req'[s] \in Request \cup {Idle}
  <2> HIDE DEF p, q, d
  <2>1. ASSUME NEW s \in Requests \ {r} PROVE req'[s] \in Request \cup {Idle}
    <3>1. req[s] \in Request \cup {Idle} /\ req'[s] = Noted(req[s], rows)
      BY <1>5 DEF AccessTypes
    <3>2. Noted(req[s], rows) = Idle \/ Enriched(req[s], Noted(req[s], rows))
      BY <3>1, NotedShape
    <3> QED
      BY <3>1, <3>2 DEF Enriched
  <2> QED
    BY <2>1, <1>4, <1>5
<1>7. req' \in [Requests -> Request \cup {Idle}]
  <2> HIDE DEF p
  <2>1. req' = [s \in Requests |-> req'[s]]
    BY <1>3 DEF Noting
  <2> QED
    BY <2>1, <1>6
<1>8. store' \in [Tokens -> Session]
  BY SessionShape DEF SignedIn, AccessTypes
<1> QED
  <2> HIDE DEF p
  <2> QED
    BY <1>0, <1>4, <1>5, <1>7, <1>8

(* The account a name finds is the only one of that name. *)
LEMMA FoundShape ==
  ASSUME AccessTypes, Distinct(account), NEW name, Named(name) # {}
  PROVE  /\ GetUserByUsername(name) \in Accounts /\ account[GetUserByUsername(name)] \in Row
         /\ account[GetUserByUsername(name)].name = name
         /\ Named(name) = {GetUserByUsername(name)}
<1>1. GetUserByUsername(name) \in Named(name)
  BY DEF GetUserByUsername
<1>2. \A a \in Named(name) : a \in Accounts /\ account[a].exists /\ account[a].name = name
  BY DEF Named
<1>3. \A a \in Named(name) : a = GetUserByUsername(name)
  BY <1>1, <1>2, Zenon DEF Distinct, Clash
<1>4. \A a \in Accounts : account[a].exists => account[a] \in Row
  BY RowShape DEF AccessTypes, Table
<1> QED
  BY <1>1, <1>2, <1>3, <1>4

LEMMA NewAccountShape ==
  ASSUME NEW name \in Names, NEW source \in Sources, NEW subject \in Subjects \cup {""}
  PROVE  /\ NewAccount(name, source, subject) \in Row
         /\ NewAccount(name, source, subject).name = name
         /\ NewAccount(name, source, subject).subject = subject
         /\ NewAccount(name, source, subject).exists
         /\ NewAccount(name, source, subject).active
BY DEF NewAccount, Row, Roles

(* A row of its own name, and subject, put where there was none. *)
LEMMA RowAdded ==
  ASSUME AccessTypes, Distinct(account), NEW a \in Accounts, ~account[a].exists,
         NEW row \in Row, Named(row.name) = {}, row.subject # "" => WithSubject(row.subject) = {},
         NEW rows, rows = [account EXCEPT ![a] = row]
  PROVE  rows \in Table /\ Distinct(rows) /\ rows[a] = row
<1>1. rows \in Table /\ rows[a] = row /\ \A x \in Accounts \ {a} : rows[x] = account[x]
  BY DEF AccessTypes, Table
<1>2. \A x \in Accounts : account[x].exists =>
        /\ account[x].name # row.name
        /\ row.subject # "" => account[x].subject # row.subject
  BY Zenon DEF Named, WithSubject
<1>3. \A x \in Accounts : ~Clash(account[x], row) /\ ~Clash(row, account[x])
  BY <1>2, Zenon DEF Clash
<1>4. Distinct(rows)
  BY <1>1, <1>3, Zenon DEF Distinct
<1> QED
  BY <1>1, <1>4

(* A row edited, its name and its subject being what they were. *)
LEMMA RowEdited ==
  ASSUME AccessTypes, Distinct(account), NEW a \in Accounts, account[a].exists,
         NEW row \in Row, row.name = account[a].name, row.subject = account[a].subject,
         NEW rows, rows = [account EXCEPT ![a] = row]
  PROVE  rows \in Table /\ Distinct(rows)
<1>1. rows \in Table /\ rows[a] = row /\ \A x \in Accounts \ {a} : rows[x] = account[x]
  BY DEF AccessTypes, Table
<1>2. \A q : Clash(row, q) => Clash(account[a], q)
  BY Zenon DEF Clash
<1>3. \A q : Clash(q, row) => Clash(q, account[a])
  BY Zenon DEF Clash
<1>4. Distinct(rows)
  <2> SUFFICES ASSUME NEW x \in Accounts, NEW y \in Accounts, Clash(rows[x], rows[y]) PROVE x = y
    BY Zenon DEF Distinct
  <2>1. CASE x # a /\ y # a
    BY <2>1, <1>1, Zenon DEF Distinct
  <2>2. CASE x = a /\ y # a
    <3>1. Clash(row, account[y])
      BY <2>2, <1>1
    <3>2. Clash(account[a], account[y])
      BY <2>2, <3>1, <1>2, <1>3
    <3> QED
      BY <2>2, <3>2, Zenon DEF Distinct
  <2>3. CASE x # a /\ y = a
    <3>1. Clash(account[x], row)
      BY <2>3, <1>1
    <3>2. Clash(account[x], account[a])
      BY <2>3, <3>1, <1>2, <1>3
    <3> QED
      BY <2>3, <3>2, Zenon DEF Distinct
  <2> QED
    BY <2>1, <2>2, <2>3
<1> QED
  BY <1>1, <1>4

(* A row that takes a name no other row has. *)
LEMMA RowRenamed ==
  ASSUME AccessTypes, Distinct(account), NEW a \in Accounts, account[a].exists,
         NEW row \in Row, row.subject = account[a].subject, Named(row.name) \subseteq {a},
         NEW rows, rows = [account EXCEPT ![a] = row]
  PROVE  rows \in Table /\ Distinct(rows) /\ rows[a] = row
<1>1. rows \in Table /\ rows[a] = row /\ \A x \in Accounts \ {a} : rows[x] = account[x]
  BY DEF AccessTypes, Table
<1>2. \A x \in Accounts \ {a} : account[x].exists => account[x].name # row.name
  BY DEF Named
<1>3. \A x \in Accounts \ {a} : Clash(account[x], row) => Clash(account[x], account[a])
  BY <1>2, Zenon DEF Clash
<1>4. \A x \in Accounts \ {a} : Clash(row, account[x]) => Clash(account[a], account[x])
  BY <1>2, Zenon DEF Clash
<1>5. Distinct(rows)
  <2> SUFFICES ASSUME NEW x \in Accounts, NEW y \in Accounts, Clash(rows[x], rows[y]) PROVE x = y
    BY Zenon DEF Distinct
  <2>1. CASE x # a /\ y # a
    BY <2>1, <1>1, Zenon DEF Distinct
  <2>2. CASE x = a /\ y # a
    <3>1. Clash(row, account[y])
      BY <2>2, <1>1
    <3>2. Clash(account[a], account[y])
      BY <2>2, <3>1, <1>3, <1>4
    <3> QED
      BY <2>2, <3>2, Zenon DEF Distinct
  <2>3. CASE x # a /\ y = a
    <3>1. Clash(account[x], row)
      BY <2>3, <1>1
    <3>2. Clash(account[x], account[a])
      BY <2>3, <3>1, <1>3, <1>4
    <3> QED
      BY <2>3, <3>2, Zenon DEF Distinct
  <2> QED
    BY <2>1, <2>2, <2>3
<1> QED
  BY <1>1, <1>5

LEMMA AmendShape ==
  ASSUME AccessTypes, Distinct(account), NEW a \in Accounts, account[a].exists,
         NEW change \in Amendments, NEW rows,
         rows = [account EXCEPT ![a] = [@ EXCEPT ![change[1]] = change[2]]]
  PROVE  rows \in Table /\ Distinct(rows)
<1> DEFINE row == [account[a] EXCEPT ![change[1]] = change[2]]
<1>1. account[a] \in Row
  BY RowShape DEF AccessTypes, Table
<1>2. row \in Row /\ row.name = account[a].name /\ row.subject = account[a].subject
  <2>1. CASE change[1] = "role" /\ change[2] \in Roles
    BY <1>1, <2>1 DEF Row
  <2>2. CASE change[1] = "active" /\ change[2] \in BOOLEAN
    BY <1>1, <2>2 DEF Row
  <2>3. CASE change[1] = "costs" /\ change[2] \in BOOLEAN
    BY <1>1, <2>3 DEF Row
  <2> QED
    BY <2>1, <2>2, <2>3, AccessAssumption
<1>3. rows = [account EXCEPT ![a] = row]
  OBVIOUS
<1> QED
  <2> HIDE DEF row
  <2> QED
    BY <1>2, <1>3, RowEdited

(* UpsertOIDCUser: the account is the subject's own, or a new one; if it    *)
(* ends in no sign-in, nobody may do more than before.                      *)
LEMMA UpsertShape ==
  ASSUME AccessTypes, Distinct(account), NEW s \in Subjects, NEW name \in Claimed,
         NEW claim, claim = UpsertOIDCUser(s, name)
  PROVE  /\ claim.rows \in Table /\ Distinct(claim.rows)
         /\ claim.who # "" => claim.who \in Accounts /\ claim.rows[claim.who] \in Row
         /\ (claim.who = "" \/ ~claim.rows[claim.who].active) =>
              \A n : GatesOf(n, claim.rows) \subseteq GatesOf(n, account)
<1> DEFINE own == WithSubject(s)
           taken == {x \in Accounts : account[x].exists}
           a == IF own # {} THEN CHOOSE x \in own : TRUE ELSE CHOOSE x \in Accounts \ taken : TRUE
           new == IF own # {} THEN [account[a] EXCEPT !.name = name] ELSE NewAccount(name, "oidc", s)
<1>0. name \in Names /\ s # "" /\ "oidc" \in Sources
  BY AccessAssumption DEF Names, Sources
<1>1. CASE Named(name) \ own # {} \/ (own = {} /\ taken = Accounts)
  <2>1. claim = [who |-> "", rows |-> account]
    BY <1>1 DEF UpsertOIDCUser
  <2>2. claim.who = "" /\ claim.rows = account
    <3>1. PICK w : w = ""
      OBVIOUS
    <3>2. claim = [who |-> w, rows |-> account]
      BY <2>1, <3>1
    <3>3. claim.who = w /\ claim.rows = account
      BY <3>2
    <3> QED
      BY <3>1, <3>3
  <2> QED
    BY <2>2 DEF AccessTypes
<1>2. CASE ~(Named(name) \ own # {} \/ (own = {} /\ taken = Accounts))
  <2>1. claim = [who |-> a, rows |-> [account EXCEPT ![a] = new]]
    BY <1>2 DEF UpsertOIDCUser
  <2>2. CASE own = {}
    <3>1. a \in Accounts /\ ~account[a].exists
      <4>1. a = CHOOSE x \in Accounts \ taken : TRUE
        BY <2>2
      <4>2. Accounts \ taken # {}
        BY <1>2, <2>2
      <4>3. a \in Accounts \ taken
        BY <4>1, <4>2
      <4> QED
        BY <4>3
    <3>2. new = NewAccount(name, "oidc", s)
      BY <2>2
    <3>3. new \in Row /\ new.name = name /\ new.subject = s /\ new.active
      <4> HIDE DEF new
      <4>1. s \in Subjects \cup {""}
        OBVIOUS
      <4> QED
        BY <1>0, <3>2, <4>1, NewAccountShape, Zenon
    <3>4. Named(new.name) = {} /\ WithSubject(new.subject) = {}
      <4> HIDE DEF new
      <4> QED
        BY <1>2, <2>2, <3>3
    <3> HIDE DEF a, new
    <3>5. claim.who = a /\ claim.rows = [account EXCEPT ![a] = new]
      BY <2>1
    <3>6. claim.rows \in Table /\ Distinct(claim.rows) /\ claim.rows[a] = new
      <4> HIDE DEF own, taken
      <4>1. PICK rows : rows = [account EXCEPT ![a] = new]
        OBVIOUS
      <4>2. rows \in Table /\ Distinct(rows) /\ rows[a] = new
        BY <3>1, <3>3, <3>4, <4>1, RowAdded
      <4> QED
        BY <3>5, <4>1, <4>2
    <3>7. a # ""
      BY <3>1, AccessAssumption
    <3> QED
      BY <3>3, <3>5, <3>6, <3>7, <3>1
  <2>3. CASE own # {}
    <3>1. a \in own
      BY <2>3
    <3>2. a \in Accounts /\ account[a].exists /\ account[a].subject = s
      <4> HIDE DEF a
      <4> QED
        BY <3>1 DEF WithSubject
    <3>3. account[a] \in Row
      <4> HIDE DEF a
      <4> QED
        BY <3>2, RowShape DEF AccessTypes, Table
    <3>4. new = [account[a] EXCEPT !.name = name]
      BY <2>3
    <3> HIDE DEF a, new
    <3>5. /\ new \in Row /\ new.name = name /\ new.subject = s /\ new.active = account[a].active
      BY <1>0, <3>2, <3>3, <3>4 DEF Row
    <3>6. own \subseteq {a}
      BY <1>0, <3>2, Zenon DEF WithSubject, Distinct, Clash
    <3>7. Named(new.name) \subseteq {a}
      BY <1>2, <3>5, <3>6
    <3>8. claim.who = a /\ claim.rows = [account EXCEPT ![a] = new]
      BY <2>1
    <3>9. claim.rows \in Table /\ Distinct(claim.rows) /\ claim.rows[a] = new
      <4> HIDE DEF own
      <4> QED
        <5>1. PICK rows : rows = [account EXCEPT ![a] = new]
          OBVIOUS
        <5>2. rows \in Table /\ Distinct(rows) /\ rows[a] = new
          BY <3>2, <3>5, <3>7, <5>1, RowRenamed
        <5> QED
          BY <3>8, <5>1, <5>2
    <3>10. ASSUME ~new.active, NEW n PROVE GatesOf(n, claim.rows) \subseteq GatesOf(n, account)
      <4>1. \A x \in Accounts \ {a} : claim.rows[x] = account[x]
        BY <3>8 DEF AccessTypes, Table
      <4> QED
        BY <4>1, <3>9, <3>10 DEF GatesOf
    <3>11. a # ""
      BY <3>2, AccessAssumption
    <3> QED
      BY <3>2, <3>5, <3>8, <3>9, <3>10, <3>11
  <2> QED
    BY <2>2, <2>3
<1> QED
  BY <1>1, <1>2

(* The steps of a request that touch its own record only. *)
Kept(r) ==
  /\ req' \in [Requests -> Request \cup {Idle}]
  /\ \A s \in Requests \ {r} : req'[s] = req[s]

LEMMA KeptBy ==
  ASSUME AccessTypes, NEW r \in Requests, NEW p \in Request \cup {Idle}, req' = [req EXCEPT ![r] = p]
  PROVE  Kept(r) /\ req'[r] = p
BY DEF AccessTypes, Kept

LEMMA LoadedShape ==
  ASSUME AccessTypes, NEW t \in 0 .. MaxTokens
  PROVE  /\ Loaded(t).token \in 0 .. MaxTokens /\ Loaded(t).data \in Session
         /\ Loaded(t).status \in {"unmodified", "modified", "destroyed"}
         /\ \/ t \in Tokens /\ store[t] # Absent /\ Loaded(t).token = t /\ Loaded(t).data = store[t]
            \/ Loaded(t).token = 0 /\ Loaded(t).data = NoSession
<1>1. t # 0 => t \in Tokens
  BY AccessBounds DEF Tokens
<1>2. 0 \in 0 .. MaxTokens
  BY AccessBounds
<1>3. CASE t # 0 /\ store[t] # Absent
  <2>1. store[t] \in Session
    BY <1>1, <1>3 DEF AccessTypes
  <2>2. Loaded(t) = [token |-> t, data |-> store[t], status |-> "modified"]
    BY <1>3 DEF Loaded
  <2> QED
    BY <1>1, <1>3, <2>1, <2>2
<1>4. CASE ~(t # 0 /\ store[t] # Absent)
  <2>1. Loaded(t) = [token |-> 0, data |-> NoSession, status |-> "unmodified"]
    BY <1>4 DEF Loaded
  <2>2. /\ Loaded(t).token = 0 /\ Loaded(t).data = NoSession
        /\ Loaded(t).status = "unmodified"
    <3>1. PICK z, st : z = 0 /\ st = "unmodified"
      BY Zenon
    <3>2. Loaded(t) = [token |-> z, data |-> NoSession, status |-> st]
      BY <2>1, <3>1, Zenon
    <3>3. Loaded(t).token = z /\ Loaded(t).data = NoSession /\ Loaded(t).status = st
      BY <3>2
    <3> QED
      BY <3>1, <3>3, Zenon
  <2>3. NoSession \in Session
    BY SessionShape
  <2> QED
    BY <1>2, <2>2, <2>3
<1> QED
  BY <1>3, <1>4

LEMMA ArriveShape ==
  ASSUME AccessTypes, NEW r \in Requests, NEW b \in Browsers, NEW ask \in Asks, Arrive(r, b, ask)
  PROVE  /\ Kept(r)
         /\ req'[r] \in Request /\ req'[r].pc = "authenticate" /\ req'[r].browser = b
         /\ req'[r].token = Loaded(cookie[b]).token /\ req'[r].data = Loaded(cookie[b]).data
         /\ req'[r].named = req'[r].data.user /\ req'[r].acted = ""
         /\ req'[r].could = GatesOf(req'[r].named, account)
<1> DEFINE s == Loaded(cookie[b])
           p == [pc |-> "authenticate", browser |-> b, ask |-> ask, token |-> s.token,
                 data |-> s.data, status |-> s.status, user |-> "", row |-> NoRow,
                 named |-> s.data.user, could |-> GatesOf(s.data.user, account), acted |-> ""]
<1>1. s.token \in 0 .. MaxTokens /\ s.data \in Session /\ s.status \in {"unmodified", "modified", "destroyed"}
  BY LoadedShape DEF AccessTypes
<1>2. s.data.user \in Names \cup {""}
  BY <1>1 DEF Session
<1>3. GatesOf(s.data.user, account) \subseteq Gates
  BY DEF GatesOf
<1>4. p \in Request
  <2> HIDE DEF s
  <2> QED
    BY <1>1, <1>2, <1>3 DEF Request
<1>5. /\ p.pc = "authenticate" /\ p.browser = b /\ p.token = s.token /\ p.data = s.data
      /\ p.named = p.data.user /\ p.acted = "" /\ p.could = GatesOf(p.named, account)
  <2> HIDE DEF s
  <2>1. /\ p.pc = "authenticate" /\ p.browser = b /\ p.token = s.token /\ p.data = s.data
        /\ p.named = s.data.user /\ p.acted = "" /\ p.could = GatesOf(s.data.user, account)
    BY Zenon
  <2> QED
    BY <2>1, Zenon
<1>6. req' = [req EXCEPT ![r] = p]
  BY DEF Arrive
<1>7. Kept(r) /\ req'[r] = p
  <2> HIDE DEF p
  <2> QED
    BY <1>4, <1>6, KeptBy
<1> QED
  <2> HIDE DEF p
  <2> QED
    BY <1>4, <1>5, <1>7

LEMMA AnonymousShape ==
  ASSUME NEW d \in Session, NEW n \in 0 .. MaxAttempts
  PROVE  /\ Anonymous(d) \in Session /\ Anonymous(d).user = "" /\ Anonymous(d).flow = d.flow
         /\ Anonymous(d).via = 0
         /\ WithFlow(d, n) \in Session /\ WithFlow(d, n).user = d.user /\ WithFlow(d, n).flow = n
         /\ WithFlow(d, n).via = d.via
<1>1. 0 \in 0 .. MaxAttempts /\ n \in -1 .. MaxAttempts
  BY AccessBounds
<1> QED
  BY <1>1 DEF Anonymous, WithFlow, Session

LEMMA ViaShape == \A d \in Session : d.via > 0 => d.via \in Attempts
<1> SUFFICES ASSUME NEW d \in Session, d.via > 0 PROVE d.via \in Attempts
  BY Zenon
<1>1. d.via \in 0 .. MaxAttempts
  BY DEF Session
<1> QED
  BY <1>1, AccessBounds DEF Attempts

LEMMA ViaCases == \A d \in Session : d.via # 0 => d.via > 0
<1> SUFFICES ASSUME NEW d \in Session PROVE d.via # 0 => d.via > 0
  BY Zenon
<1>1. d.via \in 0 .. MaxAttempts
  BY DEF Session
<1> QED
  BY <1>1, AccessBounds

LEMMA TokenShape == \A t \in Tokens : t # 0
BY DEF Tokens

LEMMA WithFlowShape ==
  \A d \in Session, n \in 0 .. MaxAttempts :
    WithFlow(d, n).user = d.user /\ WithFlow(d, n).flow = n /\ WithFlow(d, n).via = d.via
BY AnonymousShape, Zenon

LEMMA AuthenticateShape ==
  ASSUME AccessTypes, Distinct(account), NEW r \in Requests, Authenticate(r)
  PROVE  /\ req[r] \in Request /\ req[r].pc = "authenticate"
         /\ Kept(r) /\ req'[r] \in Request /\ req'[r].pc = "handle"
         /\ req'[r].browser = req[r].browser /\ req'[r].token = req[r].token
         /\ req'[r].acted = req[r].acted /\ req'[r].could = req[r].could
         /\ req'[r].data = req[r].data \/ req'[r].data = Anonymous(req[r].data)
         /\ req'[r].user # "" =>
              /\ req[r].data.user # ""
              /\ \E a \in Accounts : /\ account[a].exists /\ account[a].name = req[r].data.user
                                     /\ account[a].active /\ req'[r].row = account[a]
<1> DEFINE q == req[r]
           name == q.data.user
           found == name # "" /\ \E a \in Named(name) : account[a].active
           a == GetUserByUsername(name)
           u == IF found THEN a ELSE ""
           w == IF found THEN account[a] ELSE NoRow
           d == IF found THEN q.data ELSE Anonymous(q.data)
           st == IF found \/ name = "" THEN q.status ELSE "modified"
           p == [q EXCEPT !.pc = "handle", !.user = u, !.row = w, !.data = d, !.status = st]
<1>1. q \in Request /\ q.pc = "authenticate"
  BY IdleShape DEF Authenticate, AccessTypes
<1>2. q.data \in Session /\ q.status \in {"unmodified", "modified", "destroyed"}
  BY <1>1 DEF Request
<1>3. found => /\ a \in Accounts /\ account[a] \in Row /\ account[a].name = name /\ account[a].active
               /\ account[a].exists
  <2>1. ASSUME found PROVE Named(name) # {}
    BY <2>1
  <2>2. ASSUME found
        PROVE  /\ a \in Accounts /\ account[a] \in Row /\ account[a].name = name
               /\ Named(name) = {a}
    <3> HIDE DEF found
    <3>1. Named(name) # {}
      BY <2>1, <2>2
    <3> HIDE DEF name
    <3> QED
      BY <3>1, FoundShape
  <2>3. ASSUME found PROVE account[a].active
    BY <2>2, <2>3
  <2>4. ASSUME found PROVE account[a].exists
    <3>1. a \in Named(name)
      BY <2>2, <2>4
    <3> QED
      BY <3>1 DEF Named
  <2> QED
    BY <2>2, <2>3, <2>4
<1>4. /\ u \in Accounts \cup {""} /\ w \in Row \cup {NoRow} /\ d \in Session
      /\ st \in {"unmodified", "modified", "destroyed"}
  <2>1. u \in Accounts \cup {""} /\ w \in Row \cup {NoRow}
    <3> HIDE DEF found, a
    <3> QED
      BY <1>3
  <2>2. d \in Session
    <3>1. Anonymous(q.data) \in Session
      <4>1. 0 \in 0 .. MaxAttempts
        BY AccessBounds
      <4> QED
        BY <1>2, <4>1, AnonymousShape
    <3> HIDE DEF found, q
    <3> QED
      BY <1>2, <3>1
  <2>3. st \in {"unmodified", "modified", "destroyed"}
    <3> HIDE DEF found, q, name
    <3> QED
      BY <1>2
  <2> QED
    BY <2>1, <2>2, <2>3
<1>5. req' = [req EXCEPT ![r] = p]
  BY DEF Authenticate, AccessTypes
<1>6. /\ p \in Request /\ p.pc = "handle" /\ p.browser = q.browser /\ p.token = q.token
      /\ p.acted = q.acted /\ p.could = q.could /\ p.data = d /\ p.user = u /\ p.row = w
  <2> HIDE DEF q, u, w, d, st
  <2> QED
    BY <1>1, <1>4 DEF Request
<1>7. Kept(r) /\ req'[r] = p
  <2> HIDE DEF p
  <2> QED
    BY <1>5, <1>6, KeptBy
<1>8. d = q.data \/ d = Anonymous(q.data)
  BY Zenon
<1>9. u # "" => name # "" /\ w = account[a] /\ found
  BY Zenon
<1>10. u # "" => \E x \in Accounts : /\ account[x].exists /\ account[x].name = name
                                    /\ account[x].active /\ w = account[x]
  <2> HIDE DEF found, a, u, w, name
  <2> QED
    BY <1>3, <1>9
<1> QED
  <2> HIDE DEF p, u, w, d, found
  <2> QED
    BY <1>1, <1>6, <1>7, <1>8, <1>9, <1>10

LEMMA GuardedShape ==
  ASSUME AccessTypes, NEW r \in Requests, Guarded(r)
  PROVE  /\ req[r] \in Request /\ req[r].pc = "handle"
         /\ Kept(r) /\ req'[r] \in Request /\ req'[r].pc = "commit"
         /\ req'[r].browser = req[r].browser /\ req'[r].token = req[r].token
         /\ req'[r].data = req[r].data /\ req'[r].could = req[r].could
         /\ req'[r].acted # "" => req[r].user # "" /\ req'[r].acted \in Gates /\ Passes(req[r].row, req'[r].acted)
<1> DEFINE q == req[r]
           ok == q.user # "" /\ Passes(q.row, q.ask.kind)
           act == IF ok THEN q.ask.kind ELSE ""
           p == [q EXCEPT !.pc = "commit", !.acted = act]
<1>1. q \in Request /\ q.pc = "handle" /\ q.ask.kind \in Gates
  BY IdleShape DEF Guarded, AccessTypes
<1>2. req' = [req EXCEPT ![r] = p]
  BY DEF Guarded, AccessTypes
<1>3. act \in Gates \cup {""} /\ (act # "" => ok /\ act = q.ask.kind)
  <2> HIDE DEF ok, q
  <2> QED
    BY <1>1
<1>4. /\ p \in Request /\ p.pc = "commit" /\ p.browser = q.browser /\ p.token = q.token
      /\ p.data = q.data /\ p.could = q.could /\ p.acted = act
  <2> HIDE DEF q, act
  <2> QED
    BY <1>1, <1>3 DEF Request
<1>5. Kept(r) /\ req'[r] = p
  <2> HIDE DEF p
  <2> QED
    BY <1>2, <1>4, KeptBy
<1> QED
  <2> HIDE DEF p, act
  <2> QED
    BY <1>1, <1>3, <1>4, <1>5

LEMMA LogoutShape ==
  ASSUME AccessTypes, NEW r \in Requests, Logout(r)
  PROVE  /\ req[r] \in Request /\ req[r].pc = "handle"
         /\ Kept(r) /\ req'[r] \in Request /\ req'[r].pc = "commit"
         /\ req'[r].browser = req[r].browser /\ req'[r].token = 0
         /\ req'[r].data = NoSession /\ req'[r].acted = req[r].acted
<1> DEFINE q == req[r]
           p == [q EXCEPT !.pc = "commit", !.token = 0, !.data = NoSession, !.status = "destroyed"]
<1>1. q \in Request /\ q.pc = "handle"
  BY IdleShape DEF Logout, AccessTypes
<1>2. req' = [req EXCEPT ![r] = p]
  BY DEF Logout, AccessTypes
<1>3. NoSession \in Session /\ 0 \in 0 .. MaxTokens
  <2>1. 0 \in 0 .. MaxTokens
    BY AccessBounds
  <2> QED
    BY SessionShape, <2>1, Zenon
<1>4. /\ p \in Request /\ p.pc = "commit" /\ p.browser = q.browser /\ p.token = 0
      /\ p.data = NoSession /\ p.acted = q.acted
  <2> HIDE DEF q
  <2> QED
    BY <1>1, <1>3 DEF Request
<1>5. Kept(r) /\ req'[r] = p
  <2> HIDE DEF p
  <2> QED
    BY <1>2, <1>4, KeptBy
<1> QED
  <2> HIDE DEF p
  <2> QED
    BY <1>1, <1>4, <1>5

(* A sign-in begun, or a callback that signs nobody in. *)
LEMMA FlowShape ==
  ASSUME AccessTypes, NEW r \in Requests, req[r].pc = "handle", NEW n \in 0 .. MaxAttempts,
         NEW st \in {"unmodified", "modified", "destroyed"},
         NEW p, p = [req[r] EXCEPT !.pc = "commit", !.status = st, !.data = WithFlow(req[r].data, n)],
         req' = [req EXCEPT ![r] = p]
  PROVE  /\ req[r] \in Request
         /\ Kept(r) /\ req'[r] \in Request /\ req'[r].pc = "commit"
         /\ req'[r].browser = req[r].browser /\ req'[r].token = req[r].token
         /\ req'[r].data = WithFlow(req[r].data, n) /\ req'[r].acted = req[r].acted
<1> DEFINE q == req[r]
           d == WithFlow(req[r].data, n)
<1>1. q \in Request
  BY IdleShape DEF AccessTypes
<1>2. d \in Session
  <2>1. q.data \in Session
    BY <1>1 DEF Request
  <2> QED
    BY <2>1, AnonymousShape
<1>3. /\ p \in Request /\ p.pc = "commit" /\ p.browser = q.browser /\ p.token = q.token
      /\ p.data = d /\ p.acted = q.acted
  <2> HIDE DEF q, d
  <2>1. p = [q EXCEPT !.pc = "commit", !.status = st, !.data = d]
    BY DEF q, d
  <2> QED
    BY <1>1, <1>2, <2>1 DEF Request
<1>4. Kept(r) /\ req'[r] = p
  BY <1>3, KeptBy
<1> QED
  BY <1>1, <1>3, <1>4

LEMMA OIDCStartShape ==
  ASSUME AccessTypes, NEW r \in Requests, OIDCStart(r)
  PROVE  /\ req[r] \in Request /\ req[r].pc = "handle"
         /\ begun + 1 \in Attempts /\ begun' = begun + 1 /\ begun' \in 0 .. MaxAttempts
         /\ attempt' \in [Attempts -> Attempt] /\ attempt'[begun + 1].browser = req[r].browser
         /\ attempt'[begun + 1].code = "none"
         /\ \A n \in Attempts \ {begun + 1} : attempt'[n] = attempt[n]
         /\ Kept(r) /\ req'[r] \in Request /\ req'[r].pc = "commit"
         /\ req'[r].browser = req[r].browser /\ req'[r].token = req[r].token
         /\ req'[r].data = WithFlow(req[r].data, begun + 1) /\ req'[r].acted = req[r].acted
<1>1. /\ begun + 1 \in Attempts /\ begun' = begun + 1 /\ begun' \in 0 .. MaxAttempts
      /\ begun + 1 \in 0 .. MaxAttempts
  <2>1. begun < MaxAttempts /\ begun' = begun + 1 /\ begun \in 0 .. MaxAttempts
    BY Zenon DEF OIDCStart, AccessTypes
  <2> QED
    BY <2>1, AccessBounds DEF Attempts
<1>2. req[r] \in Request /\ req[r].pc = "handle" /\ req[r].browser \in Browsers
  <2>1. req[r] \in Request /\ req[r].pc = "handle"
    BY IdleShape DEF OIDCStart, AccessTypes
  <2> QED
    BY <2>1 DEF Request
<1>3. PICK t : t = [code |-> "none", subject |-> "", name |-> "", browser |-> req[r].browser]
  OBVIOUS
<1>4. t \in Attempt /\ t.browser = req[r].browser /\ t.code = "none"
  <2>1. PICK b \in Browsers : b = req[r].browser
    BY <1>2
  <2>2. t = [code |-> "none", subject |-> "", name |-> "", browser |-> b]
    BY <1>3, <2>1
  <2>3. t \in Attempt /\ t.browser = b /\ t.code = "none"
    BY <2>2 DEF Attempt
  <2> QED
    BY <2>1, <2>3
<1>5. attempt' = [attempt EXCEPT ![begun + 1] = t]
  BY <1>3 DEF OIDCStart
<1>6. /\ attempt' \in [Attempts -> Attempt] /\ attempt'[begun + 1] = t
      /\ \A n \in Attempts \ {begun + 1} : attempt'[n] = attempt[n]
  BY <1>1, <1>4, <1>5 DEF AccessTypes
<1>7. PICK p : p = [req[r] EXCEPT !.pc = "commit", !.status = "modified",
                                  !.data = WithFlow(req[r].data, begun + 1)]
  OBVIOUS
<1>8. req' = [req EXCEPT ![r] = p]
  BY <1>7 DEF OIDCStart, AccessTypes
<1>9. PICK k \in 0 .. MaxAttempts : k = begun + 1
  BY <1>1
<1>10. p = [req[r] EXCEPT !.pc = "commit", !.status = "modified", !.data = WithFlow(req[r].data, k)]
  BY <1>7, <1>9
<1>11. /\ Kept(r) /\ req'[r] \in Request /\ req'[r].pc = "commit"
       /\ req'[r].browser = req[r].browser /\ req'[r].token = req[r].token
       /\ req'[r].data = WithFlow(req[r].data, k) /\ req'[r].acted = req[r].acted
  BY <1>2, <1>8, <1>10, FlowShape
<1> QED
  BY <1>1, <1>2, <1>4, <1>6, <1>9, <1>11

(* What a sign-in leaves. *)
Renewed(r, rows, via) ==
  /\ minted' = minted + 1 /\ minted' \in 0 .. MaxTokens
  /\ store' = IF req[r].token = 0 THEN store ELSE [store EXCEPT ![req[r].token] = Absent]
  /\ store' \in [Tokens -> Session]
  /\ req' \in [Requests -> Request \cup {Idle}]
  /\ \A s \in Requests \ {r} : req'[s] = Noted(req[s], rows)
  /\ req'[r] \in Request /\ req'[r].pc = "commit" /\ req'[r].browser = req[r].browser
  /\ req'[r].token = minted + 1 /\ req'[r].acted = req[r].acted
  /\ req'[r].data.via = via
  /\ req'[r].data.flow = IF via = 0 THEN req[r].data.flow ELSE 0

LEMMA RenewedBy ==
  ASSUME AccessTypes, NEW r \in Requests, req[r] \in Request, NEW a \in Accounts, NEW rows \in Table,
         rows[a] \in Row, NEW via \in 0 .. MaxAttempts, SignedIn(r, a, rows, via)
  PROVE  Renewed(r, rows, via)
<1>1. req[r] # Idle
  BY IdleShape
<1>2. /\ minted' = minted + 1 /\ minted' \in 0 .. MaxTokens /\ store' \in [Tokens -> Session]
      /\ req' \in [Requests -> Request \cup {Idle}]
      /\ \A s \in Requests \ {r} : req'[s] = Noted(req[s], rows)
      /\ req'[r] \in Request /\ req'[r].pc = "commit" /\ req'[r].browser = req[r].browser
      /\ req'[r].token = minted + 1 /\ req'[r].acted = req[r].acted
  BY <1>1, SignedInShape
<1>3. req'[r].data = [user |-> rows[a].name, who |-> a, via |-> via,
                      flow |-> IF via = 0 THEN req[r].data.flow ELSE 0]
  BY <1>1, SignedInShape
<1>4. req'[r].data.via = via /\ req'[r].data.flow = IF via = 0 THEN req[r].data.flow ELSE 0
  <2>1. PICK u, f : u = rows[a].name /\ f = IF via = 0 THEN req[r].data.flow ELSE 0
    BY Zenon
  <2>2. PICK d : d = req'[r].data
    BY Zenon
  <2>3. d = [user |-> u, who |-> a, via |-> via, flow |-> f]
    BY <1>3, <2>1, <2>2, Zenon
  <2>4. d.via = via /\ d.flow = f
    BY <2>3
  <2> QED
    BY <2>1, <2>2, <2>4, Zenon
<1>5. store' = IF req[r].token = 0 THEN store ELSE [store EXCEPT ![req[r].token] = Absent]
  BY Zenon DEF SignedIn
<1> QED
  BY <1>2, <1>4, <1>5, Zenon DEF Renewed

(* The request has ended its handler, and nothing else has changed. *)
Passed(r) ==
  /\ store' = store /\ minted' = minted /\ Kept(r)
  /\ req'[r] \in Request /\ req'[r].pc = "commit" /\ req'[r].browser = req[r].browser
  /\ req'[r].token = req[r].token /\ req'[r].acted = req[r].acted

LEMMA LoginShape ==
  ASSUME AccessTypes, Distinct(account), NEW r \in Requests, Login(r)
  PROVE  /\ req[r] \in Request /\ req[r].pc = "handle" /\ account' \in Table /\ Distinct(account')
         /\ \/ Renewed(r, account', 0)
            \/ account' = account /\ Passed(r) /\ req'[r].data = req[r].data
<1> DEFINE name == req[r].ask.name
           by == AcceptedBy(name, req[r].ask.right)
           taken == {a \in Accounts : account[a].exists}
<1>1. req[r] \in Request /\ req[r].pc = "handle" /\ name \in Names
  <2>1. req[r] \in Request /\ req[r].pc = "handle" /\ req[r].ask.kind = "login"
    BY IdleShape DEF Login, AccessTypes
  <2>2. req[r].ask \in Asks
    BY <2>1 DEF Request
  <2> QED
    BY <2>1, <2>2, AskShape
<1>2. 0 \in 0 .. MaxAttempts
  BY AccessBounds
<1>3. account \in Table
  BY DEF AccessTypes
<1>4. CASE Named(name) # {} /\ SignedIn(r, GetUserByUsername(name), account, 0) /\ account' = account
  <2>1. PICK a \in Accounts : a = GetUserByUsername(name) /\ account[a] \in Row
    <3> HIDE DEF name
    <3> QED
      BY <1>4, FoundShape
  <2>2. SignedIn(r, a, account, 0)
    BY <1>4, <2>1
  <2>3. Renewed(r, account, 0)
    BY <1>1, <1>2, <1>3, <2>1, <2>2, RenewedBy
  <2> QED
    BY <1>1, <1>3, <1>4, <2>3
<1>5. ASSUME Named(name) = {}, taken # Accounts, NEW a, a = CHOOSE x \in Accounts \ taken : TRUE,
             NEW rows, rows = [account EXCEPT ![a] = NewAccount(name, "ldap", "")],
             account' = rows, SignedIn(r, a, rows, 0)
      PROVE  account' \in Table /\ Distinct(account') /\ Renewed(r, account', 0)
  <2>1. a \in Accounts /\ ~account[a].exists
    <3>1. a \in Accounts \ taken
      BY <1>5
    <3> QED
      BY <3>1
  <2>2. PICK row : row = NewAccount(name, "ldap", "")
    BY Zenon
  <2>3. row \in Row /\ row.name = name /\ row.subject = ""
    <3>1. "ldap" \in Sources /\ "" \in Subjects \cup {""}
      BY DEF Sources
    <3> HIDE DEF name
    <3> QED
      BY <1>1, <2>2, <3>1, NewAccountShape, Zenon
  <2> HIDE DEF name, taken
  <2>4. rows \in Table /\ Distinct(rows) /\ rows[a] = row
    <3>1. rows = [account EXCEPT ![a] = row]
      BY <1>5, <2>2
    <3>2. Named(row.name) = {} /\ (row.subject # "" => WithSubject(row.subject) = {})
      BY <1>5, <2>3
    <3> QED
      BY <2>1, <2>3, <3>1, <3>2, RowAdded
  <2>5. Renewed(r, rows, 0)
    BY <1>1, <1>2, <1>5, <2>1, <2>3, <2>4, RenewedBy
  <2> QED
    BY <1>5, <2>4, <2>5
<1>6. CASE req' = [req EXCEPT ![r].pc = "commit"] /\ UNCHANGED <<account, store, minted>>
  <2>1. PICK p : p = [req[r] EXCEPT !.pc = "commit"]
    BY Zenon
  <2>2. req' = [req EXCEPT ![r] = p]
    BY <1>6, <2>1
  <2>3. /\ p \in Request /\ p.pc = "commit" /\ p.browser = req[r].browser /\ p.token = req[r].token
        /\ p.acted = req[r].acted /\ p.data = req[r].data
    <3>1. PICK q \in Request : q = req[r]
      BY <1>1
    <3>2. p = [q EXCEPT !.pc = "commit"]
      BY <2>1, <3>1
    <3>3. /\ p \in Request /\ p.pc = "commit" /\ p.browser = q.browser /\ p.token = q.token
          /\ p.acted = q.acted /\ p.data = q.data
      BY <3>2 DEF Request
    <3> QED
      BY <3>1, <3>3
  <2>4. Kept(r) /\ req'[r] = p
    BY <2>2, <2>3, KeptBy
  <2> QED
    BY <1>1, <1>3, <1>6, <2>3, <2>4 DEF Passed
<1> QED
  <2>1. \/ /\ by # "none" /\ Named(name) # {}
           /\ SignedIn(r, GetUserByUsername(name), account, 0)
           /\ UNCHANGED account
        \/ /\ by = "ldap" /\ Named(name) = {} /\ taken # Accounts
           /\ LET a == CHOOSE x \in Accounts \ taken : TRUE
                  rows == [account EXCEPT ![a] = NewAccount(name, "ldap", "")]
              IN account' = rows /\ SignedIn(r, a, rows, 0)
        \/ /\ by = "none"
           /\ req' = [req EXCEPT ![r].pc = "commit"]
           /\ UNCHANGED <<account, store, minted>>
    BY Zenon DEF Login
  <2> HIDE DEF by, name, taken
  <2>2. CASE /\ by = "ldap" /\ Named(name) = {} /\ taken # Accounts
             /\ LET a == CHOOSE x \in Accounts \ taken : TRUE
                    rows == [account EXCEPT ![a] = NewAccount(name, "ldap", "")]
                IN account' = rows /\ SignedIn(r, a, rows, 0)
    <3>1. PICK a, rows : /\ a = CHOOSE x \in Accounts \ taken : TRUE
                         /\ rows = [account EXCEPT ![a] = NewAccount(name, "ldap", "")]
                         /\ account' = rows /\ SignedIn(r, a, rows, 0)
      BY <2>2, Zenon
    <3> QED
      BY <1>1, <1>5, <2>2, <3>1
  <2> QED
    BY <2>1, <2>2, <1>4, <1>6

LEMMA CallbackShape ==
  ASSUME AccessTypes, Distinct(account), Issued, NEW r \in Requests, NEW up, OIDCCallback(r, up)
  PROVE  /\ req[r] \in Request /\ req[r].pc = "handle" /\ account' \in Table /\ Distinct(account')
         /\ attempt' \in [Attempts -> Attempt] /\ Issued'
         /\ \A n \in Attempts : attempt'[n].browser = attempt[n].browser
         /\ \/ req[r].data.flow \in Attempts /\ Renewed(r, account', req[r].data.flow)
            \/ /\ Passed(r) /\ req'[r].data = WithFlow(req[r].data, 0)
               /\ \A name : GatesOf(name, account') \subseteq GatesOf(name, account)
<1>1. PICK n : n = req[r].ask.attempt
  BY Zenon
<1>2. req[r] \in Request /\ req[r].pc = "handle" /\ n \in Attempts
  <2>1. req[r] \in Request /\ req[r].pc = "handle" /\ req[r].ask.kind = "callback"
    BY IdleShape DEF OIDCCallback, AccessTypes
  <2>2. req[r].ask \in Asks
    BY <2>1 DEF Request
  <2> QED
    BY <1>1, <2>1, <2>2, AskShape
<1>3. PICK claim : claim = UpsertOIDCUser(attempt[n].subject, attempt[n].name)
  BY Zenon
<1>4. PICK spends \in BOOLEAN : spends <=> (CallbackMatches(req[r].data, n) /\ Exchange(n, up))
  OBVIOUS
<1>5. PICK cleared : cleared = [req EXCEPT ![r].data = WithFlow(@, 0), ![r].status =
                                   IF req[r].data.flow # 0 THEN "modified" ELSE @]
  BY Zenon
<1>6. /\ attempt' = IF spends THEN [attempt EXCEPT ![n].code = "spent"] ELSE attempt
      /\ account' = IF spends THEN claim.rows ELSE account
      /\ IF spends /\ claim.who # "" /\ claim.rows[claim.who].active
         THEN SignedIn(r, claim.who, claim.rows, n)
         ELSE req' = [cleared EXCEPT ![r].pc = "commit"] /\ UNCHANGED <<store, minted>>
  BY <1>1, <1>3, <1>4, <1>5, Zenon DEF OIDCCallback
<1>7. spends => attempt[n].subject \in Subjects /\ attempt[n].name \in Claimed
  BY <1>2, <1>4 DEF Exchange, Issued
<1>8. spends => req[r].data.flow = n
  BY <1>4 DEF CallbackMatches
<1>9. spends =>
        /\ claim.rows \in Table /\ Distinct(claim.rows)
        /\ claim.who # "" => claim.who \in Accounts /\ claim.rows[claim.who] \in Row
        /\ (claim.who = "" \/ ~claim.rows[claim.who].active) =>
             \A name : GatesOf(name, claim.rows) \subseteq GatesOf(name, account)
  <2>1. ASSUME spends
        PROVE  /\ claim.rows \in Table /\ Distinct(claim.rows)
               /\ claim.who # "" => claim.who \in Accounts /\ claim.rows[claim.who] \in Row
               /\ (claim.who = "" \/ ~claim.rows[claim.who].active) =>
                    \A name : GatesOf(name, claim.rows) \subseteq GatesOf(name, account)
    BY <1>3, <1>7, <2>1, UpsertShape, Zenon
  <2> QED
    BY <2>1
<1>10. account' \in Table /\ Distinct(account')
  <2>1. CASE spends
    BY <2>1, <1>6, <1>9
  <2>2. CASE ~spends
    BY <2>2, <1>6 DEF AccessTypes
  <2> QED
    BY <2>1, <2>2
<1>11. /\ attempt' \in [Attempts -> Attempt] /\ Issued'
       /\ \A k \in Attempts : attempt'[k].browser = attempt[k].browser
  <2>1. CASE ~spends
    BY <2>1, <1>6 DEF AccessTypes, Issued
  <2>2. CASE spends
    <3>1. PICK old \in Attempt : old = attempt[n]
      BY <1>2 DEF AccessTypes
    <3>2. PICK new : new = [old EXCEPT !.code = "spent"]
      BY Zenon
    <3>3. new \in Attempt /\ new.browser = old.browser /\ new.code = "spent"
      BY <3>2 DEF Attempt
    <3>4. attempt' = [attempt EXCEPT ![n] = new]
      BY <2>2, <1>6, <3>1, <3>2
    <3>5. attempt' \in [Attempts -> Attempt] /\ attempt'[n] = new
          /\ \A k \in Attempts \ {n} : attempt'[k] = attempt[k]
      BY <1>2, <3>3, <3>4 DEF AccessTypes
    <3> QED
      BY <3>1, <3>3, <3>5 DEF Issued
  <2> QED
    BY <2>1, <2>2
<1>12. CASE spends /\ claim.who # "" /\ claim.rows[claim.who].active
  <2>1. PICK a \in Accounts, rows \in Table : a = claim.who /\ rows = claim.rows
    BY <1>9, <1>12
  <2>2. SignedIn(r, a, rows, n) /\ rows[a] \in Row /\ account' = rows
    BY <1>6, <1>9, <1>12, <2>1, Zenon
  <2>3. n \in 0 .. MaxAttempts
    BY <1>2, AccessBounds DEF Attempts
  <2>4. Renewed(r, rows, n)
    BY <1>2, <2>2, <2>3, RenewedBy
  <2> QED
    BY <1>2, <1>8, <1>10, <1>11, <1>12, <2>2, <2>4
<1>13. CASE ~(spends /\ claim.who # "" /\ claim.rows[claim.who].active)
  <2>1. req' = [cleared EXCEPT ![r].pc = "commit"] /\ UNCHANGED <<store, minted>>
    BY <1>6, <1>13, Zenon
  <2>2. PICK st : st = IF req[r].data.flow # 0 THEN "modified" ELSE req[r].status
    BY Zenon
  <2>3. st \in {"unmodified", "modified", "destroyed"}
    BY <1>2, <2>2 DEF Request
  <2>4. PICK p : p = [req[r] EXCEPT !.pc = "commit", !.status = st, !.data = WithFlow(req[r].data, 0)]
    BY Zenon
  <2>5. req' = [req EXCEPT ![r] = p]
    <3>1. req = [s \in Requests |-> req[s]]
      BY DEF AccessTypes
    <3>2. PICK q \in Request : q = req[r]
      BY <1>2
    <3>3. PICK d : d = WithFlow(q.data, 0)
      BY Zenon
    <3>4. cleared = [req EXCEPT ![r] = [q EXCEPT !.data = d, !.status = st]]
      BY <1>5, <2>2, <3>1, <3>2, <3>3
    <3>5. req' = [req EXCEPT ![r] = [q EXCEPT !.data = d, !.status = st, !.pc = "commit"]]
      BY <2>1, <3>1, <3>4
    <3>6. [q EXCEPT !.data = d, !.status = st, !.pc = "commit"] = p
      BY <2>4, <3>2, <3>3 DEF Request
    <3> QED
      BY <3>5, <3>6
  <2>6. 0 \in 0 .. MaxAttempts
    BY AccessBounds
  <2>7. /\ Kept(r) /\ req'[r] \in Request /\ req'[r].pc = "commit"
        /\ req'[r].browser = req[r].browser /\ req'[r].token = req[r].token
        /\ req'[r].data = WithFlow(req[r].data, 0) /\ req'[r].acted = req[r].acted
    BY <1>2, <2>3, <2>4, <2>5, <2>6, FlowShape
  <2>8. Passed(r)
    BY <2>1, <2>7 DEF Passed
  <2>9. \A name : GatesOf(name, account') \subseteq GatesOf(name, account)
    <3>1. CASE spends
      BY <3>1, <1>6, <1>9, <1>13, Zenon
    <3>2. CASE ~spends
      BY <3>2, <1>6
    <3> QED
      BY <3>1, <3>2
  <2> QED
    BY <1>2, <1>10, <1>11, <2>7, <2>8, <2>9
<1> QED
  BY <1>12, <1>13

(* What a request may do is covered by what it could have done. *)
Covered(q, rows) ==
  /\ q.pc = "authenticate" =>
       /\ q.named = q.data.user /\ q.acted = ""
       /\ q.named # "" => GatesOf(q.named, rows) \subseteq q.could
  /\ q.pc = "handle" => /\ q.acted = ""
                        /\ q.user # "" => \A g \in Gates : Passes(q.row, g) => g \in q.could
  /\ q.pc = "commit" => (q.acted # "" => q.acted \in q.could)

(* A session id t belongs to the browser own[t].  m ids have been minted, n *)
(* sign-ins begun, tries says by whom, plant are the ids given out before a *)
(* sign-in.                                                                 *)
Fits(d, t, b, tries, n, plant) ==
  /\ d.user # "" => t # 0 /\ t \notin plant
  /\ d.flow > 0 => d.flow <= n /\ tries[d.flow].browser = b
  /\ d.via > 0 => d.via <= n /\ tries[d.via].browser = b
CookieFits(c, b, own, m) == c <= m /\ (c # 0 => own[c] = b)
RequestFits(q, own, tries, n, plant, m) ==
  q # Idle => /\ q.token <= m
              /\ q.token # 0 => own[q.token] = q.browser
              /\ Fits(q.data, q.token, q.browser, tries, n, plant)
RowFits(d, t, own, tries, n, plant, m) ==
  d # Absent => t <= m /\ Fits(d, t, own[t], tries, n, plant)

OwnedBy(own) ==
  /\ \A b \in Browsers : CookieFits(cookie[b], b, own, minted)
  /\ \A r \in Requests : RequestFits(req[r], own, attempt, begun, planted, minted)
  /\ \A t \in Tokens : RowFits(store[t], t, own, attempt, begun, planted, minted)
  /\ \A t \in planted : t <= minted
Owned == \E own : DOMAIN own = Tokens /\ OwnedBy(own)

AccessInv ==
  /\ AccessTypes /\ Distinct(account) /\ Issued
  /\ \A r \in Requests : Covered(req[r], account)
  /\ Owned
  /\ \A t \in ended : t <= minted
  /\ SignOutHolds

LEMMA FitsStays ==
  ASSUME NEW d \in Session, NEW t, NEW b, NEW tries, NEW n \in 0 .. MaxAttempts, NEW plant,
         Fits(d, t, b, tries, n, plant), NEW tries2, NEW n2 \in 0 .. MaxAttempts, NEW plant2, n <= n2,
         \A k \in Attempts : k <= n => tries2[k].browser = tries[k].browser,
         t \in plant2 => t \in plant
  PROVE  Fits(d, t, b, tries2, n2, plant2)
<1>1. d.flow \in -1 .. MaxAttempts /\ d.via \in 0 .. MaxAttempts
  BY DEF Session
<1>2. (d.flow > 0 => d.flow <= n) /\ (d.via > 0 => d.via <= n)
  BY Zenon DEF Fits
<1>3. d.flow > 0 => d.flow \in Attempts /\ d.flow <= n2
  BY <1>1, <1>2, AccessBounds DEF Attempts
<1>4. d.via > 0 => d.via \in Attempts /\ d.via <= n2
  BY <1>1, <1>2, AccessBounds DEF Attempts
<1> QED
  BY <1>3, <1>4, Zenon DEF Fits

(* The browser of a request, its token and its data are those of another. *)
LEMMA RequestFitsLike ==
  ASSUME NEW q, NEW p, q # Idle, p.token = q.token, p.browser = q.browser, p.data = q.data,
         NEW own, NEW tries, NEW n, NEW plant, NEW m, RequestFits(q, own, tries, n, plant, m)
  PROVE  RequestFits(p, own, tries, n, plant, m)
BY Zenon DEF RequestFits

LEMMA CoveredNoted ==
  ASSUME NEW q \in Request \cup {Idle}, NEW rows, NEW rows2, Covered(q, rows)
  PROVE  Covered(Noted(q, rows2), rows2)
<1>1. CASE q = Idle
  BY <1>1, NotedShape, IdleShape, Zenon DEF Covered
<1>2. CASE q # Idle
  <2>1. /\ Enriched(q, Noted(q, rows2))
        /\ q.named # "" => GatesOf(q.named, rows2) \subseteq Noted(q, rows2).could
    BY <1>2, NotedShape
  <2>2. PICK p : p = Noted(q, rows2)
    BY Zenon
  <2>3. Enriched(q, p) /\ (p.named # "" => GatesOf(p.named, rows2) \subseteq p.could)
    BY <2>1, <2>2, Zenon DEF Enriched
  <2>4. Covered(p, rows2)
    BY <2>3, Zenon DEF Enriched, Covered
  <2> QED
    BY <2>2, <2>4
<1> QED
  BY <1>1, <1>2

LEMMA CoveredShrunk ==
  ASSUME NEW q, NEW rows, NEW rows2, Covered(q, rows),
         \A name : GatesOf(name, rows2) \subseteq GatesOf(name, rows)
  PROVE  Covered(q, rows2)
BY Zenon DEF Covered

LEMMA CoveredIdle == \A rows : Covered(Idle, rows)
BY IdleShape, Zenon DEF Covered

LEMMA FitsFresh ==
  ASSUME NEW t, NEW b, NEW tries, NEW n, NEW plant
  PROVE  Fits(NoSession, t, b, tries, n, plant)
<1>1. NoSession.user = "" /\ ~(NoSession.flow > 0) /\ ~(NoSession.via > 0)
  <2>1. NoSession.user = ""
    BY SessionShape, Zenon
  <2>2. NoSession.flow = 0 /\ NoSession.via = 0
    BY SessionShape, Zenon
  <2>3. ~(NoSession.flow > 0) /\ ~(NoSession.via > 0)
    BY <2>2
  <2> QED
    BY <2>1, <2>3, Zenon
<1> QED
  BY <1>1, Zenon DEF Fits

(* A request as another, for whom its session is. *)
Like(p, q) == q # Idle /\ p.token = q.token /\ p.browser = q.browser /\ p.data = q.data

(* What belongs to a browser stays its own while ids are minted and         *)
(* sign-ins begin.                                                          *)
LEMMA OwnedGrows ==
  ASSUME AccessTypes, AccessTypes', NEW own, OwnedBy(own), NEW own2, DOMAIN own2 = Tokens,
         minted <= minted', begun <= begun',
         \A t \in Tokens : t <= minted => own2[t] = own[t],
         \A k \in Attempts : k <= begun => attempt'[k].browser = attempt[k].browser,
         \A t \in planted' : (t \in planted \/ minted < t) /\ t <= minted',
         \A b \in Browsers : cookie'[b] = cookie[b] \/ CookieFits(cookie'[b], b, own2, minted'),
         \A s \in Requests : \/ req'[s] = Idle
                             \/ Like(req'[s], req[s])
                             \/ RequestFits(req'[s], own2, attempt', begun', planted', minted'),
         \A t \in Tokens : \/ store'[t] = store[t]
                           \/ store'[t] = Absent
                           \/ RowFits(store'[t], t, own2, attempt', begun', planted', minted')
  PROVE  Owned'
<1>0. /\ minted \in 0 .. MaxTokens /\ minted' \in 0 .. MaxTokens
      /\ begun \in 0 .. MaxAttempts /\ begun' \in 0 .. MaxAttempts
      /\ planted \subseteq Tokens /\ planted' \subseteq Tokens
  BY Zenon DEF AccessTypes
<1>1. ASSUME NEW b \in Browsers PROVE CookieFits(cookie'[b], b, own2, minted')
  <2>1. cookie[b] \in 0 .. MaxTokens /\ CookieFits(cookie[b], b, own, minted)
    BY DEF AccessTypes, OwnedBy
  <2>2. cookie[b] <= minted' /\ (cookie[b] # 0 => cookie[b] \in Tokens /\ cookie[b] <= minted)
    BY <1>0, <2>1, AccessBounds DEF CookieFits, Tokens
  <2>3. CookieFits(cookie[b], b, own2, minted')
    BY <2>1, <2>2, Zenon DEF CookieFits
  <2> QED
    BY <2>3, Zenon
<1>2. ASSUME NEW s \in Requests, Like(req'[s], req[s])
      PROVE  RequestFits(req'[s], own2, attempt', begun', planted', minted')
  <2>1. PICK q \in Request : q = req[s]
    BY <1>2 DEF AccessTypes, Like
  <2>2. /\ q.token <= minted /\ (q.token # 0 => own[q.token] = q.browser)
        /\ Fits(q.data, q.token, q.browser, attempt, begun, planted)
    <3>1. RequestFits(q, own, attempt, begun, planted, minted)
      BY <2>1, Zenon DEF OwnedBy
    <3>2. q # Idle
      BY <2>1, IdleShape
    <3> QED
      BY <3>1, <3>2, Zenon DEF RequestFits
  <2>3. q.token \in 0 .. MaxTokens /\ q.data \in Session
    BY DEF Request
  <2>4. /\ q.token <= minted' /\ (q.token # 0 => q.token \in Tokens)
        /\ ~(minted < q.token)
    BY <1>0, <2>2, <2>3, AccessBounds DEF Tokens
  <2>5. Fits(q.data, q.token, q.browser, attempt', begun', planted')
    <3>1. q.token \in planted' => q.token \in planted
      BY <2>4, Zenon
    <3> QED
      BY <1>0, <2>2, <2>3, <3>1, FitsStays
  <2>6. q.token # 0 => own2[q.token] = q.browser
    BY <2>2, <2>4, Zenon
  <2> QED
    BY <1>2, <2>1, <2>4, <2>5, <2>6, Zenon DEF Like, RequestFits
<1>3. ASSUME NEW t \in Tokens, store'[t] = store[t]
      PROVE  RowFits(store'[t], t, own2, attempt', begun', planted', minted')
  <2>1. PICK d \in Session : d = store[t]
    BY DEF AccessTypes
  <2> SUFFICES ASSUME d # Absent PROVE t <= minted' /\ Fits(d, t, own2[t], attempt', begun', planted')
    BY <1>3, <2>1, Zenon DEF RowFits
  <2>2. t <= minted /\ Fits(d, t, own[t], attempt, begun, planted)
    <3>1. RowFits(d, t, own, attempt, begun, planted, minted)
      BY <2>1, Zenon DEF OwnedBy
    <3> QED
      BY <3>1, Zenon DEF RowFits
  <2>3. t <= minted' /\ ~(minted < t)
    BY <1>0, <2>2, AccessBounds DEF Tokens
  <2>4. own2[t] = own[t] /\ (t \in planted' => t \in planted)
    BY <2>2, <2>3, Zenon
  <2>5. Fits(d, t, own[t], attempt', begun', planted')
    BY <1>0, <2>2, <2>4, FitsStays
  <2> QED
    BY <2>3, <2>4, <2>5
<1>4. \A s \in Requests : RequestFits(req'[s], own2, attempt', begun', planted', minted')
  BY <1>2, Zenon DEF RequestFits
<1>5. \A t \in Tokens : RowFits(store'[t], t, own2, attempt', begun', planted', minted')
  BY <1>3, Zenon DEF RowFits
<1>6. OwnedBy(own2)'
  BY <1>1, <1>4, <1>5, Zenon DEF OwnedBy
<1> QED
  BY <1>6, Zenon DEF Owned

LEMMA CoverStep ==
  ASSUME AccessTypes, \A s \in Requests : Covered(req[s], account),
         NEW r, r \in Requests => Covered(req'[r], account'),
         \/ \A s \in Requests \ {r} : req'[s] = Noted(req[s], account')
         \/ /\ \A s \in Requests \ {r} : req'[s] = req[s]
            /\ \A name : GatesOf(name, account') \subseteq GatesOf(name, account)
  PROVE  \A s \in Requests : Covered(req'[s], account')
<1> SUFFICES ASSUME NEW s \in Requests, s # r PROVE Covered(req'[s], account')
  BY Zenon
<1>0. PICK rows, rows2 : rows = account /\ rows2 = account'
  BY Zenon
<1>1. PICK q \in Request \cup {Idle} : q = req[s]
  BY DEF AccessTypes
<1>2. Covered(q, rows)
  BY <1>0, <1>1, Zenon
<1>3. CASE req'[s] = Noted(req[s], account')
  <2>1. Covered(Noted(q, rows2), rows2)
    BY <1>2, CoveredNoted
  <2> QED
    BY <1>0, <1>1, <1>3, <2>1, Zenon
<1>4. CASE req'[s] = req[s] /\ \A name : GatesOf(name, account') \subseteq GatesOf(name, account)
  <2>1. \A name : GatesOf(name, rows2) \subseteq GatesOf(name, rows)
    BY <1>0, <1>4, Zenon
  <2>2. Covered(q, rows2)
    BY <1>2, <2>1, CoveredShrunk
  <2> QED
    BY <1>0, <1>1, <1>4, <2>2, Zenon
<1> QED
  BY <1>3, <1>4, Zenon

LEMMA SignOutStep ==
  ASSUME AccessTypes, AccessTypes', SignOutHolds, \A t \in ended : t <= minted,
         ended' = ended, shared' = shared, minted <= minted',
         \A t \in Tokens : \/ store'[t] = store[t]
                           \/ store'[t] = Absent
                           \/ minted < t
                           \/ \E s \in Requests : req[s] # Idle /\ req[s].token = t,
         \A s \in Requests : \/ req'[s] = Idle
                             \/ req[s] # Idle /\ req'[s].token = req[s].token
                             \/ req'[s].token \notin Tokens
                             \/ minted < req'[s].token
                             \/ store[req'[s].token] # Absent
  PROVE  SignOutHolds' /\ \A t \in ended' : t <= minted'
<1>0. /\ minted \in 0 .. MaxTokens /\ minted' \in 0 .. MaxTokens
      /\ ended \subseteq Tokens
  BY Zenon DEF AccessTypes
<1>1. ASSUME NEW t \in ended PROVE t <= minted' /\ ~(minted < t)
  <2>1. t \in Tokens /\ t <= minted
    BY <1>0
  <2> QED
    BY <1>0, <2>1, AccessBounds DEF Tokens
<1>2. \A s \in Requests : (req[s] = Idle <=> req[s].pc = "idle") /\ (req'[s] = Idle <=> req'[s].pc = "idle")
  <2>1. \A s \in Requests : req[s] \in Request \cup {Idle} /\ req'[s] \in Request \cup {Idle}
    BY DEF AccessTypes
  <2> QED
    BY <2>1, IdleShape, Zenon
<1>3. ASSUME NEW t \in ended \ shared PROVE store'[t] = Absent
  <2>1. store[t] = Absent /\ \A s \in Requests : req[s] # Idle => req[s].token # t
    BY <1>2, Zenon DEF SignOutHolds
  <2>2. t \in Tokens /\ ~(minted < t)
    BY <1>0, <1>1
  <2> QED
    BY <2>1, <2>2, Zenon
<1>4. ASSUME NEW t \in ended \ shared, NEW s \in Requests, req'[s] # Idle PROVE req'[s].token # t
  <2>1. store[t] = Absent /\ \A x \in Requests : req[x] # Idle => req[x].token # t
    BY <1>2, Zenon DEF SignOutHolds
  <2>2. t \in Tokens /\ ~(minted < t)
    BY <1>0, <1>1
  <2> QED
    BY <1>4, <2>1, <2>2, Zenon
<1>5. SignOutHolds'
  BY <1>2, <1>3, <1>4, Zenon DEF SignOutHolds
<1> QED
  BY <1>1, <1>5, Zenon

(* A request changes, its session going on under the same id. *)
LEMMA HandledStep ==
  ASSUME AccessInv, NEW r \in Requests, Kept(r),
         UNCHANGED <<store, cookie, minted, planted, ended, shared>>,
         account' \in Table, Distinct(account'),
         \A name : GatesOf(name, account') \subseteq GatesOf(name, account),
         attempt' \in [Attempts -> Attempt], Issued', begun' \in 0 .. MaxAttempts, begun <= begun',
         \A k \in Attempts : k <= begun => attempt'[k].browser = attempt[k].browser,
         Covered(req'[r], account'),
         \A own : OwnedBy(own) => RequestFits(req'[r], own, attempt', begun', planted, minted),
         \/ req[r] # Idle /\ req'[r].token = req[r].token
         \/ req'[r].token \notin Tokens
         \/ store[req'[r].token] # Absent
  PROVE  AccessInv'
<1>0. AccessTypes /\ minted \in 0 .. MaxTokens /\ planted \subseteq Tokens /\ \A t \in ended : t <= minted
  BY DEF AccessInv, AccessTypes
<1>1. AccessTypes'
  BY Zenon DEF AccessInv, AccessTypes, Kept
<1>2. \A s \in Requests : Covered(req'[s], account')
  BY <1>0, CoverStep, Zenon DEF Kept, AccessInv
<1>3. minted <= minted'
  <2>1. minted <= minted
    BY <1>0, AccessBounds
  <2> QED
    BY <2>1, Zenon
<1>4. Owned'
  <2>1. PICK own : DOMAIN own = Tokens /\ OwnedBy(own)
    BY Zenon DEF AccessInv, Owned
  <2>2. \A s \in Requests : \/ req'[s] = Idle
                            \/ Like(req'[s], req[s])
                            \/ RequestFits(req'[s], own, attempt', begun', planted', minted')
    BY <2>1, Zenon DEF Kept, Like
  <2>3. \A t \in planted' : (t \in planted \/ minted < t) /\ t <= minted'
    BY <2>1, Zenon DEF OwnedBy
  <2>4. \A b \in Browsers : cookie'[b] = cookie[b]
    BY Zenon
  <2>5. \A t \in Tokens : store'[t] = store[t]
    BY Zenon
  <2> QED
    BY <1>0, <1>1, <1>3, <2>1, <2>2, <2>3, <2>4, <2>5, OwnedGrows, Zenon
<1>5. SignOutHolds' /\ \A t \in ended' : t <= minted'
  <2>1. \A s \in Requests : \/ req'[s] = Idle
                            \/ req[s] # Idle /\ req'[s].token = req[s].token
                            \/ req'[s].token \notin Tokens
                            \/ minted < req'[s].token
                            \/ store[req'[s].token] # Absent
    BY Zenon DEF Kept
  <2>2. SignOutHolds /\ \A t \in Tokens : store'[t] = store[t]
    BY Zenon DEF AccessInv
  <2>3. ended' = ended /\ shared' = shared
    BY Zenon
  <2> QED
    BY <1>0, <1>1, <1>3, <2>1, <2>2, <2>3, SignOutStep, Zenon
<1> QED
  BY <1>1, <1>2, <1>4, <1>5, Zenon DEF AccessInv

(* The session of a request goes on under an id nobody has. *)
LEMMA RenewedStep ==
  ASSUME AccessInv, NEW r \in Requests, req[r] \in Request, req[r].pc = "handle",
         NEW via \in 0 .. MaxAttempts, Renewed(r, account', via),
         via = 0 \/ via = req[r].data.flow,
         UNCHANGED <<cookie, begun, planted, ended, shared>>,
         account' \in Table, Distinct(account'), attempt' \in [Attempts -> Attempt], Issued',
         \A k \in Attempts : attempt'[k].browser = attempt[k].browser
  PROVE  AccessInv'
<1>0. /\ AccessTypes /\ minted \in 0 .. MaxTokens /\ planted \subseteq Tokens /\ \A t \in ended : t <= minted
      /\ begun \in 0 .. MaxAttempts
  BY DEF AccessInv, AccessTypes
<1>1. AccessTypes'
  BY Zenon DEF AccessInv, AccessTypes, Renewed
<1>2. \A s \in Requests : Covered(req'[s], account')
  <2>1. req[r].acted = ""
    BY Zenon DEF AccessInv, Covered
  <2>2. req'[r].pc = "commit" /\ req'[r].acted = ""
    BY <2>1, Zenon DEF Renewed
  <2>3. Covered(req'[r], account')
    <3>1. req'[r].pc # "authenticate" /\ req'[r].pc # "handle"
      BY <2>2
    <3> QED
      BY <2>2, <3>1, Zenon DEF Covered
  <2> QED
    BY <1>0, <2>3, CoverStep, Zenon DEF Renewed, AccessInv
<1>3. minted' = minted + 1 /\ minted <= minted' /\ minted < minted + 1 /\ minted + 1 # 0
      /\ minted + 1 <= minted' /\ minted + 1 \in Tokens
  <2>1. minted' = minted + 1 /\ minted' \in 0 .. MaxTokens
    BY Zenon DEF Renewed
  <2> QED
    BY <1>0, <2>1, AccessBounds DEF Tokens
<1>4. Owned'
  <2>1. PICK own : DOMAIN own = Tokens /\ OwnedBy(own)
    BY Zenon DEF AccessInv, Owned
  <2>2. PICK own2 : own2 = [own EXCEPT ![minted + 1] = req[r].browser]
    BY Zenon
  <2>3. /\ DOMAIN own2 = Tokens /\ own2[minted + 1] = req[r].browser
        /\ \A t \in Tokens : t # minted + 1 => own2[t] = own[t]
    BY <1>3, <2>1, <2>2
  <2>4. \A t \in Tokens : t <= minted => own2[t] = own[t]
    <3>1. \A t \in Tokens : t <= minted => t # minted + 1
      BY <1>0, AccessBounds DEF Tokens
    <3> QED
      BY <2>3, <3>1, Zenon
  <2>5. RequestFits(req'[r], own2, attempt', begun', planted', minted')
    <3>1. PICK q \in Request : q = req[r]
      BY Zenon
    <3>2. PICK p \in Request : p = req'[r]
      BY Zenon DEF Renewed
    <3>3. /\ p.token = minted + 1 /\ p.browser = q.browser /\ p.data.via = via
          /\ p.data.flow = IF via = 0 THEN q.data.flow ELSE 0
      BY <3>1, <3>2, Zenon DEF Renewed
    <3>4. q.data.flow > 0 => q.data.flow <= begun /\ attempt[q.data.flow].browser = q.browser
      <4>1. q # Idle
        BY IdleShape
      <4> QED
        BY <2>1, <3>1, <4>1, Zenon DEF OwnedBy, RequestFits, Fits
    <3>5. q.data.flow \in -1 .. MaxAttempts
      BY DEF Request, Session
    <3>6. q.data.flow > 0 => q.data.flow \in Attempts
      BY <3>5, AccessBounds DEF Attempts
    <3>7. q.data.flow > 0 => q.data.flow <= begun /\ attempt'[q.data.flow].browser = q.browser
      BY <3>4, <3>6, Zenon
    <3>8. p.data.flow > 0 => p.data.flow <= begun /\ attempt'[p.data.flow].browser = p.browser
      <4>1. CASE via = 0
        BY <4>1, <3>3, <3>7, Zenon
      <4>2. CASE via # 0
        <5>1. p.data.flow = 0
          BY <4>2, <3>3, Zenon
        <5>2. ~(p.data.flow > 0)
          BY <5>1
        <5> QED
          BY <5>2
      <4> QED
        BY <4>1, <4>2
    <3>9. p.data.via > 0 => p.data.via <= begun /\ attempt'[p.data.via].browser = p.browser
      <4>1. CASE via = 0
        <5>1. ~(p.data.via > 0)
          BY <4>1, <3>3
        <5> QED
          BY <5>1
      <4>2. CASE via # 0
        BY <4>2, <3>1, <3>3, <3>7, Zenon
      <4> QED
        BY <4>1, <4>2
    <3>10. p.token # 0 /\ p.token \notin planted /\ p.token <= minted'
      <4>1. \A t \in planted : t <= minted
        BY <2>1, Zenon DEF OwnedBy
      <4>2. ~(minted + 1 <= minted)
        BY <1>0, AccessBounds
      <4> QED
        BY <1>3, <3>3, <4>1, <4>2, Zenon
    <3>11. own2[p.token] = p.browser
      BY <2>3, <3>1, <3>3, Zenon
    <3> QED
      BY <3>2, <3>8, <3>9, <3>10, <3>11, Zenon DEF RequestFits, Fits
  <2>6. \A s \in Requests : \/ req'[s] = Idle
                            \/ Like(req'[s], req[s])
                            \/ RequestFits(req'[s], own2, attempt', begun', planted', minted')
    <3> SUFFICES ASSUME NEW s \in Requests, s # r PROVE req'[s] = Idle \/ Like(req'[s], req[s])
      BY <2>5, Zenon
    <3>1. req'[s] = Noted(req[s], account')
      BY Zenon DEF Renewed
    <3>2. PICK rows : rows = account'
      BY Zenon
    <3>3. PICK q \in Request \cup {Idle} : q = req[s]
      BY <1>0 DEF AccessTypes
    <3>4. Noted(q, rows) = Idle \/ (q # Idle /\ Enriched(q, Noted(q, rows)))
      BY NotedShape, Zenon
    <3> QED
      BY <3>1, <3>2, <3>3, <3>4, Zenon DEF Enriched, Like
  <2>7. \A t \in planted' : (t \in planted \/ minted < t) /\ t <= minted'
    <3>1. \A t \in Tokens : t <= minted => t <= minted + 1
      BY <1>0, AccessBounds DEF Tokens
    <3> QED
      BY <1>0, <1>3, <2>1, <3>1, Zenon DEF OwnedBy
  <2>8. \A b \in Browsers : cookie'[b] = cookie[b]
    BY Zenon
  <2>9. \A t \in Tokens : store'[t] = store[t] \/ store'[t] = Absent
    BY <1>0 DEF Renewed, AccessTypes
  <2>10. begun <= begun'
    <3>1. begun <= begun
      BY <1>0, AccessBounds
    <3> QED
      BY <3>1, Zenon
  <2> QED
    BY <1>0, <1>1, <1>3, <2>1, <2>3, <2>4, <2>6, <2>7, <2>8, <2>9, <2>10, OwnedGrows, Zenon
<1>5. SignOutHolds' /\ \A t \in ended' : t <= minted'
  <2>1. \A s \in Requests : \/ req'[s] = Idle
                            \/ req[s] # Idle /\ req'[s].token = req[s].token
                            \/ minted < req'[s].token
    <3>1. minted < req'[r].token
      BY <1>3, Zenon DEF Renewed
    <3> SUFFICES ASSUME NEW s \in Requests, s # r
                 PROVE  req'[s] = Idle \/ (req[s] # Idle /\ req'[s].token = req[s].token)
      BY <3>1, Zenon
    <3>2. req'[s] = Noted(req[s], account')
      BY Zenon DEF Renewed
    <3>3. PICK rows : rows = account'
      BY Zenon
    <3>4. PICK q \in Request \cup {Idle} : q = req[s]
      BY <1>0 DEF AccessTypes
    <3>5. Noted(q, rows) = Idle \/ (q # Idle /\ Enriched(q, Noted(q, rows)))
      BY NotedShape, Zenon
    <3> QED
      BY <3>2, <3>3, <3>4, <3>5, Zenon DEF Enriched
  <2>2. SignOutHolds
    BY Zenon DEF AccessInv
  <2>3. ended' = ended /\ shared' = shared
    BY Zenon
  <2>4. \A t \in Tokens : store'[t] = store[t] \/ store'[t] = Absent
    BY <1>0 DEF Renewed, AccessTypes
  <2> QED
    BY <1>0, <1>1, <1>3, <2>1, <2>2, <2>3, <2>4, SignOutStep, Zenon
<1> QED
  BY <1>1, <1>2, <1>4, <1>5, Zenon DEF AccessInv

(* What AccessInv says of one request. *)
LEMMA RequestKnown ==
  ASSUME AccessInv, NEW r \in Requests, req[r] \in Request
  PROVE  /\ AccessTypes /\ Distinct(account) /\ Issued /\ Covered(req[r], account) /\ req[r] # Idle
         /\ req[r].data \in Session /\ req[r].token \in 0 .. MaxTokens
         /\ account \in Table /\ attempt \in [Attempts -> Attempt] /\ begun \in 0 .. MaxAttempts
         /\ begun <= begun
         /\ \A own : OwnedBy(own) =>
              /\ RequestFits(req[r], own, attempt, begun, planted, minted)
              /\ Fits(req[r].data, req[r].token, req[r].browser, attempt, begun, planted)
<1>1. AccessTypes /\ Distinct(account) /\ Issued /\ Covered(req[r], account) /\ req[r] # Idle
  BY IdleShape, Zenon DEF AccessInv
<1>2. req[r].data \in Session /\ req[r].token \in 0 .. MaxTokens
  BY DEF Request
<1>3. account \in Table /\ attempt \in [Attempts -> Attempt] /\ begun \in 0 .. MaxAttempts
  BY <1>1, Zenon DEF AccessTypes
<1>4. begun <= begun
  BY <1>3, AccessBounds
<1>5. \A own : OwnedBy(own) =>
              /\ RequestFits(req[r], own, attempt, begun, planted, minted)
              /\ Fits(req[r].data, req[r].token, req[r].browser, attempt, begun, planted)
  BY <1>1, Zenon DEF OwnedBy, RequestFits
<1> QED
  BY <1>1, <1>2, <1>3, <1>4, <1>5

(* The same request under data that fits as well. *)
LEMMA RequestFitsData ==
  ASSUME NEW q, NEW p, q # Idle, p.token = q.token, p.browser = q.browser,
         NEW own, NEW tries, NEW n, NEW plant, NEW m, RequestFits(q, own, tries, n, plant, m),
         NEW tries2, NEW n2, Fits(p.data, q.token, q.browser, tries2, n2, plant)
  PROVE  RequestFits(p, own, tries2, n2, plant, m)
BY Zenon DEF RequestFits

LEMMA ArriveKeeps ==
  ASSUME AccessInv, NEW r \in Requests, NEW b \in Browsers, NEW ask \in Asks, Arrive(r, b, ask)
  PROVE  AccessInv'
<1>0. /\ AccessTypes /\ Distinct(account) /\ Issued
      /\ account \in Table /\ attempt \in [Attempts -> Attempt] /\ begun \in 0 .. MaxAttempts
      /\ cookie[b] \in 0 .. MaxTokens
  BY DEF AccessInv, AccessTypes
<1>1. begun <= begun
  BY <1>0, AccessBounds
<1>2. UNCHANGED <<account, store, cookie, attempt, minted, begun, planted, ended, shared>>
  BY Zenon DEF Arrive
<1>3. PICK p : p = req'[r]
  BY Zenon
<1>4. /\ Kept(r)
      /\ p \in Request /\ p.pc = "authenticate" /\ p.browser = b
      /\ p.token = Loaded(cookie[b]).token /\ p.data = Loaded(cookie[b]).data
      /\ p.named = p.data.user /\ p.acted = "" /\ p.could = GatesOf(p.named, account)
  BY <1>0, <1>3, ArriveShape, Zenon
<1>5. Covered(p, account)
  <2>1. p.pc # "handle" /\ p.pc # "commit"
    BY <1>4
  <2> QED
    BY <1>4, <2>1, Zenon DEF Covered
<1>6. \/ cookie[b] \in Tokens /\ store[cookie[b]] # Absent /\ p.token = cookie[b] /\ p.data = store[cookie[b]]
      \/ p.token = 0 /\ p.data = NoSession
  BY <1>0, <1>4, LoadedShape, Zenon
<1>7. ASSUME NEW own, OwnedBy(own) PROVE RequestFits(p, own, attempt, begun, planted, minted)
  <2>1. PICK c : c = cookie[b]
    BY Zenon
  <2>2. c <= minted /\ (c # 0 => own[c] = b)
    BY <1>7, <2>1, Zenon DEF OwnedBy, CookieFits
  <2>3. CASE c \in Tokens /\ store[c] # Absent /\ p.token = c /\ p.data = store[c]
    <3>1. c # 0
      BY <2>3 DEF Tokens
    <3>2. Fits(store[c], c, own[c], attempt, begun, planted)
      BY <1>7, <2>3, Zenon DEF OwnedBy, RowFits
    <3> QED
      BY <1>4, <2>2, <2>3, <3>1, <3>2, Zenon DEF RequestFits
  <2>4. CASE p.token = 0 /\ p.data = NoSession
    <3>1. 0 <= minted
      BY <1>0, AccessBounds DEF AccessTypes
    <3>2. Fits(NoSession, p.token, p.browser, attempt, begun, planted)
      BY FitsFresh
    <3> QED
      BY <2>4, <3>1, <3>2, Zenon DEF RequestFits
  <2> QED
    BY <1>6, <2>1, <2>3, <2>4, Zenon
<1>8. p.token \notin Tokens \/ store[p.token] # Absent
  <2>1. 0 \notin Tokens
    BY DEF Tokens
  <2> QED
    BY <1>6, <2>1, Zenon
<1>9. UNCHANGED <<store, cookie, minted, planted, ended, shared>> /\ Issued'
  BY <1>0, <1>2, Zenon DEF Issued
<1> QED
  BY <1>0, <1>1, <1>2, <1>3, <1>4, <1>5, <1>7, <1>8, <1>9, HandledStep, Zenon

LEMMA AuthenticateKeeps ==
  ASSUME AccessInv, NEW r \in Requests, Authenticate(r)
  PROVE  AccessInv'
<1>1. AccessTypes /\ Distinct(account)
  BY Zenon DEF AccessInv
<1>2. PICK q, p : q = req[r] /\ p = req'[r]
  BY Zenon
<1>3. /\ q \in Request /\ q.pc = "authenticate" /\ Kept(r) /\ p \in Request /\ p.pc = "handle"
      /\ p.browser = q.browser /\ p.token = q.token /\ p.acted = q.acted /\ p.could = q.could
      /\ p.data = q.data \/ p.data = Anonymous(q.data)
  BY <1>1, <1>2, AuthenticateShape, Zenon
<1>4. p.user # "" => /\ q.data.user # ""
                     /\ \E a \in Accounts : /\ account[a].exists /\ account[a].name = q.data.user
                                            /\ account[a].active /\ p.row = account[a]
  BY <1>1, <1>2, AuthenticateShape, Zenon
<1>5. /\ Issued /\ Covered(q, account) /\ q # Idle /\ q.data \in Session
      /\ account \in Table /\ attempt \in [Attempts -> Attempt] /\ begun \in 0 .. MaxAttempts
      /\ begun <= begun
      /\ \A own : OwnedBy(own) =>
           /\ RequestFits(q, own, attempt, begun, planted, minted)
           /\ Fits(q.data, q.token, q.browser, attempt, begun, planted)
  BY <1>2, <1>3, RequestKnown, Zenon
<1>6. UNCHANGED <<account, store, cookie, attempt, minted, begun, planted, ended, shared>>
  BY Zenon DEF Authenticate
<1>7. Covered(p, account)
  <2>1. q.named = q.data.user /\ q.acted = "" /\ (q.named # "" => GatesOf(q.named, account) \subseteq q.could)
    BY <1>3, <1>5, Zenon DEF Covered
  <2>2. ASSUME p.user # "", NEW g \in Gates, Passes(p.row, g) PROVE g \in p.could
    <3>1. g \in GatesOf(q.data.user, account)
      BY <1>4, <2>2, Zenon DEF GatesOf
    <3> QED
      BY <1>3, <1>4, <2>1, <2>2, <3>1, Zenon
  <2>3. p.pc # "authenticate" /\ p.pc # "commit"
    BY <1>3
  <2> QED
    BY <1>3, <2>1, <2>2, <2>3, Zenon DEF Covered
<1>8. ASSUME NEW own, OwnedBy(own) PROVE RequestFits(p, own, attempt, begun, planted, minted)
  <2>1. Fits(p.data, q.token, q.browser, attempt, begun, planted)
    <3>1. CASE p.data = Anonymous(q.data)
      <4>1. PICK d : d = Anonymous(q.data)
        BY Zenon
      <4>2. d.user = "" /\ d.flow = q.data.flow /\ d.via = 0
        <5>1. 0 \in 0 .. MaxAttempts
          BY AccessBounds
        <5> QED
          BY <1>5, <4>1, <5>1, AnonymousShape, Zenon
      <4>3. ~(d.via > 0)
        <5>1. d.via = 0
          BY <4>2, Zenon
        <5> QED
          BY <5>1
      <4>4. Fits(d, q.token, q.browser, attempt, begun, planted)
        BY <1>5, <1>8, <4>2, <4>3, Zenon DEF Fits
      <4> QED
        BY <3>1, <4>1, <4>4, Zenon
    <3> QED
      BY <1>3, <1>5, <1>8, <3>1, Zenon
  <2> QED
    BY <1>3, <1>5, <1>8, <2>1, RequestFitsData
<1>9. UNCHANGED <<store, cookie, minted, planted, ended, shared>> /\ Issued'
  BY <1>5, <1>6, Zenon DEF Issued
<1> QED
  BY <1>1, <1>2, <1>3, <1>5, <1>6, <1>7, <1>8, <1>9, HandledStep, Zenon

LEMMA GuardedKeeps ==
  ASSUME AccessInv, NEW r \in Requests, Guarded(r)
  PROVE  AccessInv'
<1>1. AccessTypes /\ Distinct(account)
  BY Zenon DEF AccessInv
<1>2. PICK q, p : q = req[r] /\ p = req'[r]
  BY Zenon
<1>3. /\ q \in Request /\ q.pc = "handle" /\ Kept(r) /\ p \in Request /\ p.pc = "commit"
      /\ p.browser = q.browser /\ p.token = q.token /\ p.data = q.data /\ p.could = q.could
      /\ p.acted # "" => q.user # "" /\ p.acted \in Gates /\ Passes(q.row, p.acted)
  BY <1>1, <1>2, GuardedShape, Zenon
<1>5. /\ Issued /\ Covered(q, account) /\ q # Idle
      /\ account \in Table /\ attempt \in [Attempts -> Attempt] /\ begun \in 0 .. MaxAttempts
      /\ begun <= begun
      /\ \A own : OwnedBy(own) => RequestFits(q, own, attempt, begun, planted, minted)
  BY <1>2, <1>3, RequestKnown, Zenon
<1>6. UNCHANGED <<account, store, cookie, attempt, minted, begun, planted, ended, shared>>
  BY Zenon DEF Guarded
<1>7. Covered(p, account)
  <2>1. q.user # "" => \A g \in Gates : Passes(q.row, g) => g \in q.could
    BY <1>3, <1>5, Zenon DEF Covered
  <2>2. p.pc # "authenticate" /\ p.pc # "handle"
    BY <1>3
  <2> QED
    BY <1>3, <2>1, <2>2, Zenon DEF Covered
<1>8. ASSUME NEW own, OwnedBy(own) PROVE RequestFits(p, own, attempt, begun, planted, minted)
  BY <1>3, <1>5, <1>8, RequestFitsLike
<1>9. UNCHANGED <<store, cookie, minted, planted, ended, shared>> /\ Issued'
  BY <1>5, <1>6, Zenon DEF Issued
<1> QED
  BY <1>1, <1>2, <1>3, <1>5, <1>6, <1>7, <1>8, <1>9, HandledStep, Zenon

LEMMA LoginKeeps ==
  ASSUME AccessInv, NEW r \in Requests, Login(r)
  PROVE  AccessInv'
<1>1. AccessTypes /\ Distinct(account)
  BY Zenon DEF AccessInv
<1>2. UNCHANGED <<cookie, attempt, begun, planted, ended, shared>>
  BY Zenon DEF Login
<1>3. /\ req[r] \in Request /\ req[r].pc = "handle" /\ account' \in Table /\ Distinct(account')
      /\ \/ Renewed(r, account', 0)
         \/ account' = account /\ Passed(r) /\ req'[r].data = req[r].data
  BY <1>1, LoginShape, Zenon
<1>4. PICK q, p : q = req[r] /\ p = req'[r]
  BY Zenon
<1>5. /\ Issued /\ Covered(q, account) /\ q # Idle /\ q.pc = "handle"
      /\ attempt \in [Attempts -> Attempt] /\ begun \in 0 .. MaxAttempts /\ begun <= begun
      /\ \A own : OwnedBy(own) => RequestFits(q, own, attempt, begun, planted, minted)
  BY <1>3, <1>4, RequestKnown, Zenon
<1>6. Issued'
  BY <1>2, <1>5, Zenon DEF Issued
<1>7. CASE Renewed(r, account', 0)
  <2>1. 0 \in 0 .. MaxAttempts
    BY AccessBounds
  <2>2. UNCHANGED <<cookie, begun, planted, ended, shared>>
    BY <1>2, Zenon
  <2> QED
    BY <1>2, <1>3, <1>5, <1>6, <1>7, <2>1, <2>2, RenewedStep, Zenon
<1>8. CASE account' = account /\ Passed(r) /\ req'[r].data = req[r].data
  <2>1. /\ p \in Request /\ p.pc = "commit" /\ p.browser = q.browser /\ p.token = q.token
        /\ p.data = q.data /\ p.acted = q.acted /\ Kept(r) /\ UNCHANGED <<store, minted>>
    BY <1>4, <1>8, Zenon DEF Passed
  <2>2. Covered(p, account')
    <3>1. p.acted = ""
      BY <1>5, <2>1, Zenon DEF Covered
    <3>2. p.pc # "authenticate" /\ p.pc # "handle"
      BY <2>1
    <3> QED
      BY <3>1, <3>2, Zenon DEF Covered
  <2>3. ASSUME NEW own, OwnedBy(own) PROVE RequestFits(p, own, attempt, begun, planted, minted)
    BY <1>5, <2>1, <2>3, RequestFitsLike
  <2>4. UNCHANGED <<store, cookie, minted, planted, ended, shared>>
    BY <1>2, <2>1, Zenon
  <2> QED
    BY <1>2, <1>3, <1>4, <1>5, <1>6, <1>8, <2>1, <2>2, <2>3, <2>4, HandledStep, Zenon
<1> QED
  BY <1>3, <1>7, <1>8, Zenon

LEMMA CallbackKeeps ==
  ASSUME AccessInv, NEW r \in Requests, NEW up, OIDCCallback(r, up)
  PROVE  AccessInv'
<1>1. AccessTypes /\ Distinct(account) /\ Issued
  BY Zenon DEF AccessInv
<1>2. UNCHANGED <<cookie, begun, planted, ended, shared>>
  BY Zenon DEF OIDCCallback
<1>3. /\ req[r] \in Request /\ req[r].pc = "handle" /\ account' \in Table /\ Distinct(account')
      /\ attempt' \in [Attempts -> Attempt] /\ Issued'
      /\ \A n \in Attempts : attempt'[n].browser = attempt[n].browser
      /\ \/ req[r].data.flow \in Attempts /\ Renewed(r, account', req[r].data.flow)
         \/ /\ Passed(r) /\ req'[r].data = WithFlow(req[r].data, 0)
            /\ \A name : GatesOf(name, account') \subseteq GatesOf(name, account)
  BY <1>1, CallbackShape, Zenon
<1>4. PICK q, p : q = req[r] /\ p = req'[r]
  BY Zenon
<1>5. /\ Covered(q, account) /\ q # Idle /\ q.data \in Session
      /\ begun \in 0 .. MaxAttempts /\ begun <= begun
      /\ \A own : OwnedBy(own) => /\ RequestFits(q, own, attempt, begun, planted, minted)
                                  /\ Fits(q.data, q.token, q.browser, attempt, begun, planted)
  BY <1>3, <1>4, RequestKnown, Zenon
<1>6. CASE req[r].data.flow \in Attempts /\ Renewed(r, account', req[r].data.flow)
  <2>1. PICK via \in 0 .. MaxAttempts : via = req[r].data.flow
    <3>1. Attempts \subseteq 0 .. MaxAttempts
      BY AccessBounds DEF Attempts
    <3> QED
      BY <1>6, <3>1, Zenon
  <2> QED
    BY <1>2, <1>3, <1>6, <2>1, RenewedStep, Zenon
<1>7. CASE /\ Passed(r) /\ req'[r].data = WithFlow(req[r].data, 0)
           /\ \A name : GatesOf(name, account') \subseteq GatesOf(name, account)
  <2>1. /\ p \in Request /\ p.pc = "commit" /\ p.browser = q.browser /\ p.token = q.token
        /\ p.data = WithFlow(q.data, 0) /\ p.acted = q.acted /\ Kept(r) /\ UNCHANGED <<store, minted>>
    BY <1>4, <1>7, Zenon DEF Passed
  <2>2. Covered(p, account')
    <3>1. p.acted = ""
      BY <1>3, <1>4, <1>5, <2>1, Zenon DEF Covered
    <3>2. p.pc # "authenticate" /\ p.pc # "handle"
      BY <2>1
    <3> QED
      BY <3>1, <3>2, Zenon DEF Covered
  <2>3. ASSUME NEW own, OwnedBy(own) PROVE RequestFits(p, own, attempt', begun, planted, minted)
    <3>1. p.data.user = q.data.user /\ p.data.flow = 0 /\ p.data.via = q.data.via
      <4>1. 0 \in 0 .. MaxAttempts
        BY AccessBounds
      <4> QED
        BY <1>5, <2>1, <4>1, WithFlowShape, Zenon
    <3>2. ~(p.data.flow > 0)
      <4>1. p.data.flow = 0
        BY <3>1, Zenon
      <4> QED
        BY <4>1
    <3>3. q.data.via > 0 => q.data.via \in Attempts
      BY <1>5, ViaShape, Zenon
    <3>4. Fits(p.data, q.token, q.browser, attempt', begun, planted)
      BY <1>3, <1>5, <2>3, <3>1, <3>2, <3>3, Zenon DEF Fits
    <3> QED
      BY <1>5, <2>1, <2>3, <3>4, RequestFitsData
  <2>4. UNCHANGED <<store, cookie, minted, planted, ended, shared>>
    BY <1>2, <2>1, Zenon
  <2> QED
    BY <1>2, <1>3, <1>4, <1>5, <1>7, <2>1, <2>2, <2>3, <2>4, HandledStep, Zenon
<1> QED
  BY <1>3, <1>6, <1>7, Zenon

LEMMA StartKeeps ==
  ASSUME AccessInv, NEW r \in Requests, OIDCStart(r)
  PROVE  AccessInv'
<1>1. AccessTypes /\ Distinct(account) /\ Issued
  BY Zenon DEF AccessInv
<1>2. UNCHANGED <<account, store, cookie, minted, planted, ended, shared>>
  BY Zenon DEF OIDCStart
<1>3. PICK q, p : q = req[r] /\ p = req'[r]
  BY Zenon
<1>4. /\ q \in Request /\ q.pc = "handle" /\ begun + 1 \in Attempts /\ begun' = begun + 1
      /\ begun' \in 0 .. MaxAttempts /\ attempt' \in [Attempts -> Attempt]
      /\ attempt'[begun + 1].browser = q.browser /\ attempt'[begun + 1].code = "none"
      /\ \A n \in Attempts \ {begun + 1} : attempt'[n] = attempt[n]
      /\ Kept(r) /\ p \in Request /\ p.pc = "commit" /\ p.browser = q.browser /\ p.token = q.token
      /\ p.data = WithFlow(q.data, begun + 1) /\ p.acted = q.acted
  BY <1>1, <1>3, OIDCStartShape, Zenon
<1>5. /\ Covered(q, account) /\ q # Idle /\ q.data \in Session /\ account \in Table
      /\ begun \in 0 .. MaxAttempts
      /\ \A own : OwnedBy(own) => /\ RequestFits(q, own, attempt, begun, planted, minted)
                                  /\ Fits(q.data, q.token, q.browser, attempt, begun, planted)
  BY <1>3, <1>4, RequestKnown, Zenon
<1>6. /\ begun <= begun' /\ \A k \in Attempts : k <= begun => k # begun + 1
      /\ begun + 1 <= begun' /\ \A k \in Attempts : k <= begun => k <= begun'
  BY <1>4, <1>5, AccessBounds DEF Attempts
<1>7. Issued'
  <2>1. attempt'[begun + 1].code # "issued"
    BY <1>4
  <2> QED
    BY <1>1, <1>4, <2>1, Zenon DEF Issued
<1>8. \A k \in Attempts : k <= begun => attempt'[k].browser = attempt[k].browser
  BY <1>4, <1>6, Zenon
<1>9. Covered(p, account')
  <2>1. p.acted = ""
    BY <1>4, <1>5, Zenon DEF Covered
  <2>2. p.pc # "authenticate" /\ p.pc # "handle"
    BY <1>4
  <2> QED
    BY <2>1, <2>2, Zenon DEF Covered
<1>10. ASSUME NEW own, OwnedBy(own) PROVE RequestFits(p, own, attempt', begun', planted, minted)
  <2>1. p.data.user = q.data.user /\ p.data.flow = begun + 1 /\ p.data.via = q.data.via
    <3>1. PICK n \in 0 .. MaxAttempts : n = begun + 1
      BY <1>4, Zenon
    <3> QED
      BY <1>4, <1>5, <3>1, WithFlowShape, Zenon
  <2>2. q.data.via > 0 => q.data.via \in Attempts
    BY <1>5, ViaShape, Zenon
  <2>3. Fits(p.data, q.token, q.browser, attempt', begun', planted)
    BY <1>4, <1>5, <1>6, <1>8, <1>10, <2>1, <2>2, Zenon DEF Fits
  <2> QED
    BY <1>4, <1>5, <1>10, <2>3, RequestFitsData
<1>11. UNCHANGED <<store, cookie, minted, planted, ended, shared>>
  BY <1>2, Zenon
<1>12. Distinct(account') /\ account' \in Table /\ \A name : GatesOf(name, account') \subseteq GatesOf(name, account)
  BY <1>1, <1>2, <1>5, Zenon
<1> QED
  BY <1>3, <1>4, <1>5, <1>6, <1>7, <1>8, <1>9, <1>10, <1>11, <1>12, HandledStep, Zenon

LEMMA LogoutKeeps ==
  ASSUME AccessInv, NEW r \in Requests, Logout(r)
  PROVE  AccessInv'
<1>0. /\ AccessTypes /\ Distinct(account) /\ Issued /\ SignOutHolds /\ \A t \in ended : t <= minted
      /\ minted \in 0 .. MaxTokens /\ begun \in 0 .. MaxAttempts
      /\ ended \subseteq Tokens /\ shared \subseteq ended
  BY Zenon DEF AccessInv, AccessTypes
<1>1. UNCHANGED <<account, cookie, attempt, minted, begun, planted>>
  BY Zenon DEF Logout
<1>2. PICK q, p : q = req[r] /\ p = req'[r]
  BY Zenon
<1>3. /\ q \in Request /\ q.pc = "handle" /\ Kept(r) /\ p \in Request /\ p.pc = "commit"
      /\ p.browser = q.browser /\ p.token = 0 /\ p.data = NoSession /\ p.acted = q.acted
  BY <1>0, <1>2, LogoutShape, Zenon
<1>4. /\ Covered(q, account) /\ q # Idle /\ q.token \in 0 .. MaxTokens
      /\ \A own : OwnedBy(own) => RequestFits(q, own, attempt, begun, planted, minted)
  BY <1>2, <1>3, RequestKnown, Zenon
<1>5. q.token # 0 => q.token \in Tokens
  BY <1>4, AccessBounds DEF Tokens
<1>6. q.token <= minted
  BY <1>4, Zenon DEF AccessInv, Owned, RequestFits
<1>7. PICK copied \in BOOLEAN : copied <=> \E s \in Requests \ {r} : req[s].pc # "idle" /\ req[s].token = q.token
  OBVIOUS
<1>8. /\ store' = IF q.token = 0 THEN store ELSE [store EXCEPT ![q.token] = Absent]
      /\ ended' = ended \cup ({q.token} \ {0})
      /\ shared' = IF copied THEN shared \cup ({q.token} \ {0}) ELSE shared
  BY <1>2, <1>7, Zenon DEF Logout, SignedOut
<1>9. /\ \A t \in Tokens : store'[t] = store[t] \/ store'[t] = Absent
      /\ q.token # 0 => store'[q.token] = Absent
      /\ store' \in [Tokens -> Session]
  BY <1>0, <1>5, <1>8, SessionShape DEF AccessTypes
<1>10. AccessTypes'
  <2>1. ended' \subseteq Tokens /\ shared' \subseteq ended'
    BY <1>0, <1>5, <1>8
  <2> QED
    BY <1>0, <1>1, <1>3, <1>9, <2>1, Zenon DEF AccessTypes, Kept
<1>11. \A s \in Requests : Covered(req'[s], account')
  <2>1. Covered(p, account')
    <3>1. p.acted = ""
      BY <1>3, <1>4, Zenon DEF Covered
    <3>2. p.pc # "authenticate" /\ p.pc # "handle"
      BY <1>3
    <3> QED
      BY <3>1, <3>2, Zenon DEF Covered
  <2>2. \A s \in Requests : Covered(req[s], account)
    BY Zenon DEF AccessInv
  <2>3. \A s \in Requests \ {r} : req'[s] = req[s]
    BY <1>3, Zenon DEF Kept
  <2>4. \A name : GatesOf(name, account') \subseteq GatesOf(name, account)
    BY <1>1, Zenon
  <2> QED
    BY <1>0, <1>2, <2>1, <2>2, <2>3, <2>4, CoverStep, Zenon
<1>12. Owned'
  <2>1. PICK own : DOMAIN own = Tokens /\ OwnedBy(own)
    BY Zenon DEF AccessInv, Owned
  <2>2. minted <= minted /\ begun <= begun /\ 0 <= minted
    BY <1>0, AccessBounds
  <2>3. RequestFits(p, own, attempt', begun', planted', minted')
    <3>1. Fits(NoSession, p.token, p.browser, attempt', begun', planted')
      BY FitsFresh
    <3> QED
      BY <1>1, <1>3, <2>2, <3>1, Zenon DEF RequestFits
  <2>4. \A s \in Requests : \/ req'[s] = Idle
                            \/ Like(req'[s], req[s])
                            \/ RequestFits(req'[s], own, attempt', begun', planted', minted')
    BY <1>2, <1>3, <2>3, Zenon DEF Kept, Like
  <2>5. \A t \in planted' : (t \in planted \/ minted < t) /\ t <= minted'
    BY <1>1, <2>1, Zenon DEF OwnedBy
  <2>6. minted <= minted' /\ begun <= begun' /\ \A b \in Browsers : cookie'[b] = cookie[b]
    BY <1>1, <2>2, Zenon
  <2>7. \A k \in Attempts : attempt'[k].browser = attempt[k].browser
    BY <1>1, Zenon
  <2> QED
    BY <1>0, <1>9, <1>10, <2>1, <2>4, <2>5, <2>6, <2>7, OwnedGrows, Zenon
<1>13. \A t \in ended' : t <= minted'
  BY <1>0, <1>1, <1>6, <1>8, Zenon
<1>14. SignOutHolds'
  <2>1. \A s \in Requests : req[s] = Idle <=> req[s].pc = "idle"
    <3>1. \A s \in Requests : req[s] \in Request \cup {Idle}
      BY <1>0 DEF AccessTypes
    <3> QED
      BY <3>1, IdleShape, Zenon
  <2> SUFFICES ASSUME NEW t \in ended' \ shared'
               PROVE  store'[t] = Absent /\ \A s \in Requests : req'[s].pc # "idle" => req'[s].token # t
    BY Zenon DEF SignOutHolds
  <2>2. t # 0 /\ t \in Tokens
    <3>1. t \in Tokens
      BY <1>10, Zenon DEF AccessTypes
    <3> QED
      BY <3>1 DEF Tokens
  <2>3. p.token # t
    BY <1>3, <2>2, Zenon
  <2>4. CASE t = q.token
    <3>1. ~copied
      BY <1>8, <2>2, <2>4, Zenon
    <3>2. \A s \in Requests \ {r} : req[s].pc # "idle" => req[s].token # t
      BY <1>7, <2>4, <3>1, Zenon
    <3>3. store'[t] = Absent
      <4>1. q.token # 0
        BY <2>2, <2>4
      <4> QED
        BY <1>9, <2>4, <4>1
    <3>4. \A s \in Requests \ {r} : req'[s].pc # "idle" => req'[s].token # t
      BY <1>3, <3>2, Zenon DEF Kept
    <3> QED
      BY <1>2, <2>3, <3>3, <3>4, Zenon
  <2>5. CASE t # q.token
    <3>1. t \in ended \ shared
      BY <1>8, <2>5, Zenon
    <3>2. store[t] = Absent /\ \A s \in Requests : req[s].pc # "idle" => req[s].token # t
      BY <1>0, <3>1, Zenon DEF SignOutHolds
    <3> QED
      BY <1>2, <1>3, <1>9, <2>2, <2>3, <3>2, Zenon DEF Kept
  <2> QED
    BY <2>4, <2>5
<1>15. Distinct(account') /\ Issued'
  BY <1>0, <1>1, Zenon DEF Issued
<1> QED
  BY <1>10, <1>11, <1>12, <1>13, <1>14, <1>15, Zenon DEF AccessInv

(* Nothing but the sessions' data or the accounts' rows has changed. *)
LEMMA QuietStep ==
  ASSUME AccessInv, UNCHANGED <<cookie, minted, begun, planted, ended, shared>>,
         account' \in Table, Distinct(account'),
         store' \in [Tokens -> Session], \A t \in Tokens : store'[t] = store[t] \/ store'[t] = Absent,
         attempt' \in [Attempts -> Attempt], Issued',
         \A k \in Attempts : attempt'[k].browser = attempt[k].browser,
         \/ req' = Noting(account')
         \/ req' = req /\ account' = account
  PROVE  AccessInv'
<1>0. /\ AccessTypes /\ SignOutHolds /\ \A t \in ended : t <= minted
      /\ minted \in 0 .. MaxTokens /\ begun \in 0 .. MaxAttempts
      /\ \A s \in Requests : Covered(req[s], account)
  BY Zenon DEF AccessInv, AccessTypes
<1>1. minted <= minted' /\ begun <= begun'
  <2>1. minted <= minted /\ begun <= begun
    BY <1>0, AccessBounds
  <2> QED
    BY <2>1, Zenon
<1>2. \/ \A s \in Requests : req'[s] = Noted(req[s], account')
      \/ /\ \A s \in Requests : req'[s] = req[s]
         /\ \A name : GatesOf(name, account') \subseteq GatesOf(name, account)
  <2>1. CASE req' = Noting(account')
    BY <2>1 DEF Noting
  <2>2. CASE req' = req /\ account' = account
    BY <2>2, Zenon
  <2> QED
    BY <2>1, <2>2, Zenon
<1>3. ASSUME NEW s \in Requests
      PROVE  /\ req'[s] \in Request \cup {Idle}
             /\ req'[s] = Idle \/ (Like(req'[s], req[s]) /\ req[s] # Idle /\ req'[s].token = req[s].token)
  <2>1. PICK q \in Request \cup {Idle} : q = req[s]
    BY <1>0 DEF AccessTypes
  <2>2. PICK rows : rows = account'
    BY Zenon
  <2>3. Noted(q, rows) = Idle \/ (q # Idle /\ Enriched(q, Noted(q, rows)))
    BY NotedShape, Zenon
  <2>4. CASE req'[s] = Noted(req[s], account')
    <3>1. req'[s] = Noted(q, rows)
      BY <2>1, <2>2, <2>4, Zenon
    <3>2. CASE Noted(q, rows) = Idle
      BY <3>1, <3>2
    <3>3. CASE q # Idle /\ Enriched(q, Noted(q, rows))
      BY <2>1, <3>1, <3>3, Zenon DEF Enriched, Like
    <3> QED
      BY <2>3, <3>2, <3>3, Zenon
  <2>5. CASE req'[s] = req[s]
    BY <2>1, <2>5, Zenon DEF Like
  <2> QED
    BY <1>2, <2>4, <2>5, Zenon
<1>4. AccessTypes'
  <2>1. req' \in [Requests -> Request \cup {Idle}]
    <3>1. req' = [s \in Requests |-> req'[s]]
      BY <1>0 DEF Noting, AccessTypes
    <3> QED
      BY <1>3, <3>1
  <2> QED
    BY <1>0, <2>1, Zenon DEF AccessTypes
<1>5. \A s \in Requests : Covered(req'[s], account')
  <2>1. PICK r : r \notin Requests
    BY NoSetContainsEverything, Zenon
  <2> QED
    BY <1>0, <1>2, <2>1, CoverStep, Zenon
<1>6. Owned'
  <2>1. PICK own : DOMAIN own = Tokens /\ OwnedBy(own)
    BY Zenon DEF AccessInv, Owned
  <2>2. \A t \in planted' : (t \in planted \/ minted < t) /\ t <= minted'
    BY <2>1, Zenon DEF OwnedBy
  <2>3. \A b \in Browsers : cookie'[b] = cookie[b]
    BY Zenon
  <2> QED
    BY <1>0, <1>1, <1>3, <1>4, <2>1, <2>2, <2>3, OwnedGrows, Zenon
<1>7. SignOutHolds' /\ \A t \in ended' : t <= minted'
  <2>1. ended' = ended /\ shared' = shared
    BY Zenon
  <2> QED
    BY <1>0, <1>1, <1>3, <1>4, <2>1, SignOutStep, Zenon
<1> QED
  BY <1>4, <1>5, <1>6, <1>7, Zenon DEF AccessInv

LEMMA AmendKeeps ==
  ASSUME AccessInv, NEW a \in Accounts, NEW change \in Amendments, Amend(a, change[1], change[2])
  PROVE  AccessInv'
<1>1. /\ AccessTypes /\ Distinct(account) /\ Issued /\ store \in [Tokens -> Session]
      /\ attempt \in [Attempts -> Attempt]
  BY Zenon DEF AccessInv, AccessTypes
<1>2. UNCHANGED <<store, cookie, attempt, minted, begun, planted, ended, shared>> /\ account[a].exists
  BY Zenon DEF Amend
<1>3. PICK rows : rows = [account EXCEPT ![a] = [@ EXCEPT ![change[1]] = change[2]]]
  BY Zenon
<1>4. account' = rows /\ req' = Noting(rows)
  BY <1>3, Zenon DEF Amend
<1>5. rows \in Table /\ Distinct(rows)
  BY <1>1, <1>2, <1>3, AmendShape, Zenon
<1>6. Issued' /\ \A t \in Tokens : store'[t] = store[t]
  BY <1>1, <1>2, Zenon DEF Issued
<1>7. UNCHANGED <<cookie, minted, begun, planted, ended, shared>>
  BY <1>2, Zenon
<1>8. \A k \in Attempts : attempt'[k].browser = attempt[k].browser
  BY <1>2, Zenon
<1>9. req' = Noting(account')
  <2>1. \A s \in Requests : Noted(req[s], account') = Noted(req[s], rows)
    BY <1>4, Zenon
  <2> QED
    BY <1>4, <2>1 DEF Noting
<1> QED
  BY <1>1, <1>2, <1>4, <1>5, <1>6, <1>7, <1>8, <1>9, QuietStep, Zenon

LEMMA ConsentKeeps ==
  ASSUME AccessInv, NEW n \in Attempts, NEW s \in Subjects, NEW name \in Claimed, Consent(n, s, name)
  PROVE  AccessInv'
<1>1. /\ AccessTypes /\ Distinct(account) /\ Issued /\ store \in [Tokens -> Session]
      /\ attempt \in [Attempts -> Attempt] /\ account \in Table
  BY Zenon DEF AccessInv, AccessTypes
<1>2. UNCHANGED <<account, store, cookie, req, minted, begun, planted, ended, shared>>
  BY Zenon DEF Consent
<1>3. PICK old \in Attempt : old = attempt[n]
  BY <1>1
<1>4. PICK new : new = [old EXCEPT !.code = "issued", !.subject = s, !.name = name]
  BY Zenon
<1>5. /\ new \in Attempt /\ new.browser = old.browser /\ new.code = "issued" /\ new.subject = s
      /\ new.name = name
  BY <1>4 DEF Attempt
<1>6. attempt' = [attempt EXCEPT ![n] = new]
  BY <1>1, <1>3, <1>4 DEF Consent
<1>7. attempt' \in [Attempts -> Attempt] /\ attempt'[n] = new /\ \A k \in Attempts \ {n} : attempt'[k] = attempt[k]
  BY <1>1, <1>5, <1>6
<1>8. Issued' /\ \A k \in Attempts : attempt'[k].browser = attempt[k].browser
  <2>1. Issued'
    BY <1>1, <1>5, <1>7, Zenon DEF Issued
  <2>2. \A k \in Attempts : attempt'[k].browser = attempt[k].browser
    BY <1>3, <1>5, <1>7, Zenon
  <2> QED
    BY <2>1, <2>2
<1>9. UNCHANGED <<cookie, minted, begun, planted, ended, shared>>
  BY <1>2, Zenon
<1>10. req' = req /\ account' = account /\ store' = store
  BY <1>2, Zenon
<1>11. account' \in Table /\ Distinct(account') /\ store' \in [Tokens -> Session] /\ \A t \in Tokens : store'[t] = store[t]
  BY <1>1, <1>10, Zenon
<1> QED
  BY <1>7, <1>8, <1>9, <1>10, <1>11, QuietStep, Zenon

LEMMA ExpireKeeps ==
  ASSUME AccessInv, NEW t \in Tokens, Expire(t)
  PROVE  AccessInv'
<1>1. /\ AccessTypes /\ Distinct(account) /\ Issued /\ store \in [Tokens -> Session]
      /\ attempt \in [Attempts -> Attempt] /\ account \in Table
  BY Zenon DEF AccessInv, AccessTypes
<1>2. UNCHANGED <<account, cookie, attempt, req, minted, begun, planted, ended, shared>>
  BY Zenon DEF Expire
<1>3. store' \in [Tokens -> Session] /\ \A x \in Tokens : store'[x] = store[x] \/ store'[x] = Absent
  BY <1>1, SessionShape DEF Expire
<1>4. Issued' /\ \A k \in Attempts : attempt'[k].browser = attempt[k].browser
  BY <1>1, <1>2, Zenon DEF Issued
<1>5. UNCHANGED <<cookie, minted, begun, planted, ended, shared>>
  BY <1>2, Zenon
<1>6. req' = req /\ account' = account /\ attempt' = attempt
  BY <1>2, Zenon
<1>7. account' \in Table /\ Distinct(account') /\ attempt' \in [Attempts -> Attempt]
  BY <1>1, <1>6, Zenon
<1> QED
  BY <1>3, <1>4, <1>5, <1>6, <1>7, QuietStep, Zenon

(* The session is written back, or left, and the cookie set. *)
LEMMA CommitKeeps ==
  ASSUME AccessInv, NEW r \in Requests, Commit(r)
  PROVE  AccessInv'
<1>0. /\ AccessTypes /\ Distinct(account) /\ Issued /\ SignOutHolds /\ \A t \in ended : t <= minted
      /\ minted \in 0 .. MaxTokens /\ begun \in 0 .. MaxAttempts /\ planted \subseteq Tokens
      /\ store \in [Tokens -> Session] /\ cookie \in [Browsers -> 0 .. MaxTokens]
  BY Zenon DEF AccessInv, AccessTypes
<1>1. UNCHANGED <<account, attempt, begun, ended, shared>> /\ req' = [req EXCEPT ![r] = Idle]
  BY Zenon DEF Commit
<1>2. PICK q \in Request : q = req[r] /\ q.pc = "commit"
  <2>1. req[r] \in Request \cup {Idle} /\ req[r].pc = "commit"
    BY <1>0 DEF Commit, AccessTypes
  <2>2. req[r] # Idle
    BY <2>1, IdleShape
  <2> QED
    BY <2>1, <2>2
<1>3. PICK fresh \in BOOLEAN : fresh <=> (q.token = 0)
  OBVIOUS
<1>4. PICK keep \in BOOLEAN : keep <=> (q.status = "modified")
  OBVIOUS
<1>5. PICK token : token = IF fresh THEN minted + 1 ELSE q.token
  BY Zenon
<1>6. /\ keep /\ fresh => minted < MaxTokens
      /\ store' = IF keep THEN [store EXCEPT ![token] = q.data] ELSE store
      /\ minted' = IF keep /\ fresh THEN minted + 1 ELSE minted
      /\ planted' = IF keep /\ fresh THEN planted \cup {token} ELSE planted
  <2>1. /\ q.status = "modified" /\ q.token = 0 => minted < MaxTokens
        /\ store' = IF q.status = "modified"
                    THEN [store EXCEPT ![IF q.token = 0 THEN minted + 1 ELSE q.token] = q.data] ELSE store
        /\ minted' = IF q.status = "modified" /\ q.token = 0 THEN minted + 1 ELSE minted
        /\ planted' = IF q.status = "modified" /\ q.token = 0
                      THEN planted \cup {IF q.token = 0 THEN minted + 1 ELSE q.token} ELSE planted
    BY <1>2, Zenon DEF Commit
  <2>2. token = IF q.token = 0 THEN minted + 1 ELSE q.token
    BY <1>3, <1>5, Zenon
  <2> QED
    BY <1>3, <1>4, <2>1, <2>2, Zenon
<1>7. \/ keep /\ cookie' = [cookie EXCEPT ![q.browser] = token]
      \/ cookie' = [cookie EXCEPT ![q.browser] = 0]
      \/ cookie' = cookie
  BY <1>2, <1>3, <1>4, <1>5 DEF Commit
<1>8. /\ q.data \in Session /\ q.token \in 0 .. MaxTokens /\ q.browser \in Browsers
  BY DEF Request
<1>9. /\ q # Idle
      /\ \A own : OwnedBy(own) => RequestFits(q, own, attempt, begun, planted, minted)
  BY <1>2, RequestKnown, Zenon
<1>10. /\ minted' \in 0 .. MaxTokens /\ minted <= minted'
       /\ keep => token \in Tokens /\ token # 0
       /\ keep /\ fresh => token = minted + 1 /\ minted' = token /\ minted < token /\ token <= minted'
       /\ ~(keep /\ fresh) => minted' = minted
       /\ 0 <= minted' /\ 0 \in 0 .. MaxTokens
  <2>1. q.token # 0 => q.token \in Tokens
    BY <1>8, AccessBounds DEF Tokens
  <2>2. CASE keep /\ fresh
    <3>1. minted < MaxTokens /\ minted' = minted + 1 /\ token = minted + 1
      BY <1>5, <1>6, <2>2, Zenon
    <3>2. /\ minted' \in 0 .. MaxTokens /\ minted <= minted' /\ token \in Tokens /\ token # 0
          /\ minted' = token /\ minted < token /\ token <= minted' /\ 0 <= minted' /\ 0 \in 0 .. MaxTokens
      BY <1>0, <3>1, AccessBounds DEF Tokens
    <3> QED
      BY <2>2, <3>1, <3>2, Zenon
  <2>3. CASE ~(keep /\ fresh)
    <3>1. minted' = minted
      BY <1>6, <2>3, Zenon
    <3>2. minted' \in 0 .. MaxTokens /\ minted <= minted' /\ 0 <= minted' /\ 0 \in 0 .. MaxTokens
      BY <1>0, <3>1, AccessBounds
    <3>3. keep => token = q.token /\ q.token # 0
      BY <1>3, <1>5, <2>3, Zenon
    <3> QED
      BY <2>1, <2>3, <3>1, <3>2, <3>3, Zenon
  <2> QED
    BY <2>2, <2>3, Zenon
<1>11. /\ store' \in [Tokens -> Session]
       /\ \A t \in Tokens : store'[t] = store[t] \/ (keep /\ t = token /\ store'[t] = q.data)
  <2>1. CASE keep
    BY <1>0, <1>6, <1>8, <1>10, <2>1
  <2>2. CASE ~keep
    BY <1>0, <1>6, <2>2
  <2> QED
    BY <2>1, <2>2
<1>12. /\ cookie' \in [Browsers -> 0 .. MaxTokens]
       /\ \A b \in Browsers : \/ cookie'[b] = cookie[b]
                              \/ keep /\ b = q.browser /\ cookie'[b] = token
                              \/ cookie'[b] = 0
  <2>1. CASE keep /\ cookie' = [cookie EXCEPT ![q.browser] = token]
    <3>1. token \in 0 .. MaxTokens
      <4>1. Tokens \subseteq 0 .. MaxTokens
        BY AccessBounds DEF Tokens
      <4> QED
        BY <1>10, <2>1, <4>1
    <3> QED
      BY <1>0, <1>8, <2>1, <3>1
  <2>2. CASE cookie' = [cookie EXCEPT ![q.browser] = 0]
    BY <1>0, <1>8, <1>10, <2>2
  <2>3. CASE cookie' = cookie
    BY <1>0, <2>3
  <2> QED
    BY <1>7, <2>1, <2>2, <2>3
<1>13. /\ req' \in [Requests -> Request \cup {Idle}] /\ req'[r] = Idle
       /\ \A s \in Requests \ {r} : req'[s] = req[s]
  BY <1>0, <1>1 DEF AccessTypes
<1>14. AccessTypes'
  <2>1. planted' \subseteq Tokens
    BY <1>0, <1>6, <1>10
  <2> QED
    BY <1>0, <1>1, <1>10, <1>11, <1>12, <1>13, <2>1, Zenon DEF AccessTypes
<1>15. \A s \in Requests : Covered(req'[s], account')
  <2>1. Covered(req'[r], account')
    BY <1>13, CoveredIdle, Zenon
  <2>2. \A s \in Requests : Covered(req[s], account)
    BY Zenon DEF AccessInv
  <2>3. \A name : GatesOf(name, account') \subseteq GatesOf(name, account)
    BY <1>1, Zenon
  <2> QED
    BY <1>0, <1>13, <2>1, <2>2, <2>3, CoverStep, Zenon
<1>16. SignOutHolds' /\ \A t \in ended' : t <= minted'
  <2>1. ASSUME NEW t \in Tokens
        PROVE  \/ store'[t] = store[t] \/ store'[t] = Absent \/ minted < t
               \/ \E s \in Requests : req[s] # Idle /\ req[s].token = t
    <3>1. CASE keep /\ t = token
      <4>1. fresh => minted < t
        BY <1>10, <3>1, Zenon
      <4>2. ~fresh => req[r] # Idle /\ req[r].token = t
        BY <1>2, <1>5, <1>9, <3>1, Zenon
      <4> QED
        BY <1>3, <4>1, <4>2, Zenon
    <3> QED
      BY <1>11, <3>1, Zenon
  <2>2. ended' = ended /\ shared' = shared
    BY <1>1, Zenon
  <2>3. \A s \in Requests : \/ req'[s] = Idle
                            \/ req[s] # Idle /\ req'[s].token = req[s].token
    BY <1>13, Zenon
  <2> QED
    BY <1>0, <1>10, <1>14, <2>1, <2>2, <2>3, SignOutStep, Zenon
<1>17. Owned'
  <2>1. PICK own : DOMAIN own = Tokens /\ OwnedBy(own)
    BY Zenon DEF AccessInv, Owned
  <2>2. PICK own2 : own2 = IF keep /\ fresh THEN [own EXCEPT ![token] = q.browser] ELSE own
    BY Zenon
  <2>3. /\ DOMAIN own2 = Tokens
        /\ \A t \in Tokens : ~(keep /\ fresh /\ t = token) => own2[t] = own[t]
        /\ keep /\ fresh => own2[token] = q.browser
    <3>1. CASE keep /\ fresh
      BY <1>10, <2>1, <2>2, <3>1
    <3>2. CASE ~(keep /\ fresh)
      BY <2>1, <2>2, <3>2
    <3> QED
      BY <3>1, <3>2
  <2>4. /\ q.token <= minted /\ (q.token # 0 => own[q.token] = q.browser)
        /\ Fits(q.data, q.token, q.browser, attempt, begun, planted)
    BY <1>9, <2>1, Zenon DEF RequestFits
  <2>5. \A t \in Tokens : t <= minted => own2[t] = own[t]
    <3>1. \A t \in Tokens : t <= minted => ~(minted < t)
      BY <1>0, AccessBounds DEF Tokens
    <3> QED
      BY <1>10, <2>3, <3>1, Zenon
  <2>6. keep => own2[token] = q.browser
    <3>1. CASE fresh
      BY <2>3, <3>1
    <3>2. CASE ~fresh
      BY <1>3, <1>5, <1>10, <2>3, <2>4, <3>2, Zenon
    <3> QED
      BY <3>1, <3>2
  <2>7. keep => token <= minted'
    <3>1. CASE fresh
      BY <1>10, <3>1
    <3>2. CASE ~fresh
      BY <1>5, <1>10, <2>4, <3>2, Zenon
    <3> QED
      BY <3>1, <3>2
  <2>8. keep => Fits(q.data, token, q.browser, attempt', begun', planted')
    <3>1. CASE keep /\ fresh
      <4>1. q.data.user = ""
        BY <1>3, <2>4, <3>1, Zenon DEF Fits
      <4> QED
        BY <1>1, <2>4, <4>1, Zenon DEF Fits
    <3>2. CASE keep /\ ~fresh
      BY <1>1, <1>5, <1>6, <2>4, <3>2, Zenon
    <3> QED
      BY <3>1, <3>2
  <2>9. \A t \in Tokens : \/ store'[t] = store[t]
                          \/ RowFits(store'[t], t, own2, attempt', begun', planted', minted')
    BY <1>11, <2>6, <2>7, <2>8, Zenon DEF RowFits
  <2>10. \A b \in Browsers : cookie'[b] = cookie[b] \/ CookieFits(cookie'[b], b, own2, minted')
    BY <1>10, <1>12, <2>6, <2>7, Zenon DEF CookieFits
  <2>11. \A t \in planted' : (t \in planted \/ minted < t) /\ t <= minted'
    <3>1. ASSUME NEW t \in planted PROVE t <= minted'
      <4>1. t \in Tokens /\ t <= minted
        BY <1>0, <2>1, Zenon DEF OwnedBy
      <4> QED
        BY <1>0, <1>10, <4>1, AccessBounds DEF Tokens
    <3> QED
      BY <1>6, <1>10, <3>1, Zenon
  <2>12. \A s \in Requests : req'[s] = Idle \/ Like(req'[s], req[s])
    BY <1>13, Zenon DEF Like
  <2>13. begun <= begun' /\ \A k \in Attempts : attempt'[k].browser = attempt[k].browser
    <3>1. begun <= begun
      BY <1>0, AccessBounds
    <3> QED
      BY <1>1, <3>1, Zenon
  <2> QED
    BY <1>0, <1>10, <1>14, <2>1, <2>3, <2>5, <2>9, <2>10, <2>11, <2>12, <2>13, OwnedGrows, Zenon
<1>18. Distinct(account') /\ Issued'
  BY <1>0, <1>1, Zenon DEF Issued
<1> QED
  BY <1>14, <1>15, <1>16, <1>17, <1>18, Zenon DEF AccessInv

LEMMA AccessStart == Init => AccessInv
<1> SUFFICES ASSUME Init PROVE AccessInv
  OBVIOUS
<1>1. 0 \in 0 .. MaxTokens /\ 0 \in 0 .. MaxAttempts /\ 0 <= 0
  BY AccessBounds
<1>2. account \in Table
  BY AccessAssumption DEF Init, Table
<1>3. Distinct(account)
  <2> SUFFICES ASSUME NEW x \in Accounts, NEW y \in Accounts, Clash(account[x], account[y]) PROVE x = y
    BY Zenon DEF Distinct
  <2>1. account[x].exists /\ account[y].exists
    BY Zenon DEF Clash
  <2>2. x \in DOMAIN Given /\ y \in DOMAIN Given /\ account[x] = Given[x] /\ account[y] = Given[y]
    BY <2>1 DEF Init, NoRow
  <2> QED
    BY <2>2, AccessAssumption, Zenon DEF Clash
<1>4. attempt \in [Attempts -> Attempt] /\ Issued
  <2>1. PICK t : t = [code |-> "none", subject |-> "", name |-> "", browser |-> ""]
    BY Zenon
  <2>2. t \in Attempt /\ t.code = "none"
    BY <2>1 DEF Attempt
  <2>3. attempt = [n \in Attempts |-> t]
    BY <2>1 DEF Init
  <2> QED
    BY <2>2, <2>3 DEF Issued
<1>5. store \in [Tokens -> Session] /\ \A t \in Tokens : store[t] = Absent
  BY SessionShape DEF Init
<1>6. cookie \in [Browsers -> 0 .. MaxTokens] /\ \A b \in Browsers : cookie[b] = 0
  BY <1>1 DEF Init
<1>7. req \in [Requests -> Request \cup {Idle}] /\ \A r \in Requests : req[r] = Idle
  BY DEF Init
<1>8. minted = 0 /\ begun = 0 /\ planted = {} /\ ended = {} /\ shared = {}
  BY Zenon DEF Init
<1>9. AccessTypes
  BY <1>1, <1>2, <1>4, <1>5, <1>6, <1>7, <1>8, Zenon DEF AccessTypes
<1>10. \A r \in Requests : Covered(req[r], account)
  BY <1>7, CoveredIdle, Zenon
<1>11. Owned
  <2>1. PICK own : own = [t \in Tokens |-> ""]
    BY Zenon
  <2>2. DOMAIN own = Tokens
    BY <2>1
  <2>3. OwnedBy(own)
    BY <1>1, <1>5, <1>6, <1>7, <1>8, Zenon DEF OwnedBy, CookieFits, RequestFits, RowFits
  <2> QED
    BY <2>2, <2>3, Zenon DEF Owned
<1>12. SignOutHolds /\ \A t \in ended : t <= minted
  BY <1>8, Zenon DEF SignOutHolds
<1> QED
  BY <1>3, <1>4, <1>9, <1>10, <1>11, <1>12, Zenon DEF AccessInv

LEMMA AccessUnchanged ==
  ASSUME AccessInv, UNCHANGED vars
  PROVE  AccessInv'
<1>1. UNCHANGED <<account, store, cookie, attempt, req, minted, begun, planted, ended, shared>>
  BY Zenon DEF vars
<1> QED
  BY <1>1 DEF AccessInv, AccessTypes, Issued, Owned, OwnedBy, SignOutHolds

LEMMA AccessKept == AccessInv /\ [Next]_vars => AccessInv'
<1> SUFFICES ASSUME AccessInv, [Next]_vars PROVE AccessInv'
  OBVIOUS
<1>1. ASSUME NEW r \in Requests, NEW b \in Browsers, NEW ask \in Asks, Arrive(r, b, ask) PROVE AccessInv'
  BY <1>1, ArriveKeeps
<1>2. ASSUME NEW r \in Requests, Serve(r) PROVE AccessInv'
  BY <1>2, AuthenticateKeeps, GuardedKeeps, LoginKeeps, LogoutKeeps, StartKeeps, CallbackKeeps,
     CommitKeeps, Zenon DEF Serve
<1>3. ASSUME NEW n \in Attempts, NEW s \in Subjects, NEW name \in Claimed, Consent(n, s, name) PROVE AccessInv'
  BY <1>3, ConsentKeeps
<1>4. ASSUME NEW a \in Accounts, NEW change \in Amendments, Amend(a, change[1], change[2]) PROVE AccessInv'
  BY <1>4, AmendKeeps
<1>5. ASSUME NEW t \in Tokens, Expire(t) PROVE AccessInv'
  BY <1>5, ExpireKeeps
<1>6. CASE UNCHANGED vars
  BY <1>6, AccessUnchanged
<1> QED
  BY <1>1, <1>2, <1>3, <1>4, <1>5, <1>6, Zenon DEF Next

LEMMA AccessAlways == Spec => []AccessInv
BY AccessStart, AccessKept, PTL DEF Spec

(* The row a request is judged by is never older than the request           *)
(* (middleware.Authenticate, RequireWrite and its kin): whatever a handler  *)
(* behind a gate did, the account its session named could have done since   *)
(* the request arrived, for any number of requests, accounts and changes.   *)
THEOREM GateAlwaysRecent == Spec => []GateIsRecent
<1>1. AccessInv => GateIsRecent
  BY Zenon DEF AccessInv, Covered, GateIsRecent
<1> QED
  BY <1>1, AccessAlways, PTL

(* A session that names a user goes under an id minted by that sign-in, and *)
(* an OpenID sign-in ends in the browser that began it (Login, OIDCStart,   *)
(* OIDCCallback: RenewToken and the state), for any number of browsers,     *)
(* requests and sign-ins.                                                   *)
THEOREM SignInAlwaysItsOwn == Spec => []SignInIsItsOwn
<1>1. ASSUME AccessInv PROVE SignInIsItsOwn
  <2>1. PICK own : OwnedBy(own)
    BY <1>1, Zenon DEF AccessInv, Owned
  <2> SUFFICES ASSUME NEW t \in Tokens, store[t] # Absent, store[t].user # ""
               PROVE  /\ t \notin planted
                      /\ \A b \in Browsers : cookie[b] = t /\ store[t].via # 0 =>
                           attempt[store[t].via].browser = b
    BY Zenon DEF SignInIsItsOwn
  <2>2. PICK d \in Session : d = store[t]
    BY <1>1 DEF AccessInv, AccessTypes
  <2>3. Fits(d, t, own[t], attempt, begun, planted)
    BY <2>1, <2>2, Zenon DEF OwnedBy, RowFits
  <2>4. t \notin planted
    BY <2>2, <2>3, Zenon DEF Fits
  <2>5. d.via # 0 => d.via > 0
    BY ViaCases, Zenon
  <2>6. ASSUME NEW b \in Browsers, cookie[b] = t, store[t].via # 0 PROVE attempt[store[t].via].browser = b
    <3>1. t # 0
      BY TokenShape, Zenon
    <3>2. own[t] = b
      BY <2>1, <2>6, <3>1, Zenon DEF OwnedBy, CookieFits
    <3> QED
      BY <2>2, <2>3, <2>5, <2>6, <3>2, Zenon DEF Fits
  <2> QED
    BY <2>4, <2>6, Zenon
<1> QED
  BY <1>1, AccessAlways, PTL

(* Once a sign-out has answered, its session stays gone, provided no other  *)
(* request had loaded it by then (Logout: Destroy; Commit writes back what  *)
(* was loaded), for any number of requests and sessions.                    *)
THEOREM SignOutAlwaysHolds == Spec => []SignOutHolds
<1>1. AccessInv => SignOutHolds
  BY Zenon DEF AccessInv
<1> QED
  BY <1>1, AccessAlways, PTL
=============================================================================
