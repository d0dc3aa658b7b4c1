-------------------------- MODULE ImportJobsProofs --------------------------
(***************************************************************************)
(* Theorems about background imports: the job row tells the truth about    *)
(* the estate, whatever other people save, whatever fails and whenever the *)
(* process is restarted, for any files, batch size and number of jobs; and *)
(* a file that nobody disturbs is applied whole, or up to the batch with   *)
(* an unknown word.                                                        *)
(***************************************************************************)
EXTENDS ImportJobs, FiniteSetTheorems, SequenceTheorems, TLAPS

----------------------------------------------------------------------------
(* The invariant *)

(* The assets of job j are its first n rows. *)
Holds(A, j, n) ==
  /\ \A i \in 1..n : \E a \in A : a.id = <<j, i>>
  /\ \A a \in A : a.id[1] = j => a.id[2] \in 1..n

UniqueIds(A) == \A a, b \in A : a.id = b.id => a = b

(* What a job row, or a worker about to write one, says is so. *)
Told(A, j, status, created, file) ==
  /\ status \in {"succeeded", "refused", "partial"} => Holds(A, j, created)
  /\ status = "succeeded" => created = Len(file)
  /\ status = "refused" => created = 0
  /\ status = "partial" => created \in 1..(Len(file) - 1)

(* The rows being written: one path each, and a parent that was resolved is *)
(* an asset of that name which the job did not make.                        *)
RowsFit(A, j, rows, file) ==
  /\ rows \in Seq(Built) /\ Len(rows) = Len(file)
  /\ \A i, k \in 1..Len(rows) : rows[i].parent = rows[k].parent /\ rows[i].name = rows[k].name => i = k
  /\ \A i \in 1..Len(rows) : rows[i].parentID # None =>
       /\ rows[i].parent # None
       /\ \E a \in A : a.id = rows[i].parentID /\ a.name = rows[i].parent /\ a.id[1] # j

Started(w) == w \in [op : {"started"}, job : Jobs]
Writing(w) == w \in [op : {"writing"}, job : Jobs, rows : Seq(Built), done : Nat]
Finishing(w) == w \in [op : {"finishing"}, job : Jobs, status : Stopped, created : Nat]
Active(w) == Started(w) \/ Writing(w) \/ Finishing(w)

WorkerFits(w, A, J) ==
  /\ w = Idle \/ Active(w)
  /\ w # Idle => J[w.job].status \in {"queued", "running"} /\ J[w.job].file \in Files
  /\ Started(w) => Holds(A, w.job, 0)
  /\ Writing(w) => /\ Holds(A, w.job, w.done)
                   /\ w.done < Len(J[w.job].file)
                   /\ RowsFit(A, w.job, w.rows, J[w.job].file)
  /\ Finishing(w) => Told(A, w.job, w.status, w.created, J[w.job].file)

(* A job on its way to the worker has touched nothing. *)
Sent(j, wait, q) == j \in wait \/ \E i \in 1..Len(q) : q[i] = j
QueueFits(wait, q, w, A, J) ==
  /\ \A j \in Jobs : Sent(j, wait, q) =>
       /\ J[j].status = "queued" /\ J[j].file \in Files
       /\ Holds(A, j, 0)
       /\ w # Idle => w.job # j
  /\ \A i, k \in 1..Len(q) : q[i] = q[k] => i = k
  /\ \A i \in 1..Len(q) : q[i] \notin wait

JobsFit(A, J) ==
  \A j \in Jobs :
    /\ J[j].status = "none" => Holds(A, j, 0)
    /\ J[j].status # "none" => J[j].file \in Files
    /\ Told(A, j, J[j].status, J[j].created, J[j].file)

AssetsFit(A, n) ==
  /\ A \in SUBSET Asset
  /\ UniqueIds(A)
  /\ \A a \in A : a.id[1] = None => a.id[2] < n

Alone(A) == \A a, b \in A : a.live /\ b.live /\ a.parent = b.parent /\ a.name = b.name => a = b

ImportInv ==
  /\ AssetsFit(assets, saves) /\ Alone(assets)
  /\ jobs \in [Jobs -> Job] /\ waiting \in SUBSET Jobs /\ queue \in Seq(Jobs)
  /\ saves \in Nat /\ up \in BOOLEAN
  /\ JobsFit(assets, jobs)
  /\ WorkerFits(worker, assets, jobs)
  /\ QueueFits(waiting, queue, worker, assets, jobs)
  /\ ~up => waiting = {} /\ queue = <<>> /\ worker = Idle
----------------------------------------------------------------------------
(* The stable sort on depth is a permutation of the file, roots first. *)

LEMMA BeforeOrders ==
  ASSUME NEW file \in Seq(ImportRow), NEW i \in 1..Len(file), NEW k \in 1..Len(file)
  PROVE  /\ ~Before(file, i, i)
         /\ i # k => Before(file, i, k) \/ Before(file, k, i)
         /\ \A m \in 1..Len(file) : Before(file, m, i) /\ Before(file, i, k) => Before(file, m, k)
<1> Len(file) \in Nat
  BY LenProperties
<1> QED
  BY DEF Before

LEMMA PlaceGrows ==
  ASSUME NEW file \in Seq(ImportRow), NEW i \in 1..Len(file), NEW k \in 1..Len(file)
  PROVE  /\ Place(file, i) \in 1..Len(file)
         /\ Before(file, i, k) => Place(file, i) < Place(file, k)
<1> DEFINE B(m) == {x \in DOMAIN file : Before(file, x, m)}
<1>1. DOMAIN file = 1..Len(file) /\ Len(file) \in Nat
  BY LenProperties
<1>2. IsFiniteSet(1..Len(file)) /\ Cardinality(1..Len(file)) = Len(file)
  <2>1. 1 \in Int /\ Len(file) \in Int
    BY <1>1
  <2>2. IsFiniteSet(1..Len(file))
        /\ Cardinality(1..Len(file)) = IF 1 > Len(file) THEN 0 ELSE Len(file) - 1 + 1
    BY <2>1, FS_Interval
  <2> QED
    BY <2>2, <1>1
<1>3. ASSUME NEW m \in 1..Len(file)
      PROVE  IsFiniteSet(B(m)) /\ Cardinality(B(m)) \in Nat /\ Cardinality(B(m)) < Len(file)
  <2>1. B(m) \in SUBSET (1..Len(file))
    BY <1>1
  <2>2. m \notin B(m)
    BY BeforeOrders
  <2>3. IsFiniteSet(B(m)) /\ Cardinality(B(m)) <= Len(file)
        /\ (Cardinality(1..Len(file)) = Cardinality(B(m)) => 1..Len(file) = B(m))
    BY <2>1, <1>2, FS_Subset, Zenon
  <2>4. Cardinality(B(m)) # Len(file)
    BY <2>2, <2>3, <1>2, Zenon
  <2>5. Cardinality(B(m)) \in Nat
    BY <2>3, FS_CardinalityType, Zenon
  <2> HIDE DEF B
  <2> QED
    BY <2>3, <2>4, <2>5, <1>1
<1>4. Before(file, i, k) => B(i) \subseteq B(k) /\ i \in B(k) /\ i \notin B(i)
  BY <1>1, BeforeOrders
<1>5. Before(file, i, k) => Cardinality(B(i)) # Cardinality(B(k)) /\ Cardinality(B(i)) <= Cardinality(B(k))
  BY <1>4, <1>3, FS_Subset, Zenon
<1>6. \A m \in 1..Len(file) : Place(file, m) = 1 + Cardinality(B(m))
  BY DEF Place
<1> HIDE DEF B
<1> QED
  BY <1>1, <1>3, <1>5, <1>6

(* Which line of the file comes n-th. *)
Line(file, n) == CHOOSE i \in DOMAIN file : Place(file, i) = n

LEMMA LineAt ==
  ASSUME NEW file \in Seq(ImportRow), NEW n \in 1..Len(file)
  PROVE  Line(file, n) \in 1..Len(file) /\ Place(file, Line(file, n)) = n
<1> DEFINE D == 1..Len(file)
           f == [i \in D |-> Place(file, i)]
<1>1. DOMAIN file = D /\ Len(file) \in Nat
  BY LenProperties
<1>2. IsFiniteSet(D) /\ Cardinality(D) = Cardinality(D)
  BY <1>1, FS_Interval
<1>3. f \in [D -> D]
  BY PlaceGrows
<1>4. \A i, k \in D : f[i] = f[k] => i = k
  <2> SUFFICES ASSUME NEW i \in D, NEW k \in D, f[i] = f[k], i # k PROVE FALSE
    OBVIOUS
  <2>1. Before(file, i, k) \/ Before(file, k, i)
    BY BeforeOrders
  <2>2. Place(file, i) < Place(file, k) \/ Place(file, k) < Place(file, i)
    BY <2>1, PlaceGrows
  <2>3. Place(file, i) \in D /\ Place(file, k) \in D /\ Place(file, i) = Place(file, k)
    BY PlaceGrows
  <2> QED
    BY <2>2, <2>3, <1>1
<1>5. f \in Injection(D, D)
  BY <1>3, <1>4 DEF Injection, IsInjective
<1>6. f \in Surjection(D, D)
  BY <1>5, <1>2, FS_Injection
<1>7. \E i \in D : Place(file, i) = n
  BY <1>6 DEF Surjection
<1> QED
  BY <1>1, <1>7 DEF Line

LEMMA LineOrder ==
  ASSUME NEW file \in Seq(ImportRow), NEW n \in 1..Len(file), NEW m \in 1..Len(file)
  PROVE  /\ Line(file, n) = Line(file, m) => n = m
         /\ Before(file, Line(file, n), Line(file, m)) => n < m
  BY LineAt, PlaceGrows

(* DepthOrder keeps every line, once. *)
LEMMA DepthOrderRows ==
  ASSUME NEW file \in Seq(ImportRow)
  PROVE  /\ DepthOrder(file) \in Seq(ImportRow) /\ Len(DepthOrder(file)) = Len(file)
         /\ \A n \in 1..Len(file) : DepthOrder(file)[n] = file[Line(file, n)]
         /\ \A i \in 1..Len(file) : Line(file, Place(file, i)) = i
<1>1. DOMAIN file = 1..Len(file) /\ Len(file) \in Nat /\ file \in [1..Len(file) -> ImportRow]
  BY LenProperties
<1>2. \A n \in 1..Len(file) : file[Line(file, n)] \in ImportRow
  BY <1>1, LineAt
<1>3. DepthOrder(file) = [n \in 1..Len(file) |-> file[Line(file, n)]]
  BY <1>1 DEF DepthOrder, Line
<1>4. DepthOrder(file) \in [1..Len(file) -> ImportRow]
  BY <1>2, <1>3
<1>5. DepthOrder(file) \in Seq(ImportRow)
  BY <1>4, <1>1, SeqDef
<1>6. Len(DepthOrder(file)) = Len(file)
  BY <1>4, <1>5, <1>1, LenProperties
<1>7. ASSUME NEW i \in 1..Len(file) PROVE Line(file, Place(file, i)) = i
  <2>1. Place(file, i) \in 1..Len(file)
    BY PlaceGrows
  <2>2. Line(file, Place(file, i)) \in 1..Len(file)
        /\ Place(file, Line(file, Place(file, i))) = Place(file, i)
    BY <2>1, LineAt
  <2>3. Line(file, Place(file, i)) # i =>
          Before(file, i, Line(file, Place(file, i))) \/ Before(file, Line(file, Place(file, i)), i)
    BY <2>2, BeforeOrders
  <2> QED
    BY <2>1, <2>2, <2>3, PlaceGrows
<1> QED
  BY <1>3, <1>5, <1>6, <1>7

----------------------------------------------------------------------------
(* Counting *)

LEMMA HoldsCount ==
  ASSUME NEW A, A \in SUBSET Asset, UniqueIds(A), NEW j \in Jobs, NEW n \in Nat, Holds(A, j, n)
  PROVE  Cardinality({a \in A : a.id[1] = j}) = n
<1> DEFINE L == {a \in A : a.id[1] = j}
           f == [i \in 1..n |-> CHOOSE a \in A : a.id = <<j, i>>]
<1>1. \A i \in 1..n : f[i] \in A /\ f[i].id = <<j, i>>
  BY DEF Holds
<1>5. DOMAIN f = 1..n /\ f = [i \in 1..n |-> f[i]]
  OBVIOUS
<1> HIDE DEF f
<1>2. \A i \in 1..n : f[i] \in L
  BY <1>1
<1>3. \A i, k \in 1..n : f[i] = f[k] => i = k
  BY <1>1
<1>4. ASSUME NEW a \in L PROVE \E i \in 1..n : f[i] = a
  <2>1. a \in Asset /\ a \in A /\ a.id[1] = j /\ a.id[2] \in 1..n
    BY DEF Holds
  <2>2. a.id = <<j, a.id[2]>>
    BY <2>1 DEF Asset, Ids
  <2>3. f[a.id[2]].id = a.id /\ f[a.id[2]] \in A
    BY <2>1, <2>2, <1>1
  <2> QED
    BY <2>1, <2>3 DEF UniqueIds
<1>10. f \in [1..n -> L]
  BY <1>2, <1>5
<1>6. f \in Bijection(1..n, L)
  BY <1>3, <1>4, <1>10 DEF Bijection, Injection, IsInjective, Surjection
<1>7. ExistsBijection(1..n, L)
  BY <1>6 DEF ExistsBijection
<1>8. IsFiniteSet(1..n) /\ Cardinality(1..n) = n
  BY FS_Interval
<1> HIDE DEF L
<1>9. Cardinality(L) = n
  BY <1>7, <1>8, FS_Bijection
<1> QED
  BY <1>9 DEF L

----------------------------------------------------------------------------
(* Validation *)

LEMMA RowsOfFile ==
  ASSUME NEW file \in Seq(ImportRow)
  PROVE  /\ DOMAIN DepthOrder(file) = 1..Len(file) /\ DOMAIN file = 1..Len(file) /\ Len(file) \in Nat
         /\ \A n \in 1..Len(file) : Line(file, n) \in 1..Len(file)
         /\ \A i \in 1..Len(file) : Place(file, i) \in 1..Len(file)
  BY DepthOrderRows, LineAt, PlaceGrows, LenProperties

LEMMA PassedIsApplicable ==
  ASSUME NEW file \in Seq(ImportRow),
         \A n \in 1..Len(file) : RowPasses(DepthOrder(file), n)
  PROVE  Applicable(file)
<1> DEFINE rows == DepthOrder(file)
<1>1. Len(file) \in Nat /\ DOMAIN file = 1..Len(file)
  BY RowsOfFile
<1>2. \A i \in 1..Len(file) : Place(file, i) \in 1..Len(file) /\ rows[Place(file, i)] = file[i]
  BY RowsOfFile, DepthOrderRows
<1>3. \A n \in 1..Len(file) : Line(file, n) \in 1..Len(file) /\ rows[n] = file[Line(file, n)]
  BY RowsOfFile, DepthOrderRows
<1>4. \A i, k \in 1..Len(file) : Place(file, i) = Place(file, k) => i = k
  BY DepthOrderRows
<1> HIDE DEF rows
<1>5. \A n \in 1..Len(file) : RowPasses(rows, n)
  BY DEF rows
<1>6. ASSUME NEW i \in 1..Len(file), NEW k \in 1..Len(file), RowPath(file[i]) = RowPath(file[k]) PROVE i = k
  <2>1. \A n, m \in 1..Len(file) : n < m => RowPath(rows[n]) # RowPath(rows[m])
    BY <1>1, <1>5 DEF RowPasses
  <2>2. ~(Place(file, i) < Place(file, k)) /\ ~(Place(file, k) < Place(file, i))
    BY <2>1, <1>2, <1>6
  <2>3. Place(file, i) = Place(file, k)
    BY <2>2, <1>1, <1>2
  <2> QED
    BY <2>3, <1>4
<1>7. ASSUME NEW i \in 1..Len(file)
      PROVE  /\ At(RowPath(file[i])) = {}
             /\ file[i].readable
             /\ \/ IsRoot(file[i])
                \/ At(Path(None, file[i].parent)) # {}
                \/ \E k \in 1..Len(file) : RowPath(file[k]) = Path(None, file[i].parent)
  <2>1. RowPasses(rows, Place(file, i)) /\ rows[Place(file, i)] = file[i] /\ Place(file, i) \in 1..Len(file)
    BY <1>2, <1>5
  <2>2. \/ IsRoot(file[i])
        \/ At(Path(None, file[i].parent)) # {}
        \/ \E n \in 1..(Place(file, i) - 1) : RowPath(rows[n]) = Path(None, file[i].parent)
    BY <2>1 DEF RowPasses
  <2>3. ASSUME NEW n \in 1..(Place(file, i) - 1), RowPath(rows[n]) = Path(None, file[i].parent)
        PROVE  \E k \in 1..Len(file) : RowPath(file[k]) = Path(None, file[i].parent)
    <3>1. n \in 1..Len(file)
      BY <1>1, <2>1
    <3> QED
      BY <3>1, <1>3, <2>3
  <2> QED
    BY <2>1, <2>2, <2>3 DEF RowPasses
<1> QED
  BY <1>1, <1>6, <1>7 DEF Applicable

LEMMA ApplicablePasses ==
  ASSUME NEW file \in Seq(ImportRow), Applicable(file), NEW n \in 1..Len(file)
  PROVE  RowPasses(DepthOrder(file), n)
<1> DEFINE rows == DepthOrder(file)
           i == Line(file, n)
<1>1. Len(file) \in Nat /\ DOMAIN file = 1..Len(file)
  BY RowsOfFile
<1>2. \A m \in 1..Len(file) : Line(file, m) \in 1..Len(file) /\ rows[m] = file[Line(file, m)]
  BY RowsOfFile, DepthOrderRows
<1>3. \A k \in 1..Len(file) : Place(file, k) \in 1..Len(file) /\ Line(file, Place(file, k)) = k
  BY RowsOfFile, DepthOrderRows
<1>4. i \in 1..Len(file) /\ rows[n] = file[i]
  BY <1>2
<1> HIDE DEF rows
<1>5. ASSUME NEW k \in 1..(n - 1) PROVE RowPath(rows[k]) # RowPath(rows[n])
  <2>1. k \in 1..Len(file) /\ k # n
    BY <1>1
  <2>2. Line(file, k) # Line(file, n)
    BY <2>1, LineOrder
  <2> QED
    BY <2>1, <2>2, <1>1, <1>2 DEF Applicable
<1>6. ASSUME ~IsRoot(rows[n]), At(Path(None, rows[n].parent)) = {}
      PROVE  \E m \in 1..(n - 1) : RowPath(rows[m]) = Path(None, rows[n].parent)
  <2>1. PICK k \in 1..Len(file) : RowPath(file[k]) = Path(None, file[i].parent)
    BY <1>1, <1>4, <1>6 DEF Applicable
  <2>2. IsRoot(file[k]) /\ ~IsRoot(file[i])
    BY <2>1, <1>4, <1>6 DEF IsRoot, RowPath, Path
  <2>3. Before(file, k, i)
    BY <2>2 DEF Before
  <2>4. Place(file, k) \in 1..Len(file) /\ Line(file, Place(file, k)) = k
    BY <1>3
  <2>5. Place(file, k) < n
    BY <2>3, <2>4, LineOrder
  <2>6. Place(file, k) \in 1..(n - 1)
    BY <2>4, <2>5, <1>1
  <2> QED
    BY <2>1, <2>4, <2>6, <1>2, <1>4
<1>7. At(RowPath(rows[n])) = {} /\ rows[n].readable
  BY <1>1, <1>4 DEF Applicable
<1> QED
  BY <1>5, <1>6, <1>7 DEF RowPasses, rows

----------------------------------------------------------------------------
(* What a change of the asset table leaves as it was *)

(* Every asset of A is in B under its id and name, and B has none of job j  *)
(* that A has not.                                                          *)
Kept(A, B) == \A a \in A : \E b \in B : b.id = a.id /\ b.name = a.name
NoneNew(A, B, j) == \A b \in B : b.id[1] = j => \E a \in A : a.id = b.id

LEMMA HoldsKept ==
  ASSUME NEW A, NEW B, Kept(A, B), NEW j, NoneNew(A, B, j), NEW n, Holds(A, j, n)
  PROVE  Holds(B, j, n)
<1>1. \A i \in 1..n : \E b \in B : b.id = <<j, i>>
  BY Zenon DEF Holds, Kept
<1>2. ASSUME NEW b \in B, b.id[1] = j PROVE b.id[2] \in 1..n
  <2>1. PICK a \in A : a.id = b.id
    BY <1>2 DEF NoneNew
  <2> QED
    BY <1>2, <2>1 DEF Holds
<1> QED
  BY <1>1, <1>2, Zenon DEF Holds

LEMMA ToldKept ==
  ASSUME NEW A, NEW B, Kept(A, B), NEW j, NoneNew(A, B, j), NEW status, NEW created, NEW file,
         Told(A, j, status, created, file)
  PROVE  Told(B, j, status, created, file)
  BY HoldsKept, Zenon DEF Told

LEMMA RowsKept ==
  ASSUME NEW A, NEW B, Kept(A, B), NEW j, NEW rows, NEW file, RowsFit(A, j, rows, file)
  PROVE  RowsFit(B, j, rows, file)
<1>1. ASSUME NEW i \in 1..Len(rows), rows[i].parentID # None
      PROVE  /\ rows[i].parent # None
             /\ \E b \in B : b.id = rows[i].parentID /\ b.name = rows[i].parent /\ b.id[1] # j
  <2>1. rows[i].parent # None
    BY <1>1, Zenon DEF RowsFit
  <2>2. PICK a \in A : a.id = rows[i].parentID /\ a.name = rows[i].parent /\ a.id[1] # j
    BY <1>1, Zenon DEF RowsFit
  <2>3. PICK b \in B : b.id = a.id /\ b.name = a.name
    BY Zenon DEF Kept
  <2> QED
    BY <2>1, <2>2, <2>3, Zenon
<1> QED
  BY <1>1, Zenon DEF RowsFit

LEMMA WorkerKept ==
  ASSUME NEW A, NEW B, Kept(A, B), NEW w, NEW J, WorkerFits(w, A, J), w # Idle => NoneNew(A, B, w.job)
  PROVE  WorkerFits(w, B, J)
<1>0. Started(w) \/ Writing(w) \/ Finishing(w) => w # Idle
  BY DEF Started, Writing, Finishing, Idle
<1>1. Started(w) => Holds(B, w.job, 0)
  BY <1>0, HoldsKept, Zenon DEF WorkerFits
<1>2. Writing(w) => Holds(B, w.job, w.done) /\ RowsFit(B, w.job, w.rows, J[w.job].file)
  BY <1>0, HoldsKept, RowsKept, Zenon DEF WorkerFits
<1>3. Finishing(w) => Told(B, w.job, w.status, w.created, J[w.job].file)
  BY <1>0, ToldKept, Zenon DEF WorkerFits
<1> QED
  BY <1>1, <1>2, <1>3, Zenon DEF WorkerFits

LEMMA QueueKept ==
  ASSUME NEW A, NEW B, Kept(A, B), NEW wait, NEW q, NEW w, NEW J, QueueFits(wait, q, w, A, J),
         \A j \in Jobs : Sent(j, wait, q) => NoneNew(A, B, j)
  PROVE  QueueFits(wait, q, w, B, J)
<1>1. \A j \in Jobs : Sent(j, wait, q) => Holds(B, j, 0)
  BY HoldsKept, Zenon DEF QueueFits
<1> QED
  BY <1>1, Zenon DEF QueueFits

LEMMA JobsKept ==
  ASSUME NEW A, NEW B, Kept(A, B), NEW J, JobsFit(A, J),
         \A j \in Jobs : J[j].status \in {"none", "succeeded", "refused", "partial"} => NoneNew(A, B, j)
  PROVE  JobsFit(B, J)
<1> SUFFICES ASSUME NEW j \in Jobs
             PROVE  /\ J[j].status = "none" => Holds(B, j, 0)
                    /\ J[j].status # "none" => J[j].file \in Files
                    /\ Told(B, j, J[j].status, J[j].created, J[j].file)
  BY Zenon DEF JobsFit
<1>1. J[j].status = "none" => Holds(B, j, 0)
  <2>1. J[j].status = "none" => NoneNew(A, B, j)
    BY Zenon
  <2> QED
    BY <2>1, HoldsKept, Zenon DEF JobsFit
<1>2. Told(B, j, J[j].status, J[j].created, J[j].file)
  <2>1. CASE J[j].status \in {"succeeded", "refused", "partial"}
    <3>1. NoneNew(A, B, j)
      BY <2>1, Zenon
    <3>2. Told(A, j, J[j].status, J[j].created, J[j].file)
      BY Zenon DEF JobsFit
    <3> QED
      BY <3>1, <3>2, ToldKept, Zenon
  <2>2. CASE J[j].status \notin {"succeeded", "refused", "partial"}
    BY <2>2, Zenon DEF Told
  <2> QED
    BY <2>1, <2>2, Zenon
<1> QED
  BY <1>1, <1>2, Zenon DEF JobsFit

----------------------------------------------------------------------------
(* One batch *)

LEMMA PairIds ==
  /\ None \notin Ids
  /\ \A j \in Jobs : j # None /\ \A k \in Nat : <<j, k>> \in Ids /\ <<j, k>> # None
  /\ \A n \in Nat : <<None, n>> \in Ids
  BY NamesAssumption DEF Ids

LEMMA BuiltRow ==
  ASSUME NEW A, A \in SUBSET Asset, NEW j \in Jobs, NEW rows, NEW file, RowsFit(A, j, rows, file),
         NEW i \in 1..Len(rows)
  PROVE  /\ rows[i].name \in Names /\ rows[i].parent \in Names \cup {None}
         /\ rows[i].parentID \in Ids \cup {None}
         /\ Len(rows) \in Nat
<1>1. rows \in Seq(Built)
  BY DEF RowsFit
<1>2. rows[i] \in Built
  BY <1>1, ElementOfSeq
<1> QED
  BY <1>1, <1>2, LenProperties DEF Built

(* A row has one parent: resolved, or the row of the file with its path. *)
ParentIs(A, j, rows, i, p) ==
  \/ rows[i].parent = None /\ p = None
  \/ /\ rows[i].parent # None /\ rows[i].parentID # None /\ p = rows[i].parentID
     /\ \E a \in A : a.id = p /\ a.name = rows[i].parent /\ a.id[1] # j
  \/ /\ rows[i].parent # None /\ rows[i].parentID = None
     /\ \E m \in 1..(i - 1) : p = <<j, m>> /\ rows[m].parent = None /\ rows[m].name = rows[i].parent

LEMMA ParentCases ==
  ASSUME NEW A, A \in SUBSET Asset, NEW j \in Jobs, NEW rows, NEW file, RowsFit(A, j, rows, file),
         NEW start, NEW i \in 1..Len(rows), NEW p \in ParentIDs(j, rows, start, i)
  PROVE  ParentIs(A, j, rows, i, p)
<1>1. CASE rows[i].parentID # None
  BY <1>1 DEF RowsFit, ParentIDs, ParentIs
<1>2. CASE rows[i].parentID = None /\ rows[i].parent = None
  BY <1>2 DEF ParentIDs, ParentIs
<1>3. CASE rows[i].parentID = None /\ rows[i].parent # None
  BY <1>3 DEF ParentIDs, RowPath, Path, ParentIs
<1> QED
  BY <1>1, <1>2, <1>3, Zenon

LEMMA OneParent ==
  ASSUME NEW A, A \in SUBSET Asset, NEW j \in Jobs, NEW rows, NEW file, RowsFit(A, j, rows, file),
         NEW start, NEW i \in 1..Len(rows),
         NEW p \in ParentIDs(j, rows, start, i), NEW q \in ParentIDs(j, rows, start, i)
  PROVE  p = q
<1>1. CASE rows[i].parent = None \/ rows[i].parentID # None
  BY <1>1 DEF ParentIDs
<1>2. CASE rows[i].parent # None /\ rows[i].parentID = None
  <2>0. ParentIs(A, j, rows, i, p) /\ ParentIs(A, j, rows, i, q)
    BY ParentCases, Zenon
  <2>1. PICK m \in 1..(i - 1) : p = <<j, m>> /\ rows[m].parent = None /\ rows[m].name = rows[i].parent
    BY <1>2, <2>0, Zenon DEF ParentIs
  <2>2. PICK n \in 1..(i - 1) : q = <<j, n>> /\ rows[n].parent = None /\ rows[n].name = rows[i].parent
    BY <1>2, <2>0, Zenon DEF ParentIs
  <2>3. Len(rows) \in Nat
    BY BuiltRow
  <2>4. m \in 1..Len(rows) /\ n \in 1..Len(rows)
    BY <2>3
  <2>5. m = n
    BY <2>1, <2>2, <2>4, Zenon DEF RowsFit
  <2> QED
    BY <2>1, <2>2, <2>5
<1> QED
  BY <1>1, <1>2, Zenon

(* No two rows of a file go to one place under one name. *)
LEMMA RowsApart ==
  ASSUME NEW A, A \in SUBSET Asset, UniqueIds(A), NEW j \in Jobs, NEW rows, NEW file,
         RowsFit(A, j, rows, file), NEW start, NEW i \in 1..Len(rows), NEW k \in 1..Len(rows),
         NEW p \in ParentIDs(j, rows, start, i), p \in ParentIDs(j, rows, start, k),
         rows[i].name = rows[k].name
  PROVE  i = k
<1> SUFFICES rows[i].parent = rows[k].parent
  BY Zenon DEF RowsFit
<1>1. Len(rows) \in Nat
  BY BuiltRow
<1>2. CASE p = None
  <2>1. \A m \in 1..Len(rows) : <<j, m>> # None
    BY <1>1, PairIds
  <2>2. ASSUME NEW x \in 1..Len(rows), None \in ParentIDs(j, rows, start, x) PROVE rows[x].parent = None
    <3>1. \A m \in 1..(x - 1) : <<j, m>> # None
      BY <1>1, <2>1
    <3>2. ParentIs(A, j, rows, x, None)
      BY <2>2, ParentCases, Zenon
    <3> QED
      BY <3>1, <3>2, Zenon DEF ParentIs
  <2> QED
    BY <1>2, <2>2, Zenon
<1>3. CASE p # None
  <2>1. ASSUME NEW x \in 1..Len(rows), p \in ParentIDs(j, rows, start, x)
        PROVE  \/ \E a \in A : a.id = p /\ a.name = rows[x].parent /\ a.id[1] # j
               \/ \E m \in 1..Len(rows) : p = <<j, m>> /\ rows[m].name = rows[x].parent
    <3>1. \A m \in 1..(x - 1) : m \in 1..Len(rows)
      BY <1>1
    <3>2. ParentIs(A, j, rows, x, p)
      BY <2>1, ParentCases, Zenon
    <3> QED
      BY <1>3, <3>1, <3>2, Zenon DEF ParentIs
  <2>2. CASE \E m \in 1..Len(rows) : p = <<j, m>>
    <3>1. PICK m \in 1..Len(rows) : p = <<j, m>>
      BY <2>2
    <3>2. p[1] = j /\ p[2] = m
      BY <3>1
    <3>3. ASSUME NEW x \in 1..Len(rows), p \in ParentIDs(j, rows, start, x)
          PROVE  rows[x].parent = rows[m].name
      <4>1. ~ \E a \in A : a.id = p /\ a.name = rows[x].parent /\ a.id[1] # j
        BY <3>2, Zenon
      <4>2. PICK n \in 1..Len(rows) : p = <<j, n>> /\ rows[n].name = rows[x].parent
        BY <2>1, <3>3, <4>1, Zenon
      <4>3. n = m
        BY <4>2, <3>2
      <4> QED
        BY <4>2, <4>3
    <3> QED
      BY <3>3, Zenon
  <2>3. CASE ~ \E m \in 1..Len(rows) : p = <<j, m>>
    <3>1. PICK a \in A : a.id = p /\ a.name = rows[i].parent
      BY <2>1, <2>3, Zenon
    <3>2. PICK b \in A : b.id = p /\ b.name = rows[k].parent
      BY <2>1, <2>3, Zenon
    <3> QED
      BY <3>1, <3>2, Zenon DEF UniqueIds
  <2> QED
    BY <2>2, <2>3, Zenon
<1> QED
  BY <1>2, <1>3, Zenon

(* The asset that the i-th row becomes. *)
New(j, rows, start, i) ==
  [id |-> <<j, i>>, name |-> rows[i].name, live |-> TRUE,
   parent |-> CHOOSE p \in ParentIDs(j, rows, start, i) : TRUE]

NewIs(j, rows, start, i) ==
  /\ New(j, rows, start, i) \in Asset
  /\ New(j, rows, start, i).id = <<j, i>>
  /\ New(j, rows, start, i).name = rows[i].name
  /\ New(j, rows, start, i).live = TRUE
  /\ New(j, rows, start, i).parent \in ParentIDs(j, rows, start, i)

LEMMA NewAsset ==
  ASSUME NEW A, A \in SUBSET Asset, NEW j \in Jobs, NEW rows, NEW file, RowsFit(A, j, rows, file),
         NEW start, NEW i \in 1..Len(rows), ParentIDs(j, rows, start, i) # {}
  PROVE  NewIs(j, rows, start, i)
<1>1. PICK p : p = CHOOSE q \in ParentIDs(j, rows, start, i) : TRUE
  OBVIOUS
<1>2. p \in ParentIDs(j, rows, start, i)
  BY <1>1
<1>3. ParentIs(A, j, rows, i, p)
  BY <1>2, ParentCases
<1>4. /\ rows[i].name \in Names /\ rows[i].parentID \in Ids \cup {None} /\ Len(rows) \in Nat
  BY BuiltRow
<1>5. \A m \in 1..(i - 1) : <<j, m>> \in Ids
  BY <1>4, PairIds
<1>6. p \in Ids \cup {None}
  BY <1>3, <1>4, <1>5, Zenon DEF ParentIs
<1>7. <<j, i>> \in Ids
  BY <1>4, PairIds
<1>8. New(j, rows, start, i) = [id |-> <<j, i>>, name |-> rows[i].name, live |-> TRUE, parent |-> p]
  BY <1>1 DEF New
<1> QED
  BY <1>2, <1>4, <1>6, <1>7, <1>8 DEF Asset, NewIs

(* Every row of a batch is inserted: nothing else of the table changes, and *)
(* no path names two live assets.                                           *)
NamesFree(A, j, rows, start, done, last) ==
  \A i \in (done + 1)..last : \E p \in ParentIDs(j, rows, start, i) :
    \A a \in A : ~(a.live /\ a.parent = p /\ a.name = rows[i].name)
Added(A, j, rows, start, done, last) == A \cup {New(j, rows, start, i) : i \in (done + 1)..last}
BatchIsIn(A, B, s, j, last) ==
  /\ AssetsFit(B, s) /\ Alone(B) /\ Holds(B, j, last) /\ Kept(A, B)
  /\ \A x \in Jobs : x # j => NoneNew(A, B, x)

LEMMA BatchLands ==
  ASSUME NEW A, NEW s \in Nat, AssetsFit(A, s), Alone(A),
         NEW j \in Jobs, NEW rows, NEW file, RowsFit(A, j, rows, file),
         NEW done \in Nat, NEW last \in Nat, done <= last, last <= Len(rows), Holds(A, j, done),
         NEW start, NamesFree(A, j, rows, start, done, last),
         NEW B, B = Added(A, j, rows, start, done, last)
  PROVE  BatchIsIn(A, B, s, j, last)
<1> DEFINE I == (done + 1)..last
           new(i) == New(j, rows, start, i)
<1>1. /\ A \in SUBSET Asset /\ UniqueIds(A) /\ \A a \in A : a.id[1] = None => a.id[2] < s
      /\ \A a \in A : a.id \in Ids
  BY DEF AssetsFit, Asset
<1>2. Len(rows) \in Nat
  BY LenProperties DEF RowsFit
<1>3. \A i \in I : i \in 1..Len(rows) /\ i \in 1..last /\ i \notin 1..done /\ i \in Nat
  BY <1>2
<1>4. \A i \in I : \E p \in ParentIDs(j, rows, start, i) :
            \A a \in A : ~(a.live /\ a.parent = p /\ a.name = rows[i].name)
  BY Zenon DEF NamesFree
<1>5. B = A \cup {new(i) : i \in I}
  BY Zenon DEF Added
<1>6. ASSUME NEW i \in I
      PROVE  /\ new(i) \in Asset /\ new(i).id = <<j, i>> /\ new(i).name = rows[i].name
             /\ new(i).parent \in ParentIDs(j, rows, start, i)
             /\ \A a \in A : ~(a.live /\ a.parent = new(i).parent /\ a.name = new(i).name)
  <2>1. PICK p \in ParentIDs(j, rows, start, i) :
            \A a \in A : ~(a.live /\ a.parent = p /\ a.name = rows[i].name)
    BY <1>4
  <2>2. /\ new(i) \in Asset /\ new(i).id = <<j, i>> /\ new(i).name = rows[i].name
        /\ new(i).parent \in ParentIDs(j, rows, start, i)
    <3>1. i \in 1..Len(rows) /\ ParentIDs(j, rows, start, i) # {}
      BY <1>3, <2>1, Zenon
    <3>2. A \in SUBSET Asset
      BY <1>1, Zenon
    <3> HIDE DEF new, I
    <3>3. NewIs(j, rows, start, i)
      BY <3>1, <3>2, NewAsset, Zenon
    <3> QED
      BY <3>3, Zenon DEF new, NewIs
  <2>3. new(i).parent = p
    <3>1. i \in 1..Len(rows)
      BY <1>3, Zenon
    <3>2. PICK q \in ParentIDs(j, rows, start, i) : q = new(i).parent
      BY <2>2, Zenon
    <3>3. A \in SUBSET Asset
      BY <1>1, Zenon
    <3> HIDE DEF new, I
    <3>4. p = q
      BY <3>1, <3>3, OneParent
    <3> QED
      BY <3>2, <3>4, Zenon
  <2> QED
    BY <2>1, <2>2, <2>3, Zenon
<1> HIDE DEF new, I
<1>18. \A b \in B : b \in A \/ \E i \in I : b = new(i)
  BY <1>5, Zenon
<1>7. \A i, k \in I : new(i).id = new(k).id => i = k
  BY <1>6
<1>8. ASSUME NEW a \in A, NEW i \in I PROVE a.id # new(i).id
  <2>1. a.id[1] = j => a.id[2] \in 1..done
    BY DEF Holds
  <2>2. <<j, i>>[1] = j /\ <<j, i>>[2] = i
    OBVIOUS
  <2> QED
    BY <1>3, <1>6, <2>1, <2>2, Zenon
<1>9. UniqueIds(B)
  <2> SUFFICES ASSUME NEW a \in B, NEW b \in B, a.id = b.id PROVE a = b
    BY Zenon DEF UniqueIds
  <2>1. CASE a \in A /\ b \in A
    BY <1>1, <2>1, Zenon DEF UniqueIds
  <2>2. ASSUME NEW i \in I, a = new(i) PROVE a = b
    <3>1. b \notin A
      BY <1>8, <2>2, Zenon
    <3>2. PICK k \in I : b = new(k)
      BY <1>18, <3>1, Zenon
    <3> QED
      BY <1>7, <2>2, <3>2, Zenon
  <2>3. ASSUME NEW k \in I, b = new(k), a \in A PROVE FALSE
    BY <1>8, <2>3, Zenon
  <2> QED
    BY <1>18, <2>1, <2>2, <2>3, Zenon
<1>10. \A i \in I : new(i).id[1] = j /\ new(i).id[2] = i
  BY <1>6
<1>11. \A b \in B : b.id[1] = None => b.id[2] < s
  BY <1>1, <1>5, <1>10, NamesAssumption
<1>12. AssetsFit(B, s)
  BY <1>1, <1>5, <1>6, <1>9, <1>11, Zenon DEF AssetsFit
<1>13. \A i, k \in I : new(i).parent = new(k).parent /\ new(i).name = new(k).name => i = k
  <2> SUFFICES ASSUME NEW i \in I, NEW k \in I, new(i).parent = new(k).parent, new(i).name = new(k).name
               PROVE  i = k
    BY Zenon
  <2>1. PICK p : p = new(i).parent
    OBVIOUS
  <2>2. p \in ParentIDs(j, rows, start, i) /\ p \in ParentIDs(j, rows, start, k) /\ rows[i].name = rows[k].name
    BY <1>6, <2>1, Zenon
  <2> QED
    BY <1>1, <1>3, <2>2, RowsApart, Zenon
<1>14. Alone(B)
  <2> SUFFICES ASSUME NEW a \in B, NEW b \in B, a.live, b.live, a.parent = b.parent, a.name = b.name
               PROVE  a = b
    BY Zenon DEF Alone
  <2>1. CASE a \in A /\ b \in A
    BY <2>1, Zenon DEF Alone
  <2>2. CASE a \notin A /\ b \notin A
    <3>1. PICK i \in I : a = new(i)
      BY <2>2, <1>18, Zenon
    <3>2. PICK k \in I : b = new(k)
      BY <2>2, <1>18, Zenon
    <3> QED
      BY <3>1, <3>2, <1>13, Zenon
  <2>3. CASE a \in A /\ b \notin A
    <3>1. PICK i \in I : b = new(i)
      BY <2>3, <1>18, Zenon
    <3> QED
      BY <3>1, <2>3, <1>6, Zenon
  <2>4. CASE a \notin A /\ b \in A
    <3>1. PICK i \in I : a = new(i)
      BY <2>4, <1>18, Zenon
    <3> QED
      BY <3>1, <2>4, <1>6, Zenon
  <2> QED
    BY <2>1, <2>2, <2>3, <2>4, Zenon
<1>15. Holds(B, j, last)
  <2>1. ASSUME NEW i \in 1..last PROVE \E b \in B : b.id = <<j, i>>
    <3>1. i \in 1..done \/ i \in I
      BY DEF I
    <3> QED
      BY <1>5, <1>6, <3>1, Zenon DEF Holds
  <2>2. \A i \in 1..done : i \in 1..last
    OBVIOUS
  <2>3. ASSUME NEW b \in B, b.id[1] = j PROVE b.id[2] \in 1..last
    <3>1. CASE b \in A
      BY <3>1, <2>2, <2>3, Zenon DEF Holds
    <3>2. ASSUME NEW i \in I, b = new(i) PROVE b.id[2] \in 1..last
      BY <3>2, <1>3, <1>10
    <3> QED
      BY <3>1, <3>2, <1>18, Zenon
  <2> QED
    BY <2>1, <2>3, Zenon DEF Holds
<1>16. Kept(A, B)
  BY <1>5, Zenon DEF Kept
<1>17. ASSUME NEW x \in Jobs, x # j PROVE NoneNew(A, B, x)
  <2> SUFFICES ASSUME NEW b \in B, b.id[1] = x PROVE b \in A
    BY Zenon DEF NoneNew
  <2>1. ASSUME NEW i \in I, b = new(i) PROVE FALSE
    BY <2>1, <1>10, <1>17, Zenon
  <2> QED
    BY <2>1, <1>18, Zenon
<1> QED
  BY <1>12, <1>14, <1>15, <1>16, <1>17, Zenon DEF BatchIsIn

----------------------------------------------------------------------------
(* The snapshot *)

(* What At finds at the top of the estate and one level down. *)
LEMMA AtRoot ==
  ASSUME assets \in SUBSET Asset, NEW x \in Names, NEW id
  PROVE  id \in At(Path(None, x)) <=>
           \E a \in assets : a.live /\ a.parent = None /\ a.name = x /\ a.id = id
<1>1. ASSUME NEW a \in assets, a.live, a.parent = None, a.name = x, a.id = id
      PROVE  id \in At(Path(None, x))
  <2>1. a \in {b \in Live : b.parent = None}
    BY <1>1 DEF Live
  <2>2. [path |-> Path(None, a.name), id |-> a.id] \in Existing
    BY <2>1 DEF Existing
  <2> QED
    BY <1>1, <2>2 DEF At
<1>2. ASSUME id \in At(Path(None, x))
      PROVE  \E a \in assets : a.live /\ a.parent = None /\ a.name = x /\ a.id = id
  <2>1. PICK e \in Existing : e.path = Path(None, x) /\ e.id = id
    BY <1>2 DEF At
  <2>2. CASE \E a \in {b \in Live : b.parent = None} : e = [path |-> Path(None, a.name), id |-> a.id]
    BY <2>1, <2>2 DEF Live, Path
  <2>3. CASE \E p \in {q \in Live : q.parent = None} : \E a \in {b \in Live : b.parent = p.id} :
               e = [path |-> Path(p.name, a.name), id |-> a.id]
    <3>1. PICK p \in Live : \E a \in Live : e = [path |-> Path(p.name, a.name), id |-> a.id]
      BY <2>3
    <3>2. p.name = None
      BY <2>1, <3>1 DEF Path
    <3>3. p.name \in Names
      BY <3>1 DEF Live, Asset
    <3> QED
      BY <3>2, <3>3, NamesAssumption
  <2> QED
    BY <2>1, <2>2, <2>3 DEF Existing
<1> QED
  BY <1>1, <1>2

(* The rows of a file that passed, as they are about to be written. *)
LEMMA ValidatedRows ==
  ASSUME assets \in SUBSET Asset, NEW j \in Jobs, NEW file \in Files, Holds(assets, j, 0),
         \A i \in 1..Len(file) : RowPasses(DepthOrder(file), i),
         NEW rows, rows = [i \in DOMAIN DepthOrder(file) |-> Build(DepthOrder(file)[i])]
  PROVE  RowsFit(assets, j, rows, file)
<1>0. file \in Seq(ImportRow)
  BY FilesAssumption
<1>1. PICK d : d = DepthOrder(file)
  OBVIOUS
<1>2. DOMAIN d = 1..Len(file) /\ Len(file) \in Nat
  BY <1>0, <1>1, RowsOfFile
<1>3. \A i \in 1..Len(file) : d[i] \in ImportRow
  BY <1>0, <1>1, DepthOrderRows, ElementOfSeq
<1>4. rows = [i \in 1..Len(file) |-> Build(d[i])]
  BY <1>1, <1>2
<1>5. ASSUME NEW i \in 1..Len(file)
      PROVE  /\ rows[i] \in Built
             /\ rows[i].name = d[i].name /\ rows[i].parent = d[i].parent
             /\ rows[i].parentID # None =>
                  /\ rows[i].parent # None
                  /\ \E a \in assets : a.id = rows[i].parentID /\ a.name = rows[i].parent
  <2>1. d[i].name \in Names /\ d[i].parent \in Names \cup {None} /\ d[i].known \in BOOLEAN
    BY <1>3 DEF ImportRow
  <2>2. PICK c : c = IF ~IsRoot(d[i]) /\ At(Path(None, d[i].parent)) # {}
                       THEN CHOOSE id \in At(Path(None, d[i].parent)) : TRUE ELSE None
    OBVIOUS
  <2>3. c # None => d[i].parent # None /\ c \in At(Path(None, d[i].parent))
    BY <2>2 DEF IsRoot
  <2>4. c # None => \E a \in assets : a.id = c /\ a.name = d[i].parent
    BY <2>1, <2>3, AtRoot
  <2>5. c \in Ids \cup {None}
    BY <2>4 DEF Asset
  <2>6. rows[i] = [name |-> d[i].name, parent |-> d[i].parent, known |-> d[i].known, parentID |-> c]
    BY <1>4, <2>2 DEF Build
  <2> QED
    BY <2>1, <2>3, <2>4, <2>5, <2>6 DEF Built
<1>6. rows \in [1..Len(file) -> Built]
  BY <1>4, <1>5
<1>7. rows \in Seq(Built)
  BY <1>2, <1>6, SeqDef
<1>8. Len(rows) = Len(file)
  BY <1>2, <1>6, <1>7, LenProperties
<1>9. ASSUME NEW i \in 1..Len(file), NEW k \in 1..Len(file), k < i
      PROVE  ~(rows[i].parent = rows[k].parent /\ rows[i].name = rows[k].name)
  <2>1. k \in 1..(i - 1)
    BY <1>2, <1>9
  <2>2. RowPath(d[k]) # RowPath(d[i])
    BY <1>1, <2>1 DEF RowPasses
  <2> QED
    BY <1>5, <2>2 DEF RowPath, Path
<1>10. \A i, k \in 1..Len(file) : rows[i].parent = rows[k].parent /\ rows[i].name = rows[k].name => i = k
  <2> SUFFICES ASSUME NEW i \in 1..Len(file), NEW k \in 1..Len(file),
                      rows[i].parent = rows[k].parent, rows[i].name = rows[k].name
               PROVE  i = k
    BY Zenon
  <2>1. ~(k < i) /\ ~(i < k)
    BY <1>9, Zenon
  <2> QED
    BY <2>1, <1>2
<1>11. \A a \in assets : a.id[1] # j
  BY DEF Holds
<1> QED
  BY <1>5, <1>7, <1>8, <1>10, <1>11, Zenon DEF RowsFit

----------------------------------------------------------------------------
(* What a change of the job table leaves as it was *)

LEMMA JobsChange ==
  ASSUME NEW A, NEW J, JobsFit(A, J), NEW K, NEW j \in Jobs, \A x \in Jobs : x # j => K[x] = J[x],
         K[j].status # "none", K[j].file \in Files, Told(A, j, K[j].status, K[j].created, K[j].file)
  PROVE  JobsFit(A, K)
<1> SUFFICES ASSUME NEW x \in Jobs
             PROVE  /\ K[x].status = "none" => Holds(A, x, 0)
                    /\ K[x].status # "none" => K[x].file \in Files
                    /\ Told(A, x, K[x].status, K[x].created, K[x].file)
  BY Zenon DEF JobsFit
<1>1. CASE x = j
  BY <1>1, Zenon
<1>2. CASE x # j
  <2>1. K[x] = J[x]
    BY <1>2, Zenon
  <2>2. /\ J[x].status = "none" => Holds(A, x, 0)
        /\ J[x].status # "none" => J[x].file \in Files
        /\ Told(A, x, J[x].status, J[x].created, J[x].file)
    BY Zenon DEF JobsFit
  <2> QED
    BY <2>1, <2>2, Zenon
<1> QED
  BY <1>1, <1>2, Zenon

LEMMA WorkerChange ==
  ASSUME NEW A, NEW w, NEW J, NEW K, WorkerFits(w, A, J),
         w # Idle => K[w.job].status \in {"queued", "running"} /\ K[w.job].file = J[w.job].file
  PROVE  WorkerFits(w, A, K)
<1>1. Started(w) \/ Writing(w) \/ Finishing(w) => w # Idle
  BY DEF Started, Writing, Finishing, Idle
<1>2. CASE w = Idle
  BY <1>1, <1>2, Zenon DEF WorkerFits
<1>3. CASE w # Idle
  <2>1. PICK f : f = J[w.job].file
    OBVIOUS
  <2>2. K[w.job].file = f
    BY <1>3, <2>1, Zenon
  <2> QED
    BY <1>3, <2>1, <2>2, Zenon DEF WorkerFits
<1> QED
  BY <1>2, <1>3, Zenon

LEMMA QueueChange ==
  ASSUME NEW A, NEW wait, NEW q, NEW w, NEW J, NEW K, QueueFits(wait, q, w, A, J),
         \A j \in Jobs : Sent(j, wait, q) => K[j] = J[j]
  PROVE  QueueFits(wait, q, w, A, K)
<1>1. ASSUME NEW j \in Jobs, Sent(j, wait, q)
      PROVE  /\ K[j].status = "queued" /\ K[j].file \in Files
             /\ Holds(A, j, 0)
             /\ w # Idle => w.job # j
  <2>1. K[j] = J[j]
    BY <1>1, Zenon
  <2> QED
    BY <1>1, <2>1, Zenon DEF QueueFits
<1> QED
  BY <1>1, Zenon DEF QueueFits

LEMMA WorkerOps ==
  ASSUME NEW A, NEW J, NEW w, WorkerFits(w, A, J)
  PROVE  /\ w.op = "started" => Started(w)
         /\ w.op = "writing" => Writing(w)
         /\ w.op = "finishing" => Finishing(w)
         /\ w.op \in {"started", "writing", "finishing"} => w # Idle /\ w.job \in Jobs
  BY DEF WorkerFits, Active, Started, Writing, Finishing, Idle

----------------------------------------------------------------------------
(* Every action keeps the invariant *)

LEMMA ImportInit == Init => ImportInv
<1> SUFFICES ASSUME Init PROVE ImportInv
  OBVIOUS
<1> USE DEF Init
<1>1. AssetsFit(assets, saves) /\ Alone(assets)
  BY DEF AssetsFit, Alone, UniqueIds
<1>2. \A j \in Jobs : jobs[j] = [status |-> "none", file |-> None, created |-> 0]
  OBVIOUS
<1>3. jobs \in [Jobs -> Job]
  BY DEF Job
<1>4. JobsFit(assets, jobs)
  BY DEF JobsFit, Told, Holds
<1>5. WorkerFits(worker, assets, jobs)
  BY DEF WorkerFits, Active, Started, Writing, Finishing, Idle
<1>6. QueueFits(waiting, queue, worker, assets, jobs)
  BY DEF QueueFits, Sent
<1> QED
  BY <1>1, <1>3, <1>4, <1>5, <1>6 DEF ImportInv

LEMMA UploadKeeps ==
  ASSUME ImportInv, NEW j \in Jobs, NEW file \in Files, Upload(j, file)
  PROVE  ImportInv'
<1>1. PICK r : r = [status |-> "queued", file |-> file, created |-> 0]
  OBVIOUS
<1>2. r \in Job /\ r.status = "queued" /\ r.file = file
  BY <1>1 DEF Job
<1>3. jobs \in [Jobs -> Job] /\ jobs[j].status = "none" /\ jobs' = [jobs EXCEPT ![j] = r]
  BY <1>1 DEF ImportInv, Upload
<1>4. jobs' \in [Jobs -> Job] /\ jobs'[j] = r /\ \A x \in Jobs : x # j => jobs'[x] = jobs[x]
  BY <1>2, <1>3
<1>5. /\ waiting' = waiting \cup {j} /\ up
      /\ assets' = assets /\ queue' = queue /\ worker' = worker /\ up' = up /\ saves' = saves
  BY DEF Upload
<1>6. JobsFit(assets, jobs')
  <2>1. Told(assets, j, r.status, r.created, r.file)
    BY <1>2, Zenon DEF Told
  <2>2. jobs'[j].status # "none" /\ jobs'[j].file \in Files
    BY <1>2, <1>4, Zenon
  <2> QED
    BY <1>4, <2>1, <2>2, JobsChange, Zenon DEF ImportInv
<1>7. worker # Idle => worker.job # j
  BY <1>3, Zenon DEF ImportInv, WorkerFits
<1>8. WorkerFits(worker, assets, jobs')
  <2>1. worker # Idle => worker.job \in Jobs
    BY DEF ImportInv, WorkerFits, Active, Started, Writing, Finishing
  <2>2. worker # Idle => jobs'[worker.job] = jobs[worker.job]
    BY <1>4, <1>7, <2>1, Zenon
  <2>3. worker # Idle => jobs[worker.job].status \in {"queued", "running"}
    BY Zenon DEF ImportInv, WorkerFits
  <2>4. WorkerFits(worker, assets, jobs)
    BY DEF ImportInv
  <2> QED
    BY <2>2, <2>3, <2>4, WorkerChange, Zenon
<1>9. QueueFits(waiting', queue, worker, assets, jobs')
  <2>0. QueueFits(waiting, queue, worker, assets, jobs) /\ queue \in Seq(Jobs)
    BY DEF ImportInv
  <2>1. ~Sent(j, waiting, queue)
    BY <1>3, <2>0, Zenon DEF QueueFits
  <2>2. \A x \in Jobs : x # j => (Sent(x, waiting', queue) => Sent(x, waiting, queue))
    BY <1>5, Zenon DEF Sent
  <2>3. Holds(assets, j, 0)
    BY <1>3, Zenon DEF ImportInv, JobsFit
  <2>4. ASSUME NEW x \in Jobs, Sent(x, waiting', queue)
        PROVE  /\ jobs'[x].status = "queued" /\ jobs'[x].file \in Files
               /\ Holds(assets, x, 0)
               /\ worker # Idle => worker.job # x
    <3>1. CASE x = j
      BY <3>1, <1>2, <1>4, <1>7, <2>3, Zenon
    <3>2. CASE x # j
      <4>1. Sent(x, waiting, queue) /\ jobs'[x] = jobs[x]
        BY <3>2, <2>2, <2>4, <1>4, Zenon
      <4> QED
        BY <4>1, <2>0, Zenon DEF QueueFits
    <3> QED
      BY <3>1, <3>2, Zenon
  <2>5. \A i \in 1..Len(queue) : queue[i] \notin waiting'
    BY <1>5, <2>0, <2>1, Zenon DEF Sent, QueueFits
  <2> QED
    BY <2>0, <2>4, <2>5, Zenon DEF QueueFits
<1> QED
  BY <1>4, <1>5, <1>6, <1>8, <1>9 DEF ImportInv

LEMMA SubmitKeeps ==
  ASSUME ImportInv, NEW j \in Jobs, Submit(j)
  PROVE  ImportInv'
<1>0. QueueFits(waiting, queue, worker, assets, jobs) /\ queue \in Seq(Jobs) /\ waiting \in SUBSET Jobs
  BY DEF ImportInv
<1>1. /\ j \in waiting /\ queue' = Append(queue, j) /\ waiting' = waiting \ {j}
      /\ assets' = assets /\ jobs' = jobs /\ worker' = worker /\ up' = up /\ saves' = saves
  BY DEF Submit, store
<1>2. /\ Len(queue) \in Nat /\ Len(queue') = Len(queue) + 1 /\ queue' \in Seq(Jobs)
      /\ queue'[Len(queue) + 1] = j
      /\ \A i \in 1..Len(queue) : queue'[i] = queue[i]
  BY <1>0, <1>1, LenProperties, AppendProperties
<1>3. \A i \in 1..Len(queue') : i \in 1..Len(queue) \/ i = Len(queue) + 1
  BY <1>2
<1>4. \A x \in Jobs : Sent(x, waiting', queue') => Sent(x, waiting, queue)
  BY <1>1, <1>2, <1>3, Zenon DEF Sent
<1>5. \A i \in 1..Len(queue) : queue[i] # j
  BY <1>0, <1>1, Zenon DEF QueueFits
<1>6. \A i, k \in 1..Len(queue') : queue'[i] = queue'[k] => i = k
  BY <1>0, <1>2, <1>3, <1>5, Zenon DEF QueueFits
<1>7. \A i \in 1..Len(queue') : queue'[i] \notin waiting'
  BY <1>0, <1>1, <1>2, <1>3, Zenon DEF QueueFits
<1>8. QueueFits(waiting', queue', worker, assets, jobs)
  BY <1>0, <1>4, <1>6, <1>7, Zenon DEF QueueFits
<1>9. up
  BY <1>1, Zenon DEF ImportInv
<1>10. waiting' \in SUBSET Jobs
  BY <1>0, <1>1
<1> QED
  BY <1>1, <1>2, <1>8, <1>9, <1>10 DEF ImportInv

LEMMA TakeNextKeeps ==
  ASSUME ImportInv, TakeNext
  PROVE  ImportInv'
<1>0. /\ QueueFits(waiting, queue, worker, assets, jobs) /\ queue \in Seq(Jobs) /\ JobsFit(assets, jobs)
      /\ jobs \in [Jobs -> Job]
  BY DEF ImportInv
<1>1. PICK h : h = Head(queue)
  OBVIOUS
<1>2. /\ worker = Idle /\ queue # <<>> /\ worker' = [op |-> "started", job |-> h] /\ queue' = Tail(queue)
      /\ jobs' = [jobs EXCEPT ![h].status = "running"] \/ jobs' = jobs
      /\ assets' = assets /\ waiting' = waiting /\ up' = up /\ saves' = saves
  BY <1>1 DEF TakeNext
<1>3. /\ Len(queue) \in Nat /\ Len(queue) > 0 /\ h = queue[1] /\ h \in Jobs
      /\ queue' \in Seq(Jobs) /\ Len(queue') = Len(queue) - 1
      /\ \A i \in 1..Len(queue') : queue'[i] = queue[i + 1]
  BY <1>0, <1>1, <1>2, HeadTailProperties, LenProperties, EmptySeq
<1>4. \A i \in 1..Len(queue') : i + 1 \in 1..Len(queue) /\ i + 1 # 1 /\ i \in Int
  BY <1>3
<1>5. 1 \in 1..Len(queue)
  BY <1>3
<1>6. Sent(h, waiting, queue)
  BY <1>3, <1>5, Zenon DEF Sent
<1>7. jobs[h].status = "queued" /\ jobs[h].file \in Files /\ Holds(assets, h, 0)
  BY <1>0, <1>3, <1>6, Zenon DEF QueueFits
<1>8. /\ jobs' \in [Jobs -> Job] /\ jobs'[h].status \in {"queued", "running"}
      /\ jobs'[h].file = jobs[h].file /\ \A x \in Jobs : x # h => jobs'[x] = jobs[x]
  <2>1. CASE jobs' = jobs
    BY <1>0, <1>7, <2>1
  <2>2. CASE jobs' = [jobs EXCEPT ![h].status = "running"]
    <3>1. PICK r : r = [jobs[h] EXCEPT !.status = "running"]
      OBVIOUS
    <3>2. jobs[h] \in Job
      BY <1>0, <1>3
    <3>3. r \in Job /\ r.status = "running" /\ r.file = jobs[h].file
      BY <3>1, <3>2 DEF Job
    <3>4. jobs' = [jobs EXCEPT ![h] = r]
      BY <2>2, <3>1
    <3> QED
      BY <1>0, <1>3, <3>3, <3>4
  <2> QED
    BY <1>2, <2>1, <2>2
<1>9. JobsFit(assets, jobs')
  <2>1. Told(assets, h, jobs'[h].status, jobs'[h].created, jobs'[h].file)
    BY <1>8 DEF Told
  <2>2. jobs'[h].status # "none" /\ jobs'[h].file \in Files
    BY <1>7, <1>8
  <2>3. h \in Jobs /\ JobsFit(assets, jobs) /\ \A x \in Jobs : x # h => jobs'[x] = jobs[x]
    BY <1>0, <1>3, <1>8, Zenon
  <2> QED
    BY <2>1, <2>2, <2>3, JobsChange
<1>10. WorkerFits(worker', assets, jobs')
  <2>1. Started(worker') /\ worker'.job = h /\ ~Writing(worker') /\ ~Finishing(worker')
    BY <1>2, <1>3 DEF Started, Writing, Finishing
  <2> QED
    BY <2>1, <1>7, <1>8, Zenon DEF WorkerFits, Active
<1>11. \A x \in Jobs : Sent(x, waiting', queue') => Sent(x, waiting, queue) /\ x # h
  <2>1. ASSUME NEW i \in 1..Len(queue') PROVE queue'[i] # h /\ \E k \in 1..Len(queue) : queue[k] = queue'[i]
    <3>1. queue[i + 1] # queue[1]
      BY <1>0, <1>4, <1>5 DEF QueueFits
    <3> QED
      BY <1>3, <1>4, <3>1, Zenon
  <2>2. h \notin waiting
    BY <1>0, <1>3, <1>5, Zenon DEF QueueFits
  <2> QED
    BY <1>2, <2>1, <2>2, Zenon DEF Sent
<1>12. QueueFits(waiting', queue', worker', assets, jobs')
  <2>1. ASSUME NEW x \in Jobs, Sent(x, waiting', queue')
        PROVE  /\ jobs'[x].status = "queued" /\ jobs'[x].file \in Files
               /\ Holds(assets, x, 0)
               /\ worker' # Idle => worker'.job # x
    <3>1. Sent(x, waiting, queue) /\ x # h /\ jobs'[x] = jobs[x]
      BY <1>8, <1>11, <2>1, Zenon
    <3>2. worker'.job = h
      BY <1>2
    <3> QED
      BY <1>0, <3>1, <3>2, Zenon DEF QueueFits
  <2>2. ASSUME NEW i \in 1..Len(queue'), NEW k \in 1..Len(queue'), queue'[i] = queue'[k] PROVE i = k
    <3>1. \A m, n \in 1..Len(queue) : queue[m] = queue[n] => m = n
      BY <1>0, Zenon DEF QueueFits
    <3>2. /\ i + 1 \in 1..Len(queue) /\ queue'[i] = queue[i + 1]
          /\ k + 1 \in 1..Len(queue) /\ queue'[k] = queue[k + 1]
      BY <1>3, <1>4, Zenon
    <3>3. i + 1 = k + 1
      BY <2>2, <3>1, <3>2, Zenon
    <3>4. i \in Int /\ k \in Int
      OBVIOUS
    <3> QED
      BY <3>3, <3>4
  <2>3. \A i \in 1..Len(queue') : queue'[i] \notin waiting'
    BY <1>0, <1>2, <1>3, <1>4, Zenon DEF QueueFits
  <2> QED
    BY <2>1, <2>2, <2>3, Zenon DEF QueueFits
<1>13. up
  BY <1>2, Zenon DEF ImportInv
<1> QED
  BY <1>2, <1>3, <1>8, <1>9, <1>10, <1>12, <1>13 DEF ImportInv

(* The worker moves on with its job, and nothing else changes but assets. *)
LEMMA WorkerMoves ==
  ASSUME ImportInv, worker # Idle, NEW w, w # Idle, w.job = worker.job,
         NEW B, AssetsFit(B, saves), Alone(B), Kept(assets, B),
         \A x \in Jobs : x # worker.job => NoneNew(assets, B, x),
         WorkerFits(w, B, jobs),
         worker' = w, assets' = B, jobs' = jobs, waiting' = waiting, queue' = queue, up' = up, saves' = saves
  PROVE  ImportInv'
<1>1. jobs[worker.job].status \in {"queued", "running"}
  BY Zenon DEF ImportInv, WorkerFits
<1>2. JobsFit(B, jobs)
  <2>1. \A j \in Jobs : jobs[j].status \in {"none", "succeeded", "refused", "partial"} => j # worker.job
    BY <1>1
  <2> QED
    BY <2>1, JobsKept, Zenon DEF ImportInv
<1>3. QueueFits(waiting, queue, w, B, jobs)
  <2>0. QueueFits(waiting, queue, worker, assets, jobs)
    BY DEF ImportInv
  <2>1. \A j \in Jobs : Sent(j, waiting, queue) => j # worker.job
    BY <2>0, Zenon DEF QueueFits
  <2>2. QueueFits(waiting, queue, worker, B, jobs)
    BY <2>0, <2>1, QueueKept, Zenon
  <2> QED
    BY <2>1, <2>2, Zenon DEF QueueFits
<1>4. up
  BY Zenon DEF ImportInv
<1> QED
  BY <1>2, <1>3, <1>4 DEF ImportInv

LEMMA NothingMoves ==
  ASSUME NEW A
  PROVE  Kept(A, A) /\ \A x \in Jobs : NoneNew(A, A, x)
  BY Zenon DEF Kept, NoneNew

LEMMA OutcomeFits ==
  ASSUME NEW A, NEW J, NEW j \in Jobs, J[j].status \in {"queued", "running"}, J[j].file \in Files,
         NEW status \in Stopped, NEW created \in Nat, Told(A, j, status, created, J[j].file),
         NEW w, w = [op |-> "finishing", job |-> j, status |-> status, created |-> created]
  PROVE  WorkerFits(w, A, J) /\ w # Idle /\ w.job = j
<1>1. /\ Finishing(w) /\ ~Started(w) /\ ~Writing(w) /\ w # Idle
      /\ w.job = j /\ w.status = status /\ w.created = created
  BY DEF Finishing, Started, Writing, Idle
<1> QED
  BY <1>1, Zenon DEF WorkerFits, Active

LEMMA ValidateKeeps ==
  ASSUME ImportInv, Validate
  PROVE  ImportInv'
<1>0. WorkerFits(worker, assets, jobs) /\ AssetsFit(assets, saves) /\ Alone(assets)
  BY DEF ImportInv
<1>1. /\ worker.op = "started" /\ assets' = assets /\ jobs' = jobs /\ waiting' = waiting
      /\ queue' = queue /\ up' = up /\ saves' = saves
  BY DEF Validate, store
<1>2. Started(worker) /\ worker # Idle /\ worker.job \in Jobs
  BY <1>0, <1>1, WorkerOps
<1>3. PICK j \in Jobs : j = worker.job
  BY <1>2
<1>4. PICK file \in Files : file = jobs[j].file
  BY <1>0, <1>2, <1>3, Zenon DEF WorkerFits
<1>5. /\ jobs[j].status \in {"queued", "running"} /\ Holds(assets, j, 0)
      /\ file \in Seq(ImportRow) /\ file # <<>>
  BY <1>0, <1>2, <1>3, <1>4, FilesAssumption, Zenon DEF WorkerFits
<1>6. DOMAIN DepthOrder(file) = 1..Len(file) /\ Len(file) \in Nat /\ Len(file) > 0
  BY <1>5, RowsOfFile, EmptySeq
<1>7. CASE \A i \in DOMAIN DepthOrder(file) : RowPasses(DepthOrder(file), i)
  <2>1. PICK rows : rows = [i \in DOMAIN DepthOrder(file) |-> Build(DepthOrder(file)[i])]
    OBVIOUS
  <2>2. worker' = [op |-> "writing", job |-> j, done |-> 0, rows |-> rows]
    BY <1>3, <1>4, <1>7, <2>1 DEF Validate
  <2>3. assets \in SUBSET Asset
    BY <1>0, Zenon DEF AssetsFit
  <2>4. \A i \in 1..Len(file) : RowPasses(DepthOrder(file), i)
    BY <1>6, <1>7, Zenon
  <2>5. RowsFit(assets, j, rows, file)
    BY <1>5, <2>1, <2>3, <2>4, ValidatedRows
  <2>6. rows \in Seq(Built)
    BY <2>5 DEF RowsFit
  <2>7. /\ Writing(worker') /\ ~Started(worker') /\ ~Finishing(worker') /\ worker' # Idle
        /\ worker'.job = j /\ worker'.done = 0 /\ worker'.rows = rows
    BY <2>2, <2>6 DEF Writing, Started, Finishing, Idle
  <2>8. worker'.done < Len(jobs[j].file)
    BY <1>4, <1>6, <2>7
  <2>9. WorkerFits(worker', assets, jobs)
    BY <1>4, <1>5, <2>5, <2>7, <2>8, Zenon DEF WorkerFits, Active
  <2>10. PICK w : w = worker'
    OBVIOUS
  <2> QED
    BY <1>0, <1>1, <1>2, <1>3, <2>7, <2>9, <2>10, NothingMoves, WorkerMoves, Zenon
<1>8. CASE ~ \A i \in DOMAIN DepthOrder(file) : RowPasses(DepthOrder(file), i)
  <2>1. worker' = [op |-> "finishing", job |-> j, status |-> "refused", created |-> 0]
    BY <1>3, <1>4, <1>8 DEF Validate, Outcome
  <2>2. Told(assets, j, "refused", 0, jobs[j].file)
    BY <1>5 DEF Told
  <2>3. WorkerFits(worker', assets, jobs) /\ worker' # Idle /\ worker'.job = j
    BY <1>4, <1>5, <2>1, <2>2, OutcomeFits DEF Stopped
  <2>10. PICK w : w = worker'
    OBVIOUS
  <2> QED
    BY <1>0, <1>1, <1>2, <1>3, <2>3, <2>10, NothingMoves, WorkerMoves, Zenon
<1> QED
  BY <1>7, <1>8, Zenon

LEMMA ValidateFailsKeeps ==
  ASSUME ImportInv, ValidateFails
  PROVE  ImportInv'
<1>0. WorkerFits(worker, assets, jobs) /\ AssetsFit(assets, saves) /\ Alone(assets)
  BY DEF ImportInv
<1>1. /\ worker.op = "started" /\ assets' = assets /\ jobs' = jobs /\ waiting' = waiting
      /\ queue' = queue /\ up' = up /\ saves' = saves
  BY DEF ValidateFails, store
<1>2. Started(worker) /\ worker # Idle /\ worker.job \in Jobs
  BY <1>0, <1>1, WorkerOps
<1>3. PICK j \in Jobs : j = worker.job
  BY <1>2
<1>4. jobs[j].status \in {"queued", "running"} /\ jobs[j].file \in Files
  BY <1>0, <1>2, <1>3, Zenon DEF WorkerFits
<1>5. worker' = [op |-> "finishing", job |-> j, status |-> "failed", created |-> 0]
  BY <1>3 DEF ValidateFails, Outcome
<1>6. Told(assets, j, "failed", 0, jobs[j].file)
  BY DEF Told
<1>7. WorkerFits(worker', assets, jobs) /\ worker' # Idle /\ worker'.job = j
  BY <1>4, <1>5, <1>6, OutcomeFits DEF Stopped
<1>8. PICK w : w = worker'
  OBVIOUS
<1> QED
  BY <1>0, <1>1, <1>2, <1>3, <1>7, <1>8, NothingMoves, WorkerMoves, Zenon

(* What the worker holds while it writes. *)
LEMMA WritingFacts ==
  ASSUME ImportInv, worker.op = "writing"
  PROVE  \E j \in Jobs, file \in Files :
           /\ Writing(worker) /\ worker # Idle /\ worker.job = j /\ jobs[j].file = file
           /\ jobs[j].status \in {"queued", "running"}
           /\ worker.done \in Nat /\ worker.done < Len(file)
           /\ Holds(assets, j, worker.done) /\ RowsFit(assets, j, worker.rows, file)
           /\ Len(worker.rows) = Len(file) /\ Len(file) \in Nat
<1>0. WorkerFits(worker, assets, jobs)
  BY DEF ImportInv
<1>1. Writing(worker) /\ worker # Idle /\ worker.job \in Jobs
  BY <1>0, WorkerOps
<1>2. jobs[worker.job].status \in {"queued", "running"} /\ jobs[worker.job].file \in Files
  BY <1>0, <1>1, Zenon DEF WorkerFits
<1>3. /\ Holds(assets, worker.job, worker.done) /\ worker.done < Len(jobs[worker.job].file)
      /\ RowsFit(assets, worker.job, worker.rows, jobs[worker.job].file)
  BY <1>0, <1>1, Zenon DEF WorkerFits
<1>4. worker.done \in Nat
  BY <1>1 DEF Writing
<1>5. Len(worker.rows) = Len(jobs[worker.job].file) /\ worker.rows \in Seq(Built)
  BY <1>3, Zenon DEF RowsFit
<1>6. Len(jobs[worker.job].file) \in Nat
  BY <1>5, LenProperties
<1> QED
  BY <1>1, <1>2, <1>3, <1>4, <1>5, <1>6

(* OutcomeFits, in the form StopFits instantiates. *)
Fits(w, A, J, j) == WorkerFits(w, A, J) /\ w # Idle /\ w.job = j
Ending(w, j, status, created) ==
  w = [op |-> "finishing", job |-> j, status |-> status, created |-> created]

LEMMA EndingFits ==
  ASSUME NEW A, NEW J, NEW j \in Jobs, J[j].status \in {"queued", "running"}, J[j].file \in Files,
         NEW status \in Stopped, NEW created \in Nat, Told(A, j, status, created, J[j].file),
         NEW w, Ending(w, j, status, created)
  PROVE  Fits(w, A, J, j)
BY OutcomeFits DEF Fits, Ending

LEMMA StopFits ==
  ASSUME NEW A, NEW J, NEW j \in Jobs, J[j].status \in {"queued", "running"}, J[j].file \in Files,
         NEW done \in Nat, done < Len(J[j].file), Len(J[j].file) \in Nat, Holds(A, j, done), Stop(j, done)
  PROVE  WorkerFits(worker', A, J) /\ worker' # Idle /\ worker'.job = j
<1>1. CASE done > 0
  <2>1. worker' = [op |-> "finishing", job |-> j, status |-> "partial", created |-> done]
    BY <1>1 DEF Stop, Outcome
  <2>2. Told(A, j, "partial", done, J[j].file)
    BY <1>1 DEF Told
  <2>3. PICK status \in Stopped : status = "partial"
    BY DEF Stopped
  <2>4. PICK w : w = worker' /\ Ending(w, j, status, done)
    BY <2>1, <2>3, Zenon DEF Ending
  <2>5. Told(A, j, status, done, J[j].file)
    BY <2>2, <2>3, Zenon
  <2>6. Fits(w, A, J, j)
    BY <2>4, <2>5, EndingFits, Zenon
  <2> QED
    BY <2>4, <2>6, Zenon DEF Fits
<1>2. CASE ~(done > 0)
  <2>1. worker' = [op |-> "finishing", job |-> j, status |-> "refused", created |-> 0]
    BY <1>2 DEF Stop, Outcome
  <2>2. done = 0
    BY <1>2
  <2>3. Told(A, j, "refused", 0, J[j].file)
    BY <2>2 DEF Told
  <2>4. PICK status \in Stopped, none \in Nat : status = "refused" /\ none = 0
    BY DEF Stopped
  <2>5. PICK w : w = worker' /\ Ending(w, j, status, none)
    BY <2>1, <2>4, Zenon DEF Ending
  <2>6. Told(A, j, status, none, J[j].file)
    BY <2>3, <2>4, Zenon
  <2>7. Fits(w, A, J, j)
    BY <2>5, <2>6, EndingFits, Zenon
  <2> QED
    BY <2>5, <2>7, Zenon DEF Fits
<1> QED
  BY <1>1, <1>2

LEMMA BatchFailsKeeps ==
  ASSUME ImportInv, BatchFails
  PROVE  ImportInv'
<1>0. AssetsFit(assets, saves) /\ Alone(assets)
  BY DEF ImportInv
<1>1. /\ worker.op = "writing" /\ Stop(worker.job, worker.done) /\ assets' = assets /\ jobs' = jobs
      /\ waiting' = waiting /\ queue' = queue /\ up' = up /\ saves' = saves
  BY DEF BatchFails, store
<1>2. PICK j \in Jobs, file \in Files :
           /\ Writing(worker) /\ worker # Idle /\ worker.job = j /\ jobs[j].file = file
           /\ jobs[j].status \in {"queued", "running"}
           /\ worker.done \in Nat /\ worker.done < Len(file)
           /\ Holds(assets, j, worker.done) /\ RowsFit(assets, j, worker.rows, file)
           /\ Len(worker.rows) = Len(file) /\ Len(file) \in Nat
  BY <1>1, WritingFacts
<1>3. PICK done \in Nat : done = worker.done
  BY <1>2
<1>4. WorkerFits(worker', assets, jobs) /\ worker' # Idle /\ worker'.job = j
  BY <1>1, <1>2, <1>3, StopFits
<1>5. PICK w : w = worker'
  OBVIOUS
<1> QED
  BY <1>0, <1>1, <1>2, <1>4, <1>5, NothingMoves, WorkerMoves, Zenon

LEMMA LastBounds ==
  ASSUME worker.done \in Nat, Len(worker.rows) \in Nat, worker.done < Len(worker.rows)
  PROVE  Last \in Nat /\ worker.done < Last /\ Last <= Len(worker.rows)
<1>1. PICK d \in Nat, n \in Nat, b \in Nat \ {0} : d = worker.done /\ n = Len(worker.rows) /\ b = BatchSize
  BY BoundsAssumption
<1>2. Last = Smaller(d + b, n)
  BY <1>1, Zenon DEF Last
<1>3. d < n
  BY <1>1
<1>4. Smaller(d + b, n) \in Nat /\ d < Smaller(d + b, n) /\ Smaller(d + b, n) <= n
  BY <1>3 DEF Smaller
<1> QED
  BY <1>1, <1>2, <1>4

LEMMA WriteBatchKeeps ==
  ASSUME ImportInv, WriteBatch
  PROVE  ImportInv'
<1>0. AssetsFit(assets, saves) /\ Alone(assets) /\ saves \in Nat
  BY DEF ImportInv
<1>1. /\ worker.op = "writing" /\ jobs' = jobs
      /\ waiting' = waiting /\ queue' = queue /\ up' = up /\ saves' = saves
  BY DEF WriteBatch
<1>2. PICK j \in Jobs, file \in Files :
           /\ Writing(worker) /\ worker # Idle /\ worker.job = j /\ jobs[j].file = file
           /\ jobs[j].status \in {"queued", "running"}
           /\ worker.done \in Nat /\ worker.done < Len(file)
           /\ Holds(assets, j, worker.done) /\ RowsFit(assets, j, worker.rows, file)
           /\ Len(worker.rows) = Len(file) /\ Len(file) \in Nat
  BY <1>1, WritingFacts
<1>3. PICK done \in Nat : done = worker.done
  BY <1>2
<1>4. PICK rows : rows = worker.rows
  OBVIOUS
<1>5. PICK last \in Nat : last = Last /\ done < last /\ last <= Len(rows)
  <2>1. worker.done \in Nat /\ Len(worker.rows) \in Nat /\ worker.done < Len(worker.rows)
    BY <1>2
  <2> QED
    BY <1>3, <1>4, <2>1, LastBounds
<1>6. Batch = (done + 1)..last
  BY <1>3, <1>5 DEF Batch
<1>7. CASE /\ \E i \in Batch : ~Insertable(j, i)
           /\ Stop(j, worker.done)
           /\ assets' = assets
  <2>1. WorkerFits(worker', assets, jobs) /\ worker' # Idle /\ worker'.job = j
    BY <1>2, <1>3, <1>7, StopFits
  <2>2. PICK w : w = worker'
    OBVIOUS
  <2> QED
    BY <1>0, <1>1, <1>2, <1>7, <2>1, <2>2, NothingMoves, WorkerMoves, Zenon
<1>8. CASE /\ \A i \in Batch : Insertable(j, i)
           /\ assets' = assets \cup {New(j, rows, done + 1, i) : i \in Batch}
           /\ IF Last = Len(rows) THEN Outcome(j, "succeeded", Len(rows))
              ELSE worker' = [worker EXCEPT !.done = Last]
  <2>1. PICK start : start = done + 1
    OBVIOUS
  <2>2. PICK B : B = assets'
    OBVIOUS
  <2>3. B = Added(assets, j, rows, start, done, last)
    BY <1>6, <1>8, <2>1, <2>2 DEF Added
  <2>4. NamesFree(assets, j, rows, start, done, last)
    BY <1>3, <1>4, <1>6, <1>8, <2>1 DEF Insertable, SiblingFree, Live, NamesFree
  <2>5. RowsFit(assets, j, rows, file) /\ Holds(assets, j, done) /\ done <= last /\ last <= Len(rows)
    BY <1>2, <1>3, <1>4, <1>5
  <2>6. /\ AssetsFit(B, saves) /\ Alone(B) /\ Holds(B, j, last) /\ Kept(assets, B)
        /\ \A x \in Jobs : x # j => NoneNew(assets, B, x)
    <3>1. BatchIsIn(assets, B, saves, j, last)
      BY <1>0, <2>3, <2>4, <2>5, BatchLands, Zenon
    <3> QED
      BY <3>1, Zenon DEF BatchIsIn
  <2>7. WorkerFits(worker', B, jobs) /\ worker' # Idle /\ worker'.job = j
    <3>1. CASE last = Len(rows)
      <4>1. worker' = [op |-> "finishing", job |-> j, status |-> "succeeded", created |-> last]
        BY <1>5, <1>8, <3>1 DEF Outcome
      <4>2. Told(B, j, "succeeded", last, jobs[j].file)
        BY <1>2, <1>4, <2>6, <3>1 DEF Told
      <4>3. PICK status \in Stopped : status = "succeeded"
        BY DEF Stopped
      <4>4. jobs[j].status \in {"queued", "running"} /\ jobs[j].file \in Files
        BY <1>2, Zenon
      <4> QED
        BY <4>1, <4>2, <4>3, <4>4, OutcomeFits
    <3>2. CASE last # Len(rows)
      <4>1. worker' = [worker EXCEPT !.done = last]
        BY <1>5, <1>8, <3>2
      <4>2. /\ Writing(worker') /\ ~Started(worker') /\ ~Finishing(worker') /\ worker' # Idle
            /\ worker'.job = j /\ worker'.done = last /\ worker'.rows = rows
        BY <1>2, <1>4, <1>5, <4>1 DEF Writing, Started, Finishing, Idle
      <4>3. worker'.done < Len(file)
        BY <1>2, <1>4, <1>5, <3>2, <4>2
      <4>4. RowsFit(B, j, rows, file)
        BY <2>5, <2>6, RowsKept, Zenon
      <4> QED
        BY <1>2, <2>6, <4>2, <4>3, <4>4, Zenon DEF WorkerFits, Active
    <3> QED
      BY <3>1, <3>2
  <2>8. PICK w : w = worker'
    OBVIOUS
  <2> QED
    BY <1>1, <1>2, <2>2, <2>6, <2>7, <2>8, WorkerMoves, Zenon
<1>9. \/ /\ \E i \in Batch : ~Insertable(j, i)
         /\ Stop(j, worker.done)
         /\ assets' = assets
      \/ /\ \A i \in Batch : Insertable(j, i)
         /\ assets' = assets \cup {New(j, rows, done + 1, i) : i \in Batch}
         /\ IF Last = Len(rows) THEN Outcome(j, "succeeded", Len(rows))
            ELSE worker' = [worker EXCEPT !.done = Last]
  BY <1>2, <1>3, <1>4 DEF WriteBatch, New
<1> QED
  BY <1>7, <1>8, <1>9, Zenon

(* The row that FinishImportJob leaves. *)
Recorded(J, j, status, created) == [J EXCEPT ![j].status = status, ![j].created = created]
Replaced(J, j, r) == [J EXCEPT ![j] = r]
JobRow(status, file, created) == [status |-> status, file |-> file, created |-> created]

LEMMA OutcomeRow ==
  ASSUME NEW J \in [Jobs -> Job], NEW j \in Jobs, NEW status, NEW created
  PROVE  Recorded(J, j, status, created) = Replaced(J, j, JobRow(status, J[j].file, created))
<1>0. PICK r, K : r = JobRow(status, J[j].file, created) /\ K = Recorded(J, j, status, created)
  BY Zenon
<1>1. J[j] \in Job
  OBVIOUS
<1>2. PICK f : f = [J EXCEPT ![j].status = status]
  OBVIOUS
<1>3. f = [x \in Jobs |-> IF x = j THEN [J[j] EXCEPT !.status = status] ELSE J[x]]
  BY <1>2
<1>4. PICK g : g = [f EXCEPT ![j].created = created]
  OBVIOUS
<1>5. g = K
  BY <1>0, <1>2, <1>4 DEF Recorded
<1>6. g = [x \in Jobs |-> IF x = j THEN [f[j] EXCEPT !.created = created] ELSE f[x]]
  BY <1>3, <1>4
<1>7. PICK q : q = [J[j] EXCEPT !.status = status]
  OBVIOUS
<1>8. f[j] = q /\ [q EXCEPT !.created = created] = r
  <2>1. PICK s, c : J[j] = [status |-> s, file |-> J[j].file, created |-> c]
    BY <1>1 DEF Job
  <2>2. q = [status |-> status, file |-> J[j].file, created |-> c]
    BY <1>7, <2>1
  <2>3. [q EXCEPT !.created = created] = r
    BY <1>0, <2>2 DEF JobRow
  <2> QED
    BY <1>3, <1>7, <2>3
<1>9. g = [x \in Jobs |-> IF x = j THEN r ELSE J[x]]
  BY <1>3, <1>6, <1>8
<1>10. K = Replaced(J, j, r)
  BY <1>5, <1>9 DEF Replaced
<1> QED
  BY <1>0, <1>10, Zenon

LEMMA FinishKeeps ==
  ASSUME ImportInv, Finish
  PROVE  ImportInv'
<1>0. /\ WorkerFits(worker, assets, jobs) /\ jobs \in [Jobs -> Job] /\ JobsFit(assets, jobs)
      /\ QueueFits(waiting, queue, worker, assets, jobs)
  BY DEF ImportInv
<1>1. /\ worker.op = "finishing" /\ worker' = Idle
      /\ jobs' = [jobs EXCEPT ![worker.job].status = worker.status, ![worker.job].created = worker.created]
      /\ assets' = assets /\ waiting' = waiting /\ queue' = queue /\ up' = up /\ saves' = saves
  BY DEF Finish
<1>2. Finishing(worker) /\ worker # Idle /\ worker.job \in Jobs
  BY <1>0, <1>1, WorkerOps
<1>3. PICK j \in Jobs : j = worker.job
  BY <1>2
<1>4. PICK status \in Stopped : status = worker.status
  BY <1>2 DEF Finishing
<1>5. PICK created \in Nat : created = worker.created
  BY <1>2 DEF Finishing
<1>6. PICK file \in Files : file = jobs[j].file
  BY <1>0, <1>2, <1>3, Zenon DEF WorkerFits
<1>7. Told(assets, j, status, created, file)
  BY <1>0, <1>2, <1>3, <1>4, <1>5, <1>6, Zenon DEF WorkerFits
<1>8. PICK r : r = [status |-> status, file |-> file, created |-> created]
  OBVIOUS
<1>9. r \in Job /\ r.status = status /\ r.file = file /\ r.created = created
  BY <1>8 DEF Job
<1>10. jobs' = [jobs EXCEPT ![j] = r]
  <2>1. PICK K : K = jobs' /\ K = Recorded(jobs, j, status, created)
    BY <1>1, <1>3, <1>4, <1>5, Zenon DEF Recorded
  <2>2. r = JobRow(status, jobs[j].file, created)
    BY <1>6, <1>8, Zenon DEF JobRow
  <2>3. Recorded(jobs, j, status, created) = Replaced(jobs, j, JobRow(status, jobs[j].file, created))
    BY <1>0, OutcomeRow, Zenon
  <2> QED
    BY <2>1, <2>2, <2>3, Zenon DEF Replaced
<1>11. jobs' \in [Jobs -> Job] /\ jobs'[j] = r /\ \A x \in Jobs : x # j => jobs'[x] = jobs[x]
  BY <1>0, <1>9, <1>10
<1>12. JobsFit(assets, jobs')
  <2>1. status # "none"
    BY DEF Stopped
  <2>2. /\ jobs'[j].status # "none" /\ jobs'[j].file \in Files
        /\ Told(assets, j, jobs'[j].status, jobs'[j].created, jobs'[j].file)
    BY <1>7, <1>9, <1>11, <2>1, Zenon
  <2>3. \A x \in Jobs : x # j => jobs'[x] = jobs[x]
    BY <1>11, Zenon
  <2> QED
    BY <1>0, <2>2, <2>3, JobsChange
<1>13. WorkerFits(Idle, assets, jobs')
  BY DEF WorkerFits, Idle, Active, Started, Writing, Finishing
<1>14. QueueFits(waiting, queue, Idle, assets, jobs')
  <2>1. \A x \in Jobs : Sent(x, waiting, queue) => x # j
    BY <1>0, <1>2, <1>3, Zenon DEF QueueFits
  <2>2. \A x \in Jobs : Sent(x, waiting, queue) => jobs'[x] = jobs[x]
    BY <1>11, <2>1, Zenon
  <2>3. QueueFits(waiting, queue, worker, assets, jobs')
    BY <1>0, <2>2, QueueChange, Zenon
  <2> QED
    BY <2>3, Zenon DEF QueueFits
<1>15. up
  BY <1>2, Zenon DEF ImportInv
<1> QED
  BY <1>1, <1>11, <1>12, <1>13, <1>14, <1>15 DEF ImportInv

LEMMA FinishFailsKeeps ==
  ASSUME ImportInv, FinishFails
  PROVE  ImportInv'
<1>1. /\ worker' = Idle /\ assets' = assets /\ jobs' = jobs /\ waiting' = waiting
      /\ queue' = queue /\ up' = up /\ saves' = saves
  BY DEF FinishFails, store
<1>2. WorkerFits(Idle, assets, jobs)
  BY DEF WorkerFits, Idle, Active, Started, Writing, Finishing
<1>3. QueueFits(waiting, queue, Idle, assets, jobs)
  BY Zenon DEF ImportInv, QueueFits
<1> QED
  BY <1>1, <1>2, <1>3 DEF ImportInv

(* Somebody's save: no job's assets are touched. *)
LEMMA SaveMoves ==
  ASSUME ImportInv, NEW B, Kept(assets, B), \A x \in Jobs : NoneNew(assets, B, x),
         saves' \in Nat, AssetsFit(B, saves'), Alone(B),
         assets' = B, jobs' = jobs, waiting' = waiting, queue' = queue, worker' = worker, up' = up
  PROVE  ImportInv'
<1>1. worker # Idle => worker.job \in Jobs
  BY DEF ImportInv, WorkerFits, Active, Started, Writing, Finishing
<1>2. WorkerFits(worker, B, jobs)
  BY <1>1, WorkerKept, Zenon DEF ImportInv
<1>3. QueueFits(waiting, queue, worker, B, jobs)
  BY QueueKept, Zenon DEF ImportInv
<1>4. JobsFit(B, jobs)
  BY JobsKept, Zenon DEF ImportInv
<1> QED
  BY <1>2, <1>3, <1>4 DEF ImportInv

LEMMA SaveCreateKeeps ==
  ASSUME ImportInv, NEW name \in Names, NEW parent, SaveCreate(name, parent)
  PROVE  ImportInv'
<1>0. AssetsFit(assets, saves) /\ Alone(assets) /\ saves \in Nat /\ assets \in SUBSET Asset
  BY DEF ImportInv, AssetsFit
<1>1. PICK n : n = [id |-> <<None, saves>>, name |-> name, parent |-> parent, live |-> TRUE]
  OBVIOUS
<1>2. /\ parent \in {a.id : a \in {b \in assets : b.parent = None}} \cup {None}
      /\ SiblingFree(parent, name) /\ assets' = assets \cup {n} /\ saves' = saves + 1
      /\ jobs' = jobs /\ waiting' = waiting /\ queue' = queue /\ worker' = worker /\ up' = up
  BY <1>1 DEF SaveCreate, process
<1>3. parent \in Ids \cup {None}
  BY <1>0, <1>2 DEF Asset
<1>4. <<None, saves>> \in Ids
  BY <1>0, PairIds
<1>5. /\ n \in Asset /\ n.id = <<None, saves>> /\ n.name = name /\ n.parent = parent
      /\ n.id[1] = None /\ n.id[2] = saves
  BY <1>1, <1>3, <1>4 DEF Asset
<1>6. \A a \in assets : a.id # n.id
  <2>1. \A a \in assets : a.id[1] = None => a.id[2] < saves
    BY <1>0 DEF AssetsFit
  <2> QED
    BY <1>0, <1>5, <2>1
<1>7. PICK B : B = assets \cup {n}
  OBVIOUS
<1>8. \A b \in B : b \in assets \/ b = n
  BY <1>7, Zenon
<1>9. AssetsFit(B, saves')
  <2>1. B \in SUBSET Asset
    BY <1>0, <1>5, <1>7
  <2>2. UniqueIds(B)
    BY <1>0, <1>6, <1>8, Zenon DEF AssetsFit, UniqueIds
  <2>3. \A b \in B : b.id[1] = None => b.id[2] < saves'
    <3>1. ASSUME NEW b \in assets, b.id[1] = None PROVE b.id[2] < saves'
      <4>1. b.id[2] < saves /\ b.id \in Ids
        BY <1>0, <3>1 DEF AssetsFit, Asset
      <4>2. b.id[2] \in Nat
        BY <4>1 DEF Ids
      <4> QED
        BY <1>0, <1>2, <4>1, <4>2
    <3>2. n.id[2] < saves'
      BY <1>0, <1>2, <1>5
    <3> QED
      BY <1>8, <3>1, <3>2, Zenon
  <2> QED
    BY <2>1, <2>2, <2>3 DEF AssetsFit
<1>10. \A a \in assets : ~(a.live /\ a.parent = n.parent /\ a.name = n.name)
  BY <1>2, <1>5 DEF SiblingFree, Live
<1>11. Alone(B)
  <2> SUFFICES ASSUME NEW a \in B, NEW b \in B, a.live, b.live, a.parent = b.parent, a.name = b.name
               PROVE  a = b
    BY Zenon DEF Alone
  <2>1. CASE a \in assets /\ b \in assets
    BY <1>0, <2>1, Zenon DEF Alone
  <2>2. CASE a = n
    BY <1>8, <1>10, <2>2, Zenon
  <2>3. CASE b = n
    BY <1>8, <1>10, <2>3, Zenon
  <2> QED
    BY <1>8, <2>1, <2>2, <2>3, Zenon
<1>12. Kept(assets, B)
  BY <1>7, Zenon DEF Kept
<1>13. ASSUME NEW x \in Jobs PROVE NoneNew(assets, B, x)
  <2>1. n.id[1] # x
    BY <1>5, NamesAssumption
  <2> QED
    BY <1>8, <2>1, Zenon DEF NoneNew
<1>14. saves' \in Nat
  BY <1>0, <1>2
<1> QED
  BY <1>2, <1>7, <1>9, <1>11, <1>12, <1>13, <1>14, SaveMoves, Zenon

LEMMA SaveRetireKeeps ==
  ASSUME ImportInv, NEW a \in assets, SaveRetire(a)
  PROVE  ImportInv'
<1>0. AssetsFit(assets, saves) /\ Alone(assets) /\ saves \in Nat /\ assets \in SUBSET Asset
  BY DEF ImportInv, AssetsFit
<1>1. PICK n : n = [a EXCEPT !.live = FALSE]
  OBVIOUS
<1>2. /\ assets' = (assets \ {a}) \cup {n} /\ saves' = saves + 1
      /\ jobs' = jobs /\ waiting' = waiting /\ queue' = queue /\ worker' = worker /\ up' = up
  BY <1>1 DEF SaveRetire, process
<1>3. n \in Asset /\ n.id = a.id /\ n.name = a.name /\ n.live = FALSE
  BY <1>0, <1>1 DEF Asset
<1>4. PICK B : B = (assets \ {a}) \cup {n}
  OBVIOUS
<1>5. \A b \in B : (b \in assets /\ b # a) \/ b = n
  BY <1>4, Zenon
<1>6. \A b \in B : \E c \in assets : c.id = b.id
  BY <1>3, <1>5, Zenon
<1>7. AssetsFit(B, saves')
  <2>1. B \in SUBSET Asset
    BY <1>0, <1>3, <1>4
  <2>2. UniqueIds(B)
    BY <1>0, <1>3, <1>5, Zenon DEF AssetsFit, UniqueIds
  <2>3. ASSUME NEW b \in B, b.id[1] = None PROVE b.id[2] < saves'
    <3>1. PICK c \in assets : c.id = b.id
      BY <1>6
    <3>2. c.id[2] < saves /\ c.id \in Ids
      BY <1>0, <2>3, <3>1 DEF AssetsFit, Asset
    <3>3. c.id[2] \in Nat
      BY <3>2 DEF Ids
    <3> QED
      BY <1>0, <1>2, <3>1, <3>2, <3>3
  <2> QED
    BY <2>1, <2>2, <2>3 DEF AssetsFit
<1>8. Alone(B)
  <2>1. ~n.live
    BY <1>3
  <2> QED
    BY <1>0, <1>5, <2>1, Zenon DEF Alone
<1>9. Kept(assets, B)
  BY <1>3, <1>4, Zenon DEF Kept
<1>10. \A x \in Jobs : NoneNew(assets, B, x)
  BY <1>6, Zenon DEF NoneNew
<1>11. saves' \in Nat
  BY <1>0, <1>2
<1> QED
  BY <1>2, <1>4, <1>7, <1>8, <1>9, <1>10, <1>11, SaveMoves, Zenon

LEMMA CrashKeeps ==
  ASSUME ImportInv, Crash
  PROVE  ImportInv'
<1>1. /\ up' = FALSE /\ waiting' = {} /\ queue' = <<>> /\ worker' = Idle
      /\ assets' = assets /\ jobs' = jobs /\ saves' = saves
  BY DEF Crash, store
<1>2. WorkerFits(Idle, assets, jobs)
  BY DEF WorkerFits, Idle, Active, Started, Writing, Finishing
<1>3. QueueFits({}, <<>>, Idle, assets, jobs)
  BY DEF QueueFits, Sent
<1>4. {} \in SUBSET Jobs /\ <<>> \in Seq(Jobs)
  BY EmptySeq
<1> QED
  BY <1>1, <1>2, <1>3, <1>4 DEF ImportInv

LEMMA RestartKeeps ==
  ASSUME ImportInv, Restart
  PROVE  ImportInv'
<1>0. /\ jobs \in [Jobs -> Job] /\ JobsFit(assets, jobs)
      /\ waiting = {} /\ queue = <<>> /\ worker = Idle
  BY DEF ImportInv, Restart
<1>1. /\ jobs' = [j \in Jobs |-> FailStale(j)] /\ up' = TRUE /\ waiting' = {} /\ queue' = <<>>
      /\ worker' = Idle /\ assets' = assets /\ saves' = saves
  BY <1>0 DEF Restart
<1>2. ASSUME NEW j \in Jobs
      PROVE  /\ jobs'[j] \in Job
             /\ \/ jobs'[j] = jobs[j]
                \/ jobs[j].status # "none" /\ jobs'[j].status = "failed" /\ jobs'[j].file = jobs[j].file
  <2>1. jobs[j] \in Job /\ jobs'[j] = FailStale(j)
    BY <1>0, <1>1
  <2>2. CASE Unfinished(j)
    <3>1. jobs'[j] = [jobs[j] EXCEPT !.status = "failed"]
      BY <2>1, <2>2 DEF FailStale
    <3> QED
      BY <2>1, <2>2, <3>1 DEF Job, Unfinished, Stopped
  <2>3. CASE ~Unfinished(j)
    BY <2>1, <2>3 DEF FailStale
  <2> QED
    BY <2>2, <2>3
<1>3. jobs' \in [Jobs -> Job]
  BY <1>1, <1>2
<1>4. JobsFit(assets, jobs')
  <2> SUFFICES ASSUME NEW j \in Jobs
               PROVE  /\ jobs'[j].status = "none" => Holds(assets, j, 0)
                      /\ jobs'[j].status # "none" => jobs'[j].file \in Files
                      /\ Told(assets, j, jobs'[j].status, jobs'[j].created, jobs'[j].file)
    BY Zenon DEF JobsFit
  <2>1. /\ jobs[j].status = "none" => Holds(assets, j, 0)
        /\ jobs[j].status # "none" => jobs[j].file \in Files
        /\ Told(assets, j, jobs[j].status, jobs[j].created, jobs[j].file)
    BY <1>0, Zenon DEF JobsFit
  <2>2. CASE jobs'[j] = jobs[j]
    BY <2>1, <2>2, Zenon
  <2>3. CASE jobs[j].status # "none" /\ jobs'[j].status = "failed" /\ jobs'[j].file = jobs[j].file
    BY <2>1, <2>3 DEF Told
  <2> QED
    BY <1>2, <2>2, <2>3, Zenon
<1>5. WorkerFits(Idle, assets, jobs')
  BY DEF WorkerFits, Idle, Active, Started, Writing, Finishing
<1>6. QueueFits({}, <<>>, Idle, assets, jobs')
  BY DEF QueueFits, Sent
<1>7. {} \in SUBSET Jobs /\ <<>> \in Seq(Jobs)
  BY EmptySeq
<1> QED
  BY <1>1, <1>3, <1>4, <1>5, <1>6, <1>7 DEF ImportInv

LEMMA ImportStep == ImportInv /\ [Next]_vars => ImportInv'
<1> SUFFICES ASSUME ImportInv, [Next]_vars PROVE ImportInv'
  OBVIOUS
<1>1. CASE UNCHANGED vars
  BY <1>1 DEF vars, ImportInv
<1>2. CASE Work
  BY <1>2, TakeNextKeeps, ValidateKeeps, ValidateFailsKeeps, WriteBatchKeeps, BatchFailsKeeps,
     FinishKeeps, FinishFailsKeeps, Zenon DEF Work
<1>3. CASE \E j \in Jobs : (\E file \in Files : Upload(j, file)) \/ Submit(j)
  BY <1>3, UploadKeeps, SubmitKeeps, Zenon
<1>4. CASE \E name \in Names, parent \in {a.id : a \in assets} \cup {None} : SaveCreate(name, parent)
  <2>1. PICK name \in Names : \E parent : SaveCreate(name, parent)
    BY <1>4, Zenon
  <2> QED
    BY <2>1, SaveCreateKeeps, Zenon
<1>5. CASE (\E a \in assets : SaveRetire(a)) \/ Crash \/ Restart
  BY <1>5, SaveRetireKeeps, CrashKeeps, RestartKeeps, Zenon
<1> QED
  BY <1>1, <1>2, <1>3, <1>4, <1>5, Zenon DEF Next

LEMMA ImportInvariant == Spec => []ImportInv
<1>1. Init => ImportInv
  BY ImportInit
<1>2. ImportInv /\ [Next]_vars => ImportInv'
  BY ImportStep
<1> QED
  BY <1>1, <1>2, PTL DEF Spec

----------------------------------------------------------------------------
(* Theorems *)

LEMMA InvIsSound == ImportInv => ImportIsSound
<1> SUFFICES ASSUME ImportInv PROVE ImportIsSound
  OBVIOUS
<1>0. /\ assets \in SUBSET Asset /\ UniqueIds(assets) /\ JobsFit(assets, jobs) /\ Alone(assets)
      /\ jobs \in [Jobs -> Job]
  BY DEF ImportInv, AssetsFit
<1>1. OnePathOneAsset
  BY <1>0, Zenon DEF OnePathOneAsset, Alone, Live
<1>2. ASSUME NEW j \in Jobs
      PROVE  /\ jobs[j].status = "succeeded" =>
                  Cardinality(Landed(j)) = Len(jobs[j].file) /\ jobs[j].created = Len(jobs[j].file)
             /\ jobs[j].status = "refused" => Landed(j) = {}
             /\ jobs[j].status = "partial" =>
                  /\ jobs[j].created = Cardinality(Landed(j))
                  /\ jobs[j].created \in 1..(Len(jobs[j].file) - 1)
  <2>1. Told(assets, j, jobs[j].status, jobs[j].created, jobs[j].file)
    BY <1>0, Zenon DEF JobsFit
  <2>2. jobs[j].created \in Nat
    BY <1>0 DEF Job
  <2>3. Landed(j) = {a \in assets : a.id[1] = j}
    BY DEF Landed
  <2>4. Holds(assets, j, jobs[j].created) => Cardinality(Landed(j)) = jobs[j].created
    BY <1>0, <2>2, <2>3, HoldsCount
  <2>5. jobs[j].status = "refused" => Landed(j) = {}
    <3>1. Holds(assets, j, 0) => \A a \in assets : a.id[1] # j
      BY DEF Holds
    <3> QED
      BY <2>1, <2>3, <3>1, Zenon DEF Told
  <2> QED
    BY <2>1, <2>4, <2>5, Zenon DEF Told
<1> QED
  BY <1>1, <1>2, Zenon DEF ImportIsSound, OutcomeIsSo

(* For any files, batch size, queue depth and number of jobs, saves and      *)
(* restarts: what an import's job row says of the estate is so, to the row,  *)
(* and no interleaving of imports and saves gives two live assets one place  *)
(* and one name (ImportAssetsBatched, FinishImportJob, FailStaleImportJobs). *)
THEOREM ImportAlwaysSound == Spec => []ImportIsSound
<1>1. ImportInv => ImportIsSound
  BY InvIsSound
<1> QED
  BY <1>1, ImportInvariant, PTL

(* For any file: the validation loop, which judges the rows in the order of  *)
(* their depth against one snapshot, refuses exactly the files that cannot   *)
(* be applied to it, whatever the order of their lines (ImportAssetsBatched).*)
(* Words that only insertAsset looks up are not among what it judges.        *)
THEOREM ValidationAlwaysExact == Spec => ValidationIsExact
<1>1. ASSUME ImportInv, Validate
      PROVE  worker'.op = "writing" <=> Applicable(jobs[worker.job].file)
  <2>1. WorkerFits(worker, assets, jobs) /\ worker.op = "started"
    BY <1>1 DEF ImportInv, Validate
  <2>2. worker # Idle
    BY <2>1, WorkerOps
  <2>3. PICK file \in Files : file = jobs[worker.job].file
    BY <2>1, <2>2, Zenon DEF WorkerFits
  <2>4. file \in Seq(ImportRow)
    BY FilesAssumption
  <2>5. DOMAIN DepthOrder(file) = 1..Len(file)
    BY <2>4, RowsOfFile
  <2>6. (\A i \in DOMAIN DepthOrder(file) : RowPasses(DepthOrder(file), i)) <=> Applicable(file)
    BY <2>4, <2>5, PassedIsApplicable, ApplicablePasses, Zenon
  <2>7. CASE \A i \in DOMAIN DepthOrder(file) : RowPasses(DepthOrder(file), i)
    <3>1. worker'.op = "writing"
      BY <1>1, <2>3, <2>7 DEF Validate
    <3> QED
      BY <2>3, <2>6, <2>7, <3>1, Zenon
  <2>8. CASE ~ \A i \in DOMAIN DepthOrder(file) : RowPasses(DepthOrder(file), i)
    <3>1. worker'.op = "finishing"
      BY <1>1, <2>3, <2>8 DEF Validate, Outcome
    <3>2. worker'.op # "writing"
      BY <3>1
    <3> QED
      BY <2>3, <2>6, <2>8, <3>2, Zenon
  <2> QED
    BY <2>7, <2>8, Zenon
<1>2. ImportInv /\ [Next]_vars =>
        [Validate => (worker'.op = "writing" <=> Applicable(jobs[worker.job].file))]_vars
  BY <1>1
<1> QED
  BY <1>2, ImportInvariant, PTL DEF Spec, ValidationIsExact

----------------------------------------------------------------------------
(* An import that nobody disturbs. *)

(* p is where something under parent goes: nowhere, or into a live root.     *)
InPlace(A, p, parent) ==
  \/ parent = None /\ p = None
  \/ parent # None /\ \E q \in A : q.live /\ q.parent = None /\ q.name = parent /\ q.id = p

(* An asset stands at the path of parent and name. *)
Placed(A, a, parent, name) == a.live /\ a.name = name /\ InPlace(A, a.parent, parent)
Stands(A, parent, name) == \E a \in A : Placed(A, a, parent, name)

ParentsExist(A) == \A a \in A : a.parent # None => \E b \in A : b.id = a.parent

(* What is left of the validated rows: those written stand at their paths,   *)
(* the paths of the others are free, and every parent is in the estate or    *)
(* above.                                                                    *)
Parented(A, rows, i) ==
  \/ rows[i].parent = None
  \/ rows[i].parentID # None /\ InPlace(A, rows[i].parentID, rows[i].parent)
  \/ /\ rows[i].parentID = None
     /\ \E k \in 1..(i - 1) : rows[k].parent = None /\ rows[k].name = rows[i].parent
Ready(A, j, rows, done) ==
  \A i \in 1..Len(rows) :
    /\ i <= done => \E a \in A : a.id = <<j, i>> /\ Placed(A, a, rows[i].parent, rows[i].name)
    /\ i > done => ~Stands(A, rows[i].parent, rows[i].name)
    /\ Parented(A, rows, i)

(* The rows are those of the file, in the order they are written. *)
SameRows(rows, file) ==
  \A i \in 1..Len(file) : /\ rows[i].parent = DepthOrder(file)[i].parent
                          /\ rows[i].name = DepthOrder(file)[i].name
                          /\ rows[i].known <=> DepthOrder(file)[i].known
AllKnown(rows, n) == \A i \in 1..n : rows[i].known

(* The first n rows stand at their paths, and if there are others one of the *)
(* next batch uses an unknown word.                                          *)
Ended(A, file, status, n) ==
  /\ \A i \in 1..n : /\ DepthOrder(file)[i].known
                      /\ Stands(A, DepthOrder(file)[i].parent, DepthOrder(file)[i].name)
  /\ n = Len(file) => status = "succeeded"
  /\ n # Len(file) => \E i \in (n + 1)..Smaller(n + BatchSize, Len(file)) : ~DepthOrder(file)[i].known

(* validated is about a file taken up and validated; while nothing disturbs  *)
(* it the worker is at it, and will record what is so.                       *)
Untried(j, J, wait, q, w) == J[j].status = "none" \/ Sent(j, wait, q) \/ (Started(w) /\ w.job = j)
WorkerReady(w, A, J, V, D) ==
  /\ Writing(w) => w.job \in V
  /\ Writing(w) /\ w.job \notin D =>
       /\ Ready(A, w.job, w.rows, w.done) /\ SameRows(w.rows, J[w.job].file)
       /\ AllKnown(w.rows, w.done)
  /\ Finishing(w) /\ w.job \in V /\ w.job \notin D => Ended(A, J[w.job].file, w.status, w.created)

UntriedFits(J, wait, q, w, V) == \A j \in Jobs : Untried(j, J, wait, q, w) => j \notin V
AtWork(J, w, V, D) ==
  \A j \in Jobs : j \in V /\ j \notin D /\ J[j].status \notin Stopped => w # Idle /\ w.job = j

WholeInv ==
  /\ ParentsExist(assets)
  /\ UntriedFits(jobs, waiting, queue, worker, validated)
  /\ AtWork(jobs, worker, validated, disturbed)
  /\ WorkerReady(worker, assets, jobs, validated, disturbed)

(* A path of the estate, as validation looks it up. *)
LEMMA AtStands ==
  ASSUME assets \in SUBSET Asset, NEW parent \in Names \cup {None}, NEW name \in Names
  PROVE  At(Path(parent, name)) # {} <=> Stands(assets, parent, name)
<1>1. CASE parent = None
  <2>1. \A id : id \in At(Path(None, name)) <=>
                  \E a \in assets : a.live /\ a.parent = None /\ a.name = name /\ a.id = id
    BY AtRoot, Zenon
  <2>2. Stands(assets, None, name) <=> \E a \in assets : a.live /\ a.parent = None /\ a.name = name
    BY Zenon DEF Stands, Placed, InPlace
  <2>3. At(Path(None, name)) # {} <=> \E a \in assets : a.live /\ a.parent = None /\ a.name = name
    BY <2>1
  <2> QED
    BY <1>1, <2>2, <2>3, Zenon
<1>2. CASE parent # None
  <2>1. ASSUME Stands(assets, parent, name) PROVE At(Path(parent, name)) # {}
    <3>1. PICK a \in assets, p \in assets :
               a.live /\ a.name = name /\ p.live /\ p.parent = None /\ p.name = parent /\ p.id = a.parent
      BY <1>2, <2>1, Zenon DEF Stands, Placed, InPlace
    <3>2. a \in {b \in Live : b.parent = p.id} /\ p \in {q \in Live : q.parent = None}
      BY <3>1 DEF Live
    <3>3. PICK e : e = [path |-> Path(p.name, a.name), id |-> a.id]
      OBVIOUS
    <3>4. e \in Existing
      BY <3>2, <3>3 DEF Existing
    <3>5. e.path = Path(parent, name) /\ e.id = a.id
      BY <3>1, <3>3
    <3> QED
      BY <3>4, <3>5 DEF At
  <2>2. ASSUME At(Path(parent, name)) # {} PROVE Stands(assets, parent, name)
    <3>1. PICK e \in Existing : e.path = Path(parent, name)
      BY <2>2 DEF At
    <3>2. ~ \E a \in {b \in Live : b.parent = None} : e = [path |-> Path(None, a.name), id |-> a.id]
      BY <1>2, <3>1 DEF Path
    <3>3. PICK p \in {q \in Live : q.parent = None} : \E a \in {b \in Live : b.parent = p.id} :
               e = [path |-> Path(p.name, a.name), id |-> a.id]
      BY <3>1, <3>2 DEF Existing
    <3>4. PICK a \in {b \in Live : b.parent = p.id} : e = [path |-> Path(p.name, a.name), id |-> a.id]
      BY <3>3
    <3>5. p.name = parent /\ a.name = name
      BY <3>1, <3>4 DEF Path
    <3>6. a \in assets /\ a.live /\ a.parent = p.id /\ p \in assets /\ p.live /\ p.parent = None
      BY <3>3, <3>4 DEF Live
    <3> QED
      BY <1>2, <3>5, <3>6, Zenon DEF Stands, Placed, InPlace
  <2> QED
    BY <2>1, <2>2, Zenon
<1> QED
  BY <1>1, <1>2, Zenon

(* A file that passed is ready to be written. *)
LEMMA ValidatedReady ==
  ASSUME assets \in SUBSET Asset, NEW j \in Jobs, NEW file \in Files, Holds(assets, j, 0),
         \A i \in 1..Len(file) : RowPasses(DepthOrder(file), i),
         NEW rows, rows = [i \in DOMAIN DepthOrder(file) |-> Build(DepthOrder(file)[i])]
  PROVE  Ready(assets, j, rows, 0) /\ SameRows(rows, file)
<1>0. file \in Seq(ImportRow)
  BY FilesAssumption
<1>1. PICK d : d = DepthOrder(file)
  OBVIOUS
<1>2. DOMAIN d = 1..Len(file) /\ Len(file) \in Nat /\ Len(rows) = Len(file)
  <2>1. RowsFit(assets, j, rows, file)
    BY ValidatedRows
  <2> QED
    BY <1>0, <1>1, <2>1, RowsOfFile DEF RowsFit
<1>3. \A i \in 1..Len(file) : d[i] \in ImportRow
  BY <1>0, <1>1, DepthOrderRows, ElementOfSeq
<1>4. rows = [i \in 1..Len(file) |-> Build(d[i])]
  BY <1>1, <1>2
<1>5. ASSUME NEW i \in 1..Len(file)
      PROVE  rows[i].name = d[i].name /\ rows[i].parent = d[i].parent
             /\ d[i].name \in Names /\ d[i].parent \in Names \cup {None}
             /\ rows[i].known = d[i].known
  BY <1>3, <1>4 DEF Build, ImportRow
<1>6. ASSUME NEW i \in 1..Len(file) PROVE ~Stands(assets, rows[i].parent, rows[i].name)
  <2>1. At(RowPath(d[i])) = {}
    BY <1>1 DEF RowPasses
  <2> QED
    BY <1>5, <2>1, AtStands DEF RowPath
<1>7. ASSUME NEW i \in 1..Len(file), d[i].parent # None PROVE Parented(assets, rows, i)
  <2>1. \/ At(Path(None, d[i].parent)) # {}
        \/ \E k \in 1..(i - 1) : RowPath(d[k]) = Path(None, d[i].parent)
    BY <1>1, <1>7 DEF RowPasses, IsRoot
  <2>2. d[i].parent \in Names
    BY <1>5, <1>7
  <2>3. CASE At(Path(None, d[i].parent)) # {}
    <3>1. PICK c : c = CHOOSE id \in At(Path(None, d[i].parent)) : TRUE
      OBVIOUS
    <3>2. c \in At(Path(None, d[i].parent))
      BY <2>3, <3>1
    <3>3. PICK a \in assets : a.live /\ a.parent = None /\ a.name = d[i].parent /\ a.id = c
      BY <2>2, <3>2, AtRoot
    <3>4. rows[i].parentID = c
      BY <1>4, <1>7, <2>3, <3>1 DEF Build, IsRoot
    <3>5. c # None
      BY <3>3, NamesAssumption DEF Asset, Ids
    <3> QED
      BY <1>5, <1>7, <3>3, <3>4, <3>5, Zenon DEF Parented, InPlace
  <2>4. CASE At(Path(None, d[i].parent)) = {}
    <3>1. rows[i].parentID = None
      BY <1>4, <2>4 DEF Build
    <3>2. PICK k \in 1..(i - 1) : RowPath(d[k]) = Path(None, d[i].parent)
      BY <2>1, <2>4
    <3>3. k \in 1..Len(file)
      BY <1>2
    <3>4. d[k].parent = None /\ d[k].name = d[i].parent
      BY <3>2 DEF RowPath, Path
    <3> QED
      BY <1>5, <3>1, <3>3, <3>4, Zenon DEF Parented
  <2> QED
    BY <2>3, <2>4, Zenon
<1>8. ASSUME NEW i \in 1..Len(file) PROVE Parented(assets, rows, i)
  BY <1>5, <1>7, Zenon DEF Parented
<1>9. SameRows(rows, file)
  BY <1>1, <1>5, Zenon DEF SameRows
<1>10. \A i \in 1..Len(file) : ~(i <= 0)
  BY <1>2
<1> QED
  BY <1>2, <1>6, <1>8, <1>9, <1>10, Zenon DEF Ready

(* A row that is ready has a parent, and its name is free under it: the      *)
(* children of a root written already would stand at its path, and a root    *)
(* not written yet has none.                                                 *)
LEMMA ReadyFree ==
  ASSUME NEW A, A \in SUBSET Asset, ParentsExist(A), NEW j \in Jobs, NEW rows, NEW file,
         RowsFit(A, j, rows, file), NEW done \in Nat, NEW last \in Nat, last <= Len(rows),
         Holds(A, j, done), UniqueIds(A), NEW start, Ready(A, j, rows, done)
  PROVE  NamesFree(A, j, rows, start, done, last)
<1>1. Len(rows) \in Nat
  BY LenProperties DEF RowsFit
<1> SUFFICES ASSUME NEW i \in (done + 1)..last
             PROVE  \E p \in ParentIDs(j, rows, start, i) :
                      \A a \in A : ~(a.live /\ a.parent = p /\ a.name = rows[i].name)
  BY Zenon DEF NamesFree
<1>2. i \in 1..Len(rows) /\ i > done /\ \A k \in 1..(i - 1) : k \in 1..Len(rows) /\ k \in Nat
  BY <1>1
<1>3. Parented(A, rows, i) /\ ~Stands(A, rows[i].parent, rows[i].name)
  BY <1>2, Zenon DEF Ready
<1>4. CASE rows[i].parent = None
  <2>1. rows[i].parentID = None
    BY <1>2, <1>4, Zenon DEF RowsFit
  <2>2. None \in ParentIDs(j, rows, start, i)
    BY <1>4, <2>1 DEF ParentIDs
  <2>3. \A a \in A : ~(a.live /\ a.parent = None /\ a.name = rows[i].name)
    BY <1>3, <1>4, Zenon DEF Stands, Placed, InPlace
  <2> QED
    BY <2>2, <2>3, Zenon
<1>5. CASE rows[i].parent # None /\ rows[i].parentID # None
  <2>1. rows[i].parentID \in ParentIDs(j, rows, start, i)
    BY <1>5 DEF ParentIDs
  <2>2. InPlace(A, rows[i].parentID, rows[i].parent)
    BY <1>3, <1>5, Zenon DEF Parented
  <2>3. \A a \in A : ~(a.live /\ a.parent = rows[i].parentID /\ a.name = rows[i].name)
    BY <1>3, <2>2, Zenon DEF Stands, Placed
  <2> QED
    BY <2>1, <2>3, Zenon
<1>6. CASE rows[i].parent # None /\ rows[i].parentID = None
  <2>1. PICK k \in 1..(i - 1) : rows[k].parent = None /\ rows[k].name = rows[i].parent
    BY <1>3, <1>6, Zenon DEF Parented
  <2>2. <<j, k>> \in ParentIDs(j, rows, start, i)
    BY <1>6, <2>1 DEF ParentIDs, RowPath, Path
  <2>3. ASSUME NEW a \in A, a.live, a.parent = <<j, k>>, a.name = rows[i].name PROVE FALSE
    <3>1. <<j, k>> # None
      BY <1>2, PairIds
    <3>2. PICK b \in A : b.id = <<j, k>>
      BY <2>3, <3>1, Zenon DEF ParentsExist
    <3>3. b.id[1] = j /\ b.id[2] = k
      BY <3>2
    <3>4. k \in 1..done
      BY <3>3, Zenon DEF Holds
    <3>5. k <= done
      BY <3>4
    <3>6. PICK q \in A : q.id = <<j, k>> /\ Placed(A, q, None, rows[k].name)
      BY <1>2, <2>1, <3>5, Zenon DEF Ready
    <3>7. q.live /\ q.name = rows[i].parent /\ q.parent = None
      BY <2>1, <3>6, Zenon DEF Placed, InPlace
    <3> QED
      BY <1>3, <1>6, <2>3, <3>6, <3>7, Zenon DEF Stands, Placed, InPlace
  <2> QED
    BY <2>2, <2>3, Zenon
<1> QED
  BY <1>4, <1>5, <1>6, Zenon

(* What stands still stands when assets are added. *)
LEMMA StandsKept ==
  ASSUME NEW A, NEW B, A \subseteq B, NEW parent
  PROVE  /\ \A p : InPlace(A, p, parent) => InPlace(B, p, parent)
         /\ \A a, name : Placed(A, a, parent, name) => Placed(B, a, parent, name)
<1>1. \A p : InPlace(A, p, parent) => InPlace(B, p, parent)
  BY Zenon DEF InPlace
<1> QED
  BY <1>1, Zenon DEF Placed

LEMMA InPlaceOnce ==
  ASSUME NEW B, B \in SUBSET Asset, UniqueIds(B), NEW p, NEW x, NEW y, InPlace(B, p, x), InPlace(B, p, y)
  PROVE  x = y
<1>1. \A q \in B : q.id # None
  BY NamesAssumption DEF Asset, Ids
<1> QED
  BY <1>1, Zenon DEF InPlace, UniqueIds

(* A batch that is inserted leaves its parents in the estate, and the rest of *)
(* the rows ready.                                                            *)
GoesOn(A, B, j, rows, done, last) ==
  ParentsExist(B) /\ (Ready(A, j, rows, done) => Ready(B, j, rows, last))

LEMMA ReadyLands ==
  ASSUME NEW A, A \in SUBSET Asset, ParentsExist(A),
         NEW j \in Jobs, NEW rows, NEW file, RowsFit(A, j, rows, file),
         NEW done \in Nat, NEW last \in Nat, done <= last, last <= Len(rows), Holds(A, j, done),
         NEW start, NamesFree(A, j, rows, start, done, last),
         NEW B, B = Added(A, j, rows, start, done, last),
         B \in SUBSET Asset, UniqueIds(B), Holds(B, j, last)
  PROVE  GoesOn(A, B, j, rows, done, last)
<1> DEFINE I == (done + 1)..last
           new(i) == New(j, rows, start, i)
<1>1. Len(rows) \in Nat
  BY LenProperties DEF RowsFit
<1>2. \A i \in I : i \in 1..Len(rows) /\ i \in Nat /\ i \notin 1..done
                   /\ (\A m \in 1..(i - 1) : m \in 1..last /\ m \in 1..Len(rows) /\ m \in Nat /\ (m <= done \/ m \in I))
  BY <1>1
<1>3. \A i \in I : NewIs(j, rows, start, i)
  <2> SUFFICES ASSUME NEW i \in I PROVE NewIs(j, rows, start, i)
    OBVIOUS
  <2>1. ParentIDs(j, rows, start, i) # {}
    BY DEF NamesFree
  <2> QED
    BY <1>2, <2>1, NewAsset, Zenon
<1>4. /\ \A i \in I : new(i) \in B
      /\ \A b \in B : b \in A \/ \E i \in I : b = new(i)
      /\ A \subseteq B
  BY DEF Added
<1>5. \A i \in I : /\ new(i).id = <<j, i>> /\ new(i).name = rows[i].name /\ new(i).live
                   /\ ParentIs(A, j, rows, i, new(i).parent)
  <2> SUFFICES ASSUME NEW i \in I
               PROVE  /\ new(i).id = <<j, i>> /\ new(i).name = rows[i].name /\ new(i).live
                      /\ ParentIs(A, j, rows, i, new(i).parent)
    OBVIOUS
  <2>1. /\ new(i).id = <<j, i>> /\ new(i).name = rows[i].name /\ new(i).live
        /\ new(i).parent \in ParentIDs(j, rows, start, i)
    BY <1>3, Zenon DEF NewIs
  <2>2. i \in 1..Len(rows)
    BY <1>2, Zenon
  <2>3. PICK p : p = new(i).parent
    OBVIOUS
  <2>4. ParentIs(A, j, rows, i, p)
    BY <2>1, <2>2, <2>3, ParentCases, Zenon
  <2> QED
    BY <2>1, <2>3, <2>4, Zenon
<1> HIDE DEF I, new
<1>6. ParentsExist(B)
  <2> SUFFICES ASSUME NEW b \in B, b.parent # None PROVE \E c \in B : c.id = b.parent
    BY Zenon DEF ParentsExist
  <2>1. CASE b \in A
    BY <1>4, <2>1, Zenon DEF ParentsExist
  <2>2. CASE b \notin A
    <3>1. PICK i \in I : b = new(i)
      BY <1>4, <2>2, Zenon
    <3>2. ParentIs(A, j, rows, i, b.parent)
      BY <1>5, <3>1, Zenon
    <3>3. \/ \E a \in A : a.id = b.parent
          \/ \E m \in 1..(i - 1) : b.parent = <<j, m>>
      BY <3>2, Zenon DEF ParentIs
    <3> QED
      BY <1>2, <1>4, <3>3, Zenon DEF Holds
  <2> QED
    BY <2>1, <2>2, Zenon
<1> SUFFICES ASSUME Ready(A, j, rows, done) PROVE Ready(B, j, rows, last)
  BY <1>6, Zenon DEF GoesOn
<1>0. /\ \A x, p : InPlace(A, p, x) => InPlace(B, p, x)
      /\ \A x, a, name : Placed(A, a, x, name) => Placed(B, a, x, name)
  <2> SUFFICES ASSUME NEW x PROVE /\ \A p : InPlace(A, p, x) => InPlace(B, p, x)
                                  /\ \A a, name : Placed(A, a, x, name) => Placed(B, a, x, name)
    BY Zenon
  <2> QED
    BY <1>4, StandsKept
<1>7. ASSUME NEW i \in I PROVE InPlace(B, new(i).parent, rows[i].parent)
  <2>1. PICK p : p = new(i).parent /\ ParentIs(A, j, rows, i, p)
    BY <1>5, Zenon
  <2>2. Parented(A, rows, i)
    BY <1>2, Zenon DEF Ready
  <2>3. CASE rows[i].parent = None
    BY <2>1, <2>3, Zenon DEF ParentIs, InPlace
  <2>4. CASE rows[i].parent # None /\ rows[i].parentID # None
    <3>1. p = rows[i].parentID /\ InPlace(A, p, rows[i].parent)
      BY <2>1, <2>2, <2>4, Zenon DEF ParentIs, Parented
    <3> QED
      BY <1>0, <2>1, <3>1, Zenon
  <2>5. CASE rows[i].parent # None /\ rows[i].parentID = None
    <3>1. PICK m \in 1..(i - 1) : p = <<j, m>> /\ rows[m].parent = None /\ rows[m].name = rows[i].parent
      BY <2>1, <2>5, Zenon DEF ParentIs
    <3>2. m \in 1..Len(rows) /\ (m <= done \/ m \in I)
      BY <1>2, Zenon
    <3>3. CASE m <= done
      <4>1. PICK q \in A : q.id = <<j, m>> /\ Placed(A, q, None, rows[m].name)
        BY <3>1, <3>2, <3>3, Zenon DEF Ready
      <4>2. q.live /\ q.name = rows[i].parent /\ q.parent = None /\ q.id = p /\ q \in B
        BY <1>4, <3>1, <4>1, Zenon DEF Placed, InPlace
      <4> QED
        BY <2>1, <2>5, <4>2, Zenon DEF InPlace
    <3>4. CASE m \in I
      <4>1. new(m).parent = None
        BY <1>5, <3>1, <3>4, Zenon DEF ParentIs
      <4> QED
        BY <1>4, <1>5, <2>1, <2>5, <3>1, <3>4, <4>1, Zenon DEF InPlace
    <3> QED
      BY <3>2, <3>3, <3>4, Zenon
  <2> QED
    BY <2>3, <2>4, <2>5, Zenon
<1>8. ASSUME NEW i \in 1..Len(rows) PROVE Parented(B, rows, i)
  <2>1. Parented(A, rows, i)
    BY Zenon DEF Ready
  <2> QED
    BY <1>0, <2>1, Zenon DEF Parented
<1>9. ASSUME NEW i \in 1..Len(rows), i <= last
      PROVE  \E b \in B : b.id = <<j, i>> /\ Placed(B, b, rows[i].parent, rows[i].name)
  <2>1. CASE i <= done
    <3>1. PICK a \in A : a.id = <<j, i>> /\ Placed(A, a, rows[i].parent, rows[i].name)
      BY <2>1, Zenon DEF Ready
    <3> QED
      BY <1>0, <1>4, <3>1, Zenon
  <2>2. CASE ~(i <= done)
    <3>1. i \in I
      BY <1>1, <1>9, <2>2 DEF I
    <3> QED
      BY <1>4, <1>5, <1>7, <3>1, Zenon DEF Placed
  <2> QED
    BY <2>1, <2>2, Zenon
<1>10. ASSUME NEW i \in 1..Len(rows), i > last, Stands(B, rows[i].parent, rows[i].name) PROVE FALSE
  <2>1. PICK b \in B : Placed(B, b, rows[i].parent, rows[i].name)
    BY <1>10, Zenon DEF Stands
  <2>2. i > done /\ i \notin I
    BY <1>1, <1>10 DEF I
  <2>3. ~Stands(A, rows[i].parent, rows[i].name)
    BY <2>2, Zenon DEF Ready
  <2>4. CASE b \in A
    <3>1. rows[i].parent # None
      BY <2>1, <2>3, <2>4, Zenon DEF Placed, Stands, InPlace
    <3>2. PICK q \in B : q.live /\ q.parent = None /\ q.name = rows[i].parent /\ q.id = b.parent
      BY <2>1, <3>1, Zenon DEF Placed, InPlace
    <3>3. q \notin A
      BY <2>1, <2>3, <2>4, <3>1, <3>2, Zenon DEF Placed, Stands, InPlace
    <3>4. PICK m \in I : q = new(m)
      BY <1>4, <3>3, Zenon
    <3>5. b.parent = <<j, m>> /\ m \in Nat
      BY <1>2, <1>5, <3>2, <3>4, Zenon
    <3>6. <<j, m>> # None
      BY <3>5, PairIds, Zenon
    <3>7. PICK c \in A : c.id = <<j, m>>
      BY <2>4, <3>5, <3>6, Zenon DEF ParentsExist
    <3>8. c.id[1] = j /\ c.id[2] = m
      BY <3>7
    <3>9. m \in 1..done
      BY <3>8, Zenon DEF Holds
    <3> QED
      BY <1>2, <3>9, Zenon
  <2>5. CASE b \notin A
    <3>1. PICK m \in I : b = new(m)
      BY <1>4, <2>5, Zenon
    <3>2. PICK p : p = b.parent
      OBVIOUS
    <3>3. InPlace(B, p, rows[m].parent) /\ InPlace(B, p, rows[i].parent)
      BY <1>7, <2>1, <3>1, <3>2, Zenon DEF Placed
    <3>4. rows[m].parent = rows[i].parent
      BY <3>3, InPlaceOnce, Zenon
    <3>5. rows[m].name = rows[i].name
      BY <1>5, <2>1, <3>1, Zenon DEF Placed
    <3>6. m = i
      BY <1>2, <3>4, <3>5, Zenon DEF RowsFit
    <3> QED
      BY <2>2, <3>6, Zenon
  <2> QED
    BY <2>4, <2>5, Zenon
<1> QED
  BY <1>8, <1>9, <1>10, Zenon DEF Ready

(* Every action keeps it. *)
LEMMA OneOp ==
  ASSUME NEW w
  PROVE  /\ Started(w) => ~Writing(w) /\ ~Finishing(w) /\ w # Idle
         /\ Writing(w) => ~Started(w) /\ ~Finishing(w) /\ w # Idle
         /\ Finishing(w) => ~Started(w) /\ ~Writing(w) /\ w # Idle
         /\ ~Started(Idle) /\ ~Writing(Idle) /\ ~Finishing(Idle)
BY DEF Started, Writing, Finishing, Idle

LEMMA UploadWhole ==
  ASSUME ImportInv, WholeInv, NEW j \in Jobs, NEW file \in Files, Upload(j, file)
  PROVE  WholeInv'
<1>0. /\ WorkerFits(worker, assets, jobs) /\ jobs \in [Jobs -> Job]
      /\ UntriedFits(jobs, waiting, queue, worker, validated)
      /\ AtWork(jobs, worker, validated, disturbed)
      /\ WorkerReady(worker, assets, jobs, validated, disturbed)
  BY Zenon DEF ImportInv, WholeInv
<1>1. PICK r : r = [status |-> "queued", file |-> file, created |-> 0]
  OBVIOUS
<1>2. /\ jobs[j].status = "none" /\ jobs' = [jobs EXCEPT ![j] = r] /\ waiting' = waiting \cup {j}
      /\ assets' = assets /\ queue' = queue /\ worker' = worker
      /\ validated' = validated /\ disturbed' = disturbed
  BY <1>1 DEF Upload
<1>3. r.status = "queued"
  BY <1>1
<1>4. jobs'[j].status = "queued" /\ \A x \in Jobs : x # j => jobs'[x] = jobs[x]
  BY <1>0, <1>2, <1>3
<1>5. j \notin validated
  BY <1>0, <1>2, Zenon DEF UntriedFits, Untried
<1>6. UntriedFits(jobs', waiting', queue, worker, validated)
  <2>1. \A x \in Jobs : x # j /\ Sent(x, waiting', queue) => Sent(x, waiting, queue)
    BY <1>2, Zenon DEF Sent
  <2> QED
    BY <1>0, <1>4, <1>5, <2>1, Zenon DEF UntriedFits, Untried
<1>7. AtWork(jobs', worker, validated, disturbed)
  BY <1>0, <1>4, <1>5, Zenon DEF AtWork
<1>8. WorkerReady(worker, assets, jobs', validated, disturbed)
  <2>1. CASE worker = Idle
    BY <2>1, OneOp, Zenon DEF WorkerReady
  <2>2. CASE worker # Idle
    <3>1. jobs[worker.job].status \in {"queued", "running"} /\ worker.job \in Jobs
      BY <1>0, <2>2 DEF WorkerFits, Active, Started, Writing, Finishing
    <3>2. worker.job # j
      BY <1>2, <3>1
    <3>3. jobs'[worker.job] = jobs[worker.job]
      BY <1>4, <3>1, <3>2, Zenon
    <3> QED
      BY <1>0, <3>3, Zenon DEF WorkerReady
  <2> QED
    BY <2>1, <2>2, Zenon
<1> QED
  BY <1>2, <1>6, <1>7, <1>8, Zenon DEF WholeInv

LEMMA SubmitWhole ==
  ASSUME ImportInv, WholeInv, NEW j \in Jobs, Submit(j)
  PROVE  WholeInv'
<1>1. /\ j \in waiting /\ queue' = Append(queue, j) /\ waiting' = waiting \ {j}
      /\ assets' = assets /\ jobs' = jobs /\ worker' = worker
      /\ validated' = validated /\ disturbed' = disturbed
  BY DEF Submit, store
<1>2. queue \in Seq(Jobs)
  BY Zenon DEF ImportInv
<1>3. \A x \in Jobs : Sent(x, waiting', queue') => Sent(x, waiting, queue)
  <2>1. ASSUME NEW i \in 1..Len(queue') PROVE queue'[i] = j \/ \E k \in 1..Len(queue) : queue[k] = queue'[i]
    BY <1>1, <1>2, AppendProperties, LenProperties
  <2> QED
    BY <1>1, <2>1, Zenon DEF Sent
<1>4. UntriedFits(jobs, waiting', queue', worker, validated)
  BY <1>3, Zenon DEF WholeInv, UntriedFits, Untried
<1> QED
  BY <1>1, <1>4, Zenon DEF WholeInv

LEMMA TakeNextWhole ==
  ASSUME ImportInv, WholeInv, TakeNext
  PROVE  WholeInv'
<1>0. queue \in Seq(Jobs) /\ jobs \in [Jobs -> Job]
  BY Zenon DEF ImportInv
<1>1. PICK h : h = Head(queue)
  OBVIOUS
<1>2. /\ worker = Idle /\ queue # <<>> /\ worker' = [op |-> "started", job |-> h] /\ queue' = Tail(queue)
      /\ jobs' = [jobs EXCEPT ![h].status = "running"] \/ jobs' = jobs
      /\ assets' = assets /\ waiting' = waiting /\ validated' = validated /\ disturbed' = disturbed
  BY <1>1 DEF TakeNext
<1>3. /\ h = queue[1] /\ h \in Jobs /\ 1 \in 1..Len(queue)
      /\ \A i \in 1..Len(queue') : \E k \in 1..Len(queue) : queue[k] = queue'[i]
  <2>1. /\ Len(queue) \in Nat /\ Len(queue) > 0 /\ h = queue[1] /\ h \in Jobs
        /\ Len(queue') = Len(queue) - 1 /\ \A i \in 1..Len(queue') : queue'[i] = queue[i + 1]
    BY <1>0, <1>1, <1>2, HeadTailProperties, LenProperties, EmptySeq
  <2>2. \A i \in 1..Len(queue') : i + 1 \in 1..Len(queue)
    BY <2>1
  <2>3. 1 \in 1..Len(queue)
    BY <2>1
  <2> QED
    BY <2>1, <2>2, <2>3, Zenon
<1>4. h \notin validated
  <2>1. Sent(h, waiting, queue)
    BY <1>3, Zenon DEF Sent
  <2> QED
    BY <1>3, <2>1, Zenon DEF WholeInv, UntriedFits, Untried
<1>5. \A x \in Jobs : x # h => jobs'[x] = jobs[x]
  BY <1>0, <1>2
<1>6. Started(worker') /\ worker'.job = h
  BY <1>2, <1>3 DEF Started
<1>7. UntriedFits(jobs', waiting', queue', worker', validated)
  <2>1. \A x \in Jobs : Sent(x, waiting', queue') => Sent(x, waiting, queue)
    BY <1>2, <1>3, Zenon DEF Sent
  <2> QED
    BY <1>4, <1>5, <1>6, <2>1, Zenon DEF WholeInv, UntriedFits, Untried
<1>8. AtWork(jobs', worker', validated, disturbed)
  BY <1>2, <1>4, <1>5, Zenon DEF WholeInv, AtWork
<1>9. WorkerReady(worker', assets, jobs', validated, disturbed)
  BY <1>6, OneOp, Zenon DEF WorkerReady
<1> QED
  BY <1>2, <1>7, <1>8, <1>9, Zenon DEF WholeInv

(* The worker goes on with its job. *)
LEMMA WorkStays ==
  ASSUME ImportInv, WholeInv, worker # Idle, worker.job \in Jobs,
         NEW w, w # Idle, ~Started(w), w.job = worker.job,
         NEW V, NEW D, V \subseteq validated \cup {w.job}, disturbed \subseteq D
  PROVE  UntriedFits(jobs, waiting, queue, w, V) /\ AtWork(jobs, w, V, D)
<1>0. WorkerFits(worker, assets, jobs) /\ QueueFits(waiting, queue, worker, assets, jobs)
      /\ UntriedFits(jobs, waiting, queue, worker, validated)
      /\ AtWork(jobs, worker, validated, disturbed)
  BY Zenon DEF ImportInv, WholeInv
<1>1. jobs[worker.job].status # "none" /\ ~Sent(worker.job, waiting, queue)
  <2>1. jobs[worker.job].status \in {"queued", "running"}
    BY <1>0, Zenon DEF WorkerFits
  <2>2. jobs[worker.job].status # "none"
    BY <2>1
  <2>3. ~Sent(worker.job, waiting, queue)
    BY <1>0, Zenon DEF QueueFits
  <2> QED
    BY <2>2, <2>3, Zenon
<1>2. ASSUME NEW x \in Jobs, Untried(x, jobs, waiting, queue, w) PROVE x \notin V
  <2>1. jobs[x].status = "none" \/ Sent(x, waiting, queue)
    BY <1>2, Zenon DEF Untried
  <2>2. x # w.job
    BY <1>1, <2>1, Zenon
  <2>3. x \notin validated
    BY <1>0, <2>1, Zenon DEF UntriedFits, Untried
  <2> QED
    BY <2>2, <2>3
<1>3. AtWork(jobs, w, V, D)
  BY <1>0, Zenon DEF AtWork
<1> QED
  BY <1>2, <1>3, Zenon DEF UntriedFits

(* A worker with an outcome for a file that did not pass, was disturbed or  *)
(* ended as it had to.                                                      *)
LEMMA OutcomeWhole ==
  ASSUME ImportInv, WholeInv, worker # Idle, NEW j \in Jobs, j = worker.job,
         NEW status, NEW created, Outcome(j, status, created),
         assets' = assets /\ jobs' = jobs /\ waiting' = waiting /\ queue' = queue,
         validated' = validated, disturbed \subseteq disturbed',
         j \notin validated \/ j \in disturbed' \/ Ended(assets, jobs[j].file, status, created)
  PROVE  WholeInv'
<1>1. PICK w : w = worker' /\ w = [op |-> "finishing", job |-> j, status |-> status, created |-> created]
  BY DEF Outcome
<1>2. /\ ~Started(w) /\ ~Writing(w) /\ w # Idle
      /\ w.job = j /\ w.status = status /\ w.created = created
  BY <1>1 DEF Started, Writing, Idle
<1>3. PICK V, D : V = validated' /\ D = disturbed'
  BY Zenon
<1>4. V \subseteq validated \cup {w.job} /\ disturbed \subseteq D
  BY <1>3, Zenon
<1>5. UntriedFits(jobs, waiting, queue, w, V) /\ AtWork(jobs, w, V, D)
  BY <1>2, <1>4, WorkStays, Zenon
<1>6. WorkerReady(w, assets, jobs, V, D)
  BY <1>2, <1>3, Zenon DEF WorkerReady
<1>7. ParentsExist(assets)
  BY Zenon DEF WholeInv
<1> QED
  BY <1>1, <1>3, <1>5, <1>6, <1>7, Zenon DEF WholeInv

LEMMA ValidateWhole ==
  ASSUME ImportInv, WholeInv, Validate
  PROVE  WholeInv'
<1>0. /\ WorkerFits(worker, assets, jobs) /\ AssetsFit(assets, saves)
      /\ UntriedFits(jobs, waiting, queue, worker, validated)
  BY Zenon DEF ImportInv, WholeInv
<1>1. /\ worker.op = "started" /\ assets' = assets /\ jobs' = jobs /\ waiting' = waiting
      /\ queue' = queue /\ disturbed' = disturbed
  BY DEF Validate, store
<1>2. Started(worker) /\ worker # Idle /\ worker.job \in Jobs
  BY <1>0, <1>1, WorkerOps
<1>3. PICK j \in Jobs : j = worker.job
  BY <1>2
<1>4. PICK file \in Files : file = jobs[j].file
  BY <1>0, <1>2, <1>3, Zenon DEF WorkerFits
<1>5. Holds(assets, j, 0) /\ file \in Seq(ImportRow)
  BY <1>0, <1>2, <1>3, <1>4, FilesAssumption, Zenon DEF WorkerFits
<1>6. DOMAIN DepthOrder(file) = 1..Len(file)
  BY <1>5, RowsOfFile
<1>7. CASE \A i \in DOMAIN DepthOrder(file) : RowPasses(DepthOrder(file), i)
  <2>1. PICK rows : rows = [i \in DOMAIN DepthOrder(file) |-> Build(DepthOrder(file)[i])]
    OBVIOUS
  <2>2. PICK w : w = worker' /\ w = [op |-> "writing", job |-> j, done |-> 0, rows |-> rows]
    BY <1>3, <1>4, <1>7, <2>1 DEF Validate
  <2>3. validated' = validated \cup {j}
    BY <1>3, <1>4, <1>7 DEF Validate
  <2>4. assets \in SUBSET Asset
    BY <1>0, Zenon DEF AssetsFit
  <2>5. \A i \in 1..Len(file) : RowPasses(DepthOrder(file), i)
    BY <1>6, <1>7, Zenon
  <2>6. Ready(assets, j, rows, 0) /\ SameRows(rows, file)
    BY <1>5, <2>1, <2>4, <2>5, ValidatedReady
  <2>7. /\ w # Idle /\ ~Started(w) /\ ~Finishing(w) /\ w.job = j /\ w.rows = rows /\ w.done = 0
        /\ AllKnown(rows, 0)
    BY <2>2 DEF Started, Finishing, Idle, AllKnown
  <2>8. PICK V : V = validated'
    OBVIOUS
  <2>9. V \subseteq validated \cup {w.job} /\ disturbed \subseteq disturbed /\ j \in V
    BY <2>3, <2>7, <2>8
  <2>10. UntriedFits(jobs, waiting, queue, w, V) /\ AtWork(jobs, w, V, disturbed)
    BY <1>2, <1>3, <2>7, <2>9, WorkStays, Zenon
  <2>11. WorkerReady(w, assets, jobs, V, disturbed)
    BY <1>4, <2>6, <2>7, <2>9, Zenon DEF WorkerReady
  <2>12. ParentsExist(assets)
    BY Zenon DEF WholeInv
  <2> QED
    BY <1>1, <2>2, <2>8, <2>10, <2>11, <2>12, Zenon DEF WholeInv
<1>8. CASE ~ \A i \in DOMAIN DepthOrder(file) : RowPasses(DepthOrder(file), i)
  <2>1. Outcome(j, "refused", 0) /\ validated' = validated
    BY <1>3, <1>4, <1>8 DEF Validate
  <2>2. j \notin validated
    BY <1>0, <1>2, <1>3, Zenon DEF UntriedFits, Untried
  <2> QED
    BY <1>1, <1>2, <1>3, <2>1, <2>2, OutcomeWhole
<1> QED
  BY <1>7, <1>8, Zenon

LEMMA ValidateFailsWhole ==
  ASSUME ImportInv, WholeInv, ValidateFails
  PROVE  WholeInv'
<1>1. /\ worker.op = "started" /\ assets' = assets /\ jobs' = jobs /\ waiting' = waiting
      /\ queue' = queue /\ disturbed' = disturbed /\ validated' = validated
      /\ Outcome(worker.job, "failed", 0)
  BY DEF ValidateFails, store
<1>2. Started(worker) /\ worker # Idle /\ worker.job \in Jobs
  BY <1>1, WorkerOps DEF ImportInv
<1>3. worker.job \notin validated
  BY <1>2, Zenon DEF WholeInv, UntriedFits, Untried
<1> QED
  BY <1>1, <1>2, <1>3, OutcomeWhole

LEMMA BatchFailsWhole ==
  ASSUME ImportInv, WholeInv, BatchFails
  PROVE  WholeInv'
<1>1. /\ worker.op = "writing" /\ assets' = assets /\ jobs' = jobs /\ waiting' = waiting
      /\ queue' = queue /\ disturbed' = disturbed \cup {worker.job} /\ validated' = validated
      /\ Stop(worker.job, worker.done)
  BY DEF BatchFails, store
<1>2. worker # Idle /\ worker.job \in Jobs
  BY <1>1, WorkerOps DEF ImportInv
<1>3. PICK status, created : Outcome(worker.job, status, created)
  BY <1>1 DEF Stop
<1> QED
  BY <1>1, <1>2, <1>3, OutcomeWhole

LEMMA WriteBatchWhole ==
  ASSUME ImportInv, WholeInv, WriteBatch
  PROVE  WholeInv'
<1>0. AssetsFit(assets, saves) /\ Alone(assets) /\ saves \in Nat /\ ParentsExist(assets)
      /\ assets \in SUBSET Asset /\ UniqueIds(assets)
      /\ WorkerReady(worker, assets, jobs, validated, disturbed)
  BY Zenon DEF ImportInv, WholeInv, AssetsFit
<1>1. /\ worker.op = "writing" /\ jobs' = jobs /\ waiting' = waiting /\ queue' = queue
      /\ validated' = validated /\ disturbed' = disturbed
  BY DEF WriteBatch
<1>2. PICK j \in Jobs, file \in Files :
           /\ Writing(worker) /\ worker # Idle /\ worker.job = j /\ jobs[j].file = file
           /\ jobs[j].status \in {"queued", "running"}
           /\ worker.done \in Nat /\ worker.done < Len(file)
           /\ Holds(assets, j, worker.done) /\ RowsFit(assets, j, worker.rows, file)
           /\ Len(worker.rows) = Len(file) /\ Len(file) \in Nat
  BY <1>1, WritingFacts
<1>3. PICK done \in Nat : done = worker.done
  BY <1>2
<1>4. PICK rows : rows = worker.rows
  OBVIOUS
<1>5. PICK last \in Nat : last = Last /\ done < last /\ last <= Len(rows)
  <2>1. worker.done \in Nat /\ Len(worker.rows) \in Nat /\ worker.done < Len(worker.rows)
    BY <1>2
  <2> QED
    BY <1>3, <1>4, <2>1, LastBounds
<1>6. Batch = (done + 1)..last
  BY <1>3, <1>5 DEF Batch
<1>7. PICK start : start = done + 1
  OBVIOUS
<1>8. RowsFit(assets, j, rows, file) /\ Holds(assets, j, done) /\ done <= last
  BY <1>2, <1>3, <1>4, <1>5
<1>9. /\ j \in validated
      /\ j \notin disturbed => /\ Ready(assets, j, rows, done) /\ SameRows(rows, file)
                              /\ AllKnown(rows, done)
  BY <1>0, <1>2, <1>3, <1>4, Zenon DEF WorkerReady
<1>10. /\ \A i \in Batch : Insertable(j, i) => rows[i].known
       /\ NamesFree(assets, j, rows, start, done, last) =>
            \A i \in Batch : rows[i].known => Insertable(j, i)
       /\ (\A i \in Batch : Insertable(j, i)) => NamesFree(assets, j, rows, start, done, last)
  BY <1>3, <1>4, <1>6, <1>7 DEF Insertable, SiblingFree, Live, NamesFree
<1>14. j \notin disturbed => \A i \in 1..done : /\ DepthOrder(file)[i].known
                                               /\ Stands(assets, DepthOrder(file)[i].parent, DepthOrder(file)[i].name)
  <2> SUFFICES ASSUME j \notin disturbed, NEW i \in 1..done
               PROVE  /\ DepthOrder(file)[i].known
                      /\ Stands(assets, DepthOrder(file)[i].parent, DepthOrder(file)[i].name)
    OBVIOUS
  <2>1. i \in 1..Len(file) /\ i \in 1..Len(rows) /\ i <= done
    BY <1>2, <1>3, <1>4
  <2>2. \E a \in assets : Placed(assets, a, rows[i].parent, rows[i].name)
    BY <1>9, <2>1, Zenon DEF Ready
  <2> QED
    BY <1>9, <2>1, <2>2, Zenon DEF SameRows, AllKnown, Stands
<1>11. \/ /\ \E i \in Batch : ~Insertable(j, i)
          /\ Stop(j, worker.done)
          /\ assets' = assets
       \/ /\ \A i \in Batch : Insertable(j, i)
          /\ assets' = assets \cup {New(j, rows, start, i) : i \in Batch}
          /\ IF Last = Len(rows) THEN Outcome(j, "succeeded", Len(rows))
             ELSE worker' = [worker EXCEPT !.done = Last]
  BY <1>2, <1>3, <1>4, <1>7 DEF WriteBatch, New
<1>12. CASE \E i \in Batch : ~Insertable(j, i)
  <2>1. Stop(j, worker.done) /\ assets' = assets
    BY <1>11, <1>12, Zenon
  <2>2. PICK status : Outcome(j, status, done)
    BY <1>3, <2>1 DEF Stop
  <2>3. j \notin disturbed => Ended(assets, file, status, done)
    <3> SUFFICES ASSUME j \notin disturbed PROVE Ended(assets, file, status, done)
      OBVIOUS
    <3>1. Ready(assets, j, rows, done) /\ SameRows(rows, file)
      BY <1>9, Zenon
    <3>2. NamesFree(assets, j, rows, start, done, last)
      BY <1>0, <1>5, <1>8, <3>1, ReadyFree, Zenon
    <3>3. PICK i \in Batch : ~rows[i].known
      BY <1>10, <1>12, <3>2, Zenon
    <3>4. Last = Smaller(done + BatchSize, Len(file)) /\ done # Len(file) /\ i \in 1..Len(file)
      BY <1>2, <1>3, <1>4, <1>5, <1>6 DEF Last
    <3>5. i \in (done + 1)..Smaller(done + BatchSize, Len(file)) /\ ~DepthOrder(file)[i].known
      BY <1>5, <1>6, <3>1, <3>3, <3>4, Zenon DEF SameRows
    <3> QED
      BY <1>14, <3>4, <3>5, Zenon DEF Ended
  <2> QED
    BY <1>1, <1>2, <2>1, <2>2, <2>3, OutcomeWhole
<1>13. CASE \A i \in Batch : Insertable(j, i)
  <2>1. PICK B : B = assets'
    OBVIOUS
  <2>2. B = Added(assets, j, rows, start, done, last)
    BY <1>6, <1>11, <1>13, <2>1 DEF Added
  <2>3. NamesFree(assets, j, rows, start, done, last)
    BY <1>10, <1>13, Zenon
  <2>4. B \in SUBSET Asset /\ UniqueIds(B) /\ Holds(B, j, last)
    <3>1. BatchIsIn(assets, B, saves, j, last)
      BY <1>0, <1>5, <1>8, <2>2, <2>3, BatchLands, Zenon
    <3> QED
      BY <3>1, Zenon DEF BatchIsIn, AssetsFit
  <2>5. ParentsExist(B) /\ (Ready(assets, j, rows, done) => Ready(B, j, rows, last))
    <3>1. ParentsExist(assets) /\ assets \in SUBSET Asset
      BY <1>0, Zenon
    <3>2. RowsFit(assets, j, rows, file) /\ Holds(assets, j, done) /\ done <= last /\ last <= Len(rows)
      BY <1>5, <1>8, Zenon
    <3>3. B \in SUBSET Asset /\ UniqueIds(B) /\ Holds(B, j, last)
      BY <2>4
    <3>4. GoesOn(assets, B, j, rows, done, last)
      BY <2>2, <2>3, <3>1, <3>2, <3>3, ReadyLands, Zenon
    <3> QED
      BY <3>4, Zenon DEF GoesOn
  <2>6. PICK w : w = worker'
    OBVIOUS
  <2>9. j \notin disturbed => AllKnown(rows, last)
    <3> SUFFICES ASSUME j \notin disturbed, NEW i \in 1..last PROVE rows[i].known
      BY Zenon DEF AllKnown
    <3>1. i \in 1..done \/ i \in Batch
      BY <1>6
    <3> QED
      BY <1>9, <1>10, <1>13, <3>1, Zenon DEF AllKnown
  <2>7. CASE last = Len(rows)
    <3>1. w = [op |-> "finishing", job |-> j, status |-> "succeeded", created |-> last]
      BY <1>5, <1>11, <1>13, <2>6, <2>7 DEF Outcome
    <3>2. ~Started(w) /\ ~Writing(w) /\ w # Idle /\ w.job = j /\ w.status = "succeeded" /\ w.created = last
      BY <3>1 DEF Started, Writing, Idle
    <3>3. j \notin disturbed => Ended(B, file, "succeeded", last)
      <4> SUFFICES ASSUME j \notin disturbed, NEW i \in 1..last
                   PROVE  /\ DepthOrder(file)[i].known
                          /\ Stands(B, DepthOrder(file)[i].parent, DepthOrder(file)[i].name)
        BY <1>2, <1>4, <2>7, Zenon DEF Ended
      <4>1. i \in 1..Len(rows) /\ i \in 1..Len(file) /\ i <= last
        BY <1>2, <1>4, <2>7
      <4>2. Ready(B, j, rows, last) /\ SameRows(rows, file)
        BY <1>9, <2>5, Zenon
      <4>3. \E a \in B : Placed(B, a, rows[i].parent, rows[i].name)
        BY <4>1, <4>2, Zenon DEF Ready
      <4> QED
        BY <2>9, <4>1, <4>2, <4>3, Zenon DEF SameRows, AllKnown, Stands
    <3>4. WorkerReady(w, B, jobs, validated, disturbed)
      BY <1>2, <3>2, <3>3, Zenon DEF WorkerReady
    <3>5. validated \subseteq validated \cup {w.job} /\ disturbed \subseteq disturbed
      OBVIOUS
    <3>6. UntriedFits(jobs, waiting, queue, w, validated) /\ AtWork(jobs, w, validated, disturbed)
      BY <1>2, <3>2, <3>5, WorkStays, Zenon
    <3> QED
      BY <1>1, <2>1, <2>5, <2>6, <3>4, <3>6, Zenon DEF WholeInv
  <2>8. CASE last # Len(rows)
    <3>1. w = [worker EXCEPT !.done = last]
      BY <1>5, <1>11, <1>13, <2>6, <2>8
    <3>2. /\ ~Started(w) /\ ~Finishing(w) /\ w # Idle
          /\ w.job = j /\ w.done = last /\ w.rows = rows
      BY <1>2, <1>4, <1>5, <3>1 DEF Writing, Started, Finishing, Idle
    <3>3. WorkerReady(w, B, jobs, validated, disturbed)
      BY <1>2, <1>9, <2>5, <2>9, <3>2, Zenon DEF WorkerReady
    <3>4. validated \subseteq validated \cup {w.job} /\ disturbed \subseteq disturbed
      OBVIOUS
    <3>5. UntriedFits(jobs, waiting, queue, w, validated) /\ AtWork(jobs, w, validated, disturbed)
      BY <1>2, <3>2, <3>4, WorkStays, Zenon
    <3> QED
      BY <1>1, <2>1, <2>5, <2>6, <3>3, <3>5, Zenon DEF WholeInv
  <2> QED
    BY <2>7, <2>8, Zenon
<1> QED
  BY <1>12, <1>13, Zenon

LEMMA FinishStatus ==
  ASSUME jobs \in [Jobs -> Job], NEW j \in Jobs, j = worker.job, Finish
  PROVE  /\ jobs'[j].status = worker.status /\ jobs'[j].created = worker.created
         /\ \A x \in Jobs : x # j => jobs'[x] = jobs[x]
<1>1. PICK status, created : status = worker.status /\ created = worker.created
  BY Zenon
<1>2. PICK r : r = JobRow(status, jobs[j].file, created)
  BY Zenon
<1>3. PICK K : K = jobs' /\ K = Recorded(jobs, j, status, created)
  BY <1>1 DEF Finish, Recorded
<1>4. K = Replaced(jobs, j, r)
  <2>1. Recorded(jobs, j, status, created) = Replaced(jobs, j, JobRow(status, jobs[j].file, created))
    BY OutcomeRow, Zenon
  <2> QED
    BY <1>2, <1>3, <2>1, Zenon
<1>5. r.status = status /\ r.created = created
  BY <1>2 DEF JobRow
<1> QED
  BY <1>1, <1>3, <1>4, <1>5 DEF Replaced

LEMMA FinishWhole ==
  ASSUME ImportInv, WholeInv, Finish \/ FinishFails
  PROVE  WholeInv'
<1>0. /\ WorkerFits(worker, assets, jobs) /\ jobs \in [Jobs -> Job]
      /\ UntriedFits(jobs, waiting, queue, worker, validated)
      /\ AtWork(jobs, worker, validated, disturbed)
  BY Zenon DEF ImportInv, WholeInv
<1>1. /\ worker.op = "finishing" /\ worker' = Idle /\ assets' = assets
      /\ waiting' = waiting /\ queue' = queue /\ validated' = validated
  BY DEF Finish, FinishFails, store
<1>2. Finishing(worker) /\ worker # Idle /\ worker.job \in Jobs
  BY <1>0, <1>1, WorkerOps
<1>3. PICK j \in Jobs : j = worker.job
  BY <1>2
<1>4. /\ \A x \in Jobs : x # j => jobs'[x] = jobs[x]
      /\ jobs'[j].status # "none"
      /\ disturbed \subseteq disturbed'
      /\ jobs'[j].status \in Stopped \/ j \in disturbed'
  <2>1. CASE Finish
    <3>1. PICK status \in Stopped : status = worker.status
      BY <1>2 DEF Finishing
    <3>2. disturbed' = disturbed
      BY <2>1 DEF Finish
    <3>3. jobs'[j].status = status /\ \A x \in Jobs : x # j => jobs'[x] = jobs[x]
      BY <1>0, <1>3, <2>1, <3>1, FinishStatus, Zenon
    <3>4. status # "none"
      BY <3>1 DEF Stopped
    <3> QED
      BY <3>2, <3>3, <3>4, Zenon
  <2>2. CASE FinishFails
    <3>1. jobs' = jobs /\ disturbed' = disturbed \cup {j}
      BY <1>3, <2>2 DEF FinishFails, store
    <3>2. jobs[j].status \in {"queued", "running"}
      BY <1>0, <1>2, <1>3, Zenon DEF WorkerFits
    <3>3. jobs[j].status # "none"
      BY <3>2
    <3> QED
      BY <3>1, <3>3, Zenon
  <2> QED
    BY <2>1, <2>2
<1>5. UntriedFits(jobs', waiting, queue, Idle, validated)
  BY <1>0, <1>4, OneOp, Zenon DEF UntriedFits, Untried
<1>6. AtWork(jobs', Idle, validated, disturbed')
  BY <1>0, <1>3, <1>4, Zenon DEF AtWork
<1>7. WorkerReady(Idle, assets, jobs', validated, disturbed')
  BY OneOp, Zenon DEF WorkerReady
<1>8. ParentsExist(assets)
  BY Zenon DEF WholeInv
<1> QED
  BY <1>1, <1>5, <1>6, <1>7, <1>8, Zenon DEF WholeInv

(* A save disturbs the file being written, and leaves every parent in place. *)
LEMMA SaveWhole ==
  ASSUME ImportInv, WholeInv, Disturb, ParentsExist(assets'),
         jobs' = jobs /\ waiting' = waiting /\ queue' = queue /\ worker' = worker /\ validated' = validated
  PROVE  WholeInv'
<1>0. /\ UntriedFits(jobs, waiting, queue, worker, validated)
      /\ AtWork(jobs, worker, validated, disturbed)
      /\ WorkerReady(worker, assets, jobs, validated, disturbed)
  BY Zenon DEF WholeInv
<1>1. disturbed \subseteq disturbed' /\ (Writing(worker) \/ Finishing(worker) => worker.job \in disturbed')
  <2>1. Writing(worker) \/ Finishing(worker) => worker.op \in {"writing", "finishing"}
    BY DEF Writing, Finishing
  <2> QED
    BY <2>1 DEF Disturb
<1>2. AtWork(jobs, worker, validated, disturbed')
  BY <1>0, <1>1, Zenon DEF AtWork
<1>3. WorkerReady(worker, assets', jobs, validated, disturbed')
  BY <1>0, <1>1, Zenon DEF WorkerReady
<1> QED
  BY <1>0, <1>2, <1>3, Zenon DEF WholeInv

LEMMA SaveCreateWhole ==
  ASSUME ImportInv, WholeInv, NEW name \in Names, NEW parent, SaveCreate(name, parent)
  PROVE  WholeInv'
<1>1. PICK a : a = [id |-> <<None, saves>>, name |-> name, parent |-> parent, live |-> TRUE]
  OBVIOUS
<1>2. /\ parent \in {b.id : b \in assets} \cup {None} /\ assets' = assets \cup {a} /\ Disturb
      /\ jobs' = jobs /\ waiting' = waiting /\ queue' = queue /\ worker' = worker /\ validated' = validated
  BY <1>1 DEF SaveCreate, process
<1>3. a.parent = parent
  BY <1>1
<1>4. parent # None => \E b \in assets : b.id = parent
  BY <1>2
<1>5. ParentsExist(assets)
  BY Zenon DEF WholeInv
<1>6. \A b \in assets' : b \in assets \/ b = a
  BY <1>2
<1>7. ParentsExist(assets')
  <2> SUFFICES ASSUME NEW b \in assets', b.parent # None PROVE \E c \in assets' : c.id = b.parent
    BY Zenon DEF ParentsExist
  <2>1. \E c \in assets : c.id = b.parent
    BY <1>3, <1>4, <1>5, <1>6, Zenon DEF ParentsExist
  <2> QED
    BY <1>2, <2>1
<1> QED
  BY <1>2, <1>7, SaveWhole

LEMMA SaveRetireWhole ==
  ASSUME ImportInv, WholeInv, NEW a \in assets, SaveRetire(a)
  PROVE  WholeInv'
<1>0. assets \in SUBSET Asset /\ ParentsExist(assets)
  BY Zenon DEF ImportInv, AssetsFit, WholeInv
<1>1. PICK n : n = [a EXCEPT !.live = FALSE]
  OBVIOUS
<1>2. /\ assets' = (assets \ {a}) \cup {n} /\ Disturb
      /\ jobs' = jobs /\ waiting' = waiting /\ queue' = queue /\ worker' = worker /\ validated' = validated
  BY <1>1 DEF SaveRetire, process
<1>3. n.id = a.id /\ n.parent = a.parent
  BY <1>0, <1>1 DEF Asset
<1>4. (\A b \in assets' : b \in assets \/ b = n) /\ n \in assets' /\ (\A b \in assets : b = a \/ b \in assets')
  BY <1>2
<1>5. ParentsExist(assets')
  <2> SUFFICES ASSUME NEW b \in assets', b.parent # None PROVE \E c \in assets' : c.id = b.parent
    BY Zenon DEF ParentsExist
  <2>1. PICK c \in assets : c.id = b.parent
    BY <1>0, <1>3, <1>4, Zenon DEF ParentsExist
  <2> QED
    BY <1>3, <1>4, <2>1, Zenon
<1> QED
  BY <1>2, <1>5, SaveWhole

LEMMA CrashWhole ==
  ASSUME ImportInv, WholeInv, Crash
  PROVE  WholeInv'
<1>0. /\ UntriedFits(jobs, waiting, queue, worker, validated)
      /\ AtWork(jobs, worker, validated, disturbed) /\ ParentsExist(assets)
  BY Zenon DEF WholeInv
<1>1. /\ waiting' = {} /\ queue' = <<>> /\ worker' = Idle /\ assets' = assets /\ jobs' = jobs
      /\ validated' = validated
      /\ disturbed \subseteq disturbed' /\ (worker # Idle => worker.job \in disturbed')
  BY DEF Crash, store
<1>2. \A x \in Jobs : ~Sent(x, {}, <<>>)
  BY DEF Sent
<1>3. UntriedFits(jobs, {}, <<>>, Idle, validated)
  BY <1>0, <1>2, OneOp, Zenon DEF UntriedFits, Untried
<1>4. AtWork(jobs, Idle, validated, disturbed')
  BY <1>0, <1>1, Zenon DEF AtWork
<1>5. WorkerReady(Idle, assets, jobs, validated, disturbed')
  BY OneOp, Zenon DEF WorkerReady
<1> QED
  BY <1>0, <1>1, <1>3, <1>4, <1>5, Zenon DEF WholeInv

LEMMA RestartWhole ==
  ASSUME ImportInv, WholeInv, Restart
  PROVE  WholeInv'
<1>0. /\ UntriedFits(jobs, waiting, queue, worker, validated)
      /\ AtWork(jobs, worker, validated, disturbed) /\ ParentsExist(assets)
      /\ jobs \in [Jobs -> Job]
  BY Zenon DEF WholeInv, ImportInv
<1>1. /\ worker' = worker /\ waiting' = waiting /\ queue' = queue /\ assets' = assets
      /\ validated' = validated /\ disturbed' = disturbed
      /\ jobs' = [x \in Jobs |-> FailStale(x)]
  BY DEF Restart
<1>2. worker = Idle
  BY DEF Restart, ImportInv
<1>3. ASSUME NEW x \in Jobs PROVE jobs'[x] = jobs[x] \/ jobs'[x].status = "failed"
  <2>1. jobs[x] \in Job
    BY <1>0
  <2>2. jobs'[x] = FailStale(x)
    BY <1>1
  <2> QED
    BY <2>1, <2>2 DEF FailStale, Job
<1>4. "failed" \in Stopped /\ "failed" # "none"
  BY DEF Stopped
<1>5. UntriedFits(jobs', waiting, queue, worker, validated)
  BY <1>0, <1>3, <1>4, Zenon DEF UntriedFits, Untried
<1>6. AtWork(jobs', worker, validated, disturbed)
  BY <1>0, <1>3, <1>4, Zenon DEF AtWork
<1>7. WorkerReady(worker, assets, jobs', validated, disturbed)
  BY <1>2, OneOp, Zenon DEF WorkerReady
<1> QED
  BY <1>0, <1>1, <1>5, <1>6, <1>7, Zenon DEF WholeInv

LEMMA WholeStep == ImportInv /\ WholeInv /\ [Next]_vars => WholeInv'
<1> SUFFICES ASSUME ImportInv, WholeInv, [Next]_vars PROVE WholeInv'
  OBVIOUS
<1>1. CASE UNCHANGED vars
  BY <1>1, Zenon DEF vars, WholeInv
<1>2. ASSUME NEW j \in Jobs, NEW file \in Files, Upload(j, file) PROVE WholeInv'
  BY <1>2, UploadWhole
<1>3. ASSUME NEW j \in Jobs, Submit(j) PROVE WholeInv'
  BY <1>3, SubmitWhole
<1>4. CASE Work
  BY <1>4, TakeNextWhole, ValidateWhole, ValidateFailsWhole, WriteBatchWhole, BatchFailsWhole,
     FinishWhole, Zenon DEF Work
<1>5. ASSUME NEW name \in Names, NEW parent, SaveCreate(name, parent) PROVE WholeInv'
  BY <1>5, SaveCreateWhole
<1>6. ASSUME NEW a \in assets, SaveRetire(a) PROVE WholeInv'
  BY <1>6, SaveRetireWhole
<1>7. CASE Crash \/ Restart
  BY <1>7, CrashWhole, RestartWhole, Zenon
<1> QED
  BY <1>1, <1>2, <1>3, <1>4, <1>5, <1>6, <1>7, Zenon DEF Next

LEMMA WholeInvariant == Spec => [](ImportInv /\ WholeInv)
<1>1. Init => WholeInv
  <2> SUFFICES ASSUME Init PROVE WholeInv
    OBVIOUS
  <2>1. assets = {} /\ worker = Idle /\ validated = {}
    BY DEF Init
  <2> QED
    BY <2>1, OneOp, Zenon DEF WholeInv, ParentsExist, UntriedFits, AtWork, WorkerReady
<1> QED
  BY <1>1, ImportInit, ImportStep, WholeStep, PTL DEF Spec

LEMMA ValidatedJobs ==
  ImportInv /\ validated \subseteq Jobs /\ [Next]_vars => validated' \subseteq Jobs
<1> SUFFICES ASSUME ImportInv, validated \subseteq Jobs, [Next]_vars PROVE validated' \subseteq Jobs
  OBVIOUS
<1>1. CASE Validate
  <2>1. worker.job \in Jobs
    BY <1>1, WorkerOps DEF Validate, ImportInv
  <2>2. validated' = validated \cup {worker.job} \/ validated' = validated
    BY <1>1 DEF Validate
  <2> QED
    BY <2>1, <2>2
<1>2. CASE ~Validate
  <2>1. validated' = validated
    BY <1>2 DEF Next, vars, Upload, Submit, Work, TakeNext, ValidateFails, WriteBatch, BatchFails, Finish,
       FinishFails, SaveCreate, SaveRetire, Crash, Restart
  <2> QED
    BY <2>1
<1> QED
  BY <1>1, <1>2, Zenon

(* Only the record of an outcome, or a restart, stops a job. *)
LEMMA WhatStops ==
  ASSUME jobs \in [Jobs -> Job], [Next]_vars, NEW j \in Jobs, jobs[j].status \notin Stopped, jobs'[j].status \in Stopped
  PROVE  Finish \/ Restart
<1>1. ASSUME NEW x \in Jobs, NEW file \in Files, Upload(x, file) PROVE FALSE
  <2>1. PICK r : r = [status |-> "queued", file |-> file, created |-> 0] /\ jobs' = [jobs EXCEPT ![x] = r]
    BY <1>1 DEF Upload
  <2>2. r.status = "queued"
    BY <2>1
  <2>3. jobs'[j] = r \/ jobs'[j] = jobs[j]
    BY <2>1
  <2>4. r.status \notin Stopped
    BY <2>2 DEF Stopped
  <2> QED
    BY <2>3, <2>4, Zenon
<1>2. ASSUME TakeNext PROVE FALSE
  <2>1. PICK h : jobs' = jobs \/ jobs' = [jobs EXCEPT ![h].status = "running"]
    BY <1>2 DEF TakeNext
  <2>2. jobs'[j] = jobs[j] \/ jobs'[j] = [jobs[j] EXCEPT !.status = "running"]
    BY <2>1
  <2>3. jobs'[j] = jobs[j] \/ jobs'[j].status = "running"
    BY <2>2 DEF Job
  <2>4. "running" \notin Stopped
    BY DEF Stopped
  <2> QED
    BY <2>3, <2>4, Zenon
<1>3. jobs' # jobs
  OBVIOUS
<1> QED
  BY <1>1, <1>2, <1>3 DEF Next, vars, Submit, Work, Validate, ValidateFails, WriteBatch, BatchFails,
     FinishFails, SaveCreate, SaveRetire, Crash, store

(* A file that passed validation, and that no save, failure or restart        *)
(* disturbed, ends as succeeded with every row at its path, or it uses a word *)
(* only insertAsset looks up, and then exactly the batches before that row    *)
(* are in (ImportAssetsBatched), whatever the batch size and the order of its *)
(* lines.                                                                     *)
THEOREM UndisturbedAlwaysWhole == Spec => UndisturbedIsWhole
<1> DEFINE Rows(j) == DepthOrder(jobs[j].file)
           Verdict(j, n) ==
             /\ \A i \in 1..n : Rows(j)[i].known /\ At(RowPath(Rows(j)[i])) # {}
             /\ n = Len(Rows(j)) => jobs'[j].status = "succeeded"
             /\ n # Len(Rows(j)) =>
                  \E i \in (n + 1)..Smaller(n + BatchSize, Len(Rows(j))) : ~Rows(j)[i].known
           Whole == \A j \in validated \ disturbed :
                      jobs[j].status \notin Stopped /\ jobs'[j].status \in Stopped =>
                        Verdict(j, jobs'[j].created)
           Known == validated \subseteq Jobs
<1>1. ASSUME ImportInv, WholeInv, Known, [Next]_vars PROVE Whole
  <2> SUFFICES ASSUME NEW j \in Jobs, j \in validated, j \notin disturbed,
                      jobs[j].status \notin Stopped, jobs'[j].status \in Stopped
               PROVE  Verdict(j, jobs'[j].created)
    BY <1>1
  <2>1. /\ jobs \in [Jobs -> Job] /\ assets \in SUBSET Asset /\ WorkerFits(worker, assets, jobs)
        /\ worker # Idle /\ worker.job = j
        /\ WorkerReady(worker, assets, jobs, validated, disturbed)
    BY <1>1, Zenon DEF ImportInv, AssetsFit, WholeInv, AtWork
  <2>2. ~Restart
    BY <1>1, <2>1 DEF Restart, ImportInv
  <2>3. Finish
    BY <1>1, <2>1, <2>2, WhatStops
  <2>4. Finishing(worker)
    BY <2>1, <2>3, WorkerOps DEF Finish
  <2>5. PICK file \in Files : file = jobs[j].file
    BY <2>1, Zenon DEF WorkerFits
  <2>6. PICK d, n, status : d = DepthOrder(file) /\ n = worker.created /\ status = worker.status
    BY Zenon
  <2>7. Ended(assets, file, status, n)
    BY <2>1, <2>4, <2>5, <2>6, Zenon DEF WorkerReady
  <2>8. jobs'[j].status = status /\ jobs'[j].created = n
    <3>1. jobs \in [Jobs -> Job] /\ j = worker.job
      BY <2>1, Zenon
    <3> QED
      BY <2>3, <2>6, <3>1, FinishStatus, Zenon
  <2>9. file \in Seq(ImportRow)
    BY FilesAssumption
  <2>10. Len(d) = Len(file) /\ Len(file) \in Nat /\ \A i \in 1..Len(file) : d[i] \in ImportRow
    BY <2>6, <2>9, DepthOrderRows, ElementOfSeq, LenProperties
  <2>11. n \in Nat /\ n <= Len(file)
    <3>1. n \in Nat
      BY <2>4, <2>6 DEF Finishing
    <3>3. n # Len(file) => \E i \in (n + 1)..Smaller(n + BatchSize, Len(file)) : TRUE
      BY <2>7, Zenon DEF Ended
    <3> QED
      BY <2>10, <3>1, <3>3, BoundsAssumption DEF Smaller
  <2>12. ASSUME NEW i \in 1..n PROVE d[i].known /\ At(RowPath(d[i])) # {}
    <3>1. i \in 1..Len(file)
      BY <2>10, <2>11
    <3>2. d[i].name \in Names /\ d[i].parent \in Names \cup {None}
      BY <2>10, <3>1 DEF ImportRow
    <3>3. d[i].known /\ Stands(assets, d[i].parent, d[i].name)
      BY <2>6, <2>7, Zenon DEF Ended
    <3> QED
      BY <2>1, <3>2, <3>3, AtStands DEF RowPath
  <2>13. Rows(j) = d
    BY <2>5, <2>6
  <2> QED
    BY <2>6, <2>7, <2>8, <2>10, <2>12, <2>13, Zenon DEF Ended
<1>2. Init => Known
  BY DEF Init
<1>3. ImportInv /\ Known /\ [Next]_vars => Known'
  BY ValidatedJobs
<1>4. ImportInv /\ WholeInv /\ Known /\ [Next]_vars => [Whole]_vars
  BY <1>1
<1> HIDE DEF Whole, Known
<1>5. Spec => [][Whole]_vars
  BY <1>2, <1>3, <1>4, WholeInvariant, PTL DEF Spec
<1> QED
  BY <1>5 DEF UndisturbedIsWhole, Whole
=============================================================================
