----------------------------- MODULE ImportJobs -----------------------------
(***************************************************************************)
(* Background imports: the upload handler (web/handlers/imports.go), the   *)
(* single worker (web/handlers/import_runner.go), the batched write        *)
(* (store/import_batched.go) and the job table (store/import_jobs.go),     *)
(* beside other people's saves and across restarts.                        *)
(*                                                                         *)
(* A file is a sequence of rows.  Paths have one or two names: a root and  *)
(* what it holds, which is all that sorting by depth and resolving a       *)
(* parent tell apart.  A device type is a row without a parent.  The       *)
(* routes are for administrators only, so permit.Covers is always true.    *)
(***************************************************************************)
EXTENDS Integers, Sequences, FiniteSets

CONSTANTS Names,        \* asset names
          None,         \* SQL NULL, an empty parent column
          Files,        \* the files that may be uploaded
          Jobs,         \* import_job ids
          BatchSize,    \* ImportBatchSize
          QueueDepth,   \* importQueueDepth
          MaxSaves,     \* other people's saves, bounded
          MaxCrashes    \* restarts of the process, bounded

(* What one line of the file says.  A row that buildImportedAsset cannot     *)
(* read has an unknown team, environment or model, or a malformed field.     *)
(* Whether its kind and manager_role are words of the vocabularies (known)   *)
(* is asked by insertAsset alone; the vocabularies do not change here.       *)
ImportRow == [name : Names, parent : Names \cup {None}, readable : BOOLEAN, known : BOOLEAN]

ASSUME NamesAssumption ==
  None \notin Names /\ None \notin Jobs /\ None \notin (Jobs \cup {None}) \X Nat
ASSUME FilesAssumption == Files \subseteq Seq(ImportRow) /\ <<>> \notin Files
ASSUME BoundsAssumption ==
  BatchSize \in Nat \ {0} /\ QueueDepth \in Nat \ {0} /\ MaxSaves \in Nat /\ MaxCrashes \in Nat

VARIABLES assets,     \* the asset table
          jobs,       \* the import_job table
          waiting,    \* handlers blocked in submit
          queue,      \* the runner's channel
          worker,     \* what the worker is doing
          up,         \* the process is running
          saves,      \* how many saves other people have made
          crashes,
          validated,  \* jobs whose file passed validation
          disturbed,  \* jobs that something happened to after their snapshot
          unrecorded  \* jobs whose outcome could not be written down

store == <<assets, jobs>>
process == <<waiting, queue, worker, up>>
vars == <<assets, jobs, waiting, queue, worker, up, saves, crashes, validated, disturbed, unrecorded>>

(* An imported asset's id is its job and its place in the depth order. *)
Ids == (Jobs \X Nat) \cup ({None} \X Nat)
Asset == [id : Ids, name : Names, parent : Ids \cup {None}, live : BOOLEAN]

Stopped == {"succeeded", "refused", "failed", "partial"}
Job == [status : {"none", "queued", "running"} \cup Stopped,
        file : Files \cup {None}, created : Nat]

(* A row ready to insert: its parent is resolved when it already exists. *)
Built == [name : Names, parent : Names \cup {None}, parentID : Ids \cup {None}, known : BOOLEAN]
Idle == [op |-> "idle"]
Worker ==
  {Idle}
  \cup [op : {"started"}, job : Jobs]
  \cup [op : {"writing"}, job : Jobs, rows : Seq(Built), done : Nat]
  \cup [op : {"finishing"}, job : Jobs, status : Stopped, created : Nat]

TypeOK ==
  /\ assets \in SUBSET Asset
  /\ jobs \in [Jobs -> Job]
  /\ waiting \subseteq Jobs
  /\ queue \in Seq(Jobs) /\ Len(queue) <= QueueDepth
  /\ worker \in Worker
  /\ up \in BOOLEAN
  /\ saves \in 0..MaxSaves /\ crashes \in 0..MaxCrashes
  /\ validated \subseteq Jobs /\ disturbed \subseteq Jobs /\ unrecorded \subseteq Jobs

----------------------------------------------------------------------------
(* The estate as an import sees it. *)

Live == {a \in assets : a.live}
Path(parent, name) == <<parent, name>>
RowPath(r) == Path(r.parent, r.name)

(* existingAssetPaths: each live asset whose ancestors are all live. *)
Existing ==
  {[path |-> Path(None, a.name), id |-> a.id] : a \in {b \in Live : b.parent = None}}
  \cup UNION {{[path |-> Path(p.name, a.name), id |-> a.id] :
                 a \in {b \in Live : b.parent = p.id}} : p \in {q \in Live : q.parent = None}}

At(path) == {e.id : e \in {f \in Existing : f.path = path}}

IsRoot(r) == r.parent = None

(* Mutant: the file is taken in the order it was written. *)
FileOrder(file) == file

(* Line k comes before line i: it is less deep, or as deep and higher up.    *)
Before(file, k, i) ==
  \/ IsRoot(file[k]) /\ ~IsRoot(file[i])
  \/ (IsRoot(file[k]) <=> IsRoot(file[i])) /\ k < i

Place(file, i) == 1 + Cardinality({k \in DOMAIN file : Before(file, k, i)})

(* The stable sort on path depth. *)
DepthOrder(file) ==
  [n \in DOMAIN file |-> file[CHOOSE i \in DOMAIN file : Place(file, i) = n]]

(* The validation loop's verdict on the i-th ordered row: no earlier row has *)
(* its path, the estate has not, its parent is in the estate or planned, and *)
(* its fields can be read.                                                   *)
RowPasses(rows, i) ==
  /\ \A k \in 1..(i - 1) : RowPath(rows[k]) # RowPath(rows[i])
  /\ At(RowPath(rows[i])) = {}
  /\ \/ IsRoot(rows[i])
     \/ At(Path(None, rows[i].parent)) # {}
     \/ \E k \in 1..(i - 1) : RowPath(rows[k]) = Path(None, rows[i].parent)
  /\ rows[i].readable

(* buildImportedAsset *)
Build(r) ==
  [name |-> r.name, parent |-> r.parent, known |-> r.known,
   parentID |-> IF ~IsRoot(r) /\ At(Path(None, r.parent)) # {}
                  THEN CHOOSE id \in At(Path(None, r.parent)) : TRUE ELSE None]

(* Mutant: a parent written earlier in the same batch is not found. *)
ParentOnlyCommitted(j, rows, start, i) ==
  IF rows[i].parent = None \/ rows[i].parentID # None THEN {rows[i].parentID}
  ELSE {<<j, k>> : k \in {m \in 1..(start - 1) : RowPath(rows[m]) = Path(None, rows[i].parent)}}

(* A row's parent_id: resolved already, or out of created, or out of pending. *)
ParentIDs(j, rows, start, i) ==
  IF rows[i].parent = None \/ rows[i].parentID # None THEN {rows[i].parentID}
  ELSE {<<j, k>> : k \in {m \in 1..(i - 1) : RowPath(rows[m]) = Path(None, rows[i].parent)}}

(* requireUniqueSiblingName, and the partial unique index behind it *)
SiblingFree(parent, name) == \A a \in Live : ~(a.parent = parent /\ a.name = name)

Smaller(a, b) == IF a < b THEN a ELSE b

----------------------------------------------------------------------------
Init ==
  /\ assets = {}
  /\ jobs = [j \in Jobs |-> [status |-> "none", file |-> None, created |-> 0]]
  /\ waiting = {} /\ queue = <<>> /\ worker = Idle /\ up = TRUE
  /\ saves = 0 /\ crashes = 0 /\ validated = {} /\ disturbed = {} /\ unrecorded = {}

(* runImport: the file parsed and is not empty; CreateImportJob. *)
Upload(j, file) ==
  /\ up /\ jobs[j].status = "none"
  /\ jobs' = [jobs EXCEPT ![j] = [status |-> "queued", file |-> file, created |-> 0]]
  /\ waiting' = waiting \cup {j}
  /\ UNCHANGED <<assets, queue, worker, up, saves, crashes, validated, disturbed, unrecorded>>

(* submit blocks while the channel is full. *)
Submit(j) ==
  /\ j \in waiting /\ Len(queue) < QueueDepth
  /\ queue' = Append(queue, j)
  /\ waiting' = waiting \ {j}
  /\ UNCHANGED <<store, worker, up, saves, crashes, validated, disturbed, unrecorded>>

(* work takes the next file; an error from MarkImportRunning is only logged. *)
TakeNext ==
  /\ worker = Idle /\ queue # <<>>
  /\ worker' = [op |-> "started", job |-> Head(queue)]
  /\ queue' = Tail(queue)
  /\ \/ jobs' = [jobs EXCEPT ![Head(queue)].status = "running"]
     \/ UNCHANGED jobs
  /\ UNCHANGED <<assets, waiting, up, saves, crashes, validated, disturbed, unrecorded>>

(* run's last switch, for what ImportAssetsBatched returned. *)
Outcome(j, status, created) ==
  worker' = [op |-> "finishing", job |-> j, status |-> status, created |-> created]

(* The snapshot, and the whole file validated against it. *)
Validate ==
  /\ worker.op = "started"
  /\ LET j == worker.job
         rows == DepthOrder(jobs[j].file)
         valid == \A i \in DOMAIN rows : RowPasses(rows, i)
     IN \/ /\ valid
           /\ worker' = [op |-> "writing", job |-> j, done |-> 0,
                         rows |-> [i \in DOMAIN rows |-> Build(rows[i])]]
           /\ validated' = validated \cup {j}
        \/ ~valid /\ Outcome(j, "refused", 0) /\ UNCHANGED validated
  /\ UNCHANGED <<store, waiting, queue, up, saves, crashes, disturbed, unrecorded>>

(* "reading the estate" failed. *)
ValidateFails ==
  /\ worker.op = "started"
  /\ Outcome(worker.job, "failed", 0)
  /\ UNCHANGED <<store, waiting, queue, up, saves, crashes, validated, disturbed, unrecorded>>

(* Mutant: a batch that stopped is counted among the rows that landed. *)
StopCountsBatch(j, done) ==
  IF done + BatchSize > 0 THEN Outcome(j, "partial", done + BatchSize)
  ELSE Outcome(j, "refused", 0)

(* A batch that failed: the rows of the batches before it stay. *)
Stop(j, done) ==
  IF done > 0 THEN Outcome(j, "partial", done) ELSE Outcome(j, "refused", 0)

Last == Smaller(worker.done + BatchSize, Len(worker.rows))
Batch == (worker.done + 1)..Last

(* insertAsset on the i-th row: requireVocabulary and requireRole, and no    *)
(* live sibling of its name.                                                 *)
Insertable(j, i) ==
  /\ worker.rows[i].known
  /\ \E p \in ParentIDs(j, worker.rows, worker.done + 1, i) :
       SiblingFree(p, worker.rows[i].name)

(* One batch, one transaction: every row of it is inserted, or none. *)
WriteBatch ==
  /\ worker.op = "writing"
  /\ LET j == worker.job
         rows == worker.rows
         new(i) == [id |-> <<j, i>>, name |-> rows[i].name, live |-> TRUE,
                    parent |-> CHOOSE p \in ParentIDs(j, rows, worker.done + 1, i) : TRUE]
     IN \/ /\ \A i \in Batch : Insertable(j, i)
           /\ assets' = assets \cup {new(i) : i \in Batch}
           /\ IF Last = Len(rows) THEN Outcome(j, "succeeded", Len(rows))
              ELSE worker' = [worker EXCEPT !.done = Last]
        \/ /\ \E i \in Batch : ~Insertable(j, i)
           /\ Stop(j, worker.done)
           /\ UNCHANGED assets
  /\ UNCHANGED <<jobs, waiting, queue, up, saves, crashes, validated, disturbed, unrecorded>>

(* The database refused the transaction. *)
BatchFails ==
  /\ worker.op = "writing"
  /\ Stop(worker.job, worker.done)
  /\ disturbed' = disturbed \cup {worker.job}
  /\ UNCHANGED <<store, waiting, queue, up, saves, crashes, validated, unrecorded>>

(* FinishImportJob; an error from it is only logged. *)
Finish ==
  /\ worker.op = "finishing"
  /\ jobs' = [jobs EXCEPT ![worker.job].status = worker.status,
                          ![worker.job].created = worker.created]
  /\ worker' = Idle
  /\ UNCHANGED <<assets, waiting, queue, up, saves, crashes, validated, disturbed, unrecorded>>

FinishFails ==
  /\ worker.op = "finishing"
  /\ worker' = Idle
  /\ disturbed' = disturbed \cup {worker.job}
  /\ unrecorded' = unrecorded \cup {worker.job}
  /\ UNCHANGED <<store, waiting, queue, up, saves, crashes, validated>>

(* The job whose snapshot a save makes stale. *)
Disturb == disturbed' = disturbed \cup
  (IF worker.op \in {"writing", "finishing"} THEN {worker.job} ELSE {})

(* Somebody creates an asset: a root, or inside a root. *)
SaveCreate(name, parent) ==
  /\ saves < MaxSaves
  /\ parent \in {a.id : a \in {b \in assets : b.parent = None}} \cup {None}
  /\ SiblingFree(parent, name)
  /\ assets' = assets \cup {[id |-> <<None, saves>>, name |-> name, parent |-> parent, live |-> TRUE]}
  /\ saves' = saves + 1
  /\ Disturb
  /\ UNCHANGED <<jobs, process, crashes, validated, unrecorded>>

(* Somebody retires an asset; what it holds stays where it is. *)
SaveRetire(a) ==
  /\ saves < MaxSaves /\ a \in Live
  /\ assets' = (assets \ {a}) \cup {[a EXCEPT !.live = FALSE]}
  /\ saves' = saves + 1
  /\ Disturb
  /\ UNCHANGED <<jobs, process, crashes, validated, unrecorded>>

(* The process stops: the queue, the blocked uploads and the run are gone. *)
Crash ==
  /\ up /\ crashes < MaxCrashes
  /\ up' = FALSE /\ waiting' = {} /\ queue' = <<>> /\ worker' = Idle
  /\ crashes' = crashes + 1
  /\ disturbed' = disturbed \cup (IF worker = Idle THEN {} ELSE {worker.job})
  /\ UNCHANGED <<store, saves, validated, unrecorded>>

Unfinished(j) == jobs[j].status \in {"queued", "running"}

(* Mutant: only the jobs that had started are cleared. *)
FailRunning(j) ==
  IF jobs[j].status = "running" THEN [jobs[j] EXCEPT !.status = "failed"] ELSE jobs[j]

(* FailStaleImportJobs, for one row *)
FailStale(j) == IF Unfinished(j) THEN [jobs[j] EXCEPT !.status = "failed"] ELSE jobs[j]

(* main: FailStaleImportJobs before the server listens. *)
Restart ==
  /\ ~up
  /\ jobs' = [j \in Jobs |-> FailStale(j)]
  /\ up' = TRUE
  /\ UNCHANGED <<assets, waiting, queue, worker, saves, crashes, validated, disturbed, unrecorded>>

Work == TakeNext \/ Validate \/ ValidateFails \/ WriteBatch \/ BatchFails \/ Finish \/ FinishFails

Next ==
  \/ \E j \in Jobs : (\E file \in Files : Upload(j, file)) \/ Submit(j)
  \/ Work
  \/ \E name \in Names, parent \in {a.id : a \in assets} \cup {None} : SaveCreate(name, parent)
  \/ \E a \in assets : SaveRetire(a)
  \/ Crash \/ Restart

Spec == Init /\ [][Next]_vars

(* The worker and the handlers are goroutines that are never starved, and a  *)
(* process that stops is started again.                                      *)
FairSpec ==
  /\ Spec
  /\ WF_vars(Work) /\ WF_vars(Restart)
  /\ \A j \in Jobs : WF_vars(Submit(j))

----------------------------------------------------------------------------
(* Properties *)

Landed(j) == {a \in assets : a.id[1] = j}

(* What the job row says of the estate is so: "succeeded" has every row of   *)
(* the file, "refused" none, and "partial" exactly the rows it counts.       *)
OutcomeIsSo ==
  \A j \in Jobs :
    /\ jobs[j].status = "succeeded" =>
         Cardinality(Landed(j)) = Len(jobs[j].file) /\ jobs[j].created = Len(jobs[j].file)
    /\ jobs[j].status = "refused" => Landed(j) = {}
    /\ jobs[j].status = "partial" =>
         /\ jobs[j].created = Cardinality(Landed(j))
         /\ jobs[j].created \in 1..(Len(jobs[j].file) - 1)

(* A file can be applied: no path twice, none that exists, and every parent  *)
(* in the estate or in the file, wherever in the file it stands.             *)
Applicable(file) ==
  /\ \A i, k \in DOMAIN file : RowPath(file[i]) = RowPath(file[k]) => i = k
  /\ \A i \in DOMAIN file :
       /\ At(RowPath(file[i])) = {}
       /\ file[i].readable
       /\ \/ IsRoot(file[i])
          \/ At(Path(None, file[i].parent)) # {}
          \/ \E k \in DOMAIN file : RowPath(file[k]) = Path(None, file[i].parent)

(* Validation refuses exactly the files that cannot be applied to the estate *)
(* as it is, whatever the order of their rows.  It does not ask for the      *)
(* words a row uses: what becomes of an unknown one is in UndisturbedIsWhole.*)
ValidationIsExact ==
  [][Validate => (worker'.op = "writing" <=> Applicable(jobs[worker.job].file))]_vars

(* With no save, failure or restart after the snapshot, a validated file     *)
(* ends with every row at the path it names, unless it uses a word that only *)
(* insertAsset looks up: then the rows counted are those of the batches      *)
(* before the first such row, each at its path, and nothing else stopped it. *)
UndisturbedIsWhole ==
  [][\A j \in validated \ disturbed :
       jobs[j].status \notin Stopped /\ jobs'[j].status \in Stopped =>
         LET rows == DepthOrder(jobs[j].file)
             n == jobs'[j].created
         IN /\ \A i \in 1..n : rows[i].known /\ At(RowPath(rows[i])) # {}
            /\ n = Len(rows) => jobs'[j].status = "succeeded"
            /\ n # Len(rows) => \E i \in (n + 1)..Smaller(n + BatchSize, Len(rows)) : ~rows[i].known]_vars

(* "The validation pass catches everything a write can fail on except a      *)
(* concurrent writer taking a name" (import_batched.go): a validated file    *)
(* that no save, failure or restart disturbed is applied whole.              *)
UndisturbedSucceeds ==
  [][\A j \in validated \ disturbed : jobs'[j].status \in Stopped => jobs'[j].status = "succeeded"]_vars

(* No interleaving of imports and saves gives two live assets one place and  *)
(* one name.                                                                 *)
OnePathOneAsset ==
  \A a, b \in Live : a.parent = b.parent /\ a.name = b.name => a = b

(* An import leaves in the estate what its job row says, and nothing beside  *)
(* it: the outcome recorded (FinishImportJob) is so, and no path names two   *)
(* live assets (ImportAssetsBatched against concurrent saves).               *)
ImportIsSound == OutcomeIsSo /\ OnePathOneAsset

(* Every job that was recorded stops, restarts included; only a job whose    *)
(* outcome could not be recorded waits for the next restart.                 *)
EveryJobStops ==
  \A j \in Jobs : Unfinished(j) ~> jobs[j].status \in Stopped \/ j \in unrecorded

(* "re-running the same file skips what already exists": a file that stopped *)
(* part-way is not refused when it is run again.                             *)
RerunIsNotRefused ==
  \A i, j \in Jobs :
    jobs[i].status = "partial" /\ jobs[j].status = "refused" => jobs[i].file # jobs[j].file

(* "It was one transaction, so nothing was written": a job that a restart    *)
(* marked failed left no row behind.                                         *)
FailedWroteNothing == \A j \in Jobs : jobs[j].status = "failed" => Landed(j) = {}
=============================================================================
