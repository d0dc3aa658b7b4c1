# A verification project for invctl

invctl is an infrastructure inventory: a Go web application over SQLite or
PostgreSQL that keeps a declared estate (assets, services, networks, money), an
observed one (what monitoring agents report), an audit trail of both, and an
outage simulation over them. This directory holds TLA+ modules translated from
its source, the TLC configurations that check them on small instances, and
TLAPS proofs of the results that hold for every instance.
`PROJECT.json` lists every component, run, mutant, finding, hazard and theorem,
and maps every definition to the lines it stands for. A function's lines begin
at the comment that states its contract.

To check: `tlc -config MCContainment_tree.cfg MCContainment`, and so on for each
`.cfg`; `tlapm ContainmentProofs.tla`, and so on for `WritesProofs`,
`ImpactProofs`, `ObservedProofs`, `ImportJobsProofs`, `CablingProofs`,
`PermitsProofs` and `SurfacesProofs`.

## Inventory

How the program is put together: an HTTP handler loads the session and the
account, decodes a form and calls one method of `internal/store`; the method
usually reads the row it is about (reader pool), decides, and opens one write
transaction that re-checks, writes, appends to `change_log`, rewrites a search
document and commits. Two machine surfaces (the observation webhook, the read
API) come in through their own gate. Three computations read the whole estate:
the outage simulation, the cable trace and the path, neighbourhood and power
pages. What makes that hard:

* **Two engines, two disciplines.** On SQLite the writer pool is one connection,
  so a write transaction is atomic. On PostgreSQL `write` runs at READ COMMITTED,
  where other transactions commit between its statements, and
  `writeSerializable` runs at SERIALIZABLE and retries. Which discipline a method
  uses decides which interleavings it survives, and the development engine hides
  the difference.
* **State read outside the transaction** that then uses it: a before-image, an
  existence check, a session's account, a permit, an import's snapshot, a
  buffered report, a form drawn minutes ago.
* **Two computations of one thing** that must agree: the closure table and the
  parent pointers, the page of a cable and the simulation of its cut, the two
  walks of the power chain, the trace from either end.

| Component | State | Operations | What makes it hard | What makes it correct | Modules |
|---|---|---|---|---|---|
| Asset containment | `asset`, `asset_closure`, `row_version`, `change_log` | create, edit, retire, move | moves race; edits from old forms; the closure is maintained by difference | closure = parent walk; no cycle; no lost edit; the log replays to the row; implements an abstract forest | `Containment`, `Forest` |
| Accounts and roles | `app_user`, `saved_view` | create, role, activate, scrub, sign in, save a view | guards that count rows; retries; writes by an id found earlier | an administrator remains; an erasure stays | `UserAdmin` |
| Observed state | `asset_health`, `observed_transition`, the in-memory buffer | report, flush, settle, crash | late, repeated, concurrent reports; buffer beside table; flap episodes | reporter's order wins; the ledger is a chain; nothing uncounted | `Observed` |
| Intake and retention | drift queue, ledger rows | post a batch, queue what is unmatched, prune | a count and an insert; a prune beside writers | the queue stays near its cap; what is pruned is counted and never younger than the floor in scope | `Intake` |
| Background imports | `import_job`, the channel, the worker, `asset` | upload, submit, validate, batch, finish, restart | one snapshot, many transactions; crashes; failing outcome writes | the job row says what landed; every job stops; an undisturbed file applies whole | `ImportJobs` |
| Impact engine, cluster HA | an estate, statuses, route health, reasons | relocation, capacity phase, propagation rounds | in-place updates in row order; routes derived once a round | the answer is the least one the edges force; it names its causes; a larger outage is never better | `Impact`, `Availability` |
| Reachability | `net_group`, `net_uplink`, `net_attachment`, circuits, cables | statuses, components, reach, verdicts, cut pages | union-find, inheritance, pins, planes | the passes say what walks say; no larger outage looks better | `Reach` |
| Path, neighbourhood | the cable plant | shortest routes, disabled ports in the way, walks, budgets | several searches over different rows | union of all shortest live routes; what is named is in the way | `Paths` |
| Power | supplies, panels, feeds, inputs | what is shared, what a failure takes | two walks, two row conditions | the two reports agree | `Power` |
| Cabling and ports | `interface`, `link`, `port_pass_through` | patch, break out, edit, unpatch, withdraw, revive, retire the asset | check-then-insert on ports; serializable beside READ COMMITTED | one cable per port; a breakout's strands agree | `Cabling` |
| Cable trace | none: a walk of the plant | trace, expand | loops, converging strands, a shared budget | exact, bounded, the same from both ends | `CableTrace` |
| Everything else declared: certificates, identities, tags, teams, custom fields, views, journal, vocabularies, projects, costs, overrides, addresses, VLANs, wireless, FHRP, L2VPN, registries, circuits, services, endpoints, routes, dependencies, environments, clusters, bundles, hardware, power | one table each, with links | create, edit, retire, restore, link, unlink | each operation has its own mix of checks, guard and discipline | no lost edit; a withdrawal stays; no live reference to something withdrawn; the log replays; the search document is current; requests end | `Writes`, `StoreOp`, `Ops*`, `Handlers`, `Pages` |
| Permits and scope | role, assignments, links | resolve a permit in four reads, hold every logged row against it | assignments change meanwhile | a permit holds what was in scope during the request; nobody widens their own reach | `Permits` |
| Sessions, sign-in | session store, accounts | load, sign in (local, directory, OpenID), sign out, gate, commit | requests of one browser overlap | gates judge a recent account; a sign-in is the browser's own; a sign-out holds | `Access` |
| Machine gate | token buckets | admit, refuse, refill | fractions at chosen times | exactly the budget | `MachineGate` |
| Change log | `change_log` | page in both directions, timelines | rows appear behind a cursor; equal timestamps | no change is hidden from a walk | `ChangeLog` |
| Read API | none: walks by cursor | list, decorate | rows come, go and change scope | a row that stayed is listed once | `ReadAPI` |

The components without a module (search queries, diagram layout, exports, money
and capacity reports, address arithmetic, seed data, migrations, configuration)
are in `PROJECT.json` with the reason, and under "Not modelled" below.

## The modules

Each `X.tla` is a component; `MCX.tla` gives it symmetry, constants and
instances for TLC; `XProofs.tla` holds its theorems (`SurfacesProofs` those of
`Access`, `MachineGate`, `Intake`, `ChangeLog` and `ReadAPI`, `ImpactProofs` also
those of `Reach`, `Paths` and `Power`, `PermitsProofs` also those of `UserAdmin`;
`MCPermits` runs `Permits` and `UserAdmin` side by side, `MCSurfaces` its five). Where one proof
module extends two components their names differ: `AccountSpec`, `AccountInit`,
`call` in `UserAdmin`, `ReachSpec`, `Topologies`, `gone` in `Reach`. An operator whose comment
starts with "Mutant:" is a plausible bug of the definition below it; it is used
by no specification, and each property is shown to fail when one of them takes
its definition's place.

### Containment and Forest
`exists, parent, name, lifecycle, version` are the columns of `asset`; `closure`
is `asset_closure`; `replay` is the row that an auditor rebuilds from
`change_log`, so that a diff against a stale before-image shows up as a replay
that differs. A request (`req`) is a form, then the row read before the
transaction, then the transaction. `Engine` selects how a move runs: on
`"sqlite"` in one step (`ReparentAsset`), on `"postgres"` as three steps that see
what is committed at each (`CheckReparent`, `WriteReparent`, `CommitReparent`),
with the row locks and unique keys that PostgreSQL really holds. Creates, edits
and retirements are one step on both: the edit's UPDATE is guarded by
`row_version`, and the sibling indexes judge the stored row.

`Forest` is what callers are promised: assets hang from parents, what is inside
what is the walk up the parents, a create adds a leaf and a move takes a whole
subtree somewhere outside itself. `ImplementsForest` maps `closure` without its
depths to `inside` and is checked as a property of `Containment`.

### UserAdmin
`users` is `app_user` reduced to role, activity, subject and whether it holds
personal details. A `writeSerializable` call is `OpenTx` (the snapshot), then
`CommitTx` or `AbortTx`, up to `Attempts` times. PostgreSQL's serializable
isolation is modelled by its effect for these transactions (`Serializable`): a
commit fails when the row it writes has changed or when an administrator it
counted has been removed. It may also fail without a cause. Sign-ins and saved
views read an account first and write by its id later, in plain transactions that
do not take part in that: the DELETE of a scrub removes the views of its snapshot,
and one inserted after it survives. `erased` and `raced` are history; `raced`
holds the accounts a request of their own overlapped, from the snapshot on.

### Observed
One reading, that is one (entity, reporter) key: two keys share nothing but the
instant the buffer is swapped. `Receive` reads the row, `Dispatch` overlays the
buffer and classifies, then a heartbeat is buffered or a transaction is opened
and ends in one of three writes or fails; `Forget` runs after the commit, as in
the code. `FlushSwap`, `FlushCommit` and `FlushFail` are the flusher. Reports are
told apart by the reporter's clock, which is what `classify` compares. The
server's clock is abstracted to the two questions the code asks of it (has the
episode settled, how many changes are inside the window), both left to choice.

### ImportJobs
`assets` is a table of names under parents; `jobs` is `import_job`; `queue` is
the runner's channel and `waiting` the handlers blocked on it. `Validate` reads
the estate once and judges the whole file after the depth sort; it does not ask
whether a row's kind and manager role are words of the vocabularies (`known`),
which only `insertAsset` looks up. `WriteBatch` is one transaction; `Finish` records the outcome and may fail. `SaveCreate` and
`SaveRetire` are other people's saves between any two of these; `Crash` and
`Restart` bracket `FailStaleImportJobs`. `permit.Covers` is always true here: the
import routes are for administrators only (`src/internal/web/routes.go:271-288`).

### Impact and Availability
`g` is one estate; an outage grows by one instance or host at a time between
analyses. Cluster HA relocates guests of failed members, `Analyse` is
`phaseCapacity` with `AvailabilityPolicy.Evaluate` (in `Availability`, shared with
`Reach`), then `ApplyDep` applies one dependency at a time, in row order and in
place, as the loop does, and `EndRound` starts the next round with route health
derived again. What the reachability model says of an edge or a pool member is
found again by every analysis, as the code asks it anew of the hosts that are
left: `Analyse` takes any of `Networks`, which for the proofs is any set of
verdicts, so whatever `Reach` can say is covered. `eased` remembers whether the
network of this analysis is better somewhere than that of the last.

### Writes, StoreOp, the Ops catalogue, Handlers, Pages
Some 180 write operations of `internal/store` have one shape; what differs is
where they read, what they check, what guards the UPDATE, which transaction they
use and what else they write. `StoreOp` names those differences as fields of a
record; `OpsGovernance`, `OpsNetwork`, `OpsServices` and `OpsPhysical` give each
operation its record, under its name in the source; `Handlers` gives each
handler the operation it calls, the page its form is drawn from (`Pages`: in
which order the row with its version and the link rows are read) and what
becomes of the form when the submission is refused. `Writes` runs them: two
rows, a child that refers to a parent, and requests that draw a page, submit,
read, open a transaction and commit, with lost and retried serializable
transactions. `MCWrites` lists, per kind of row, which operations meet.

A `partial` operation (`SetCustomValues`) touches the members its form named and
leaves the others as they are ("ABSENT from vals -> UNTOUCHED",
`customvalues.go:233`); every other one that writes a link table replaces it.

`WriteRules` says what about an operation's record makes it keep a property: an
operation is `Versioned` in a column if its UPDATE is guarded by a version that
every writer of the column moves (`Silent` lists the columns somebody writes
without), `UpToDate` if it is, or if it reads the row inside a transaction that
is `Isolated`; a diff `Shows` a column that an early return keeps from being
what it was; a DELETE of a link table is `Whole` if it finds all of it. Each
property has a rule on top of these (`KeepsForm`, `KeepsLife`, `KeepsSet`,
`KeepsLog`, `KeepsDocument`, `LooksBothWays`). TLC evaluates the rules on all
operations of the catalogue (`CatalogueAssumption`, `PromiseAssumption`), and the
proofs start from them; no exempt operation satisfies the rule of the property
it is exempt from.

An operation is exempt from a property in `MCWrites` only where TLC, or an
attempt to prove it, showed that the code does not keep it; each set of
exemptions is one kind of disagreement, described below: `FreshToken`, `StickyToken`, `ReadBefore`, `ReadCommitted`,
`Unioned`, and the rows left out of `MCIndexed` and `MCPromised`.

### Cabling and CableTrace
`links`, `strands` and ports with their lifecycle, on both engines: a patch counts
the live cables of its ports and inserts in a serializable transaction; an edit
of a strand compares its siblings at READ COMMITTED; a retirement cascades.
`CableTrace` is `expand` with its hop limit and its budget, evaluated on every
plant that `Cabling` reaches, and compared with the set of simple walks.

### Permits
A request loads its user, reads the assignments, then the linked assets, services
and circuits, and runs one transaction; every logged row is held against the
permit. The writers of assignments, links, projects and roles run between.

### Reach, Paths, Power
One estate of tables (`t`) and an outage that grows by a named asset or a cut
medium. `Reach` follows the passes of `impact/reach.go` on the graph that
`store/graph.go` loads; its reference definitions are walks. `Paths` and `Power`
extend it with the pages computed from the same tables; what `Paths` is compared
with lists every route that visits no asset twice (`SimpleRoutes`).

### Access, MachineGate, Intake, ChangeLog, ReadAPI
What people and machines meet from outside. `Access`: requests of one browser,
each with its own copy of the session, which it writes back when it ends.
`MachineGate`: buckets in units of a fraction of a token. `Intake`: a batch
item by item, the drift queue, both prunes, on both engines. `ChangeLog` and
`ReadAPI`: readers with a cursor among writers. `MCSurfaces` runs the five side by
side: they share no state the properties read, so a behaviour is one of theirs
with the others at rest. What a report does to a reading once it is accepted is
`Observed`'s matter; what a write logs is `Writes`'.

## What the runs check

| Run | Checks | Shows |
|---|---|---|
| `containment_tree` | `ClosureExact`, `ImplementsForest` | four assets, SQLite: after any creates and moves the closure table is exact, and every step is a step of the abstract forest |
| `containment_races` | `AuditReplaysNameAndLifecycle`, `NoLostUpdate` | two requests at READ COMMITTED, statements of a move interleaving: no reverted edit, no missing audit |
| `containment_pg_cycle` (violated) | `NoContainmentCycle` | two concurrent moves put each asset inside the other |
| `observed_concurrent` | `LedgerIsTrue`, `EveryChangeAccounted`, `ReportsKept` | two reports, the flusher, failures and a crash interleaved |
| `import_jobs` | `ImportIsSound`, `ValidationIsExact`, `UndisturbedIsWhole`, `EveryJobStops` | two files, two saves, a failing database and a restart |
| `import_vocabulary` (violated) | `UndisturbedSucceeds` | a validated, undisturbed file with an unknown kind in its second batch ends as partial |
| `impact_rounds` | `RoundsAreExact`, `ViaExplains`, `RoundsBounded`, `AnswerNeverImproves` | a hard or startup edge before any other edge, every chain and cycle of three hard edges, every policy, three networks chosen anew by each analysis, clusters that restart their guests or do not |
| `writes_catalogue` | `RecordsAgree`, `NothingDangles`, `NoLostUpdate`, `CommitKeepsItsWord`, `RequestsEnd` | every two operations of a scenario, both engines, lost and retried transactions |
| `cabling_plant` | `PortsAreSound`, `BreakoutAgrees`, `TraceIsTrue` | two requests on four plants, both engines |
| `people` | `AdministratorRemains`, `ErasureOutlivesLaterRequests`, `PermitIsRecent`, `NoEscalation` | no race removes the last administrator; an erasure that no request of the person overlaps is undone by nothing; beside it, three requests of three people while assignments, links, projects and roles change |
| `reach_outage` | `EngineIsExact`, `LossNeverImproves`, `CutSaysWhatTheEngineSays`, `PicturesAreExact`, `PowerTellsOneStory` | some seventy estates under every outage of up to three assets and two media |
| `surfaces` | `GateIsRecent`, `SignInIsItsOwn`, `SignOutHolds`, `BudgetIsExact`, `QueueNearItsCap`, `RetentionIsAccounted`, `APIWalkIsWhole`, `NoChangeIsHidden` | the five surfaces, each with its races |

A name such as `RecordsAgree` or `EngineIsExact` is a conjunction of named parts,
each stated with its own comment in its module. The largest runs
(`writes_catalogue`, `impact_rounds`, `observed_concurrent`, `people`, `surfaces`) take two
to three minutes with two workers; `surfaces` has 1.4 million states.

### Bounds, and why they are enough
* Containment: four assets let a two-level subtree move under a fourth asset, the
  smallest case in which a wrong depth below the moved node shows. `MaxVersion`
  bounds how often a row is written. The theorems remove these bounds.
* UserAdmin: two accounts are the smallest set in which each may remove the
  other; two attempts make a retry happen; one saved view (`MaxViews`) may be
  inserted before a scrub's snapshot, which then removes it, or after, which it
  survives.
* Observed: `FlapThreshold` is 1 instead of 5, so that an episode opens, absorbs,
  meets a novel value and settles within four reports; the code uses the number
  only in the comparison modelled. Three states are needed for a novel value.
* ImportJobs: batches of two and a file of three rows give a second batch; a
  queue of one and two jobs let `submit` block; a row with an unknown word in the
  second batch makes a job stop partway with nothing else wrong; two saves are the
  fewest that can take a validated parent away and put another one in its place.
* Impact: three services and one route hold a chain, a cycle, a diamond through a
  route and a self-feeding pool; two hosts, a cluster that fails over and one
  that cannot; three networks, whole, hurt in places and cut, of which each
  analysis takes one. `MaxIterations` is the code's 20, never reached with three
  services; `RoundsBounded` gives the bound in terms of their number.
* Writes: two requests are the fewest that interfere, two attempts the fewest that
  retry, two members the fewest whose union differs from either; a parent and a
  child hold every guard the operations have on another row. `MaxStarted` is two
  requests in all. That is too few for `SetCostConsumers` (below), whose log goes
  wrong with a third; the theorems have no such bound.
* Cabling: nine ports of four assets, panels with two strands, one breakout of
  two, three plants with converging strands, a loop and a breakout; the trace's
  budget (11) and hop limit (6) are both met on them.
* Permits: each role once, two projects, three requests.
* Reach: three groups, four chassis, two hosts (one in a rack), a circuit and
  cables; estates vary one thing at a time: policy, edges, planes, pins,
  lifecycle, services, plants with disabled ports, power chains.
* Surfaces: two browsers, two requests of three at a time; buckets of one and two
  tokens with half a token refilled per tick, which makes a fraction matter; a
  drift cap of one with two posts; a floor of one day with rows of three ages;
  pages of one row.

`CHECK_DEADLOCK FALSE` is set where the bounds stop the model: versions, times,
saves, jobs and requests run out.

### Fairness
Every handler is a goroutine, and the Go scheduler starves none: weak fairness of
a submitted request's own steps (`Writes.FairSpec`), of the import worker and of
blocked submits (`ImportJobs.FairSpec`). `Restart` is weakly fair: a service
manager starts a stopped process. No fairness is assumed of arrivals, of a person
who may never submit a form, of crashes, saves or aborts: a transaction may lose
every conflict, and ends because its attempts are counted.

## What is proved

`ContainmentProofs`, for every set of assets, names and requests:
* `TypeCorrect`, on both engines.
* `ClosureExactOnSQLite`. `ClosureExact` is not inductive as it stands: the
  INSERT of a move crosses ancestors with descendants, and for the result to be
  right the table must be transitively closed with depths that add up. The
  invariant `Tree` says, edge by edge, that rows join existing assets, one depth
  per pair, every row follows its parent's (`Follows`) and rows compose
  (`Composes`). `CreateKeepsTree` and `MoveKeepsTree` carry it through the two
  transactions that write the table; `MoveEdges` describes a move row by row;
  every other step leaves the table alone. With `Engine = "postgres"` the theorem
  is false, as `containment_pg_cycle` shows.
* `TableImplementsForest`, the refinement, on SQLite. The walk up the parents is a
  recursive function with fuel; `DepthBounded` says that no asset lies deeper
  than there are assets, and `WalkIsAbove`, by a least counterexample on the
  fuel, that the walk gives what the closure table holds. Every transaction is
  then a step of `Forest` or a stutter.
* `AuditReplay` and `UpdateNeverLost`, on both engines, from one invariant: a
  form's token is never ahead of the row's version, and while it equals it the
  row is the one the form showed.

`WritesProofs`, for any catalogue that follows the rules of `WriteRules`, any
number of concurrent requests and attempts, on both engines:
* `NothingEverDangles`, from `DangleInv`, for the scenarios promised
  (`MCPromised`): sockets and the dependencies on them, on SQLite cables too.
  Routes and attachments are not among them: nothing in the declaration asks for
  the lifecycle of the route or of the group. A serializable transaction that is open
  still has what it saw of the other row, or it is doomed (`Warned`): whoever
  takes it away looked too, so the two are a pivot, and the second to commit
  loses. `Fit` says that what is written back to a parent was live when it was
  read.
* `RecordsAlwaysAgree`, `UpdatesNeverLost`, `CommitsKeepTheirWord`, from
  `CarryInv`, which follows what a request carries from page to commit. The
  version it holds is never ahead of the row's; as long as they are equal the
  image it read is the row, but for silent columns (`SameRow`), the form shows
  what is stored, its set included once that was read (`Shown`), and the link
  rows it saw are all there are (`Opened`); a serializable transaction whose row
  has not moved has the row itself; and an early return that was not taken has
  kept its condition (`Gate`). `Evolves` says how any commit may move a row, and
  `OtherCarried` that everybody else's facts survive it. At its own commit a
  request is `Ready`: `BuiltFromRow` gives that the columns it was built from
  are those of the row, `SeesAll` that its DELETE leaves nothing behind, and
  `LogFollows` that the diff it logs moves the columns the statement moves.

`ImpactProofs`, for every finite estate, every order of the dependencies and every
outage:
* `AnswerAlwaysExact`. Statuses only worsen within an analysis, so routes and
  providers only look worse (`EffectMonotone`). Soundness (`Justified`,
  `FaultsJustified`): nothing is down or hurt that the smallest closed sets do not
  hold. Completeness: a round that passed every dependency without news
  (`Settled`) leaves statuses that are closed (`QuietIsClosed`), hence the
  smallest closed sets (`DoneIsExact`).
* `ViaAlwaysExplains`: the edge a report names carries at least the status shown
  (`Explained`), and in a settled answer at most.
* `RoundsAlwaysBounded`: every round with news uses up one of three events per
  service, degraded, down and first unmet startup dependency (`Events`, `Paid`).
* `LargerOutageNeverBetter`: fewer instances are never more capacity
  (`EvaluateMonotone`, by cardinalities; the cluster's failover included), and
  smaller capacity under a network that is no better means larger closed sets
  (`MeaningGrows`). It says nothing of an analysis whose network got better
  (`eased`): that happens in the code, see below. It needs the cap above three rounds
  per service, under the hypothesis `MaxIterations > 3 * Cardinality(Services)`;
  with the code's 20 that is six services, which is the disagreement below.
* `EngineAlwaysExact`, of `PowerSpec`, for every finite topology. The union-find is a
  fold over a set of edges; `FoldSplits` shows by a smallest counterexample that
  after any set of edges it splits the nodes into the parts those edges join, and
  `SplitsConnected` that being in one part is being joined by a walk.
  `EffectiveIs` finds the nearest container that declares something;
  `AggregateIs` reads the verdicts off the pairs.
* `LossAlwaysWorsens`: losing more leaves fewer groups, edges, attachments and
  hosts, and each list of the report is monotone in them.
* `CutAlwaysAgrees`: the cut page splits the same nodes by the same edges, and a
  split is unique (`SplitsUnique`).
* `PowerAlwaysOneStory`, for any estate whose chains of supplies end. A height
  that grows with every parent (`ChainsAssumption`) makes the walk up from an
  input a path that names nobody twice and ends by itself (`PathIs`, `PathRises`);
  the walk down from a supply reaches exactly the feeds on whose way up it stands
  (`Climbs`, `LostIs`). So the nodes whose loss takes an asset are those on the way
  of every live input, and `lowestSharedAncestor` names the lowest (`SharedIs`).
* `PicturesAlwaysExact`, for any finite plant, budget and number of hops.
  `RoutesAre`: the reference enumerates the routes that visit nobody twice.
  `RingRoute` and `RouteRing`: who is in ring n of a search, and in none before,
  is the end of a route of n steps and of no shorter one; this asks that what may
  be followed late may be followed early (`Narrowing`), which is why a console
  cable may be followed out of the subject only. `BfsIs` reads the distances off
  the rings; an asset is on a shortest way exactly when its distances to both ends
  add up (`WayThrough`, `Detour`), hence `MarkIs` and `UnionIs` for
  `shortestUnion`. `FirstFit` and `CutIsLast` are the budget: who comes before all
  others and fits is kept, and nobody cut comes before somebody kept.
  `PortsExplain` opens the named ports along one shortest patched route.
  For these five the only invariant is that the tables stay one of the
  topologies; the outage is any.

`ObservedProofs`, for every number of reports, every clock and flap threshold:
* `TypeCorrect` (serialised or not), with `RowStays`: a row, once there, stays.
* `LedgerAlwaysTrue` and `EveryChangeIsAccounted`, under the hypothesis
  `Serialised`. Both are false at READ COMMITTED, where two transactions plan on
  one row (see below). `OneWriter` says that a transaction
  that is open is alone and planned for the row as it is; `Story` reads the
  ledger as a chain of states with its episode brackets matched and ends it in
  the stored row; `Counted` adds up what the episodes absorbed.
* `OrderKept`, on both engines, from `OrderInv`: as long as reports did not
  overlap, at most one is under way, the row is the newest one's, and what the
  buffer holds is of that row.
* `AcceptedNeverRewinds`, an action property, on both engines and for overlapping
  reports too: with `Grounded` (a heartbeat is buffered for a row that is there)
  every step but `Forget` and `Crash` leaves a time at least as late as each that
  the row, the buffer and the flusher had. `ReportsAlwaysKept` is the two together.

`ImportJobsProofs`, for any files, names, jobs, batch size and queue depth:
* `ImportAlwaysSound`. `ImportIsSound` speaks of stopped jobs only. `ImportInv`
  follows a job from the form to its outcome: queued, it has written nothing;
  while the worker writes, its assets are its first `done` rows; the outcome the
  worker is about to record is so already (`Told`), which is why a crash before
  or after the record does no harm. `RowsFit` keeps what validation established
  of the rows not written yet: one path each, and every parent found in the
  snapshot an asset made by somebody else. `BatchLands` carries it through one
  batch.
* `ValidationAlwaysExact`, an action property. The stable sort is defined by the
  rank of each line, and proved to be a permutation that puts roots first. What
  is exact is the judgment of paths, parents and resolved columns; the words
  that only `insertAsset` looks up are not part of it;
  `PassedIsApplicable` and `ApplicablePasses` are the two directions.
* `UndisturbedAlwaysWhole`, an action property, from a second invariant
  `WholeInv`: while nothing disturbs the job, the rows written stand at their
  paths, the paths of the others are free, and each row's parent is a live root
  or a row above it (`Ready`). The job then ends whole, or with exactly the
  batches before the first that holds an unknown word. `ReadyFree` shows that such rows can be inserted,
  `ReadyLands` that a batch leaves the rest ready; both need that every parent
  in the table exists (`ParentsExist`), so that a root not written yet has no
  children. A job that is validated, undisturbed and not stopped is the one the
  worker is at (`AtWork`), which leaves a restart nothing to fail.

`CablingProofs`, for any plant, any ports and requests, on both engines:
* `BreakoutsAlwaysAgree` and `PortsAlwaysSound`. `CablingInv` follows a request
  from the moment its id is made up: the ids it will write are nobody's
  (`Apart`), an undoomed serializable transaction still has its ports to itself
  (`Clear`), and the edit of a strand agrees with the strands beside it
  (`Guard`). `PortInv` adds that a port with a cable is not withdrawn, on SQLite
  only: on PostgreSQL the property does not claim it.

`PermitsProofs`, for any users, projects, entities and requests:
* `PermitAlwaysRecent`, from `PermitInv`: while a request still reads, the history
  it is judged by contains the tables of this moment, so what the next read
  returns is in it.
* `NobodyEscalates`, an action property: with ids under creation nobody else's,
  each of the commits is shown to widen no reach but the ones the property names.

Accounts, in the same module, for every number of accounts, persons, requests and
attempts:
* `AccountTypeCorrect`;
* `AdministratorAlwaysRemains`: the administrator a commit removes was counted
  beside another, who by serializability is still there;
* `ErasureOutlives`: with the auxiliary fact that changes are only asked for of
  existing accounts, an erasure that no request of the person overlaps, from its
  snapshot to its commit, leaves no view and nothing that could write the person
  back.

`SurfacesProofs`:
* `GateAlwaysRecent`, `SignInAlwaysItsOwn`, `SignOutAlwaysHolds`, for any accounts,
  browsers, concurrent requests and session ids, from one invariant
  `AccessInv`: the accounts are unique by name and by subject
  (`Distinct`), what a request acted on is among what it could do since it
  arrived (`Covered`), each session id belongs to one browser, which alone holds
  it in its cookie and its requests (`Owned`), an issued code carries a subject
  and a name (`Issued`), and only minted ids have ended.
* `APIWalkAlwaysWhole` and `NoChangeIsEverHidden`, for finitely many rows and any
  page size. A page is the first n of a finite set in a strict order; the lemmas
  about it (least elements, what is left out lies behind all that is in) serve
  both. What was listed all along and lies before the cursor has been seen
  (`Progress`, `Read`).
* `RetentionAlwaysAccounted`: the rows in the ledger and those audited as pruned
  add up to those recorded, prune by prune (`RetentionInv`).
* `QueueStaysNearItsCap`: rows queued plus posts past the count stay below the cap
  plus the number of posts (`QueueInv`).
* `BudgetAlwaysExact`, for any rates, bursts and times of asking: the bucket's
  level is the least slack over the spans that end now (`KeyOK`), so the request
  it refuses is one that some span has no room for.

The assumptions are those of the modules, and TLC evaluates each on the runs:
sentinels (`Null`, `None`, the empty string) are no member of the sets they stand
beside, bounds are natural numbers, batches, pages and bursts are not empty;
finitely many users, states, rows, posts, assets, services, instances, hosts,
groups and media. `TablesAssumption` is what the schema of the reachability
tables enforces (foreign keys, unique ids) and that containers form no cycle.
`PlantAssumption` says that a cable has a port of an asset at both ends and that
assets are not services, `RankAssumption` that names and ids order the assets.
`ChainsAssumption` says of the power tables that keys are unique, inputs name
feeds and feeds panels, and that a chain of live supplies ends before
`supplyDepthLimit`: `requireNoSupplyCycle` (`power_sources.go:214`) refuses the
edit that would close a loop, and "No real chain is anywhere near this deep"
(`power_sources.go:209`). On a chain beyond the limit both walks stop early and
the two reports may differ.
`CatalogueAssumption` and `PromiseAssumption` are the rules the operations were
written to. Those about the first state are `PlantsAssumption` (the first ids are
those of the cables to begin with, and no port is cabled twice) and
`AccessAssumption` (the accounts to
begin with are distinct by name and by subject).

Only model-checked:
* the liveness properties (`RequestsEnd`, `EveryJobStops`), outside the prover's
  reach;
* `TraceIsTrue`: `CableTrace` recurses as the code does, with a recursive operator,
  and the prover has no backend for a module that declares one.

The library's induction theorems cannot be instantiated here. Where a proof needs
induction it takes the least number, or a smallest finite set, at which a
concrete predicate fails (`LeastNat`, `SmallestSet`), and contradicts it.

## Where code and documentation disagree

Two are runs, quoted under "findings" in `PROJECT.json`: the containment cycle on
PostgreSQL and `import_vocabulary`. The other definitions named below are stated in their modules with a
comment and are violated when added to the cfg of their run (with the constant
given, if one is); no run counts on them.

**Writes and audit**
* `AuditReplaysParent` (`Containment`): a move logs the difference to the row it
  read before its transaction, so of two moves of one asset the second may log
  nothing or the wrong origin.
* Sticky tokens: `requireVersion` advances the caller's token when the UPDATE
  matched (`store.go:512`); if COMMIT then fails with a serialization error, the
  retried closure compares the advanced token and can overwrite somebody else's
  edit (`deps.go:977`, `customfields.go:365`). With `StickyToken` taken
  out of `MCExempt` they break `CatalogueAssumption`, and without it
  `NoLostUpdate` on PostgreSQL.
* Fresh tokens: a refused form of a bundle, service, project, identity or
  certificate is redrawn with the version of the row as it now is under what the
  person typed over an older one (`forms.go:569`, `handlers/bundles.go:215`), so
  the second submission overwrites without a warning.
* `ReadBefore` and `ReadCommitted`: these compute the audit diff from rows read
  before the transaction, or inside it at READ COMMITTED; two of them leave a log
  that does not replay to the stored row. `VerifyDependency` (`deps.go:1140-1163`)
  is one: it diffs against a row read outside and updates by id alone, so when a
  second person verifies meanwhile the log may name one and the row the other.
  Another, `SetCostConsumers`
  (`costs.go:556`) on PostgreSQL, came out of a failed proof: of three requests,
  the first sets the consumers, the second reads them, the third clears them,
  and the second writes what it had read. Its diff is empty, so the row has
  consumers and the log says that it has none. `Unioned`: DELETE and INSERT of a link
  table at READ COMMITTED may leave the union of two requests.
* `RetireTeam` indexes the team it read before the transaction, and
  `ReindexIdentities` writes its documents from a list read earlier: a rename that
  commits in between is undone in the search document.
  `reactivateRetiredEnvironment` returns before its document is written.
* `AmendHealthOverride` on PostgreSQL writes back the lifecycle it read
  (`overrides.go:253`) and revives an override that another request cleared.
* A retirement and a reference are kept apart only where both look inside
  serializable transactions (`MCPromised`); elsewhere a live row can be left that
  names a withdrawn one. No race is needed for a dependency through a route
  (`requireLiveProvider`, `deps.go:163-178`, asks for the lifecycle of the frontend
  socket only, whatever `deps.go:601` says) and for an
  attachment to a withdrawn group (`store/reach.go:518-589`). The scenarios
  `routed` and `attachment` break `PromiseAssumption` when promised, and without
  it `NothingDangles`.

**Accounts, permits, sessions**
* `SomebodyCanAdminister` (`UserAdmin`): a scrubbed administrator that is
  re-activated (`users_admin.go:234`) counts as one, though nobody can sign in as
  it; the guard's text (`users_admin.go:143`) says the last one cannot go.
* `ErasureIsFinal`, `NoViewsOfErased`: a sign-in or a saved view that found the
  account before the scrub writes it afterwards; a view that commits between the
  scrub's snapshot and its DELETE is not seen by it (`users_admin.go:364`).
* `RetirementReleasesLinks` (`Permits`): `RetireProject` leaves
  `project_circuit` links active although its comment (`projects.go:441-447`) says
  that the cascade is the point; an edit to lifecycle retired releases nothing,
  and a link can be made to a retired project.
* A permit is read in four queries, so it may combine an assignment and a link
  that never held at one moment; `PermitIsRecent` claims each half only.
* `SignOutIsFinal` (`Access`): a request that loaded the session before sign-out
  destroyed it writes it back when it ends. `SessionKeepsItsAccount`: the session
  key is called an id (`middleware.go:75`) and holds the username, which may become
  another account's. Two concurrent replays of one OpenID callback can both pass
  the state check.

**Observed state and imports**
* `OlderReportDiscarded` (`Observed`): a report older than one accepted while it
  was under way is applied (`observed.go:350`; `docs/AUDIT.md:261` says
  "discarded, not applied").
* `UndisturbedSucceeds` (`ImportJobs`): an unknown kind or manager role passes
  validation and stops the job at the batch that holds it, although the comment
  at `import_batched.go:37` says that validation "catches everything a write can
  fail on except a concurrent writer"; run `import_vocabulary`.
* `LedgerIsTrue` and `EpisodeClosedOnce` with `Serialised = FALSE`: at READ
  COMMITTED two transactions plan their ledger rows from the same re-read.
  `ForgetDropsOnlySuperseded`: `forget` runs after the commit and drops a bump
  that was buffered in between.
* `RerunIsNotRefused` (`ImportJobs`): the message of a partial job says "Re-run the
  same file" (`import_runner.go:163`), and validation refuses what already exists
  (`import_batched.go:137`). `FailedWroteNothing`: after a restart the job says
  that nothing was written although whole batches have landed.
* `ImportJob.Done` (`import_jobs.go:61-64`) leaves out `partial`, so the page of a
  partial job polls for ever.
* A drift row at the cap no longer has its `last_seen_at` moved (`observed.go:1392`
  returns before the upsert), so the prune may remove a reference that is still
  being reported. The prune of unmatched references counts outside its
  transaction, and its log entry names the table `observed_transition`
  (`prune.go:225-236`). A prune may remove an episode's opening row and leave its
  closing one; with `keep-days` 0 the churn that opens an episode is forgotten.
* The buckets of the machine gate start full after a restart.

**Simulation and pictures**
* `EndsOfItself` (`Impact`): `maxIterations` (20) is called a backstop, but the
  rounds may number up to three per service and one (`RoundsBounded`); a long chain
  stored consumer-first is cut off and the page says that it settled. A chain of
  22 services shows it: the twentieth round leaves the first one well.
* An outage that takes the one consumer host which is cut off from its provider
  takes the partition away with it (`computeDepReach` asks the hosts still alive),
  so a larger outage can look better; `AnswerNeverImproves` leaves out the analyses
  whose network is better somewhere (`eased`).
* `applyClusterHA` revives a guest that the outage names itself (the comment at
  `graph.go:922` says it revives what containment condemned), so adding its host to
  an outage can improve the answer; `AnswerNeverImproves` leaves those outages out.
* `cutEffect` (`graph.go:662`) ignores planes and group statuses;
  `CutSaysWhatTheEngineSays` is claimed where every plane is the data plane and
  every group up. An endpoint drops off the exposure list when the only host of
  it in the topology goes down.
* `BlockedIsSet` (`Paths`): the rows that mark disabled ports include management
  cables, so a disabled data cable beside a management cable is not named
  (`path.go:646`), and the drawn links include management cables (`path.go:29`).
  Marking stops at the first sixty assets in alphabetical order. Anchors beyond
  the budget are cut, whatever the comment at `path.go:215` says; unrouted ends
  are reported when there is no near end.
* `SubjectIsNeverCut` (`Paths`): a subject with more than a budget's worth of assets
  inside can be cut from its own neighbourhood (`neighbourhood.go:276`).
* The path page takes the attachments of all containers (`path.go:323-326`), the
  engine those of the nearest (`reach.go:524`).
* `AssetsLosingPower` counts inputs on retired feeds and panels (`power.go:144`,
  `295`, `power_sources.go:165`), `PowerFindings` does not; two concurrent edits of
  supplies at READ COMMITTED could close a supply cycle (`power_sources.go:214`).

**Cabling**
* `TraceShowsEveryCable` (`CableTrace`): a port with several strands of a breakout
  keeps one of them (`cabling.go:238`), so the trace shows one cable. A trunk whose
  rear port is unpatched is shown as a way from one front port to the other.
  `loadPlant` reads in three queries.
* `RetireInterface` runs at READ COMMITTED beside a serializable `CreateLink`, so on
  PostgreSQL a live cable can end at a withdrawn port; `PortsAreSound` claims that
  part for SQLite. `CreatePassThrough` does not ask for a lifecycle
  (`network.go:762`); `CreateLink` does not ask whether the asset is live, and
  `UpdateAsset` writes "retired" without unpatching (`assets.go:1253`). The medium of
  a breakout cannot be corrected while two of its strands are live.

**Reading**
* `ShownIsInScope` (`ReadAPI`): a row is found in scope by one query and decorated
  by the next, so environments outside the credential's scope can be shown. An
  asset's addresses include retired ones, the list of addresses does not. A full
  last page offers a cursor to an empty one, as documented.
* `NotesKeepTheirShare` (`ChangeLog`): notes have a budget of their own, but the
  timeline is cut by age at the end (`audit.go:367-371`), so churn can push them out.

## Not modelled

* Search queries, exports, single-row API reads and lists: read-only, over one
  snapshot; their state is the tables other modules write.
* Reports on money, capacity, racks and expiry: arithmetic over one read, covered
  by the repository's table tests.
* Diagram layout, templates, HTMX fragments, help: presentation.
* Address arithmetic: pure functions on 128-bit values, for which bounded inputs
  say little.
* Seed data, migrations, configuration, pool set-up: run once before anything else.
* Inside the modelled parts: cryptography (passwords, signatures, tokens), CSV
  parsing, the choice of neighbours and labels of a timeline, allocation in VA,
  shutdown order and cycle listing of the impact report, instantiation of a device
  type's components, which values a narrowed custom field still allows; the permit
  over the new parent of a moved asset (`assets.go:1396`), the break-glass names of
  `INV_ADMIN_USERS` in `Permits`, and in `Intake` the second ledger row of a report
  that also closes an episode and the answer of 500.

## Plan

What is left is what the list "Only model-checked" names. `TraceIsTrue` wants the
trace written as a function of the budget it has left, so that the prover can
take the module; the two liveness properties stay with TLC.
