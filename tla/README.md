# Verification of the migration team's tools

The repository is a lab that migrates an Oracle schema to PostgreSQL. Its own core logic is the
Python package `tools/migration_team`: a resumable work queue that several people and agents drive
from separate terminals, and the tools around it that validate, load and audit. This directory
models that core in TLA+, checks it with TLC and proves the main guarantees with TLAPS.
Paths below are relative to the repository unless they name a module of this directory.

## 1. Inventory

| Part | State | Operations | What makes it correct |
| --- | --- | --- | --- |
| Queue (`queue.py`, `cli.py`) | SQLite file: `tasks`, `events`, `metadata`; staged SQL under `work/` | init, configure, claim, stage, release, unblock, validate, review, reopen; read-only: show, list, summary, audit | lanes bounded; attempts charged once and never refunded; a quarantine holds; accepted work is current, in budget and reviewed by somebody else; a task is never stuck |
| Budget administration (`budget_admin.py`) | `user-authorized-revision` events of the queue | prepare (dry run), apply | a grant leaves exactly what the user approved; an approval and a linked lineage count once |
| Scratch validator (`validator.py`) | one disposable container | validate | verdict only after every gate; deadline; container removed |
| Hard-case checklist (`cases.py`; not modelled) | a JSON file | record_case | no lost outcome; only standing reviews recorded |
| Evidence comparison (`evidence.py`) | none | compare_exports, hard_cases | equal multisets of rows, and nothing else, compare equal |
| Full-run controller (`full_run.py`) | ledger, receipts, pending batches over several queues | ingest, supersede, reverify, seed, run, resume, dataload | credit rests on standing reviews; budget not reset by reseeding; lanes bounded over all queues |
| Data loader (`data_loader.py`) | target tables and sequences, one transaction | plan, apply, finalize sequences | loads at most once; the exit code never claims what is not known |
| Full validation (`full_validation.py`) | receipts | compare data, check schema, build receipts | a receipt passes only on complete evidence |
| Seed-data generator (`generate-data.py`) | none | arguments to SQL files | every row's key is new and what it refers to is there when it is loaded; journals balance |
| Object generator (`generate-objects.py`), `sync-cloud-init.py` | none | text to text | deterministic output |
| Oracle lab schema, shell scripts, Bicep, workflows, agents' charters | outside | cloud and database provisioning | out of scope: pure I/O or the migrated sample |

How they interact. Every queue command is a process of its own (`python migration-team.py ...`) that
opens `queue.sqlite3`, runs one `BEGIN IMMEDIATE` transaction and exits; the database is the only
thing the processes share, with the files in `work/`. `validate` calls the scratch validator between
two transactions. `budget_admin` writes to the same database. `full_run` calls the queue's CLI and
the loader as subprocesses and keeps a ledger of what it saw; `full_validation` compares through
the CLI's `compare-data` and leaves a directory of receipts that `full_run` reads. `record_case`
reads the queue and writes the checklist.

What is hard. Commands of several processes interleave. Three commands read before the transaction
that uses what they read: `validate` (the schemas), `configure` (the metadata), the grant (the audit
and the hashes). `validate` holds no lock while the validator runs, may be interrupted or killed
then, and closes with an UPDATE that does not look at the row. The staged files can change at any
time. Lifetime use of a task is never stored: `validation_budget` rebuilds it from a counter that
older releases reset, from a baseline event and from what was logged since. The controller's commands
load a ledger, look at tasks of several queues one by one and write the ledger back, with no lock. The
validator works against a daemon that may hang and a server that restarts, within one budget of time,
and must clean up whatever happens. A run of the full validation overwrites the receipts of the one
before and may end anywhere. `PROJECT.json` lists
each hazard at its line with the properties that guard it, or why none does yet.

## 2. Modules

| Module | Role |
| --- | --- |
| `AttemptLedger` | abstract specification: what a queue promises about attempts, holds and certification |
| `MigrationQueue` | `queue.py` and `budget_admin.py`; properties; their mutants |
| `MCMigrationQueue` | small instances for TLC |
| `MigrationQueueProofs` | types, exclusive validation, holds, lanes; the budget invariant and what follows from it; linked lineages |
| `MigrationQueueReview` | what stands for review; refinements of `AttemptLedger` and `QueueView`; when the evidence is of the configuration it names |
| `QueueView` | abstract specification: what `mt show` lets others see of a queue, and how it may change |
| `Controller` | the ledger of work units of `full_run.py` and its commands, over queues that are `QueueView`s; properties; mutants |
| `MCController`, `MCSupersession` | small instances; the second adds a history of accepted reviews for the finding |
| `ControllerProofs` | types, credit, launches, memory of attempts, lanes |
| `Validator` | `validator.py` and what `queue.py` does around it, over Docker, a server and files |
| `QueueAttempt` | what a state of `Validator` is to `MigrationQueue`: its row, files and call |
| `MCValidator` | small instance for TLC |
| `ValidatorProofs` | types, the verdict, the container, time, the server; every step is one of the queue's |
| `DataValidation`, `MCDataValidation` | `full_validation.py`, `compare-data` and `ingest_data` of `full_run.py` |
| `DataValidationProofs` | types, credit, receipts, coverage |
| `LoadPlan` | pure: manifest checks, name resolution, column plan of one table (`data_loader.py`) |
| `ColumnPlan` | `build_plan` as a whole: one input, one answer; its property |
| `ValueMapping` | pure: one value on its way into a column (`encode_field` to `_project_sql`) |
| `WorkPlan` | levels and batches of `full_run.py`, one action per turn of each loop; its property |
| `SeedPlan` | the rows of the seed load, their keys and references, written statement by statement (`generate-data.py`); its property |
| `MCPlans` | inputs for `ColumnPlan`, `ValueMapping` and `WorkPlan`, the seed load beside them, and the reference for values |
| `PlanProofs` | column plan and batches |
| `SeedProofs` | the seed load at every scale |
| `LoadPromise` | abstract specification: what the loader promises about rows and its word on them |
| `DataLoader` | `data_loader.py` against PostgreSQL, and what `full_run.py` makes of its exit; properties; mutants |
| `MCDataLoader` | small instances for TLC |
| `DataLoaderProofs` | types, runs kept apart, honest reports, sequences, lock order, when no deadlock can be; refinement of `LoadPromise` |

How they compose. `Controller` instantiates `QueueView` for each of its queues; that `MigrationQueue`
implements `QueueView` is checked (`ShowsQueueView`) and proved, so the controller is checked over what
the queue has been shown to do and not over a guess. `Validator` is the detail of what `MigrationQueue` takes for one step between the two
transactions of `validate`; `QueueAttempt` says what the row, the files and the call of the queue are in
each of its states, and that every step of `Validator` is the queue's `BeginValidate`, `EditFiles`,
`ValidatorReturns`, `ValidatorRaises` or `Crash`, or none, is checked (`StepsOfTheQueue`) and proved. This is about steps
and not initial states: `Validator` begins with a task that is claimed and whose schemas have been read,
as the queue does not. So what every step of the queue was shown to keep a validation keeps too.
`DataLoader` acts on what `LoadPlan` decides and stores what `ValueMapping` computes. Queue and loader
meet only through people (a loader runs when a schema has been migrated), so no module composes them.

### MigrationQueue and the code

State. `status`, `worker`, `reviewer`, `evidence`, `counter` are columns of `tasks` (`counter` is
`validation_attempts`). The events table is represented by what `validation_budget` computes from
it: `legacy` (validate events before and after the last legacy reset, and the counter at that
time), `baseline` (the first `validation-budget-baseline` event), `starts` (`validate-start` events
after it), `debit` and `granted` (sums over the grants), `held` (a quarantine later than the last
grant), `grant` (the last grant), `consumed` and `debited` (identifiers found in grants). `schemas`
is `target_schemas` in the metadata; `sql` is what lies in `work/<id>`. `call` is the local state of
each running CLI process that is between two steps of its command. A SHA-256 is represented by what
it is taken of, so two fingerprints are equal exactly when the inputs are.

Actions. `Claim`, `Stage`, `Release`, `Unblock`, `Reopen`, `Review` are single transactions and so
single steps. `validate` is `ReadSchemas`, `BeginValidate`, then `ValidatorReturns` or
`ValidatorRaises`, then `RecordValidation`. `configure` is `ReadConfig`, `WriteConfig`. The grant is
`PrepareRevision`, `ApplyRevision`. `Refuse` is a transaction whose guard fails; it rolls back.
`Crash` may end any call between two steps: SIGKILL, a host restart, or a closing transaction that
cannot get the lock within 30 s (it is outside the `except`). `EditFiles` is the environment: staged
files may be rewritten or removed at any time, which also covers a `stage` that fails after writing
some of them. `Init` is a fresh queue, or one an older release worked on: legacy histories with
resets and interrupted attempts, tasks in any status. That release reset counters and kept no lifetime
limit, so a task that it has up for review, or has accepted, may be over it (`Left`, `AnOldPass`).

The merges that need a reason:
- `claim` with and without an id is one action, as both take a queued task.
- Blocked and failed verdicts are one value: both return the task to `claimed`.
- `PrepareRevision` reads the audit and the hashes in one step. The code reads them in that order;
  an event in between makes the second check of `run` refuse (`touched`), and an edit of files in
  between is an edit before.
- `touched` stands for the comparison of the last event's sequence number: `Logged` sets it on every
  prepared grant of the task whenever an action appends an event of that task. `ValidatorRaises`
  appends none, as in the code.
- `reopen` archives files before its UPDATE; an archive that fails rolls back and is no step.
- A linked lineage is a quarantined task of another queue, a constant with the attempts recorded
  there (`LineageUsed`). That such a task could change meanwhile is left out.
- The engine pair has a single implemented value, so only the schemas are modelled of it.

### AttemptLedger

Per task: attempts spent, the limit, a hold, whether it is certified; and the warrants used up. `Spend` needs
room and no hold; `Certify` needs use within the limit and no hold; `Revoke` may set a hold;
`Authorize` takes a warrant that was not used before, may charge attempts but leaves some to spend, and
lifts the hold. Nothing else happens, so a hold is lifted by a new approval (`used` is `consumed`) and not
otherwise. What the ledger takes over may have certified anything.
`MigrationQueue!Ledger` maps `spent` to `Used`, the lifetime use the code reconstructs: that every
reset, baseline, interrupt and grant of the queue is one of these four steps, or none, is the claim.

### DataLoader and the code

State. `rows[t]` is whose committed rows table `t` holds: a run of the loader, others, or nobody.
`behind[t]` says that the owned sequence of `t` would hand out keys already in use. `lock[t]` is the
session that holds `t`. Of each process: `pc`, its phase; `outcome`, `applied`, `receipt`,
`enumerated`, the fields of its report; `exit` and `reported`, what is left when it has ended.

Actions. `Start` is all of `run` before `_apply`: connection, checks, plan, the dry run. A run then
locks its targets by name (`LockTarget`, `LockTimeout`), counts under the locks (`Recheck`), drops
foreign keys (`DropForeignKey`, `DropTimeout`), loads and verifies (`LoadAndVerify`, `ApplyFails`),
and commits (`Commit`, `CommitAborts`, `AckLost`). What a transaction writes is invisible until
then, so inserting, triggers and verification are one step. After the commit and without locks:
`NotEnumerated` or `Discover`, `SetVal` and `SetValFails` per sequence, `Finish`. `Report` writes the
report and exits; `Uncaught` is an exception that `main` lets through; `Kill` may come at any time and
may leave a commit done that nobody heard of. `Resume` is an operator who follows the plan of
`interpret_loader_exit`. `OtherBegins` and `OtherEnds` are another session that writes to an empty
table and holds it while it does.

External and assumed of PostgreSQL: transactions are atomic; a table lock goes with its transaction;
`ALTER TABLE ... DROP CONSTRAINT` of a foreign key locks the referenced table in ACCESS EXCLUSIVE
mode too; a session that dies is rolled back.

Abstractions. Tables, not rows: the counts and per-column checks of `_verify_table` are one of the
ways `ApplyFails`. One owned sequence per table. A dry run reads without being seen; the ACCESS SHARE
locks it takes until its rollback are left out. Manifest checks, name resolution and the encoding of
values are abstracted to whether they block. What users do to tables once loaded is not the loader's:
others write only to tables without committed rows.

### QueueView, Controller and the code

`QueueView` has what readers distinguish: a status (`claimed` and `validating` are both "active"), the
attempts used, whether a review's evidence is of the inputs as they are now (`fresh`), and whether the
review is within its budget (`eligible`, the `review_eligible` of `show`). `Moves` is one queue
command, `Drifts` an edit of files or configuration. What is accepted now is fresh and eligible; what an
older release accepted, and `Init` holds, may be neither.

State of `Controller`. `queue[k][t]` is what `mt show` would answer about task `t` in queue `k`, or
`Absent`; `workers[k]` its `max_workers`, or `Absent` while there is no such queue, in which case the
controller reckons with `MAX_ACTIVE_LANES` (`Lanes`). `ledger` is `controller-manifest.json`, per unit: the state,
`reviewed_task_ids`, the evidence (queue and task), whether `run_state_history` has an attempt
(`attempted`), whether `lifetime_attempts_used` is positive (`lifetime`). `call[p]` is the command of
operator `p`: the ledger it loaded, what it is about, what is left to look at and what it saw.
`accepted` is a history variable.

Actions. A command begins by loading the ledger (`Manifest`, `Supersede`, `IngestEvidence`, `Reverify`,
`Seed`, `Launch`), looks at one task at a time (`Look`), and writes everything back in one rename
(`WriteLedger`) or creates a queue (`InitQueue`). A session of agents is between `Launch` and
`SessionEnds`; only then is the ledger loaded to take in what it left, as in `execute_batch`. `Crash`
ends a command anywhere. `Work` and `Drift` are the queues: agents of a session, other teams,
whoever edits files. Records of `ingest-evidence` are those that name a task of the plan; records
with nothing but a unit's name are never credited alone. `Creditable` asks for `fresh` and `eligible`
(`_evidence_fresh`, `_budget_ok`). "Reviewer is not worker" is no conjunct of its own, as it holds of whatever a queue
shows as reviewed (`ReviewStands`, also of what an older release accepted); the budget does not. `Theirs` are the tasks
that another team may have at the start: queued, or reviewed, in or over budget, fresh or not. `accepted` has only reviews within budget, and credit has
to rest on one of these.

### Validator and the code

State. The three files and what became of them: `file` now, `input` at the first hash, `sql` as the
validator read it; `daemon` and `server`; `clock` in half seconds; `pc`, the phase; `result`, what the
phases found; `status`; `removal`.

Actions. One per phase: `Call` is the opening transaction, `Record` the validator's own hashes, then
`Read`, `Preflight` (daemon and image), `StartContainer`, `ProbeReady` / `ProbeAgain` / `NeverReady`,
`Setup` (role and schemas, version), `Compiles` / `CompileFails`, `Discover`, `DeepCheck`, `Behaviour`,
`Remove` (the `finally`), `Rehash` (the second hash of `Queue.validate`). `GivesUp` is `_Blocked` in any
of them, `Interrupted` any other exception, `Killed` the end of the process. `Conclude` says where each
leads. `Answer`, `Success` and `OutOfTime` are `_run` with its limit. The daemon, the server and the
files change at any time. SQL is arbitrary: whatever the candidate may answer is an outcome.

In `QueueAttempt`, `Staged` is what `Queue.hashes` makes of the files (a required file that is blank is as good
as absent), `Finding` the evidence about to be written, `AttemptCall` the call, `Attempt` the number charged.
The closing transaction itself is the queue's alone: `Validator` ends before it.

### DataValidation and the code

State. `run` is the validation under way, table by table; `child[n]` the `compare-data` process that the
n-th validation has at work; `csv`, `compare`, `left` and `report` are the files they leave (exports,
comparisons, `.tmp` files of a `compare-data` that is at work or died, the report); `ingest` is an
`ingest_data` under way, `load` the load units' states. History variables: `proved` are the
tables ever seen to be right, `last` says whether the export that the newest comparison was to compare
was right, `late` are the tables whose newest comparison found an older one still at work.

Actions. `CheckSchema`, `CountRows`, `Export`, `StartCompare`, `Judge` for each table, `WriteReport`, and
`Abort` anywhere. A comparison is a process of its own that goes on when its run has been killed, and a
later run may be exporting and comparing the same table meanwhile: `ReadsExports` (the digest before
and after make reading one step: if an export changes under it, it fails), `ChecksOutput` (the CLI refuses one that
exists), `OpensOutput` (exclusive creation of the `.tmp`), `RenamesOutput` over whatever is there by
then, and `CompareDies`. The target is not a variable: each query sees some content of `Contents`, as others load and
alter tables between any two. `BeginIngest` reads the report, `ReadReceipt` each comparison, `WriteLoad`
writes the ledger.

### The plans and the code

`LoadPlan`: names are a word in one of two spellings, which is all `_matches` tells apart; a column is
known by what it holds below any domains. `ColumnPlan` has one step: `result` goes from `Pending` to what
`BuildPlan` makes of `input`. `ValueMapping`: values and types as trees; the operators are
the functions of the same names, and `Recordset` is PostgreSQL's `json_to_recordset`. `WorkPlan`: the
local variables of `topo_levels` and `build_batches`; `PlaceLevel` is a turn of `while ready`, with the
inner loops over the level and its dependents as one decrement of each indegree, `EndLevels` the test
after it, `CutBatch` a turn of the slicing loop, `WriteBatches` the end. A level is a set: sorting only
decides how it is sliced, and that is `Before`. `SeedPlan`: for each `bulk_block` (`Bulk`, batch by batch) or `INSERT ALL` the rows with key and
references as functions of the row number, the UPDATEs that close circles, and `Load`, the
statements in file order, of which `WriteStatement` writes the next. What the pseudo-random sequence decides is left out, and where it decides
whether a reference is there, it is taken to be there.

### LoadPromise

Rows go into empty tables only, all tables of a run at once (`Load`) or none; a run that announces
"loaded" has all its rows there, one that announces "nothing" has none, for ever; one that ends
silently or unsure may or may not have loaded. `DataLoader!Verdict` reads the announcement from
report and exit code.

## 3. Properties and runs

| Run | Instance | Checks |
| --- | --- | --- |
| `queue_task` | 1 task, 2 processes, 3 names of which 2 spell one actor, 1 artifact with 2 contents, 1 schema, 1 approval, legacy histories (blocked; up for review, reviewed or claimed over the limit), base limit 2, 1 extra attempt | types, budget, exclusivity, evidence, reviews, fresh inputs, refinements of ledger and view |
| `queue_lanes` | 2 tasks, 2 processes, 2 approvals that may link the same lineage, 1 lane | `LaneCap`, `LineageDebitedOnce` |
| `queue_live` | 2 tasks, 2 processes, 1 approval, no crash | `ValidatingEnds` |
| `queue_config_race` | 1 task, 2 schemas | finds `ReviewedAsConfigured` violated |
| `queue_crash` | 1 task, crashes | finds `ValidatingEnds` violated |
| `control` | 2 units (a foundation of 1 task in another team's queue; one of 2 tasks that depends on it), 2 queues, 1 operator, 2 lanes of which 1 is reserved; the other team's task new, or reviewed in or over budget | types, credit, launches, lanes, memory |
| `control_superseded` | the same with a history of reviews | finds `FreshReviewRequired` violated |
| `validator` | 2 texts (one that is rejected unseen), 2 check names, 5 answers, 2 edits, a budget of 3 ticks, readiness 2, removal 1 | types, verdict, container, time, server, termination, steps of the queue |
| `receipts` | 2 tables (two rows; none), 6 contents, 4 sets of failed checks, 7 inputs, 3 selections, 2 validations, each with its comparison | types, credit, receipts, whose comparison passes a table |
| `load_runs` | 3 runs over 2 tables: both, both with one of them without rows, one alone; a foreign key, sequences on both | types, runs kept apart, honest reports, sequences, lock order, `RunsEnd`, refinement of the promise |
| `load_deadlock` | 2 runs, one of which loads the referencing table only | finds `NoDeadlock` violated |
| `plans` | all inputs below | the column plan, values, batches, seed load |

- `ExclusiveValidation`: a running validation is the only one of its task, and the task is
  `validating`. This is what makes the unconditional closing UPDATEs of `validate` right.
- `SpendBounded`: validator starts never exceed what the legacy history leaves of the base limit,
  plus what the user granted, whatever is interrupted, killed, reopened or rejected.
- `SpentNeverRefunded`: no step lowers `Used`, the writing of a baseline included.
- `GrantIsExact`: a grant leaves exactly the approved number of attempts when it is applied.
- `EvidenceOfLatestAttempt`, `FreshInputsReviewed`, `ReviewStands`: what is up for review is the
  outcome of the last attempt; the inputs a grant requires to change did; what is reviewed passed, is
  in budget, not held and accepted by another actor, for as long as it is reviewed. What an older
  release accepted over the limit is excepted from the budget, and from nothing else, until something is done to it;
  from then on, and so whenever it is accepted again, it is not. That nobody takes it for cleared is `CreditEarned`.
- `LineageDebitedOnce`: however many approvals name a lineage and however they race, each debited lineage
  has one owner, and each task was debited for exactly those it owns.
- `LaneCap`, `KeepsLedger`: as above; the ledger's hold is what makes a quarantine final without a new approval,
  and `HoldsAreKept` proves that the task stays blocked until then. `ValidatingEnds`: what a process began to validate ends.
- `ShowsQueueView`: who looks at the queue while others work sees tasks move only as `QueueView` says;
  above all, into `reviewed` only from `pending_review`, with evidence of the inputs of that moment and
  within the budget.

- `NeverMixed`: no table holds rows of two runs, or of a run and of somebody else: the count under
  the locks closes the race between plan and load.
- `HonestReport`: whatever fails, and whenever, a report that says `applied` is followed by all rows,
  a refusal or a rollback by none, for good; only exit code 4 leaves it open.
- `NoSequenceForgotten`: after a reported load a sequence that is still behind is in the plan the
  controller derives from exit code and receipts.
- `TargetsNeverDeadlock`: of runs that lock their targets, whoever holds what another waits for waits, if at
  all, for a later target; so no chain of them closes, however long.
- `RunsEnd`: a load that has begun ends, whoever keeps the tables it waits for.

- `CreditEarned`: no interleaving of commands, crashes and work in the queues credits a unit with a task
  that nobody accepted within its budget (one that an older release left reviewed over the limit is not, as
  `tests/test_migration_full_run.py:392` says), or of a quarantined lineage without a grant.
- `LaunchedOnReviewedBase`: every dependency of a batch before the agents was accepted, although the
  credit it was launched on may come from a ledger that another command has overwritten since.
- `AttemptNeverForgotten`: what the ledger knows of attempts it knows for good, so no unit is seeded
  twice. `manifest` does drop the count of lifetime attempts; the history and evidence it keeps make up
  for that. It holds for one operator at a time: two commands that overlap may overwrite each other's
  history, as the ledger has no lock.
- `LanesReserved`: with the other teams' lanes reserved, no more than two agents work at a time. It is
  about one run queue; the code counts the lanes of the queues it is told of, and a second run queue
  that nobody names is not counted.
- `FreshReviewRequired`: finding 4.
- `PassedIsEarned`: what the validator passes compiled, was checked in full and asserted something, and
  unless a file was edited and put back, is what the evidence names. An edit back and forth between
  the two hashes is not seen; the property says so.
- `NoContainerLeft`, `WithinBudget`, `SqlOnFinalServer`, `CallEnds`: on every way out the container is
  gone unless `docker rm` failed; time is bounded by the budget, less than one second over it, and the
  removal; no SQL reaches the server that only initialises; whatever hangs, the call ends.
- `StepsOfTheQueue`: whatever the phases of a validation do, and whatever fails or is edited meanwhile, the queue
  sees a step that `MigrationQueue` has for it: one attempt charged, evidence of the inputs as first hashed and a
  pass only if they hash the same again, the task taken back if anything is raised, or the call lost.
- `CreditedWasProved`: a load unit is credited only if the target was seen to hold exactly the rows of
  the snapshot, or none, in a table that fails no check that must hold. Value parity of a table with
  rows may pass with a schema gate pending; the property demands the gates that always apply.
- `ReceiptIsNewest`: an ingest never takes an earlier comparison for the newest, unless one of an earlier run
  was still at work on the table when the newest began (`late`): then it may put its result there after the
  later run has removed the old one.
- `PassIsOfThisRun`: even then no run passes a table on it, because the exit code of its own comparison counts too:
  whatever a comparison of another run writes beside it, the export that the run itself made is right.
- `PlansWhatItKeeps`: the plan is without a blocker exactly when, by a reference definition, every
  source column is carried and every target column is fed or filled.
- `NullsKeptApart`: at every leaf of every nested type, SQL NULL and JSON null stay what they are.
- `BatchesRespectDependencies`: a plan is refused exactly when it is cyclic; no batch is empty or too
  large, none repeats a unit, what a unit depends on is in an earlier batch of an earlier level, and in the
  end no unit is missing.
- `SeedKeepsKeys`: each statement writes the planned rows under new, distinct keys and refers only to what is there; an
  UPDATE meets the rows it changes; journals balance.

Each has a mutant in its module: a changed guard or computation under which TLC finds it
violated, so that no property holds by the shape of the model.

Bounds. No counter is cut off: the budget itself bounds attempts, and approvals (each usable once)
bound the budget. One task suffices for the properties of `queue_task`, which speak of each task
alone; actions on another task share with it only lanes, approvals and lineages, which `queue_lanes`
has two tasks for. Two processes give every pair of overlapping multi-step commands; single-step
commands need none. Base limit 2 with one extra attempt allows an attempt before and after a
failure, and before and after a grant. One required artifact with two contents, or absent, gives
stale, changed and missing files. Optional files (`dependencies.sql`) are a parameter of the model
that the runs leave empty; the proofs cover it.

The loader needs no bound on anything: each run is one process that goes through its phases once,
and retries are further runs. Two tables are the least for a lock order and a foreign key; three
runs give a second load, a retry after each way of failing, and a partial snapshot.

The controller: the ledger, the queues and the commands are finite but for the attempts, bounded by
`MaxUsed = 1`, enough as readers ask only whether any were used. One operator gives every order of
commands and crashes, and every interleaving of one command with the queues, whose other users are not
operators; the theorems cover any number of them (but for `AttemptNeverForgotten`). Two tasks in a unit
make one reviewed and one not; a dependency across teams makes the launch rest on a foreign review.
Two lanes are `MAX_ACTIVE_LANES` of the code.

The validator: time only matters in which limit is reached first. Three ticks of budget, two for
readiness and one for removal let each expire before, with and after the others. Two edits reach
every file between any two reads, and an edit back. The answers hold each kind of row that
`_parse_behaviour_csv` tells apart.

Receipts: a run finds of its predecessors only what the last one to touch a table left (a comparison, a
`.tmp`, a report, whole or torn), so two validations, each of which may pass, fail or be cut short, give
every pair of old and new evidence, with ingests between and across, and a comparison of the first still at
work at any point of the second. The contents hold each way a table
may differ: fewer rows, other rows, a changed row, a duplicate key, more rows, another order.

Plans: of one table all sets of source columns over two words in two spellings, one or two target
columns of four kinds, all explicit mappings; of two tables all combinations of damaged files, mapping
files of up to two specs and sets of target tables. Values up to objects of two attributes and lists
of two items under types of four leaves, nested to a domain or array of a composite. Graphs on three
units and a gate outside the plan, two families, batches of one or two: a cycle of each length, a unit
with two dependencies and one with two dependents, a level cut in two, a family split. Every statement of the small
tier in full; the other tiers multiply the scalable counts by 40 and 200, which keeps every ratio the
arithmetic rests on among them; the fixed tables are the same.

Deadlock checking is off where the system may stop: all processes of the loader or the validator may
have ended, validations are counted, operators idle.

Fairness. For the loader: weak fairness of `Step`, that is of what a run does when it meets no error;
its waits end because `lock_timeout` is set for the transaction. Failures are never assumed, and nobody
else has to go on, so `RunsEnd` rests on the timeouts alone when a session keeps its locks. For the
queue: `Fairness` is weak fairness of each process's next step: a process that lives goes on. Its
transactions wait at most for other one-shot transactions, and the validator runs under a deadline
(`validator.validate`, 1 to 1800 s). Nothing is assumed of people: no command is ever bound to be
given. For the validator: weak fairness of `Step`, what a live process does next; every command it runs
has a timeout, and neither the daemon nor the server is assumed to do anything.
`queue_live` has no crashes, since a killed process goes no further; `queue_crash` shows what follows
when one is.

## 4. Findings

1. **The configuration a review rests on** (`queue.py:526`, `queue_config_race`). `validate` reads
   the schemas before its transaction and the configuration digest inside it. A `configure` in
   between gives evidence that names configuration B for a validator run on A; the review accepts it
   as current. The module's docstring says that changing the configuration invalidates a prior
   review. Reading the schemas inside the transaction would close it: while no configuration commits in that
   window, evidence is of the configuration it names (`ReviewedAsConfiguredApart`).
2. **Killed while validating** (`queue.py:540`, `queue_crash`). The task stays `validating`, its lane
   stays taken, and no command leaves that status, while the charter calls the queue resumable.
3. **A lock taken mid-load** (`data_loader.py:734`, `load_deadlock`). Dropping a foreign key locks the
   referenced table too. When the snapshot does not load that table, the lock is taken in the middle
   of the load and out of name order, so two applies can wait for each other; the server aborts one
   of them or `lock_timeout` does. The docstring of `_lock_and_recheck_empty` says that no lock is
   taken later and that applies never deadlock. Nothing is lost (`HonestReport`, `RunsEnd`), and snapshots that
   load, with a table, all it refers to never deadlock (`WholeSnapshotsNeverDeadlock`).
4. **Credit withdrawn and given back** (`full_run.py:1052`, `control_superseded`). `supersede_unit`
   withdraws a unit's credit on a counterexample and, by its docstring, requires fresh validation and
   independent review. An ingest credits on what the queue shows: as long as nobody has reopened the
   task there, the same review is credited again, by the end of the session that `run` starts on the
   superseded unit at the latest.

Observed while modelling, without a run of their own (see the hazards of `PROJECT.json`): `release`
without `--blocked` after the last attempt queues a task that nobody can take (`queue.py:435`); a report
that cannot be written after a commit ends the loader with the code of a refusal
(`data_loader.py:1307`); a session that dies leaves units `repairing`, which no command drives
(`full_run.py:1067`); a table named twice makes the coverage of a report `all` (`full_validation.py:1464`);
`_compile` turns an unreachable server into a verdict on the candidate (`validator.py:552`); a killed
`compare-data` leaves a `.tmp` that makes every later comparison of that table fail (`queue.py:67`); one that outlives
its killed run may put its result where a later run, cut short in its turn, has removed it, and with
an older passing report an ingest credits the table on it, though `full_run.py:643` says that such a rerun
withholds credit (`full_validation.py:698`; the exception of `ReceiptIsNewest`).

## 5. Proofs

Of the queue, for every value of the constants that satisfies the assumptions of `MigrationQueue`: `Fold` is a
function on names, tasks and lineages are finite sets, limits and lineage counts are naturals,
legacy histories are well formed, `None` is a value of its own. TLC evaluates them in every run.

- `TypeCorrect`: one lemma per action.
- `ValidationIsExclusive`: inductive with the types. A call enters `running` only from `claimed`, and
  every other command on the task requires a status it does not have meanwhile.
- `HoldsAreKept` (`HoldKeepsBlocked`: a quarantined task stays blocked until a grant), `LanesAreBounded`: from the former. The handler that puts a task back to `claimed`
  is harmless only because the task was `validating`.
- `BudgetCorrect`: `SpendBounded` is not inductive, as `Used` mixes a counter and a history.
  `BudgetInv` says, per task: before the baseline the counter is still the legacy one and nothing
  was charged; after it the counter is at most `Charged` (prior use, starts and debit), which is at
  most the allowance (the larger of base limit and prior use, plus debit and grants), which the limit
  does not exceed. `PreparedInv` says that a grant not overtaken was computed from the usage the task
  still has. A step is about one task (`Touched`) and leaves the others alone, so each action is
  treated once, for its own task. `SpendIsBounded`, `NothingIsRefunded`, `GrantsAreExact` follow.
- `ReviewsStand`, `EvidenceIsLatest`, `InputsAreFresh`: with `OutcomeInv`, about what a validation in
  flight will record. It is kept because only that validation may touch its task. The budget of what is reviewed is
  kept because only acceptance leads there and use and limit stay as they are until it is reopened; what an older release
  accepted is in that clause only once it has a baseline, which its reopening takes.
- `QueueShowsView`: each action moves one row (`TouchedMoves`) or none; edits and configurations show
  only as drift (`OnlyDrifts`); the rest does not show (`SameShown`). That attempts never go back is
  `NothingIsRefunded`; that a review is fresh when accepted is its guard.
- `LineagesAreDebitedOnce`: the proof carries the owner as a function on the debited lineages. A grant
  extends it by the lineages it links, which its transaction has just found undebited, and adds their
  use to its own task's debit (`DebitsAdd`); no other step touches either (`WhoDebits`).
- `ReviewedAsConfiguredApart`: the complement of finding 1. It is a theorem about the behaviours of `Spec` that satisfy
  `ConfiguresApart`: no configuration commits while a call has read the schemas and not opened its
  attempt. Then such a call holds the schemas as they are (`ReadInv`), so what a running validation will
  record, and what is recorded, is of the configuration in its hashes (`RunInv`, `RecordInv`). The code does not ensure the
  hypothesis; the theorem says that the window is all there is to the finding.
- `QueueImplementsLedger`: opening an attempt is `Spend`, accepting is `Certify`, reopening is
  `Revoke`, applying a grant is `Authorize`; all else is a stutter. Only a grant uses up an approval (`WhoConsumes`).

Of the loader, for every set of runs and tables, every plan, snapshot, set of foreign keys and
sequences, and every order of names that tells tables apart (`PlanAssumption`, `RankAssumption`,
`NoneAssumption`):

- `Types`: one step per action.
- `RunsStayApart`, `ReportsAreHonest`, `SequencesAccounted`, `TargetsInOrder` follow from `LoadInv`.
  None is inductive alone: that a commit mixes no rows needs `Secured` (between check and commit the
  targets are locked by the run and empty), which is kept because nobody else can fill a locked table
  (`RowStep`, `OtherQuiet`); that a report stays true needs `NeverMixed` in turn, and `Truthful`, what
  each phase knows of the rows; a sequence is behind only if a receipt or exit code 3 says so
  (`Accounted`). `Climbing` says that what is locked precedes what is not, whence the lock order.
- `WholeSnapshotsNeverDeadlock`: the complement of finding 3, for every plan with `WholeSnapshots` (with a table, a run
  loads what its foreign keys reference, as the snapshot of a whole schema does). A run that drops keys then
  waits for nothing (`NothingReferenced`), and of two that lock targets the order decides.
  Each step is taken apart once: what it does to its own run (`OwnBefore` to `OwnEnd`), and that it
  moves no other (`ActsUnmoved`, `OtherInv`).
- `LoaderKeepsPromise`: a durable commit is `Load`, whether or not it is acknowledged; the end of a
  process is `Announce`; another session's commit is `Insert`; the rest is a stutter.

Of the controller, for every plan, set of queues, lanes and number of operators (`PlanAssumption`: task
sets of units are disjoint; `BoundAssumption`, `AbsentAssumption`):

- `ControllerTypes`, `CreditIsEarned`, `BatchesRest` from `CreditInv`. `CreditEarned` is not inductive:
  a command writes what it loaded and saw long before. So the invariant says of every command under way
  that the ledger it holds is earned, that what it saw as eligible was accepted (`HonestLook`), that an
  ingest will have looked at all tasks of its units (`Complete`), and that a session's units rest on
  accepted work. It is kept because `accepted` only grows (`StillEarned`): stale looks and overwritten
  ledgers are still about reviews that took place.
- `AttemptsAreRemembered` from `MemoryInv`, for a single operator: a credit or spent attempt is in the
  history too (`Remembered`), and the command under way holds the ledger as it is. The second part
  fails for two operators, and so does the property.

- `LanesAreReserved`, for any number of operators, under what the property needs: all runs use one run
  queue, the other teams' queues together have no more lanes than are reserved for them, and
  `MAX_ACTIVE_LANES` is at least the two workers a new queue may be given (the code has 2).
  `LaneInv` says that a queue has no more tasks active than it has workers, that a queue that is not there
  has none, and that the workers of the run queue fit beside the reservation while a session is on or any of
  its tasks is active. The code checks that when a session begins and never again; the invariant shows that this is
  enough, as a queue that is created later gets no more workers than were reckoned with. Counting
  active tasks over several queues is `CountPairs` and `ActiveCounts`.

Of the plans, for every work plan with finitely many units (`WorkPlansAssumption`), and for every
manifest, mapping file and schema over any set of words (`PlanInputsAssumption`):

- `PlanIsCutInOrder` from `WorkInv`. The property speaks of batches, which are cut from levels, which are
  placed by counters, so the invariant has a part on each: the counters say what is missing
  (`CountersAreRight`), dependencies of a level are in earlier levels (`LevelsAreOrdered`), among placed
  units none wait for each other (`PlacedIsAcyclic`), every batch is part of a level (`BatchesAreCut`).
  A loop that ends early has met a cycle: the units left each depend on one of those left. A
  chunk is neither empty nor too large (`ChunkSize`): the number of units before a unit is an injection of
  the chunk into `0..maxBatch - 1`, and some unit has none before it (`SomeUnitIsFirst`).
- `PlanLeavesNothingBehind`: from lemmas on the operators. A name has at most two candidates
  (`CandidatesAre`) and resolves to at most one (`ResolvesToOne`), a table has at most one target
  (`OneTarget`), and the four kinds of blockers of a table are together the negation of the reference
  definition (`TableIsKept`, column by column).

Of the validator, for every budget and limit, any texts, names and answers and any number of edits
(`TextAssumption`, `RowAssumption`, `TimeAssumption`), from `ValidatorInv`:

- `ValidatorTypes`, with the findings of the phases added to the types.
- `PassIsEarned`: the verdict is concluded long after its grounds were found, so the invariant carries them:
  a pass is what the findings come to (`VerdictFound`), a file edited at most once since the hash differs
  from what was hashed if and only if it was edited (`EditsTold`), and what was read of an unedited one is
  what was hashed (`SqlTold`). That the rows of a pass are all TRUE under names of their own is a lemma
  about the findings (`PassedFindings`).
- `ContainerIsRemoved`: there is no container before `docker run` (`ContainerTold`).
- `BudgetIsKept`: each command ends within a second of the deadline (`CommandTime`), and waiting for
  the server ends with the budget (`TimeTold`).
- `FinalServerOnly`: no phase sends SQL before the server was met over TCP, and the final server is
  not replaced by the first one.
- `ValidationIsOfTheQueue`, for every number of earlier attempts below the limit (`CallAssumption`): each phase is matched with
  the queue's step under the substitution of `QueueAttempt`. Most are stutters; `Call` is `BeginValidate` and needs its guards
  and `Used` of the substituted counters; `Rehash` is `ValidatorReturns` with the verdict that the second hash leaves.
  `ValidationStepsTheQueue` says so of the queue's whole next-state relation.

Of the full validation, for every snapshot, content of the target, selection and number of runs
(`DataAssumption`, `AbsentAssumption`), from `Inv` of `DataValidationProofs`:

- `CreditWasProved`: not inductive, since a credit is written from a report read earlier. So a pass in
  anybody's hands, run, report or ingest, is about a table that was seen to be right (`PassesEarned`); the
  schema gate found before the rows still is what it was (`SchemaTold`). That equal counts and a match of
  keys and payloads make the same rows, each as often, is `ComparedEqual`.
- `PassCovers`: a report that says PASS says so of all it selected, and of every table if it says `all`
  and names none twice (`PassCoversSelection`; proved only, no run checks it). Results cover the selection
  so far (`ResultsCover`), and a report says what its results are (`ReportTold`); a selection of as many
  tables as there are, none twice, is all of them.
- `NewestReceipt`, `PassOfThisRun`: a passed comparison that is there is the newest, unless an earlier one
  was at work when the newest began (`ReceiptTold`), because a run removes the one before it compares. A
  comparison that is not late has read the export as it is, as nobody exports that table while a run waits
  (`RunWaits`); that is what its exit code tells the run, and no other process can give it one.

Of the seed load, for each of its three scales (`ScaleAssumption`; the code has no others):

- `SeedLoadKeepsKeys`. TLC goes through the small scale; the larger ones have up to millions of rows, which the proof
  never enumerates. `BulkIs`: the batches of a block put together are its rows; as there is no induction over the
  number of batches, the proof takes the least batch up to which they would differ. `Sizes` are the planned counts
  and the ratios among them that the arithmetic rests on. Each INSERT is `Sound` (a lemma per table): its rows are as
  many as planned, neither key nor unique columns repeat (a row number is recovered from quotient and remainder, or
  from the digits of an account), and what it refers to is `Known`, a promise of keys by place in the load, or an
  earlier row of its own. `Filled`, `KnownPresent`: the tables that are referred to are filled with the promised keys
  before, so every reference meets a row (`InsertKept`). The UPDATEs meet their rows (`UpdateKept`), the deliberate mess has keys beyond
  `MESS_BASE`, above all planned ones (`MessKept`), and the three lines of a journal balance, whichever side the
  compound one is on (`JournalsBalance`). The state machine then only counts statements.

Only model-checked. Liveness under fairness and ENABLED are out of the prover's reach: `ValidatingEnds`,
`RunsEnd`, `CallEnds`. `NullsKeptApart` is about functions that recurse over types and values, and what a
recursive definition computes for every input cannot be proved with the provers at hand; it is the one invariant of
a run that no theorem states. The properties of the violation runs do not hold; two theorems say when they would.

### Not modelled

- Of the queue: the files beside the database (`validation.json`, archives) and the failures of writing
  them, CSV parsing, symlink checks, texts. Read-only commands have no action; `show` is `QueueView`.
- Of the controller: receipts, previews, reports and `link_catalog`, which nothing reads back; the gates
  of `run` (authorization, target profile, unchanged inputs), which only keep it from starting.
- Of the validator: requests the daemon acts upon after their client has gone, so a container that
  appears after its removal; what SQL means.
- Of the full validation: two runs at a time on one output directory; how values are rendered to CSV, how keys and types are read from the DDL, and
  the gates that it reports as not executed.
- Of the seed generator: dates, names, amounts that nothing refers to, the session scripts and the
  verification script.
- `cases.py`: a read-modify-write of one file that no other part reads (see the hazards). `generate-objects.py`
  and `sync-cloud-init.py`: text to text. The Oracle schema, shell scripts, Bicep: outside the tool.

## 6. Plan

Done: queue and budget, loader with plan and values, controller, validator and its place in the queue,
receipts, batches, seed load; the proofs of section 5. What could follow:

1. The checklist: `record_case` as steps over a `QueueView`.
2. The rendering of values in `full_validation.py` against that of `ValueMapping`.
3. `NullsKeptApart` for every type, once a prover with induction is at hand; so far TLC checks it up to the depth
   of the run.
4. The controller's gates and receipts, should anything come to read them back.
