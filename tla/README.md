# Verification of the construction twin

TLA+ models of the parts of the repository in which several processes share
state, and of its stateful or delicate algorithms: the distributed asset build,
the execution chain of approved agent actions, the tamper-evident audit log, and
eleven services around them. TLC checks them on small instances; TLAPS proves the
main safety properties for every number of workers, partitions, requests,
tenants, entries, transactions and objects. Paths are relative to `src/`;
`api/` stands for `apps/api/app/`.

## 1. Inventory

| Component | State | Operations | Interacts with | What is hard | What makes it correct |
| --- | --- | --- | --- | --- | --- |
| Asset build pipeline: `api/services/asset_jobs.py`, `distributed_asset_pipeline.py`, `api/workers/asset_worker.py` | `asset_build_jobs`, `asset_build_partitions`, objects | create, cancel, resume (API); recover, claim, plan, build, finalize (workers) | database, object storage | several worker processes, crashes, leases that expire, users who cancel and resume at any time, counters written from stale reads, recoveries that commit what they read before others committed | a partition has one builder; finalized only when whole; built stays built; retries are bounded; cancellation and crashes are recovered |
| Job creation and cache: `create_job`, `finalize_job`, `resume_job` | `asset_cache_entries` | create, hit, forced rebuild, publish | pipeline | check-then-insert; one entry shared by jobs that overlap | identical active requests are de-duplicated; a ready entry has its objects |
| Job events and SSE: `emit_event`, `api/routes/v06.py` | `asset_job_events`, a cursor per client | emit, stream | pipeline | sequence from `max + 1`, commits out of order | who is told the end has been told what came before it |
| Action execution: `api/services/action_execution.py`, `intelligence.py` (`run_agent`, `approve_action`), `api/routes/projects.py` | `agent_actions`, evidence | approve, dispatch, report, list unconfirmed | OneClaw adapter | a remote call between two commits, a callback during the call, repeated and lost messages, rows neither locked nor versioned | nothing leaves without approval; executed means delivered; delivered once; outcome final; unconfirmed stays visible |
| OneClaw adapter: `api/integrations/oneai.py` | none (idempotency key = action id) | refuse, post a task | OneClaw (external) | time-outs that look like refusals | one task per action |
| Reasoning gateway adapter: `reason` in `api/integrations/oneai.py` | none | reason, fall back | intelligence | a remote call in the middle of an answer | the mode says who spoke |
| Audit chain: `api/services/audit.py` | `audit_logs` | append in the caller's transaction, verify | every request that writes | two transactions that read the same tail | what the application wrote verifies; edits and deletions are found, for as long as the entries after them are not hashed anew |
| Realtime hub: `api/services/realtime.py`, `api/routes/realtime.py` | queues per subscriber, Redis relay | publish, subscribe, relay, send | all writers, Redis | bounded queues, local and relayed delivery, a Redis that comes and goes | what is published reaches every subscribed page, and no page often |
| Rate limiter: `api/core/middleware.py`, `api/routes/public_demo.py` | a counter in Redis, local windows | admit, refuse, fall back | Redis | two commands per decision, per-process fallback | the limits hold; a caller is not refused for ever |
| Access control: `api/core/security.py`, `config.py`, `api/routes/enterprise.py`, `realtime.py` | settings, tokens | validate at start, decide, mint | all routes | four modes × kinds of credentials × two doors | a production request has a signed or keyed caller; roles are what the token says |
| Worker heartbeat and wake-ups: `worker_heartbeat.py`, `worker_signal.py`, `asset_worker.py` | `worker_heartbeats`, a Redis list | beat, list, wake | worker, readiness | long units of work, database outages, lost wake-ups | a waiting worker is listed; one that is gone is not |
| Readiness: `api/services/readiness.py` | none | report | worker heartbeat | | not ready on the strength of dead workers |
| Object storage: `object_storage.py` | files or S3 | put, get, exists | pipeline, uploads, backup | renames | a key holds a whole object |
| Uploads: `api/core/uploads.py` | a stream | accept, refuse | evidence, models | | |
| Backup and restore: `backup.py` | archive directories | create, verify, restore, prune | database, objects | two stores, one after the other, while others write | restored rows have their objects |
| Outbox: `events.py` | `outbox_events` | insert | all writers | nothing publishes them | |
| Evidence ingest and search: `evidence_ingest.py`, `evidence_search.py`, `ingest_evidence` | `evidence` | import a sheet, a photo, a batch; rank | action execution, intelligence | identity of rows that look alike, sessions that overlap | what is sent is filed once, and not less |
| Critical path: `cpm.py` | none | forward and backward pass, float, propagation | schedule | cycles, four link types, lags and leads | early dates are longest paths; float is the distance to them; impact is what a slip really costs |
| Schedule analytics: `schedule_analytics.py`, portfolio, timeline | none | read-only aggregates | schedule, intelligence | dates at boundaries | a delay that grows does not look smaller |
| Intelligence: `intelligence.py` | recommendations, risks | ask, evaluate risks, forecast | evidence, gateway, schedule | state read before a call and used after it | confidence is earned by evidence |
| Public demo: `public_demo.py` | local windows | read, ask | limiter, intelligence | | the budgets hold |
| Collaboration: `collaboration.py` | comment threads | comment, resolve | hub, web client | | |
| Mapping: `mapping_service.py` | mapping rows | suggest, confirm | schedule, model | text similarity | |
| IFC, geometry, glTF | files | parse, mesh, compress | pipeline | formats | |
| Exports, readers, EXIF, tabular | none | format, parse | | | |
| Migrations, observability | settings | | | | |
| Web client, offline queue: `apps/web/lib/offline.js`, `ConnectionState.js`, `CommentThread.js` | local storage, forms | submit, queue, flush | collaboration | tabs, lost answers, a connection that drops between two awaits | nothing typed is lost; nothing is posted twice without a reason |
| Web client, sign-in: `apps/web/lib/auth.js` | tokens | sign in, refresh | access control | | |
| Web user interface, demonstrations, infrastructure | | | | | |

`PROJECT.json` lists every component with its status, and under `hazards` the
lines at which the code can go wrong in a way a unit test hardly reaches, with
the properties that watch them.

## 2. Plan

Written, in this order:

1. `AssetBuild` and `AssetPipeline`, the core; the first is the promise, the
   second implements it (`PipelineKeepsPromise` in `AssetPipelineProofs`).
2. `ActionExecution`; `AuditChain`.
3. `AssetCache` (the jobs that share a cache key, each of them a build of
   `AssetPipeline` reduced to its two ends) and `JobEvents`.
4. `RealtimeHub`, `Throttle`, `AccessControl`, `Readiness`, `Backup`.
5. `EvidenceIngest`, and `AskTwin`, which extends it: questions are asked while
   records arrive.
6. `CriticalPath` and `ScheduleRisk`, the algorithms.
7. `OfflineComments`, the way of a comment from the page to the thread.
8. `MCServices` composes 3 to 7 for TLC: the services share no state, so it
   is a disjoint union, and one run checks each of them completely.

Proof modules stand beside the modules they are about:

| Module | About |
| --- | --- |
| `AssetPipelineProofs` | the pipeline, its quiet builds and that it implements `AssetBuild` |
| `ActionExecutionProofs` | one agent action |
| `AuditChainProofs` | the chain and the loop that verifies it |
| `SharingProofs` | what is shared by jobs and pages: `AssetCache`, `JobEvents`, `RealtimeHub`, `OfflineComments` |
| `ServiceProofs` | `Backup`, `Readiness`, `Throttle`, `AccessControl`, `EvidenceIngest`, `AskTwin` |
| `ScheduleProofs` | `CriticalPath`, `ScheduleRisk` |
| `CompositionProofs` | `MCServices`: what is proved of a service holds of the services together |
| `DataLemmas` | numbers, finite sets, sums and sequences, for all of them |

Each module takes its parameters as CONSTANTS with named assumptions, has one
action per operation, and is free of RECURSIVE operators; where the code loops
and the loop matters (`Kept`, `Passes`, `FinishWith`), it is a recursive function.

What remains worth doing: the callers `execute` and `dispatch_approved` of the
OneClaw adapter, which share its idempotency key; the timeline of
`timeline_service.py`.

## 3. Modules

### AssetBuild and AssetPipeline

`AssetPipeline` models one build. Builds share no row, so one job stands for
each of them; the cache entry they may share is in `AssetCache`.

| Variable | In the code |
| --- | --- |
| `job` | the `asset_build_jobs` row: status, cancel_requested, total and completed partitions, lease |
| `part` | the `asset_build_partitions` rows: status, attempts, worker_id, lease |
| `worker` | each process: its place in the code and what it has loaded (status, completed_partitions, the count it will write, the rows `finalize_job` read) |
| `stored` | the partitions whose objects are in object storage |
| `manifest` | the partitions listed by `manifest.json` in object storage |
| `late` | recoveries, cancels and resumes that have read the rows and not committed: the UPDATEs they will make |
| `crashes`, `resumes` | counters that bound the environment |

A step is a database transaction, or the reads between two of them. So
`process_partition` is `StartPartition`, any number of `CommitMesh`,
`CountCompleted` (the last mesh commit and the count that follows it) and
`CompletePartition`; what a worker loaded is in its record and may be stale when
it writes. SQLAlchemy leaves attributes whose value did not change out of the
UPDATE: `Flush(loaded, new, current)` is that rule, and the lost updates follow
from it. `FOR UPDATE SKIP LOCKED` makes each claim one step. Recovery, cancel and
resume lock nothing: they read, decide and commit once. Each of them either runs
undisturbed (`RecoverStaleLeases`, `CancelJob`, `ResumeJob`) or is overtaken: it reads
in one step (`ReadForRecovery`, `ReadForCancel`, `ReadForResume`, which put into `late`
the columns it is about to change), others commit, and it writes them over what is
there by then (`CommitRecovery`, `CommitRequest`). The session of
`recover_stale_leases` does not autoflush, so the cancelling query sees the rows from
before the recovery.

A lease is `none` (NULL), `live` or `expired`. Two switches describe the
environment: `SlowWorkers` (may a lease run out under a worker that is alive? A
mesh that takes longer than the lease does it) and `EagerResume` (may a user
resume a failed or cancelled job while a worker is still inside a partition? The
API lets them). `MaxOvertaken` bounds how many recoveries, cancels and resumes are
overtaken. With both switches FALSE and `MaxOvertaken` 0 the build is called quiet
below: leases outlast live workers, a resume waits until they are idle, and nothing
commits between the reads and the commit of a recovery, a cancel or a resume. The code
guarantees none of the three; section 7 says what happens without the last. No property
holds because of a condition without saying so; the run called `Hostile` lifts all of
them.

Abstracted: progress, phases, messages and events, the job's `attempts` and
`worker_id` (written, read by no decision), the contents of partitions, metrics.
The cache entry is in `AssetCache`, events in `JobEvents`, heartbeats and wake-ups in
`Readiness`. A failed scan in `plan_job` fails the job, and the same commit may write
the rows it had added (`PlanJob` inserts any set of rows, whole or not).

`AssetBuild` is the abstract specification: what a build promises its readers,
without workers, leases or counters. `KeepsPromise` maps the terminal status, the
rows, whether they are all (`total_partitions` is set), the completed rows and the
manifest of `AssetPipeline` to it.

### ActionExecution

One agent action. `action` is the row; `human` holds the concurrent requests of
people (approve, which may go on to dispatch, and `POST /dispatch`), `reporter`
those of the executor; `task` is OneClaw's task under the idempotency key, which
is the action id; `delivered` and `receipts` count what reached the site and what
was filed as evidence. Each request reads the row in one step and writes it in a
later one, since no row is locked or versioned: `dispatch_action` is
`LoadForDispatch`, `CommitIntent`, the call (`Submit`, `Refuse`,
`ReceiveAnswer`), `ReloadAction`, and `RecordTask` or `RefuseDispatch`.

The environment's switches: `Reapproval` (a second approval), `LossyCalls` (the
answer to a dispatch is lost: the client's time-out counts as a refusal),
`ApiCrashes`. OneClaw is external and modelled from what the adapter relies on:
one task per key, kept for ever, run once, reported until the twin answers.

Requests the code refuses with an error (unknown recipients, wrong state) change
nothing and are left out, or return the request to `idle`. The contents of
recommendations, recipients and evidence are abstracted; of `execution_result`
the stage is kept.

### AuditChain

`log` is the committed rows, `request` each request's tenant and its flushed but
uncommitted rows, `written` counts entries (and is the clock behind `created_at`),
`tampered` records what somebody changed behind the application's back: `"inside"` while
an entry is left that shows it, `"hidden"` once nothing is. `EditEntry` and `DeleteEntry`
are the two changes of the repository's tests; `MendEntry` gives a row the place, the link
and the hash that fit the row before it, which anybody with the database can, since the
hash has no key; repeated up to the last entry it hides what was changed. `Audit` is the
whole of `audit()`: it sees the committed rows and its own request's; `Commit` and
`Rollback` end the transaction. A hash is the tuple of the fields it is computed from, so
two hashes are equal only if the fields are. The two reads of `_tail` (`max(sequence)`,
then the row) are one step. `Overlap` is the set of tenants of which two requests may be
in progress at the same time; nothing in the code prevents it for any tenant, and the
properties say which tenants they are about. The `limit` parameter of `verify_audit_chain`
is not modelled.

`verify_audit_chain` is the loop as the code writes it: the rows in the order of
the query (`Ordered`), the expected hash and sequence carried from row to row
(`Passes`). `VerifiedIsTheLoop` says that the conditions the other properties use
(`Linked`) decide the same on every chain, intact or not.

### AssetCache

The jobs of one cache key, the row they share, and whether the manifest is in storage.
`ticket` is a request with the job it creates, `ticket[t].seen` the cache row as its
session read it. Every session reads in one step (`Ask`, `PutManifest`) and commits in
another (`Reuse`, `Create`, `Publish`), and writes only columns it changed (`Written`, as
`Flush` in the pipeline). The status of a job and the step of its finalizer are apart: a
job may be cancelled or failed under its finalizer, which completes it all the same
(`GiveUp`, `Publish`), and the late commit of a planner or a recovery may bring back a job
that has ended (`Reopen`, once per job). A job has one finalizer at a time here;
`AssetPipeline` says when that is so. `overlap` says whether requests of a behaviour may
overlap: what is promised to identical requests (`ActiveOnce`) is promised to those that
do not. The build in between is reduced to `queued` and `finalizing`; `AssetPipeline` has
it in full. Reference counts and access times, which nothing reads, are left out.

### JobEvents

`emit_event` takes `max(sequence) + 1` in one step and the transaction commits or
rolls back later; `stream` is the polling loop with its cursor: the job row is
read (`ReadJob`), then the events after the cursor are (`SendRows`). `due` and
`sent` are history. The properties count events and not their text.

### RealtimeHub

The subscribers of one project at several API processes. `PublishLocal` and
`PublishRedis` are the two steps of a publication, and `PublishFails` is a publish that
runs into its own time-out while Redis is there; `RelayDelivers` is the relay
task of a process, which also hands a process what it published itself. `missed`
and `before` are history: what a full queue or an absent Redis or relay kept from
a client, and what was published before it came. Heartbeat frames are left out.

### Throttle

One caller's budget: `Connect` is `_redis_client`, `Incr` and `Expire` the two
commands, `CommandFails` and `AnswerFails` a command that is not answered, which Redis
has not executed or has, `CountLocally`, `demo_guard` and `ask` the
local windows. The end of a window is an action, so nothing depends on clocks;
`passed` is the set of budgets under which a request counts until their windows
end. Health paths are outside.

### AccessControl

`Boot` is the start-up validation, `Call` and `OpenSocket` are the two doors,
`dev_token` mints, `TokensExpire` is time. The kind of a credential says whose key
signed it, so cryptography is a fact of the token. One tenant.

### Readiness

The worker's loop (`Turn`, `WorkEnds`, `CycleFails`, `Woken`, `WaitFails`, `SleptOut`,
`Collapse`), `Tick` for time, in seconds, the heartbeat row, the wake-up list, and
`active_workers`. A unit of work may take any number of ticks. A wait ends with a
token, when BRPOP has blocked for `max(1, poll)`, or when its socket gives up, at
`SocketTimeout`; then the whole timeout is slept as well, as it is after an error of a
cycle. Only these time-outs, the code's own, bound the waits in `Tick`. Fractions of a
second (the 0.5 of the socket, a poll below one second) are rounded up.

### EvidenceIngest and AskTwin

`EvidenceIngest` has the three ways into `evidence`: `import_evidence_table`,
`store_photo_evidence`, `ingest_evidence`. Each opens a session that has read what is
filed and commits later; `crowded` says whether sessions overlap. The identity of a record
(`content_hash`, `SourceId`, `sheet_context`, `_resolve_links`) is computed as in the code
from texts that are values; recognizing a column or a station label in a text is
abstracted. `Blank` is the text that is not there. `origin` and `by` are history.

`AskTwin` extends it by one question: retrieval is any ranking of the newest
records, because BM25 orders by wording; the gateway is awaited between `ask_twin`
and `GatewayAnswers` or `FallsBack`, while records go on arriving.

### Backup

Two stores: `rows` and `objects`. A writer puts, then commits (`Put`, `EndWrite`);
`_backup_database`, `ListObjects`, `_backup_objects`, `WriteManifest` are
`create_backup` in its order; `RestoreDatabase`, `RemoveObjects`, `CopyObjects`
are the restore, which may fail after each and be run again. `disturbed` records
that something wrote during a restore, against the instruction of
`docs/BACKUP_RESTORE.md`. Retention removes the backup at any time rather than by
age.

### CriticalPath and ScheduleRisk

`CriticalPath` is `compute` and `propagate_delay`: `Forward`, `Backward` and `Propagate`
treat one activity each, in any order its links permit (the code takes one such order,
that of Kahn's queue). Links have a `place`, because a predecessor may be named twice: the
forward pass reads every link, the backward pass and the free float only the first of its
pair (`First`, `Read`). `FinishWith`, a recursive function and no pass, is the reference:
the project finish if activities took longer. Rounding and the wording of the report are
left out.

`ScheduleRisk` is `slip_days` and the schedule part of `evaluate_risks`, while days
pass and activities start and finish; decimals are integers of a finer unit.

### OfflineComments

Comments of one person with several tabs. A tab has a form (`submit`) and a flush
loop; scripts of a tab stand still between a getItem and its setItem
(`setting`), those of other tabs may not. `told` is history: what was submitted, what was
created without the page acting on it (`doubt`), what went with a closed page, and
whether a tab wrote over another's change (`raced`). Which thread a comment belongs
to is part of its value; resolving, and edits of a text while it is posted, are left out.

### MCServices

A behaviour is one of the services above, chosen by `component`; all the others
keep an initial state. No service reads another's variables, so this explores each
of them to the end, without their product. The instances are below.

### Variants

Some definitions have a second version next to them, such as `RequeuedBuilt` beside
`Requeued`, with one plausible slip (a dropped guard, an off-by-one, a missing
reset). Nothing uses them: they exist to show that each property notices the slip
when the variant takes the definition's place. `PROJECT.json` pairs them under
`mutants`.

## 4. Runs

Each `.cfg` is one question. "Violated" runs check what a document, comment or
test of the repository says, and TLC finds a behaviour of the code against it.

| Run | Bounds | Shows |
| --- | --- | --- |
| AssetPipelineSafety | 2 workers, 3 partitions, 2 attempts, 1 crash, 2 resumes, quiet | one builder per partition, finalization only of whole jobs, a completed job is whole and stays completed, the promise of `AssetBuild`, and that `QuietInv` is invariant |
| AssetPipelineHostile | 2 workers, 1 partition, 2 attempts, 1 crash, 1 resume, 1 overtaken recovery, cancel or resume, slow and eager, fair | attempts bounded, every claim has a lease, the manifest lists only what is stored, expired leases of partitions and planning are recovered, by a requeue and by a failure, every cancellation ends |
| AssetPipelineSingle | 1 worker, 2 partitions, 2 resumes, fair | a single worker process brings every build to an end, but one that is resumed after its planning broke off |
| AssetPipelineTwoWorkers | 2 workers, 2 partitions, fair | violated: a lost update of completed_partitions; the job is never finalized |
| AssetPipelineFinalizerCrash | 1 worker, 1 crash, fair | violated: a crash during finalization is never recovered |
| AssetPipelineEagerResume | 2 workers, 1 resume, eager | violated: a completed partition is taken back |
| ActionHostile | 2 people, 1 reporter, 2 receipts, all switches, fair | executed means delivered, sent means approved, delivered once, what stays dispatched is listed for reconciliation |
| ActionQuiet | 1 and 1, 3 receipts, no switch, fair | the status only moves forward, one receipt, unconfirmed is visible, dispatched resolves |
| ActionLostAnswer | lost answers | violated: OneClaw has the task and the action is `dispatch_failed` |
| AuditSerial | 2 tenants, 2 requests, 2 bodies, 4 entries; one tenant overlaps | untouched chains of the other tenant verify, changes inside its chain are found until all entries up to the last are hashed anew; on every chain the loop and `Linked` decide the same |
| AuditForked | 1 tenant, 2 overlapping requests | violated: an untouched chain does not verify |
| Services | see the next table | every property of the services around the pipeline |

The run `Services`:

| Service | Instance | Property and what it shows |
| --- | --- | --- |
| AssetCache | 2 requests, 1 resume and 1 late commit each, overlapping or not | `CacheIsSound`: one active build of a key but for forced, resumed and reopened ones; a ready entry and a completed job have their manifest |
| JobEvents | 3 transactions, 2 streams | `EndIsTold`: the terminal event comes after everything committed before the job ended |
| RealtimeHub | 2 processes, 2 clients of one, 2 messages, queues of 1 | `HubDelivers`: nothing is lost but to a full queue, an absent Redis or a publish that failed, nothing comes more than twice |
| Throttle | 2 processes, 3 requests, limits 2, 2 and 1, failing open or closed | `ThrottleHolds`: no window admits more than its limit; a counter without expiry is explained by an EXPIRE, or the answer of an INCR, that was lost |
| AccessControl | all combinations of mode, production, development access, secret, issuer and default tenant; 21 credentials | `ProductionIsKeyed`: both doors of a production process know a caller by a key or a signature |
| Readiness | 2 processes, beat every 2, stale after 4, poll 1, socket 2 | `WorkersAreCounted`: who waits is listed, who is gone is not |
| EvidenceIngest | 2 sessions, 2 sheets, 2 photographs, 1 batch | `FiledExactlyOnce`: nothing is filed twice, no usable row is lost |
| AskTwin | the same, 1 hit of the 2 newest records | `ConfidenceIsEarned`: confidence, mode and references are those of what stands behind the answer |
| Backup | 2 objects, both back ends, 2 restores | `RestoreIsWhole`: a backup taken under load has the object of every row it has, and so has the restored system |
| CriticalPath | every finish-to-start logic of 3 activities with lags 0 and 2, circular logic, two links of any type with a lead or a lag, a diamond, a chain beside a wait, a link that is named twice, a slip that meets two different gaps; durations 1 to 3 and 6, slips 0, 2 and 3 | `DatesAreExact`, `ImpactIsRight`: on plain logic dates, float and criticality agree with the definition by prolongation, and the impact covers it, and agrees where the links of an activity have one gap |
| OfflineComments | 2 tabs, 2 notes, 2 accidents (lost answers, closed pages) | `NothingTypedIsLost`: a submitted note is posted, queued or on the page, and posted once unless one of four named things happened |
| ScheduleRisk | 3 activities, 6 days | `RiskFollowsDelay`: delay does not fade from the numbers |

`ServicesTypeOK` is the type invariant of each.

Why the bounds suffice: every race found is between two actors, so two workers, people,
reporters or requests of each kind are there; three partitions leave one partition built,
one being built and one waiting; the liveness of the hostile run is about one partition at
a time, and needs no second; an attempt limit of 2 lets a partition be retried and be
spent; one overtaken transaction is enough for two recoveries to meet, the second of which
runs in between; 4 audit entries allow an edit with entries before and after it, in one
chain or spread over two. In `Services`, three transactions or requests let a third come
between a reader and a writer (two build requests of a key, with the resumes and late
commits of each; the proof covers any number); a queue of 1 fills and a limit of 2 (below
three hits) is exceeded; two objects let one be old and one new when a backup walks; two
sheets of one station share a first item, which is what once made records collide; three
activities give a network with parallel paths and float, a fourth a diamond. The counters
`MaxCrashes`, `MaxResumes`, `MaxOvertaken`, `MaxReceipts` and `MaxEntries` bound only the
environment. Runs of safety properties of the pipeline use symmetry where actors are
interchangeable; liveness runs and `Services` do not. `CHECK_DEADLOCK FALSE` stands only
in the audit runs and in `Services`: a database nobody writes to is at rest, `MaxEntries`
ends the writing, and a calculation, an answered question or a served request ends by
itself. The theorems below need none of these bounds to be small.

## 5. Fairness

- Workers: `asset_worker.main` loops over `run_worker_cycle` and survives
  exceptions, and a partition has finitely many meshes: weak fairness on each
  worker's `Advance`, which does not contain the optional steps (another mesh, a
  failure, a recovery that is overtaken) but the commit of a recovery that was. A
  supervisor restarts a dead process (the compose file and the deployments say so):
  weak fairness on `Restart`. Time passes: weak fairness on lease expiry.
- Requests: a request that was begun is served (weak). OneClaw works off its queue
  (weak), and repeats a report until the twin takes it: strong fairness on
  `ReadForReport`, because whether the status accepts a report changes back and
  forth. Nothing obliges anybody to approve, dispatch, cancel, resume or crash.
- `AuditChain` and the modules of `Services` have safety and action properties only: each of
  their waits is bounded by a step of a client, of Redis or of a clock, none of
  which the code obliges to anything. The bounds of `Readiness` on waiting are in its
  `Tick`, and are the time-outs of the code.

## 6. Proofs

All by `tlapm`. The theorems hold for every value of the constants that satisfies
the assumptions of the module (below) and the conditions named here. The prover
has no induction over data: where an argument runs along a sequence, a set or a
network, the proof takes a least counterexample (`LeastNatural`) and shows that
there is a smaller one.

### The pipeline (`AssetPipelineProofs`)

Four theorems hold in the hostile environment too, with slow workers, eager users and
overtaken transactions: `TypeCorrect`, and three with an inductive strengthening of
their own.

- `RetriesBounded` (`RetryInv`): a queued row is strictly below the bound, so that the
  next claim stays within it. Every resume raises the bound by one, and so does every
  overtaken transaction once it has committed (`Extra`).
- `ClaimsHaveLeases`: also of the rows that an overtaken transaction will write.
- `ListedIsAlwaysStored` (`StoredInv`): whatever two builders of one partition, or two
  finalizers of one job, do to each other's rows, a completed row has its objects in
  storage, and so have the rows a finalizer has read, however old they are
  (`WorkerStored`); nothing is removed from storage, and a manifest is only replaced.

A fifth needs that no recovery, cancel or resume is overtaken, and nothing else:

- `PlannedIsNeverReplanned` (`PlannedInv`): a job that waits for its plan has no
  partitions. Rows are never deleted (`RowsStay`), a worker inside a partition is inside
  one that was planned, and every step that sends a job back to its plan has looked
  whether there are rows.

The others assume a quiet build (`Quiet`: `~SlowWorkers`, `~EagerResume` and
`MaxOvertaken = 0`). `QuietBuild`: `QuietInv` is
invariant. `FinalizeOnlyComplete` and `CompletedIsWhole` are not inductive:
`claim_job_for_finalization` looks only at the counter, so one needs
`DoneNeverAhead`; that needs `CountNeverAhead` for values computed but not yet
written, which needs that no completed row is taken back while a worker holds a
count, which needs `OneBuilder`; and that needs `BuilderHoldsLease` (recovery leaves
a live lease alone) and that a resume finds no worker busy. `OneJobWorker`,
`PlannerOwnsJob` and `FinalizerOwnsJob` play the same part for the job row. From
`QuietInv` follow `OneBuilderPerPartition`, `FinalizedOnlyComplete` and
`CompletedJobIsWhole`; that every step is a step of `AssetBuild` or stutters
(`PipelineKeepsPromise`); and from that `BuiltIsNeverRebuilt` and
`CompletedJobIsFinal`.

### Action execution (`ActionExecutionProofs`)

For every setting of the switches: `TypeCorrect`; `SentAndReported`, that `SentInv` is
invariant (a report in progress carries the outcome of the one task; past the guard of
`dispatch_action` there is an approval, past `CommitIntent` a record); and from it
`ExecutedWasDelivered`, `NothingLeavesUnapproved`, `NotifiedOnce`.

Three more hold only while the environment is kinder, and need an invariant each, on
top of `SentInv`. All three assume that one person at a time deals with the action
(`OnePerson`) and that it is approved once (`~Reapproval`); crashes of the API are
allowed in each.

| Theorem | Further conditions | Invariant |
| --- | --- | --- |
| `DispatchStaysVisible` | `~LossyCalls` | `VisibleInv`: a request that can still refuse has handed nothing over, or a receipt is there; whoever calls has left the row `dispatched` |
| `OutcomeFiledOnce` | one connection of the executor (`OneConnection`) | `ReceiptInv`: no request is at a place from which an `approved` row could come after an outcome, and so a second report finds a terminal status |
| `StatusGoesOneWay` | `~LossyCalls`, no rehearsals (`"dry_run"` not in `Outcome`) | `OneWayInv`: what a request is about to write follows the status in the row; reports of one task write one status |

The conditions are those of the run `ActionQuiet`, less where the proof did not need them
(any number of connections, of receipts, and crashes). Section 7 lists what
happens without them.

### The audit chain (`AuditChainProofs`)

`TypeCorrect`; `ChainsGrow` (`ChainInv`: for a tenant outside `Overlap`, what a
request has flushed, together with what is committed, is linked: a plain "the log
verifies" says nothing of what a commit will add); and `UntouchedChainVerifies`.
Requests of overlapping tenants are there too, so the theorem also says that they
cannot harm another tenant's chain.

`ChangesAreDetected`, from `DetectInv`: that a changed chain fails now is not
inductive, since a commit might repair it. A change leaves a scar (`Scarred`: an
entry that does not hash to what it says, or one whose predecessor is gone), and
what is pending comes after every entry of the chain (`PendingIsAhead`), so that no
commit fills a gap. The place, link and hash of one entry made anew move the scar to its
successor, or, at the last entry, heal it, and then the chain counts as `"hidden"`.

`TheLoopIsSound`: `verify_audit_chain` as a loop answers what `Linked` says, on every
chain. Its invariant is only that chains are finite (`LoopInv`). A finite set of rows has
an order (`OrderExists`: a last row exists, by greatest sequence and then greatest time,
and goes after the others); the loop passes when each row passes in its place (`LoopIs`);
and in a linked chain the i-th row carries the sequence i (`SequencesCount`, by the least
place where it does not). With it the theorems about `Verified` are about the loop.

`ForkedChainsAreTrees` and `ForksAreForGood` say what is left where the requests of a
tenant overlap. The entry that an entry follows was committed or is of the same request,
so a commit never leaves one hanging loose (`TreeInv`: what a request has flushed,
together with what is committed, is a tree on the genesis hash, and two such trees are
one). So an untouched chain fails to verify only because two entries have one sequence,
and, since rows are only added to it, fails from then on.

### Jobs and pages (`SharingProofs`)

`CacheIsAlwaysSound` (a finite set of requests), from `CacheInv`. A publication
writes only the columns that differ from what its session saw, so the property is
not inductive: it takes `RowInv` (status and manifest agree in the row and in every
copy a session has read, so that a write changes both or none), `StepInv` (a finalizer
in progress belongs to a job that was built, whatever its status has become), `WaitInv`
(an entry that shows no result is waited for by a forced build that will write it), and
`OnceInv` for the count of active builds: while no job has been forced, resumed or
reopened there is at most one.

`EndIsAlwaysTold`, from `EventsInv`: the committed and the open sequences leave no gap
below the greatest (`LogInv`), and whatever is at or below the cursor has its
sequence sent (`StreamInv`), for any number of transactions and streams.

`HubAlwaysDelivers`, for any number of processes, sockets and messages and any size of the
queues. "At most twice" is not inductive; `HubInv` counts, for each client and message,
the copies it has and those on the wire to its process, against where the publication
stands: none before, at most the local one in between, at most that and one more after
(`Counted`). A publication to Redis that nobody listens to, that fails or that is lost is
one to fewer listeners, down to none (`PublishIsHanded`). The other half (`Delivers`) says
where a message that was published is: with the client, on its way, or among what it
missed for a named reason.

`NothingTypedIsEverLost`, for any number of tabs and notes. `OfflineInv` follows a
note: new, in one form, in a change of the storage that a tab has under way, in the
queue, posted. While no tab has written over another's change (`~told.raced`): no
entry stands twice in a list (`Single`), a note has one place (`Placed`), what leaves the
queue has been posted (`StillThere`), and what will be posted has not been (`Once`), except
for the notes whose posting the page did not act on (`told.doubt`).

`HubIsAlwaysTyped` and `OfflineIsAlwaysTyped`, the type invariants of the two, each with
what it needs: that a queue is filled only while it is below its size and drained by its
page (`HubRest`), and that every place a note can be at, the two sides of a pending write
of the storage included, has only notes that were submitted (`Known`).

### Services (`ServiceProofs`)

- `RestoreIsAlwaysWhole`, from `BackupInv`: the phases of a backup and of a restore
  exclude each other as they should (`StepsInv`), and unless something wrote during a
  restore the archive has the objects of its dump (`ArchiveInv`), and the stores are
  whole or a restore stands between them (`StoresInv`).
- `WorkersAreAlwaysCounted`, under `BeatsInTime`: the heartbeat interval and the longest
  wait fit into the time after which a row is stale. The longest wait is that of a BRPOP
  whose socket gives up, followed by a sleep of the whole poll: with the defaults of
  `config.py` 15 - 1 + 2 + 1 seconds, far below 90. `ReadinessInv` bounds the age of a row
  by the beat its loop remembers, and in a wait or a sleep by the time waited.
- `BudgetAlwaysHolds`, for any number of processes and requests and any limits, 0 included
  (the counter in Redis and each window of each process). `ThrottleInv`: the requests
  that hold a budget are at most its count, and a counter without an expiry has a request
  about to set it, or the EXPIRE, or the answer to the INCR that began it, was lost.
- `ProductionIsAlwaysKeyed`, for any deployments and credentials. `AccessInv` is short (an
  open door has validated settings; only development mints); the work is in the
  cases of who may come in and with which role.
- `ConfidenceIsAlwaysEarned`, for any evidence, ranking and text of the gateway. Nothing is
  filed between the answer and the end, so the argument is about what `_build_claims`
  and the scaled confidence can be (`ClaimsAre`, `ScaledIs`).
- `SentIsFiledExactlyOnce`, for any sheets, photographs, batches and number of sessions.
  `EvidenceInv` says of an open session that what it will add is not on file (unless
  sessions overlap), differs within itself (unless it is the collector's), and together
  with the file has every usable row of its sheet (`SessionInv`); and that equal hashes
  mean equal words in an equal context (`SameHashSaysTheSame`). `Kept`, which is a
  recursive function, is shown to keep members, order and all (`KeptIs`).
- `AccessIsAlwaysTyped`: what the doors answer, over every way a role can be chosen
  (`ChosenRoleIsKnown`, `SessionTypes`).
- `AnswersAreAlwaysTyped`: an open session is the only one with records to add, what is
  filed is never taken away, and a confidence is a share of 10 000 (`NextAsk`).

### Schedules (`ScheduleProofs`)

`RiskAlwaysFollowsDelay`, for any plan of finitely many activities, with the exceptions
that the property states: a greater worst slip
and a greater share of late activities do not lower the score, through both divisions.

`DatesAreAlwaysExact` and `ImpactIsAlwaysRight`, for every network. `CPInv` says, for each
pass, that what it has finished satisfies the equations of that pass (`EarlyRight`,
`FinishRight`, `LateRight`, `FreeRight`, `PushedRight`), and that no set of activities
feeds itself (`Grounded`), which is what Kahn's queue establishes. `Grounded` is the
induction along links: if a claim about an activity follows from the same claim about
its predecessors, the set of those for which it fails is such a set, and empty. So
`FinishWith` has its fixed point (`StartsExist`, by a largest set on which it has one);
prolonging an activity by k moves the finish by max(0, k - float)
(`LongerMovesTheFinish`), which is what float and criticality promise; and the impact
that `propagate_delay` reports covers the move of the finish where the links are plain
(`ImpactCoversTheMove`), is that move where moreover the links that leave an activity
have one gap (`OneGap`; `ImpactIsTheMove`), never exceeds the sum of the slips
(`PushedWithinSlips`), and the contribution of an activity is the part of the impact that
goes with its slip. A network may name a predecessor twice; what the code reads of such a
pair is its first link, and on plain logic all there are (`AllAreRead`).

### The composition (`CompositionProofs`)

`EveryServiceRunsItsOwnSpec`: `ServicesSpec` implies the specification of every service,
because it starts each of them in an initial state of its own and a step of one leaves the
variables of the others alone (`OneServiceMoves`); and the specification of `AskTwin`
implies that of `EvidenceIngest`, which it extends (`EvidenceIsAsBefore`). So every
theorem about a service is one about the composition: `ServicesKeepTheirPromises` collects
those of the run `Services`, and `ServicesAreAlwaysTyped` its type invariant, from the
type invariants of the parts (`CPInvHolds`, `CacheInvHolds` and so on where they are
conjuncts of a larger one, the theorems named above where they are not). Both assume
`BeatsInTime`, for `Readiness`. Nothing in them depends on the instances of `MCServices`:
the schedules, sheets, plans and credentials there are values of constants.

### Assumptions

TLC evaluates these with the instances: `PipelineAssumption` (finitely many partitions, an
attempt limit of at least 1), `ExecutionAssumption`, `AuditAssumption`,
`TicketAssumption`, `MaxStreamsAssumption`, `HubAssumption` (every client has a process),
`ThrottleAssumption`, `AccessAssumption`, `EvidenceAssumption`, `BackupAssumption`,
`SchedulesAssumption` (a schedule is a finite network with durations, slips and the four
link types), `RiskAssumption`, `OfflineAssumption` (`MaxAccidents` is a number). They give
the constants their types. `BeatsInTime` and the conditions of the tables above are
hypotheses of their theorems.

### Only model-checked

- Liveness (`BuildEnds`, `LeasesRecovered`, `CancelEnds`, `DispatchedResolves`,
  `UnconfirmedIsListed`): fairness is ENABLED, which this prover does not do.
- The violated properties, which are false.

## 7. What disagrees with the code

Checked by a run each, under `findings` in `PROJECT.json`:

1. `completed_partitions` loses updates between two workers, and a built job is
   never finalized.
2. A crash during finalization is not recovered, and such a job cannot be resumed.
3. Resuming while a worker is busy lets it take back a completed partition.
4. A dispatch whose answer is lost is neither dispatched nor listed.
5. Overlapping requests of a tenant fork its audit chain. It then fails for good, although
   each entry still hashes to what it says and follows another (`ForksAreForGood`,
   `ForkedChainsAreTrees`).

Behaviours the models also have, and no run asserts or forbids:

- With an eager resume two workers build one partition, and the later one counts
  it twice (`CountCompleted` adds one although its own row is completed): the job
  can be claimed for finalization early, fails the readiness test, and stays in
  `finalizing`. `FinalizeOnlyComplete` is therefore stated of quiet builds.
- Recovery, cancel and resume hold no lock between their reads and their commit
  (`asset_jobs.py:262-379`), and every worker runs the recovery in every cycle. With
  `MaxOvertaken = 1`, and no slow worker or eager resume, TLC violates `OneBuilder`,
  `CompletedIsWhole`, `FinalizeOnlyComplete`, `CompletedJobStays` and
  `UnplannedHasNoRows`: a recovery that read a row as expired requeues it after another
  recovery requeued it and a worker claimed it, so that two workers build it, one attempt
  too many is made, and the later builder counts it twice; a recovery or a cancel that
  read a job before it was completed commits `cancelled` over `completed`; and a recovery
  that read a job as being planned commits `queued` after the planner has committed its
  rows, which `plan_job` then adopts (`asset_jobs.py:445`). So "workers claim partitions
  with leases", "completed partitions are never rebuilt" and "finalization only after
  every partition" (`docs/architecture/ALPHA_V06.md:37-39`) and "Safe to call from
  multiple processes" (`distributed_asset_pipeline.py:381`) hold only of builds in which
  no recovery, cancel or resume is overtaken; `AttemptsBounded`, `ClaimedHasLease`,
  `ListedIsStored`, `LeasesRecovered` and `CancelEnds` hold of all.
- A resume that read a job as ended, and commits after a planner's late commit reopened
  the job, withdraws a request to cancel; `CancelEnds` names this exception.
- A planning that fails after it has added rows leaves them without a total. A job that
  is resumed from there runs without being planned again, its total stays 0, and it
  is never finalized (`BrokenOff`; `BuildEnds` names it).
- A planner whose job was cancelled and declared final by another process's
  recovery commits `running` (`PlanJob` after `RecoverStaleLeases`). The flag
  `cancel_requested` stays set, and the next recovery cancels the job again,
  which is why `CancelEnds` holds.
- `approve_action` overwrites every status but `approved`, reported outcomes
  included; the idempotency key keeps `DeliveredOnce` true.
- `POST /dispatch` does not retry a failed dispatch, unlike its docstring: the
  action has to be approved again.
- A report that commits during the last commit of a dispatch keeps its status and
  loses its receipts (`RecordTask`); a refusal at that place moves the status back
  (`RefuseDispatch`).
- Two connections that deliver one report at the same time file the evidence twice
  (two members of `Reporter`).
- A dry run followed by a real dispatch sends the same idempotency key, and OneClaw
  answers with the rehearsed task for as long as it keeps the key.

Of the services:

- With start-to-start, finish-to-finish or start-to-finish links, or leads, the
  propagated impact may understate how far a slip moves the finish: `cpm.py:228`
  takes the free float of every link as if it were finish-to-start, and
  `propagate_delay` (`cpm.py:316`) absorbs a slip in it. On plain logic (`Plain`) it does
  not understate, but it may overstate: an activity absorbs only the smallest gap to its
  successors, and hands the rest to each of them. A (1 day) before B (1) and C, X (6)
  before C, and A slips by 3: the impact is 3, and the finish does not move, because C
  waits for X all the same. The docstring at `cpm.py:299`, by which a slip reaches the
  finish only when it exhausts the float, holds where the links that leave an activity
  have one gap (`OneGap`), and `ImpactIsRight` is exact there.
- A predecessor may be named twice (`cpm.py:109-124`). The forward pass reads both links,
  the backward pass and the free float only the first (`cpm.py:204-212`, `224-227`), so
  the float of such a pair may be wrong: it is no plain logic.
- A claim of `_build_claims` (`intelligence.py:122`) can be called supported with an
  empty list of evidence: that the project is behind its baseline rests on measured
  progress. Its docstring (line 118) says `supported` "only when at least one
  retrieved record backs it".
- `CITATION_RE` does not recognize identifiers of one character, with spaces, or
  over its length: a bracketed text that is no such identifier is not verified. The
  model's citations are those it recognizes.
- An entry inserted between the read and the commit of a publication breaks the
  commit on the unique key, and the handler's own query on the broken session
  raises too: the job stays `finalizing` (`Stuck`), until it is cancelled.
- A job that was cancelled may come back without a resume, by the late commit of its
  planner (`asset_jobs.py:504-511`) or of a recovery. If the same build was requested in
  between, two builds of the key are active, against "identical active requests are
  de-duplicated" (`docs/architecture/ALPHA_V06.md:41`); `ActiveOnce` does not count jobs
  that were forced, resumed or reopened. A job that is cancelled while it is finalized
  may still be completed.
- The hash of an audit entry has no key (`audit.py`, `compute_entry_hash`). Whoever can
  write to the table can change the newest entry and hash it anew, or an older one
  and every entry after it, and the chain verifies. `ChangeIsDetected` therefore speaks of
  changes until the last entry has been made anew; `audit.py:7-9`, `docs/SECURITY.md:36-38`
  and `api/domain/models.py:213-214` say more.
- A forced rebuild that fails leaves the entry `building`, until some build of the
  key succeeds. `WaitInv` of the proof says that it is always a forced one it waits for.
- The collector can file one observation twice, within one batch or from
  overlapping sessions; `FiledExactlyOnce` names both exceptions, and a photograph
  without a capture date that is sent again on another day is the third.
- Two transactions that emit events of one job at a time share a sequence; of an
  event that commits after its sequence was streamed, a stream sees nothing.
  `EndIsTold` is about sequences for this reason.
- The process that publishes delivers twice to its own subscribers, once locally
  and once through its relay.
- A worker that ends because the database went away cannot mark its row, which stays
  `online` until it is stale.
- An INCR that is answered, followed by an EXPIRE that is not, leaves a counter
  without an end, and so does the first INCR of a window that Redis executes after its
  caller has given up (0.25 seconds, `middleware.py:100-107`): the caller is refused from
  the limit on for as long as Redis keeps the key.
- A publication to Redis may run into its own time-out of 0.3 seconds
  (`realtime.py:55-62`) while Redis is there: the pages of other processes miss that
  one message.
- A worker whose BRPOP is not answered waits for its socket to give up and then sleeps the
  whole poll again (`worker_signal.py:25-28`): about twice the poll and half a second.
- The WebSocket takes development headers in every auth mode outside production;
  HTTP does only in `headers` and `hybrid`.
- An activity that started late and is not finished has its slip measured anew at its
  planned finish, and starts again at one day (`StartsAgain`); a non-critical activity that
  becomes late may lower the probability of the schedule risk.
- A comment that the API refuses (its project or parent is gone, the role may no longer
  write) stays at the head of the offline queue: the flush is repeated without a pause,
  and what is behind it is never sent. `CommentThread.js:60` loads the thread in the try
  that posted the comment, so that a connection that drops in between queues a
  comment that is there; and a text that is typed while another is posted is
  cleared by the answer.
- `docs/BACKUP_RESTORE.md:17` calls `backup.py verify <dir>`, an argument that the
  script does not take.

## 8. Not modelled

- The web client's sign-in, cached reads, service worker and rendering.
- Forecasts and simulations, the percentiles of the bootstrap, portfolio and
  timeline: statistics and read-only aggregates of one query each.
- Threads and their resolution, confirmations of mappings, model imports, uploads:
  single inserts and updates, no step of which depends on another request. Text similarity.
- IFC, geometry, glTF, exports, readers, EXIF: formats, out of TLC's reach.
- The outbox: rows that nothing in the repository publishes. OneField, the memory
  service, and health probes: best-effort calls without consequence for state.
- `list_evidence` and coverage: read-only.
- Demonstration data, deployment files, observability.

The OneClaw executor is outside the repository's control and appears through the
adapter's assumptions; Redis and the database appear through the commands and
transactions the code relies on.
