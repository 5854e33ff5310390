--------------------------- MODULE AssetPipeline ---------------------------
(***************************************************************************)
(* One distributed asset build: the asset_build_jobs row, its              *)
(* asset_build_partitions rows, and the worker processes that plan, build  *)
(* and finalize it (services/asset_jobs.py,                                *)
(* services/distributed_asset_pipeline.py, workers/asset_worker.py).       *)
(*                                                                         *)
(* Builds share no row, so one job stands for each of them.  A step is one *)
(* database transaction, or the reads between two transactions: what a     *)
(* worker read earlier is in its record, and may be stale when it writes.  *)
(* PostgreSQL's FOR UPDATE SKIP LOCKED makes each claim_* one step.        *)
(* Recovery, cancel and resume lock nothing: each of them either runs      *)
(* undisturbed, as one step, or is overtaken: it reads in one step and     *)
(* commits what it derived from that in a later one.                       *)
(***************************************************************************)
EXTENDS Integers, FiniteSets

CONSTANTS
    Worker,         \* asset worker processes
    Part,           \* partition rows the job can ever have
    NoPart,         \* a worker with no partition; worker_id NULL in a row
    MaxAttempts,    \* settings.asset_job_max_attempts
    MaxCrashes,     \* bound: worker crashes
    MaxResumes,     \* bound: resume requests
    MaxOvertaken,   \* bound: recoveries, cancels and resumes that are overtaken
    SlowWorkers,    \* environment: may a lease run out under a live worker?
    EagerResume     \* environment: may a user resume while a worker is busy?

ASSUME PipelineAssumption ==
    /\ IsFiniteSet(Part)
    /\ NoPart \notin Part
    /\ NoPart \notin Worker
    /\ MaxAttempts \in Nat \ {0}
    /\ MaxCrashes \in Nat
    /\ MaxResumes \in Nat
    /\ MaxOvertaken \in Nat
    /\ SlowWorkers \in BOOLEAN
    /\ EagerResume \in BOOLEAN

VARIABLES
    job,        \* the asset_build_jobs row
    part,       \* the asset_build_partitions rows
    worker,     \* what each worker process is doing and what it has read
    stored,     \* the partitions whose objects are all in object storage
    manifest,   \* the rows listed by the manifest.json in object storage
    crashes,    \* worker crashes so far
    resumes,    \* resume requests so far
    late        \* the overtaken transactions: those in progress, and how many

vars == <<job, part, worker, stored, manifest, crashes, resumes, late>>

ACTIVE_STATUSES   == {"queued", "planning", "running", "finalizing"}
TERMINAL_STATUSES == {"completed", "failed", "cancelled"}

\* lease_expires_at, seen from the clock: NULL, in the future, in the past.
Lease == {"none", "live", "expired"}

JobRow == [status : ACTIVE_STATUSES \cup TERMINAL_STATUSES,
           cancel : BOOLEAN,            \* cancel_requested
           total  : Nat,                \* total_partitions
           done   : Nat,                \* completed_partitions
           lease  : Lease]

\* "absent": the row has not been inserted.
PartRow == [status   : {"absent", "queued", "running"} \cup TERMINAL_STATUSES,
            attempts : Nat,
            owner    : Worker \cup {NoPart},    \* worker_id
            lease    : Lease]

PlanPc  == {"planCheck", "plan", "planStop"}
PartPc  == {"start", "build", "stopPart", "save"}
FinalPc == {"check", "assemble", "publish", "finalStop"}
SeekPc  == {"idle", "recover", "seekPlan", "seekPart", "seekFinal"}

WorkerState ==
    [pc     : SeekPc \cup PlanPc \cup PartPc \cup FinalPc \cup {"down"},
     part   : Part \cup {NoPart},       \* the partition being built
     status : ACTIVE_STATUSES \cup TERMINAL_STATUSES, \* job.status as loaded
     done   : Nat,                      \* job.completed_partitions as loaded
     count  : Nat,                      \* the value computed to replace it
     rows   : SUBSET Part]              \* the rows finalize_job loaded

At(pc) == [pc |-> pc, part |-> NoPart, status |-> "queued", done |-> 0,
           count |-> 0, rows |-> {}]
Goto(w, pc) == worker' = [worker EXCEPT ![w] = At(pc)]

Rows      == {p \in Part : part[p].status # "absent"}
Completed == {p \in Part : part[p].status = "completed"}
Running   == {p \in Part : part[p].status = "running"}

Building(w, p) == worker[w].pc \in PartPc /\ worker[w].part = p
Busy(w)        == worker[w].pc \in PlanPc \cup PartPc \cup FinalPc

(***************************************************************************)
(* A commit writes only the attributes whose value differs from the one    *)
(* loaded: setting job.status to what the session last read is no UPDATE.  *)
(* What an UPDATE sets a column to is a set of at most one value.          *)
(***************************************************************************)
Flush(loaded, new, current) == IF new = loaded THEN current ELSE new
Changed(loaded, new)        == {new} \ {loaded}
Put(set, current)           == IF set = {} THEN current ELSE CHOOSE v \in set : TRUE

JobUpdate  == [status : SUBSET {"queued", "running", "failed", "cancelled"},
               cancel : SUBSET BOOLEAN, done : SUBSET Nat, lease : SUBSET {"none"}]
PartUpdate == [status : SUBSET {"queued", "failed", "cancelled"},
               owner : SUBSET {NoPart}, lease : SUBSET {"none"}]

\* The UPDATEs of a recovery, cancel or resume that has read the rows and not
\* committed; `by` is the worker whose recovery it is.
Txn == [by : Worker \cup {NoPart}, n : 1 .. MaxOvertaken,
        job : JobUpdate, part : [Part -> PartUpdate]]

\* process_partition is called with the partition that was claimed.
BuilderHasPart == \A w \in Worker : worker[w].pc \in PartPc => worker[w].part \in Part

TypeOK ==
    /\ job \in JobRow
    /\ part \in [Part -> PartRow]
    /\ worker \in [Worker -> WorkerState]
    /\ BuilderHasPart
    /\ stored \in SUBSET Part /\ manifest \in SUBSET Part
    /\ crashes \in 0 .. MaxCrashes
    /\ resumes \in 0 .. MaxResumes
    /\ late \in [open : SUBSET Txn, count : 0 .. MaxOvertaken]

\* create_job has committed a queued row with no partitions.
Init ==
    /\ job = [status |-> "queued", cancel |-> FALSE, total |-> 0, done |-> 0,
              lease |-> "none"]
    /\ part = [p \in Part |-> [status |-> "absent", attempts |-> 0,
                               owner |-> NoPart, lease |-> "none"]]
    /\ worker = [w \in Worker |-> At("idle")]
    /\ stored = {}
    /\ manifest = {}
    /\ crashes = 0
    /\ resumes = 0
    /\ late = [open |-> {}, count |-> 0]

-----------------------------------------------------------------------------
(* Recovery, cancel and resume: what each writes after reading the job row  *)
(* j and the partition rows ps (r is one of them).                          *)

\* Variants of the definitions below, each with one plausible slip; see README.
StaleByStatusOnly(ps) == {p \in Part : ps[p].status = "running"}
StaleUnlessSpent(ps)  == {p \in Part : /\ ps[p].status = "running"
                                       /\ ps[p].lease = "expired"
                                       /\ ps[p].attempts < MaxAttempts}

StaleParts(ps) ==
    {p \in Part : ps[p].status = "running" /\ ps[p].lease = "expired"}
SpentOneLate(ps) == {p \in StaleParts(ps) : ps[p].attempts > MaxAttempts}
SpentParts(ps)   == {p \in StaleParts(ps) : ps[p].attempts >= MaxAttempts}

NoneRuns(ps) == \A p \in Part : ps[p].status # "running"

CancellingUnlessFinalizing(j, ps) ==
    j.cancel /\ j.status \in ACTIVE_STATUSES \ {"finalizing"} /\ NoneRuns(ps)

\* The session does not autoflush: the cancelling query and its count of
\* running partitions see the rows as they were before this recovery.
Cancelling(j, ps) == j.cancel /\ j.status \in ACTIVE_STATUSES /\ NoneRuns(ps)

RecoveredPart(j, ps, p) ==
    CASE p \in SpentParts(ps) -> [ps[p] EXCEPT !.status = "failed"]
      [] p \in StaleParts(ps) \ SpentParts(ps) ->
            [ps[p] EXCEPT !.status = "queued", !.owner = NoPart, !.lease = "none"]
      [] Cancelling(j, ps) /\ ps[p].status \in {"queued", "failed"} ->
            [ps[p] EXCEPT !.status = "cancelled"]
      [] OTHER -> ps[p]

RecoveredJob(j, ps) ==
    LET stalePlan == j.status = "planning" /\ j.lease = "expired" IN
    [j EXCEPT
       !.status = IF Cancelling(j, ps) THEN "cancelled"
                  ELSE IF SpentParts(ps) # {} THEN "failed"
                  ELSE IF stalePlan THEN "queued" ELSE @,
       !.lease  = IF Cancelling(j, ps) \/ stalePlan THEN "none" ELSE @]

CancelledPart(j, r) ==
    IF j.status = "queued" /\ r.status = "queued"
    THEN [r EXCEPT !.status = "cancelled"] ELSE r
CancelledJob(j) ==
    [j EXCEPT !.status = IF j.status = "queued" THEN "cancelled" ELSE @,
              !.cancel = TRUE]

RequeuedPending(r) ==
    IF r.status = "failed" THEN [r EXCEPT !.status = "pending"] ELSE r
RequeuedBuilt(r) ==
    IF r.status # "absent"
    THEN [r EXCEPT !.status = "queued", !.owner = NoPart, !.lease = "none"] ELSE r
RequeuedLeaseOnly(r) ==
    IF r.status = "running" THEN [r EXCEPT !.lease = "none"] ELSE r

Requeued(r) ==
    IF r.status \in {"failed", "cancelled", "running"}
    THEN [r EXCEPT !.status = "queued", !.owner = NoPart, !.lease = "none"]
    ELSE r

ResumedJob(j, ps) ==
    [j EXCEPT
       !.status = IF \A p \in Part : ps[p].status = "absent" THEN "queued"
                  ELSE "running",
       !.cancel = FALSE, !.lease = "none",
       !.done = Cardinality({p \in Part : ps[p].status = "completed"})]

NewJob(op, j, ps) ==
    CASE op = "recover" -> RecoveredJob(j, ps)
      [] op = "cancel"  -> CancelledJob(j)
      [] op = "resume"  -> ResumedJob(j, ps)
NewPart(op, j, ps, p) ==
    CASE op = "recover" -> RecoveredPart(j, ps, p)
      [] op = "cancel"  -> CancelledPart(j, ps[p])
      [] op = "resume"  -> Requeued(ps[p])

JobChange(j, new) ==
    [status |-> Changed(j.status, new.status), cancel |-> Changed(j.cancel, new.cancel),
     done |-> Changed(j.done, new.done), lease |-> Changed(j.lease, new.lease)]
PartChange(r, new) ==
    [status |-> Changed(r.status, new.status), owner |-> Changed(r.owner, new.owner),
     lease |-> Changed(r.lease, new.lease)]

\* The transaction has read the rows, finds something to write, and others
\* commit before it does.
ReadOnly(op, by) ==
    LET newJob  == NewJob(op, job, part)
        newPart == [p \in Part |-> NewPart(op, job, part, p)]
        n       == late.count + 1 IN
    /\ late.count < MaxOvertaken
    /\ <<newJob, newPart>> # <<job, part>>
    /\ late' = [count |-> n,
                open |-> late.open \cup
                   {[by |-> by, n |-> n, job |-> JobChange(job, newJob),
                     part |-> [p \in Part |-> PartChange(part[p], newPart[p])]]}]

\* It commits what follows from what it read, over what is there now.
CommitLate(t) ==
    /\ job' = [job EXCEPT !.status = Put(t.job.status, @),
                          !.cancel = Put(t.job.cancel, @),
                          !.done   = Put(t.job.done, @),
                          !.lease  = Put(t.job.lease, @)]
    /\ part' = [p \in Part |->
                  [part[p] EXCEPT !.status = Put(t.part[p].status, @),
                                  !.owner  = Put(t.part[p].owner, @),
                                  !.lease  = Put(t.part[p].lease, @)]]
    /\ late' = [late EXCEPT !.open = @ \ {t}]
    /\ UNCHANGED <<stored, manifest, crashes, resumes>>

-----------------------------------------------------------------------------
(* run_worker_cycle: recover, then plan, else build, else finalize.        *)

RecoverStaleLeases(w) ==
    /\ worker[w].pc = "idle"
    /\ part' = [p \in Part |-> RecoveredPart(job, part, p)]
    /\ job' = RecoveredJob(job, part)
    /\ Goto(w, "seekPlan")
    /\ UNCHANGED <<stored, manifest, crashes, resumes, late>>

ReadForRecovery(w) ==
    /\ worker[w].pc = "idle"
    /\ ReadOnly("recover", w)
    /\ Goto(w, "recover")
    /\ UNCHANGED <<job, part, stored, manifest, crashes, resumes>>

CommitRecovery(w) ==
    /\ worker[w].pc = "recover"
    /\ \E t \in late.open : t.by = w /\ CommitLate(t)
    /\ Goto(w, "seekPlan")

Plannable == job.status = "queued" /\ ~job.cancel

ClaimJobForPlanning(w) ==
    /\ worker[w].pc = "seekPlan"
    /\ \/ /\ Plannable
          /\ job' = [job EXCEPT !.status = "planning", !.lease = "live"]
          /\ Goto(w, "planCheck")
       \/ /\ ~Plannable
          /\ Goto(w, "seekPart")
          /\ UNCHANGED job
    /\ UNCHANGED <<part, stored, manifest, crashes, resumes, late>>

\* plan_job up to its scan of the twin: stop when cancelled, adopt partitions
\* that already exist, otherwise go on to plan.
CheckPlan(w) ==
    /\ worker[w].pc = "planCheck"
    /\ \/ /\ job.cancel
          /\ Goto(w, "planStop")
          /\ UNCHANGED job
       \/ /\ ~job.cancel /\ Rows # {}
          /\ job' = [job EXCEPT !.status = "running", !.lease = "none",
                                !.total = Cardinality(Rows),
                                !.done = Cardinality(Completed)]
          /\ Goto(w, "idle")
       \/ /\ ~job.cancel /\ Rows = {}
          /\ Goto(w, "plan")
          /\ UNCHANGED job
    /\ UNCHANGED <<part, stored, manifest, crashes, resumes, late>>

\* The scan inserts the rows S.  A model without entities fails the job, and so
\* does an exception after some rows were added, which the commit of
\* fail_planning_job then writes as well.  The planner loaded
\* completed_partitions as 0, so setting it to 0 is no UPDATE.
PlanJob(w) ==
    /\ worker[w].pc = "plan"
    /\ \E S \in SUBSET (Part \ Rows), whole \in BOOLEAN :
          /\ part' = [p \in Part |-> IF p \in S
                         THEN [part[p] EXCEPT !.status = "queued"]
                         ELSE part[p]]
          /\ job' = IF whole /\ S # {}
                    THEN [job EXCEPT !.status = "running", !.lease = "none",
                                     !.total = Cardinality(S)]
                    ELSE [job EXCEPT !.status = "failed", !.lease = "none"]
    /\ Goto(w, "idle")
    /\ UNCHANGED <<stored, manifest, crashes, resumes, late>>

Claimable(p) ==
    part[p].status = "queued" /\ job.status = "running" /\ ~job.cancel

ClaimPartition(w) ==
    /\ worker[w].pc = "seekPart"
    /\ \/ \E p \in Part :
            /\ Claimable(p)
            /\ part' = [part EXCEPT ![p] =
                          [status |-> "running", owner |-> w, lease |-> "live",
                           attempts |-> part[p].attempts + 1]]
            /\ worker' = [worker EXCEPT ![w] = [At("start") EXCEPT !.part = p]]
       \/ /\ \A p \in Part : ~Claimable(p)
          /\ Goto(w, "seekFinal")
          /\ UNCHANGED part
    /\ UNCHANGED <<job, stored, manifest, crashes, resumes, late>>

\* The session reloads the job row, and cancel_requested decides what is next.
Reload(w, next) ==
    worker' = [worker EXCEPT ![w].pc = IF job.cancel THEN "stopPart" ELSE next,
                             ![w].status = job.status]

StartPartition(w) ==
    /\ worker[w].pc = "start"
    /\ Reload(w, "build")
    /\ UNCHANGED <<job, part, stored, manifest, crashes, resumes, late>>

\* One mesh is uploaded: renew the lease, commit, and test for cancellation
\* at the top of the loop.
CommitMesh(w) ==
    /\ worker[w].pc = "build"
    /\ part' = [part EXCEPT ![worker[w].part].lease = "live"]
    /\ Reload(w, "build")
    /\ UNCHANGED <<job, stored, manifest, crashes, resumes, late>>

\* The last mesh is in storage and committed, which no cancellation test
\* follows, and the completed rows are counted.
CountCompleted(w) ==
    LET n     == Cardinality(Completed) + 1
        count == IF job.total > 0 /\ job.total < n THEN job.total ELSE n IN
    /\ worker[w].pc = "build"
    /\ part' = [part EXCEPT ![worker[w].part].lease = "live"]
    /\ worker' = [worker EXCEPT ![w].pc = "save", ![w].status = job.status,
                                ![w].done = job.done, ![w].count = count]
    /\ stored' = stored \cup {worker[w].part}
    /\ UNCHANGED <<job, manifest, crashes, resumes, late>>

CompletePartition(w) ==
    /\ worker[w].pc = "save"
    /\ part' = [part EXCEPT ![worker[w].part] =
                  [@ EXCEPT !.status = "completed", !.owner = w,
                            !.lease = "none"]]
    /\ job' = [job EXCEPT !.done = Flush(worker[w].done, worker[w].count, @)]
    /\ Goto(w, "idle")
    /\ UNCHANGED <<stored, manifest, crashes, resumes, late>>

\* What process_partition writes when it gives its partition up.
GiveUpPartition(w, status) ==
    /\ part' = [part EXCEPT ![worker[w].part] =
                  [@ EXCEPT !.status = status, !.lease = "none"]]
    /\ job' = [job EXCEPT !.status = Flush(worker[w].status, status, @)]
    /\ Goto(w, "idle")
    /\ UNCHANGED <<stored, manifest, crashes, resumes, late>>

StopPartition(w) ==
    worker[w].pc = "stopPart" /\ GiveUpPartition(w, "cancelled")

FailPartition(w) ==
    worker[w].pc = "build" /\ GiveUpPartition(w, "failed")

FinalizableOneShort ==
    job.status = "running" /\ job.total > 0 /\ job.done + 1 >= job.total
    /\ ~job.cancel
FinalizableNever ==
    job.status = "running" /\ job.total > 0 /\ job.done > job.total
    /\ ~job.cancel

Finalizable ==
    /\ job.status = "running"
    /\ job.total > 0
    /\ job.done >= job.total
    /\ ~job.cancel

ClaimJobForFinalization(w) ==
    /\ worker[w].pc = "seekFinal"
    /\ \/ /\ Finalizable
          /\ job' = [job EXCEPT !.status = "finalizing", !.lease = "live"]
          /\ Goto(w, "check")
       \/ /\ ~Finalizable
          /\ Goto(w, "idle")
          /\ UNCHANGED job
    /\ UNCHANGED <<part, stored, manifest, crashes, resumes, late>>

CheckFinalThenPublish(w) ==
    /\ worker[w].pc = "check" /\ Rows = Completed
    /\ worker' = [worker EXCEPT ![w] = [At("publish") EXCEPT !.rows = Rows]]
    /\ UNCHANGED <<job, part, stored, manifest, crashes, resumes, late>>

\* finalize_job up to its try block.  "not ready" is raised before the block,
\* so nothing is written and the worker cycle swallows it.
CheckFinal(w) ==
    LET ready == Rows # {} /\ Rows = Completed IN
    /\ worker[w].pc = "check"
    /\ \/ /\ job.cancel
          /\ Goto(w, "finalStop")
       \/ /\ ~job.cancel /\ ready
          /\ worker' = [worker EXCEPT ![w] =
                          [At("assemble") EXCEPT !.rows = Rows]]
       \/ /\ ~job.cancel /\ ~ready
          /\ Goto(w, "idle")
    /\ UNCHANGED <<job, part, stored, manifest, crashes, resumes, late>>

\* tileset.json and manifest.json reach object storage before the database.
AssembleManifest(w) ==
    /\ worker[w].pc = "assemble"
    /\ manifest' = worker[w].rows
    /\ worker' = [worker EXCEPT ![w].pc = "publish"]
    /\ UNCHANGED <<job, part, stored, crashes, resumes, late>>

PublishManifest(w) ==
    /\ worker[w].pc = "publish"
    /\ job' = [job EXCEPT !.status = "completed", !.lease = "none",
                          !.done = Cardinality(worker[w].rows)]
    /\ Goto(w, "idle")
    /\ UNCHANGED <<part, stored, manifest, crashes, resumes, late>>

FailFinalization(w) ==
    /\ worker[w].pc \in {"assemble", "publish"}
    /\ job' = [job EXCEPT !.status = "failed", !.lease = "none"]
    /\ Goto(w, "idle")
    /\ UNCHANGED <<part, stored, manifest, crashes, resumes, late>>

\* The cancelled branches of plan_job and finalize_job.
StopJob(w) ==
    /\ worker[w].pc \in {"planStop", "finalStop"}
    /\ job' = [job EXCEPT !.status = "cancelled",
                          !.lease = IF worker[w].pc = "finalStop"
                                    THEN "none" ELSE @]
    /\ Goto(w, "idle")
    /\ UNCHANGED <<part, stored, manifest, crashes, resumes, late>>

-----------------------------------------------------------------------------
(* The API, the clock and the machines.                                    *)

CancelJob ==
    /\ job.status \in ACTIVE_STATUSES
    /\ job' = CancelledJob(job)
    /\ part' = [p \in Part |-> CancelledPart(job, part[p])]
    /\ UNCHANGED <<worker, stored, manifest, crashes, resumes, late>>

ReadForCancel ==
    /\ job.status \in ACTIVE_STATUSES
    /\ ReadOnly("cancel", NoPart)
    /\ UNCHANGED <<job, part, worker, stored, manifest, crashes, resumes>>

ResumeAnyTerminal ==
    /\ job.status \in TERMINAL_STATUSES
    /\ resumes < MaxResumes
    /\ job' = [job EXCEPT !.status = "running", !.cancel = FALSE]
    /\ resumes' = resumes + 1
    /\ UNCHANGED <<part, worker, stored, manifest, crashes, late>>

Resumable ==
    /\ job.status \in {"failed", "cancelled"}
    /\ resumes < MaxResumes
    /\ EagerResume \/ \A w \in Worker : ~Busy(w)

ResumeJob ==
    /\ Resumable
    /\ part' = [p \in Part |-> Requeued(part[p])]
    /\ job' = ResumedJob(job, part)
    /\ resumes' = resumes + 1
    /\ UNCHANGED <<worker, stored, manifest, crashes, late>>

ReadForResume ==
    /\ Resumable
    /\ ReadOnly("resume", NoPart)
    /\ resumes' = resumes + 1
    /\ UNCHANGED <<job, part, worker, stored, manifest, crashes>>

\* The commit of a cancel or a resume that was overtaken.
CommitRequest ==
    /\ \E t \in late.open : t.by = NoPart /\ CommitLate(t)
    /\ UNCHANGED worker

\* The clock passes lease_expires_at.
ExpirePartLease(p) ==
    /\ part[p].status = "running" /\ part[p].lease = "live"
    /\ SlowWorkers \/ \A w \in Worker : ~Building(w, p)
    /\ part' = [part EXCEPT ![p].lease = "expired"]
    /\ UNCHANGED <<job, worker, stored, manifest, crashes, resumes, late>>

ExpireJobLease ==
    /\ job.lease = "live"
    /\ SlowWorkers \/ \A w \in Worker : worker[w].pc \notin PlanPc \cup FinalPc
    /\ job' = [job EXCEPT !.lease = "expired"]
    /\ UNCHANGED <<part, worker, stored, manifest, crashes, resumes, late>>

\* The process dies inside a unit of work or a recovery, whose transaction is
\* then rolled back, and its supervisor restarts it.
Crash(w) ==
    /\ Busy(w) \/ worker[w].pc = "recover"
    /\ crashes < MaxCrashes
    /\ crashes' = crashes + 1
    /\ late' = [late EXCEPT !.open = {t \in @ : t.by # w}]
    /\ Goto(w, "down")
    /\ UNCHANGED <<job, part, stored, manifest, resumes>>

Restart(w) ==
    /\ worker[w].pc = "down"
    /\ Goto(w, "idle")
    /\ UNCHANGED <<job, part, stored, manifest, crashes, resumes, late>>

\* The steps a live worker process keeps taking.
Advance(w) ==
    \/ RecoverStaleLeases(w) \/ CommitRecovery(w)
    \/ ClaimJobForPlanning(w) \/ CheckPlan(w) \/ PlanJob(w)
    \/ ClaimPartition(w) \/ StartPartition(w) \/ CountCompleted(w)
    \/ CompletePartition(w) \/ StopPartition(w)
    \/ ClaimJobForFinalization(w) \/ CheckFinal(w) \/ AssembleManifest(w)
    \/ PublishManifest(w) \/ StopJob(w)

Next ==
    \/ \E w \in Worker :
          \/ Advance(w)
          \/ CommitMesh(w) \/ FailPartition(w) \/ FailFinalization(w)
          \/ ReadForRecovery(w) \/ Crash(w) \/ Restart(w)
    \/ CancelJob \/ ReadForCancel
    \/ ResumeJob \/ ReadForResume
    \/ CommitRequest
    \/ \E p \in Part : ExpirePartLease(p)
    \/ ExpireJobLease

Spec == Init /\ [][Next]_vars

(***************************************************************************)
(* asset_worker.main loops over run_worker_cycle, a partition has finitely *)
(* many meshes, a supervisor restarts the process, and time passes.        *)
(* Nobody is obliged to cancel, resume, fail or crash.                     *)
(***************************************************************************)
Fairness ==
    /\ \A w \in Worker : WF_vars(Advance(w)) /\ WF_vars(Restart(w))
    /\ \A p \in Part : WF_vars(ExpirePartLease(p))
    /\ WF_vars(ExpireJobLease)

FairSpec == Spec /\ Fairness

-----------------------------------------------------------------------------
(* Safety of every build, however slow the workers, eager the users and     *)
(* overtaken the recoveries.                                                *)

\* A partition is started at most MaxAttempts times, plus once per resume, which
\* requeues it without resetting attempts, and once per overtaken transaction,
\* which requeues it on the strength of an attempts that has grown since: a
\* crashing partition cannot be retried for ever (recover_stale_leases,
\* claim_partition, resume_job).
AttemptsBounded ==
    \A p \in Part : part[p].attempts <= MaxAttempts + resumes + late.count

\* A row that says a worker is on it carries a lease.  recover_stale_leases
\* skips NULL leases, so such a row without one would be lost with its worker.
ClaimedHasLease ==
    /\ \A p \in Running : part[p].lease # "none"
    /\ job.status = "planning" => job.lease # "none"

\* Two builders of one partition, two finalizers, and a finalizer whose job was
\* resumed under it may overwrite each other, but what the manifest lists has
\* all its objects in storage, and a job is not shown as completed before
\* there is a manifest (finalize_job uploads before it commits).
ListedIsStored ==
    /\ manifest \subseteq stored
    /\ job.status = "completed" => manifest # {}

(***************************************************************************)
(* Safety of a quiet build: leases outlast its live workers, it is resumed *)
(* only once they are idle, and no recovery, cancel or resume is overtaken *)
(* between its reads and its commit.                                       *)
(***************************************************************************)

\* A partition is built by the one worker its row names, for as long as that
\* worker writes: two builders would overwrite each other's objects and rows.
OneBuilder ==
    \A w \in Worker, p \in Part :
        Building(w, p) => part[p].status = "running" /\ part[p].owner = w

\* completed_partitions may lag behind the rows but never runs ahead of them:
\* it is what claim_job_for_finalization trusts.
DoneNeverAhead == job.done <= Cardinality(Completed)

\* "Finalization occurs only after every partition is completed"
\* (docs/architecture/ALPHA_V06.md), from the claim on.
FinalizeOnlyComplete ==
    job.status = "finalizing" => Rows # {} /\ Rows = Completed

\* A completed job has a manifest in object storage that lists every one of
\* its partitions, and each of them was built.
CompletedIsWhole ==
    job.status = "completed" => Rows # {} /\ Rows = Completed /\ manifest = Rows

\* "Completed partitions are never rebuilt during normal resume"
\* (docs/architecture/ALPHA_V06.md): no step takes a completed row back.
CompletedStays == [][Completed \subseteq Completed']_vars

\* A completed job stays completed whatever is still in flight.
CompletedJobStays ==
    [][job.status = "completed" => job'.status = "completed"]_vars

-----------------------------------------------------------------------------
(* Why these hold: the facts one step hands to the next in a quiet build.   *)

\* A planner works on a job without rows, which only a recovery that finalized
\* a cancellation may have taken out of "planning".
PlannerOwnsJob ==
    \A w \in Worker : worker[w].pc \in PlanPc =>
        /\ Rows = {}
        /\ job.status \in {"planning", "cancelled"}
        /\ job.status = "planning" => job.lease = "live"

FinalizerOwnsJob ==
    \A w \in Worker : worker[w].pc \in FinalPc =>
        /\ job.status \in {"finalizing", "cancelled"}
        /\ Rows # {} /\ Rows = Completed /\ job.total > 0
        /\ worker[w].pc \in {"assemble", "publish"} => worker[w].rows = Rows
        /\ worker[w].pc = "publish" => manifest = Rows

OneJobWorker ==
    \A v, w \in Worker :
        worker[v].pc \in PlanPc \cup FinalPc
          /\ worker[w].pc \in PlanPc \cup FinalPc => v = w

BuilderHoldsLease ==
    \A w \in Worker : worker[w].pc \in PartPc =>
        worker[w].part \in Part /\ part[worker[w].part].lease = "live"

UnplannedHasNoRows == job.status \in {"queued", "planning"} => Rows = {}

\* A planning that broke off has left rows, and no total.
TotalIsRows == job.total \in {0, Cardinality(Rows)}

\* The value a worker is about to write is still no more than the rows built
\* once its own is.
CountNeverAhead ==
    \A w \in Worker : worker[w].pc = "save" =>
        worker[w].count <= Cardinality(Completed) + 1

\* The inductive invariant of a quiet build.
QuietInv ==
    /\ TypeOK
    /\ OneBuilder /\ BuilderHoldsLease /\ OneJobWorker
    /\ PlannerOwnsJob /\ FinalizerOwnsJob /\ UnplannedHasNoRows
    /\ TotalIsRows /\ CountNeverAhead /\ DoneNeverAhead
    /\ FinalizeOnlyComplete /\ CompletedIsWhole

-----------------------------------------------------------------------------
(* The promise of AssetBuild, kept by the rows, workers and leases above.  *)

Promise == INSTANCE AssetBuild WITH
    stage   <- IF job.status \in TERMINAL_STATUSES THEN job.status ELSE "open",
    planned <- Rows,
    cut     <- job.total > 0,
    built   <- Completed,
    listed  <- manifest

\* Every step of the pipeline is a step the promise allows, or changes nothing
\* a reader sees: no partition is cut twice or unbuilt, no manifest is written
\* early or for a model that was cut in part, and "completed" is never published
\* without it or withdrawn.
KeepsPromise == Promise!Spec

-----------------------------------------------------------------------------
(* Liveness.                                                               *)

\* A cancelled build comes to rest: cancel_requested ends in a terminal status
\* through a worker's own test or through recover_stale_leases, from whatever
\* state a crash has left the job in; unless a resume that read the job as ended,
\* and commits after a planner reopened it, withdraws the request.
CancelEnds == job.cancel ~> job.status \in TERMINAL_STATUSES \/ ~job.cancel

\* "Worker crash: lease expires and work returns to the queue"
\* (docs/architecture/ALPHA_V06.md): neither a partition nor the planning of the
\* job stays claimed for ever, whoever claimed it and died or was overtaken.
LeasesRecovered == []<>(Running = {} /\ job.status # "planning")

\* The same sentence, for a job that crashed while it was finalized.
FinalizationRecovered ==
    job.status = "finalizing" ~> job.status # "finalizing"

\* "Run one durable unit of work. Safe to call from multiple processes."
\* (run_worker_cycle): once every partition is built, some process finalizes.
AllBuiltIsFinalized ==
    (Rows # {} /\ Rows = Completed /\ job.status = "running" /\ ~job.cancel)
        ~> job.status # "running"

\* Resumed after a planning that broke off: rows without a total, which
\* claim_job_for_finalization never selects.
BrokenOff == job.status = "running" /\ Rows # {} /\ job.total = 0

\* A build ends, in one way or another: the three kinds of work of
\* run_worker_cycle hand over to each other until the status is terminal.
BuildEnds ==
    job.status \in ACTIVE_STATUSES ~> job.status \in TERMINAL_STATUSES \/ BrokenOff
=============================================================================
