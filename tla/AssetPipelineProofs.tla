------------------------ MODULE AssetPipelineProofs ------------------------
(***************************************************************************)
(* Theorems about AssetPipeline for any number of workers, partitions,     *)
(* attempts, crashes, resumes and overtaken transactions.                  *)
(***************************************************************************)
EXTENDS AssetPipeline, FiniteSetTheorems, TLAPS

\* Any set of partition rows can be counted.
LEMMA PartsCount ==
    ASSUME NEW S \in SUBSET Part
    PROVE  IsFiniteSet(S) /\ Cardinality(S) \in Nat
BY FS_Subset, FS_CardinalityType, PipelineAssumption DEF PipelineAssumption

\* The row sets that the actions count are sets of partition rows.
LEMMA RowsCount ==
    /\ Rows \in SUBSET Part /\ Cardinality(Rows) \in Nat
    /\ Completed \in SUBSET Part /\ Cardinality(Completed) \in Nat
<1>1. Rows \in SUBSET Part /\ Completed \in SUBSET Part
  BY DEF Rows, Completed
<1>2. QED
  BY <1>1, PartsCount

-----------------------------------------------------------------------------
(* Types.                                                                  *)

LEMMA AtType ==
    ASSUME NEW pc \in SeekPc \cup PlanPc \cup PartPc \cup FinalPc \cup {"down"}
    PROVE  At(pc) \in WorkerState
BY DEF At, WorkerState, ACTIVE_STATUSES

\* Reloading the job row changes two fields of a worker, within their types.
LEMMA ReloadType ==
    ASSUME TypeOK, NEW w \in Worker, Reload(w, "build")
    PROVE  worker' \in [Worker -> WorkerState]
<1> DEFINE pc == IF job.cancel THEN "stopPart" ELSE "build"
<1> DEFINE row == [worker[w] EXCEPT !.pc = pc, !.status = job.status]
<1>1. pc \in PartPc /\ worker[w] \in WorkerState
  BY DEF TypeOK, PartPc
<1>2. job.status \in ACTIVE_STATUSES \cup TERMINAL_STATUSES
  BY DEF TypeOK, JobRow
<1>3. row \in WorkerState
  <2> HIDE DEF pc
  <2> QED BY <1>1, <1>2 DEF WorkerState
<1>4. worker' = [worker EXCEPT ![w] = row]
  BY DEF Reload
<1> HIDE DEF row
<1>5. QED
  BY <1>3, <1>4 DEF TypeOK

LEMMA TypeInit == Init => TypeOK
<1>1. ASSUME Init PROVE TypeOK
  <2>1. At("idle") \in WorkerState
    BY AtType DEF SeekPc
  <2>2. QED
    BY <1>1, <2>1, PipelineAssumption
       DEF Init, TypeOK, BuilderHasPart, PartPc, At, JobRow, PartRow, Lease,
           ACTIVE_STATUSES, PipelineAssumption
<1>2. QED
  BY <1>1

\* The fields of the rows, without what relates them.
FieldsOK ==
    /\ job \in JobRow
    /\ part \in [Part -> PartRow]
    /\ worker \in [Worker -> WorkerState]
    /\ stored \in SUBSET Part /\ manifest \in SUBSET Part
    /\ crashes \in 0 .. MaxCrashes
    /\ resumes \in 0 .. MaxResumes
    /\ late \in [open : SUBSET Txn, count : 0 .. MaxOvertaken]

\* The requests that read the rows and write what follows from them.
Op == {"recover", "cancel", "resume"}

\* What any of them may do to the job row: it takes the job to one of four
\* statuses, and never the lease without the status.
LEMMA NewJobFields ==
    ASSUME TypeOK, NEW op \in Op,
           op = "resume" => job.status \in {"failed", "cancelled"}
    PROVE  LET j == NewJob(op, job, part) IN
           /\ j \in JobRow
           /\ j.status \in {job.status, "queued", "running", "failed", "cancelled"}
           /\ j.lease \in {job.lease, "none"}
           /\ j.lease # job.lease => j.status # job.status
<1> USE DEF TypeOK, JobRow, Lease, ACTIVE_STATUSES, TERMINAL_STATUSES
<1>1. CASE op = "recover"
  BY <1>1 DEF NewJob, RecoveredJob, Cancelling
<1>2. CASE op = "cancel"
  BY <1>2 DEF NewJob, CancelledJob
<1>3. CASE op = "resume"
  <2> DEFINE built == {p \in Part : part[p].status = "completed"}
  <2>1. Cardinality(built) \in Nat
    BY PartsCount
  <2> HIDE DEF built
  <2> DEFINE s == IF \A p \in Part : part[p].status = "absent" THEN "queued" ELSE "running"
  <2>2. NewJob(op, job, part) = [job EXCEPT !.status = s, !.cancel = FALSE, !.lease = "none",
                                            !.done = Cardinality(built)]
    BY <1>3 DEF NewJob, ResumedJob, built
  <2>3. s \in {"queued", "running"}
    OBVIOUS
  <2> HIDE DEF s
  <2> QED BY <1>3, <2>1, <2>2, <2>3
<1> QED BY <1>1, <1>2, <1>3 DEF Op

LEMMA NewPartFields ==
    ASSUME TypeOK, NEW op \in Op, NEW p \in Part
    PROVE  LET r == NewPart(op, job, part, p) IN
           /\ r \in PartRow
           /\ r.status \in {part[p].status, "queued", "failed", "cancelled"}
           /\ r.owner \in {part[p].owner, NoPart}
           /\ r.lease \in {part[p].lease, "none"}
           /\ r.lease # part[p].lease => r.status # part[p].status
           /\ r.attempts = part[p].attempts
           /\ (r.status = "absent") <=> (part[p].status = "absent")
<1> USE DEF TypeOK, PartRow, Lease, TERMINAL_STATUSES
<1>1. CASE op = "recover"
  BY <1>1 DEF NewPart, RecoveredPart, SpentParts, StaleParts
<1>2. CASE op = "cancel"
  BY <1>2 DEF NewPart, CancelledPart
<1>3. CASE op = "resume"
  BY <1>3 DEF NewPart, Requeued
<1> QED BY <1>1, <1>2, <1>3 DEF Op

\* A lease is given up only together with a status.
WithStatus(t) ==
    /\ t.job.lease # {} => t.job.status # {}
    /\ \A p \in Part : t.part[p].lease # {} => t.part[p].status # {}

\* What a transaction that has read the rows is about to write.
LEMMA PendingType ==
    ASSUME TypeOK, NEW op \in Op, NEW by \in Worker \cup {NoPart}, ReadOnly(op, by),
           op = "resume" => job.status \in {"failed", "cancelled"}
    PROVE  /\ late'.count = late.count + 1 /\ late'.count \in 0 .. MaxOvertaken
           /\ \E t \in Txn : late'.open = late.open \cup {t} /\ WithStatus(t)
           /\ late' \in [open : SUBSET Txn, count : 0 .. MaxOvertaken]
<1> DEFINE n == late.count + 1
<1> DEFINE j == NewJob(op, job, part)
<1> DEFINE r(p) == NewPart(op, job, part, p)
<1> DEFINE jc == JobChange(job, j)
<1> DEFINE pc == [p \in Part |-> PartChange(part[p], r(p))]
<1> DEFINE t == [by |-> by, n |-> n, job |-> jc, part |-> pc]
<1>1. n \in 1 .. MaxOvertaken /\ late' = [count |-> n, open |-> late.open \cup {t}]
  <2>1. late.count < MaxOvertaken /\ late.count \in 0 .. MaxOvertaken
    BY DEF ReadOnly, TypeOK
  <2>2. n \in 1 .. MaxOvertaken
    BY <2>1, PipelineAssumption DEF PipelineAssumption
  <2>3. pc = [p \in Part |-> PartChange(part[p], [q \in Part |-> r(q)][p])]
    OBVIOUS
  <2>4. late' = [count |-> n, open |-> late.open \cup {t}]
    BY <2>3 DEF ReadOnly
  <2> QED BY <2>2, <2>4
<1>2. jc \in JobUpdate /\ (jc.lease # {} => jc.status # {})
  <2>1. /\ j \in JobRow
        /\ j.status \in {job.status, "queued", "running", "failed", "cancelled"}
        /\ j.lease \in {job.lease, "none"}
        /\ j.lease # job.lease => j.status # job.status
    BY NewJobFields
  <2> HIDE DEF j
  <2>2. jc \in JobUpdate
    BY <2>1 DEF JobChange, Changed, JobUpdate, JobRow
  <2>3. jc.lease # {} => jc.status # {}
    BY <2>1 DEF JobChange, Changed
  <2> QED BY <2>2, <2>3
<1>3. ASSUME NEW p \in Part
      PROVE  pc[p] \in PartUpdate /\ (pc[p].lease # {} => pc[p].status # {})
  <2>1. /\ r(p).status \in {part[p].status, "queued", "failed", "cancelled"}
        /\ r(p).owner \in {part[p].owner, NoPart}
        /\ r(p).lease \in {part[p].lease, "none"}
        /\ r(p).lease # part[p].lease => r(p).status # part[p].status
    BY NewPartFields
  <2>2. pc[p] = PartChange(part[p], r(p))
    OBVIOUS
  <2> HIDE DEF r, pc
  <2> QED BY <2>1, <2>2 DEF PartChange, Changed, PartUpdate
<1>4. pc \in [Part -> PartUpdate]
  <2> SUFFICES ASSUME NEW p \in Part PROVE pc[p] \in PartUpdate
    OBVIOUS
  <2> QED BY <1>3
<1> HIDE DEF n, jc, pc
<1>5. t \in Txn
  BY <1>1, <1>2, <1>4 DEF Txn
<1>6. WithStatus(t)
  BY <1>2, <1>3 DEF WithStatus
<1> HIDE DEF t
<1>7. late.open \in SUBSET Txn
  BY DEF TypeOK
<1>8. n \in 0 .. MaxOvertaken
  BY <1>1
<1>9. late' \in [open : SUBSET Txn, count : 0 .. MaxOvertaken]
  BY <1>1, <1>5, <1>7, <1>8
<1> QED BY <1>1, <1>5, <1>6, <1>8, <1>9 DEF n

LEMMA PutType ==
    ASSUME NEW T, NEW set \in SUBSET T, NEW current \in T
    PROVE  Put(set, current) \in T /\ Put(set, current) \in set \cup {current}
<1>1. CASE set = {}
  BY <1>1 DEF Put
<1>2. CASE set # {}
  <2>1. \E v \in set : TRUE
    BY <1>2
  <2>2. (CHOOSE v \in set : TRUE) \in set
    BY <2>1
  <2> QED BY <1>2, <2>2 DEF Put
<1> QED BY <1>1, <1>2

\* What an overtaken transaction may make of the rows it commits over.
LEMMA CommitFields ==
    ASSUME TypeOK, NEW t \in Txn, CommitLate(t)
    PROVE  /\ job' \in JobRow /\ job'.total = job.total
           /\ job'.status = Put(t.job.status, job.status)
           /\ job'.status \in {job.status, "queued", "running", "failed", "cancelled"}
           /\ job'.lease = Put(t.job.lease, job.lease)
           /\ part' \in [Part -> PartRow]
           /\ \A p \in Part :
                 /\ part'[p].attempts = part[p].attempts
                 /\ part'[p].status = Put(t.part[p].status, part[p].status)
                 /\ part'[p].status \in {part[p].status, "queued", "failed", "cancelled"}
                 /\ part'[p].lease = Put(t.part[p].lease, part[p].lease)
<1>t. /\ t.job \in JobUpdate /\ \A p \in Part : t.part[p] \in PartUpdate
  BY DEF Txn
<1> DEFINE s == Put(t.job.status, job.status)
<1> DEFINE c == Put(t.job.cancel, job.cancel)
<1> DEFINE d == Put(t.job.done, job.done)
<1> DEFINE l == Put(t.job.lease, job.lease)
<1>1. /\ s \in ACTIVE_STATUSES \cup TERMINAL_STATUSES
      /\ s \in {job.status, "queued", "running", "failed", "cancelled"}
      /\ c \in BOOLEAN /\ d \in Nat /\ l \in Lease
  <2>1. /\ job.status \in ACTIVE_STATUSES \cup TERMINAL_STATUSES
        /\ job.cancel \in BOOLEAN /\ job.done \in Nat /\ job.lease \in Lease
    BY DEF TypeOK, JobRow
  <2>2. /\ t.job.status \in SUBSET {"queued", "running", "failed", "cancelled"}
        /\ t.job.cancel \in SUBSET BOOLEAN /\ t.job.done \in SUBSET Nat
        /\ t.job.lease \in SUBSET {"none"}
    BY <1>t DEF JobUpdate
  <2>3. s \in t.job.status \cup {job.status}
    <3>1. t.job.status \in SUBSET (ACTIVE_STATUSES \cup TERMINAL_STATUSES)
      BY <2>2 DEF ACTIVE_STATUSES, TERMINAL_STATUSES
    <3> QED BY <2>1, <3>1, PutType
  <2>4. c \in BOOLEAN /\ d \in Nat
    BY <2>1, <2>2, PutType
  <2>5. t.job.lease \in SUBSET Lease
    BY <2>2 DEF Lease
  <2>6. l \in Lease
    BY <2>1, <2>5, PutType
  <2> QED BY <2>1, <2>2, <2>3, <2>4, <2>6 DEF ACTIVE_STATUSES, TERMINAL_STATUSES
<1>2. job' = [job EXCEPT !.status = s, !.cancel = c, !.done = d, !.lease = l]
  BY DEF CommitLate
<1> HIDE DEF s, c, d, l
<1>3. job' \in JobRow /\ job'.total = job.total /\ job'.status = s /\ job'.lease = l
  BY <1>1, <1>2 DEF TypeOK, JobRow
<1>4. ASSUME NEW p \in Part
      PROVE  /\ part'[p] \in PartRow
             /\ part'[p].attempts = part[p].attempts
             /\ part'[p].status = Put(t.part[p].status, part[p].status)
             /\ part'[p].status \in {part[p].status, "queued", "failed", "cancelled"}
             /\ part'[p].lease = Put(t.part[p].lease, part[p].lease)
  <2> DEFINE ps == Put(t.part[p].status, part[p].status)
  <2> DEFINE po == Put(t.part[p].owner, part[p].owner)
  <2> DEFINE pl == Put(t.part[p].lease, part[p].lease)
  <2>1. /\ part[p] \in PartRow
        /\ t.part[p].status \in SUBSET {"queued", "failed", "cancelled"}
        /\ t.part[p].owner \in SUBSET {NoPart} /\ t.part[p].lease \in SUBSET {"none"}
    BY <1>t DEF TypeOK, PartUpdate
  <2>2. /\ ps \in t.part[p].status \cup {part[p].status}
        /\ po \in t.part[p].owner \cup {part[p].owner}
        /\ pl \in t.part[p].lease \cup {part[p].lease}
    BY PutType
  <2>3. part'[p] = [part[p] EXCEPT !.status = ps, !.owner = po, !.lease = pl]
    BY DEF CommitLate
  <2> HIDE DEF ps, po, pl
  <2>4. /\ ps \in {"absent", "queued", "running"} \cup TERMINAL_STATUSES
        /\ ps \in {part[p].status, "queued", "failed", "cancelled"}
        /\ po \in Worker \cup {NoPart} /\ pl \in Lease
    BY <2>1, <2>2 DEF PartRow, Lease, TERMINAL_STATUSES
  <2>5. /\ part'[p] \in PartRow /\ part'[p].attempts = part[p].attempts
        /\ part'[p].status = ps /\ part'[p].lease = pl
    BY <2>1, <2>3, <2>4 DEF PartRow
  <2> QED BY <2>4, <2>5 DEF ps, pl
<1>5. part' = [p \in Part |-> part'[p]]
  BY DEF CommitLate
<1>6. part' \in [Part -> PartRow]
  BY <1>4, <1>5
<1> QED BY <1>1, <1>3, <1>4, <1>6 DEF s, l

LEMMA FieldsNext ==
    ASSUME TypeOK, [Next]_vars
    PROVE  FieldsOK'
<1> USE DEF TypeOK, FieldsOK
<1>1. ASSUME NEW w \in Worker, RecoverStaleLeases(w) PROVE FieldsOK'
  <2>1. At("seekPlan") \in WorkerState
    BY AtType DEF SeekPc
  <2>2. RecoveredJob(job, part) \in JobRow
    BY NewJobFields DEF NewJob, Op
  <2>3. ASSUME NEW p \in Part PROVE RecoveredPart(job, part, p) \in PartRow
    BY NewPartFields DEF NewPart, Op
  <2>4. QED
    BY <1>1, <2>1, <2>2, <2>3 DEF RecoverStaleLeases, Goto
<1>2. ASSUME NEW w \in Worker, ClaimJobForPlanning(w) PROVE FieldsOK'
  <2>1. At("planCheck") \in WorkerState /\ At("seekPart") \in WorkerState
    BY AtType DEF SeekPc, PlanPc
  <2>2. job' \in JobRow
    BY <1>2 DEF ClaimJobForPlanning, JobRow, Lease, ACTIVE_STATUSES
  <2>3. QED
    BY <1>2, <2>1, <2>2 DEF ClaimJobForPlanning, Goto
<1>3. ASSUME NEW w \in Worker, CheckPlan(w) PROVE FieldsOK'
  <2>1. /\ At("planStop") \in WorkerState
        /\ At("idle") \in WorkerState
        /\ At("plan") \in WorkerState
    BY AtType DEF SeekPc, PlanPc
  <2>2. job' \in JobRow
    BY <1>3, RowsCount DEF CheckPlan, JobRow, Lease, ACTIVE_STATUSES
  <2>3. worker' \in [Worker -> WorkerState]
    BY <1>3, <2>1 DEF CheckPlan, Goto
  <2>4. QED
    BY <1>3, <2>2, <2>3 DEF CheckPlan
<1>4. ASSUME NEW w \in Worker, PlanJob(w) PROVE FieldsOK'
  <2>1. At("idle") \in WorkerState
    BY AtType DEF SeekPc
  <2>2. PICK S \in SUBSET (Part \ Rows), whole \in BOOLEAN :
          /\ part' = [p \in Part |-> IF p \in S
                        THEN [part[p] EXCEPT !.status = "queued"] ELSE part[p]]
          /\ job' = IF whole /\ S # {}
                    THEN [job EXCEPT !.status = "running", !.lease = "none",
                                     !.total = Cardinality(S)]
                    ELSE [job EXCEPT !.status = "failed", !.lease = "none"]
    BY <1>4 DEF PlanJob
  <2>3. Cardinality(S) \in Nat
    BY PartsCount
  <2>4. job' \in JobRow
    BY <2>2, <2>3 DEF JobRow, Lease, ACTIVE_STATUSES, TERMINAL_STATUSES
  <2>5. part' \in [Part -> PartRow]
    BY <2>2 DEF PartRow
  <2>6. QED
    BY <1>4, <2>1, <2>4, <2>5 DEF PlanJob, Goto
<1>5. ASSUME NEW w \in Worker, ClaimPartition(w) PROVE FieldsOK'
  <2>1. At("seekFinal") \in WorkerState
    BY AtType DEF SeekPc
  <2>2. ASSUME NEW p \in Part PROVE [At("start") EXCEPT !.part = p] \in WorkerState
    BY AtType DEF PartPc, WorkerState
  <2>3. QED
    BY <1>5, <2>1, <2>2 DEF ClaimPartition, Goto, PartRow, Lease
<1>6. ASSUME NEW w \in Worker, StartPartition(w) PROVE FieldsOK'
  BY <1>6, ReloadType DEF StartPartition
<1>7. ASSUME NEW w \in Worker, CommitMesh(w) PROVE FieldsOK'
  <2>1. worker' \in [Worker -> WorkerState]
    BY <1>7, ReloadType DEF CommitMesh
  <2>2. part' \in [Part -> PartRow]
    <3>1. part' = [part EXCEPT ![worker[w].part].lease = "live"]
      BY <1>7 DEF CommitMesh
    <3>2. \A p \in Part : [part[p] EXCEPT !.lease = "live"] \in PartRow
      BY DEF PartRow, Lease
    <3> QED BY <3>1, <3>2
  <2>3. QED
    BY <1>7, <2>1, <2>2 DEF CommitMesh
<1>8. ASSUME NEW w \in Worker, CountCompleted(w) PROVE FieldsOK'
  <2> DEFINE n == Cardinality(Completed) + 1
  <2> DEFINE c == IF job.total > 0 /\ job.total < n THEN job.total ELSE n
  <2>1. c \in Nat
    BY RowsCount DEF JobRow
  <2> DEFINE row == [worker[w] EXCEPT !.pc = "save", !.status = job.status,
                                      !.done = job.done, !.count = c]
  <2>2. worker' = [worker EXCEPT ![w] = row]
    BY <1>8 DEF CountCompleted
  <2>3. row \in WorkerState
    <3> HIDE DEF c
    <3> QED BY <2>1, ZenonT(30) DEF WorkerState, PartPc, JobRow
  <2>4. part' \in [Part -> PartRow]
    BY <1>8, ZenonT(30) DEF CountCompleted, PartRow, Lease
  <2>5. QED
    <3> HIDE DEF row
    <3>1. worker' \in [Worker -> WorkerState]
      BY <2>2, <2>3
    <3>2. UNCHANGED <<job, manifest, crashes, resumes, late>>
      BY <1>8 DEF CountCompleted
    <3>3. stored' \in SUBSET Part
      BY <1>8 DEF CountCompleted, BuilderHasPart, PartPc
    <3>4. QED BY <3>1, <3>2, <3>3, <2>4
<1>9. ASSUME NEW w \in Worker, CompletePartition(w) PROVE FieldsOK'
  <2>1. At("idle") \in WorkerState
    BY AtType DEF SeekPc
  <2>2. job' \in JobRow
    BY <1>9 DEF CompletePartition, Flush, JobRow, WorkerState
  <2>3. part' \in [Part -> PartRow]
    BY <1>9, ZenonT(30) DEF CompletePartition, PartRow, TERMINAL_STATUSES, Lease
  <2>4. QED
    BY <1>9, <2>1, <2>2, <2>3 DEF CompletePartition, Goto
<1>10. ASSUME NEW w \in Worker, NEW s \in {"failed", "cancelled"},
              GiveUpPartition(w, s)
       PROVE FieldsOK'
  <2>1. At("idle") \in WorkerState
    BY AtType DEF SeekPc
  <2>2. job' \in JobRow
    BY <1>10 DEF GiveUpPartition, Flush, JobRow, TERMINAL_STATUSES
  <2>3. part' \in [Part -> PartRow]
    BY <1>10, ZenonT(30) DEF GiveUpPartition, PartRow, TERMINAL_STATUSES, Lease
  <2>4. QED
    BY <1>10, <2>1, <2>2, <2>3 DEF GiveUpPartition, Goto
<1>11. ASSUME NEW w \in Worker, ClaimJobForFinalization(w) PROVE FieldsOK'
  <2>1. At("check") \in WorkerState /\ At("idle") \in WorkerState
    BY AtType DEF SeekPc, FinalPc
  <2>2. job' \in JobRow
    BY <1>11 DEF ClaimJobForFinalization, JobRow, Lease, ACTIVE_STATUSES
  <2>3. QED
    BY <1>11, <2>1, <2>2 DEF ClaimJobForFinalization, Goto
<1>12. ASSUME NEW w \in Worker, CheckFinal(w) PROVE FieldsOK'
  <2>1. At("finalStop") \in WorkerState /\ At("idle") \in WorkerState
    BY AtType DEF SeekPc, FinalPc
  <2>2. [At("assemble") EXCEPT !.rows = Rows] \in WorkerState
    BY AtType, RowsCount DEF FinalPc, WorkerState
  <2>3. QED
    BY <1>12, <2>1, <2>2 DEF CheckFinal, Goto
<1>13. ASSUME NEW w \in Worker, AssembleManifest(w) PROVE FieldsOK'
  BY <1>13 DEF AssembleManifest, WorkerState, FinalPc
<1>14. ASSUME NEW w \in Worker, PublishManifest(w) PROVE FieldsOK'
  <2>1. At("idle") \in WorkerState
    BY AtType DEF SeekPc
  <2>2. Cardinality(worker[w].rows) \in Nat
    BY PartsCount DEF WorkerState
  <2>3. QED
    BY <1>14, <2>1, <2>2 DEF PublishManifest, Goto, JobRow, Lease, TERMINAL_STATUSES
<1>15. ASSUME NEW w \in Worker, FailFinalization(w) PROVE FieldsOK'
  <2>1. At("idle") \in WorkerState
    BY AtType DEF SeekPc
  <2>2. QED
    BY <1>15, <2>1 DEF FailFinalization, Goto, JobRow, Lease, TERMINAL_STATUSES
<1>16. ASSUME NEW w \in Worker, StopJob(w) PROVE FieldsOK'
  <2>1. At("idle") \in WorkerState
    BY AtType DEF SeekPc
  <2>2. QED
    BY <1>16, <2>1 DEF StopJob, Goto, JobRow, Lease, TERMINAL_STATUSES
<1>17. CASE CancelJob
  <2>1. job' \in JobRow
    BY <1>17, NewJobFields DEF CancelJob, NewJob, Op
  <2>2. part' \in [Part -> PartRow]
    <3>1. \A p \in Part : CancelledPart(job, part[p]) \in PartRow
      BY NewPartFields DEF NewPart, Op
    <3> QED BY <1>17, <3>1 DEF CancelJob
  <2>3. QED
    BY <1>17, <2>1, <2>2 DEF CancelJob
<1>18. CASE ResumeJob
  <2>1. ASSUME NEW p \in Part PROVE Requeued(part[p]) \in PartRow
    BY NewPartFields DEF NewPart, Op
  <2>2. job' \in JobRow
    BY <1>18, NewJobFields DEF ResumeJob, Resumable, NewJob, Op
  <2>3. resumes' \in 0 .. MaxResumes
    BY <1>18, PipelineAssumption DEF ResumeJob, Resumable, PipelineAssumption
  <2>4. QED
    BY <1>18, <2>1, <2>2, <2>3 DEF ResumeJob
<1>19. ASSUME NEW p \in Part, ExpirePartLease(p) PROVE FieldsOK'
  BY <1>19 DEF ExpirePartLease, PartRow, Lease
<1>20. CASE ExpireJobLease
  BY <1>20 DEF ExpireJobLease, JobRow, Lease
<1>21. ASSUME NEW w \in Worker, Crash(w) \/ Restart(w) PROVE FieldsOK'
  <2>1. At("down") \in WorkerState /\ At("idle") \in WorkerState
    BY AtType DEF SeekPc
  <2>2. late' \in [open : SUBSET Txn, count : 0 .. MaxOvertaken]
    BY <1>21 DEF Crash, Restart
  <2>3. worker' \in [Worker -> WorkerState]
    BY <1>21, <2>1 DEF Crash, Restart, Goto
  <2>4. crashes' \in 0 .. MaxCrashes
    BY <1>21, PipelineAssumption DEF Crash, Restart, PipelineAssumption
  <2>5. QED
    BY <1>21, <2>2, <2>3, <2>4 DEF Crash, Restart
<1>22. CASE UNCHANGED vars
  BY <1>22 DEF vars
<1>23. ASSUME NEW w \in Worker, ReadForRecovery(w) PROVE FieldsOK'
  <2>1. At("recover") \in WorkerState
    BY AtType DEF SeekPc
  <2>2. late' \in [open : SUBSET Txn, count : 0 .. MaxOvertaken]
    BY <1>23, PendingType DEF ReadForRecovery, Op
  <2>3. QED
    BY <1>23, <2>1, <2>2 DEF ReadForRecovery, Goto
<1>24. CASE ReadForCancel \/ ReadForResume
  <2>1. late' \in [open : SUBSET Txn, count : 0 .. MaxOvertaken]
    BY <1>24, PendingType DEF ReadForCancel, ReadForResume, Resumable, Op
  <2>2. resumes' \in 0 .. MaxResumes
    BY <1>24, PipelineAssumption DEF ReadForCancel, ReadForResume, Resumable, PipelineAssumption
  <2>3. QED
    BY <1>24, <2>1, <2>2 DEF ReadForCancel, ReadForResume
<1>25. ASSUME NEW t \in late.open, CommitLate(t), worker' \in [Worker -> WorkerState]
       PROVE  FieldsOK'
  <2>1. t \in Txn
    OBVIOUS
  <2>2. job' \in JobRow /\ part' \in [Part -> PartRow]
    BY <1>25, <2>1, CommitFields
  <2>3. late' \in [open : SUBSET Txn, count : 0 .. MaxOvertaken]
    BY <1>25 DEF CommitLate
  <2>4. QED
    BY <1>25, <2>2, <2>3 DEF CommitLate
<1>26. ASSUME NEW w \in Worker, CommitRecovery(w) PROVE FieldsOK'
  <2>1. At("seekPlan") \in WorkerState
    BY AtType DEF SeekPc
  <2>2. worker' \in [Worker -> WorkerState]
    BY <1>26, <2>1 DEF CommitRecovery, Goto
  <2>3. QED
    BY <1>25, <1>26, <2>2 DEF CommitRecovery
<1>27. CASE CommitRequest
  BY <1>25, <1>27 DEF CommitRequest
<1>28. QED
  BY <1>1, <1>2, <1>3, <1>4, <1>5, <1>6, <1>7, <1>8, <1>9, <1>10, <1>11, <1>12,
     <1>13, <1>14, <1>15, <1>16, <1>17, <1>18, <1>19, <1>20, <1>21, <1>22, <1>23,
     <1>24, <1>26, <1>27 DEF Next, Advance, StopPartition, FailPartition

\* A step that sets the place of one worker leaves the others where they are.
LEMMA PlaceStep ==
    ASSUME TypeOK, NEW w \in Worker, NEW row, worker' = [worker EXCEPT ![w] = row],
           row.pc \in PartPc => row.part \in Part
    PROVE  BuilderHasPart'
BY DEF TypeOK, BuilderHasPart

LEMMA LeavesPartition ==
    ASSUME TypeOK, NEW w \in Worker, NEW pc, pc \notin PartPc, Goto(w, pc)
    PROVE  BuilderHasPart'
BY PlaceStep DEF Goto, At

LEMMA PlaceNext ==
    ASSUME TypeOK, [Next]_vars
    PROVE  BuilderHasPart'
<1>0. /\ "idle" \notin PartPc /\ "seekPlan" \notin PartPc /\ "seekPart" \notin PartPc
      /\ "seekFinal" \notin PartPc /\ "down" \notin PartPc /\ "planCheck" \notin PartPc
      /\ "planStop" \notin PartPc /\ "plan" \notin PartPc /\ "check" \notin PartPc
      /\ "finalStop" \notin PartPc /\ "recover" \notin PartPc
  BY DEF PartPc
<1>1. ASSUME NEW w \in Worker, NEW pc, pc \notin PartPc, Goto(w, pc) PROVE BuilderHasPart'
  BY <1>1, LeavesPartition
<1>2. ASSUME NEW w \in Worker, ClaimPartition(w) PROVE BuilderHasPart'
  <2>1. ASSUME NEW p \in Part, worker' = [worker EXCEPT ![w] = [At("start") EXCEPT !.part = p]]
        PROVE  BuilderHasPart'
    BY <2>1, PlaceStep DEF At
  <2> QED BY <1>0, <1>1, <1>2, <2>1 DEF ClaimPartition
<1>3. ASSUME NEW w \in Worker, NEW next, Reload(w, next), worker[w].pc \in PartPc
      PROVE  BuilderHasPart'
  <2> DEFINE pc == IF job.cancel THEN "stopPart" ELSE next
  <2> DEFINE row == [worker[w] EXCEPT !.pc = pc, !.status = job.status]
  <2>1. worker' = [worker EXCEPT ![w] = row]
    BY <1>3 DEF Reload
  <2>2. row.part = worker[w].part
    BY DEF TypeOK, WorkerState
  <2>3. row.part \in Part
    BY <1>3, <2>2 DEF TypeOK, BuilderHasPart
  <2> HIDE DEF row
  <2> QED BY <2>1, <2>3, PlaceStep
<1>4. ASSUME NEW w \in Worker, StartPartition(w) \/ CommitMesh(w) PROVE BuilderHasPart'
  BY <1>3, <1>4 DEF StartPartition, CommitMesh, PartPc
<1>5. ASSUME NEW w \in Worker, CountCompleted(w) PROVE BuilderHasPart'
  <2>1. worker[w].pc \in PartPc /\ worker[w].part \in Part
    BY <1>5 DEF CountCompleted, TypeOK, BuilderHasPart, PartPc
  <2>2. \A v \in Worker : worker'[v].part = worker[v].part
    BY <1>5 DEF CountCompleted, TypeOK, WorkerState
  <2>3. \A v \in Worker : v # w => worker'[v] = worker[v]
    BY <1>5 DEF CountCompleted, TypeOK
  <2> QED BY <2>1, <2>2, <2>3 DEF TypeOK, BuilderHasPart
<1>6. ASSUME NEW w \in Worker, CheckFinal(w) PROVE BuilderHasPart'
  <2>1. ASSUME worker' = [worker EXCEPT ![w] = [At("assemble") EXCEPT !.rows = Rows]]
        PROVE  BuilderHasPart'
    BY <2>1, PlaceStep DEF At, PartPc
  <2> QED BY <1>0, <1>1, <1>6, <2>1 DEF CheckFinal
<1>7. ASSUME NEW w \in Worker, AssembleManifest(w) PROVE BuilderHasPart'
  BY <1>7 DEF AssembleManifest, TypeOK, BuilderHasPart, PartPc
<1>8. ASSUME NEW w \in Worker,
             \/ RecoverStaleLeases(w) \/ ReadForRecovery(w) \/ CommitRecovery(w)
             \/ ClaimJobForPlanning(w) \/ CheckPlan(w) \/ PlanJob(w)
      PROVE  BuilderHasPart'
  BY <1>0, <1>1, <1>8
     DEF RecoverStaleLeases, ReadForRecovery, CommitRecovery, ClaimJobForPlanning, CheckPlan,
         PlanJob
<1>9. ASSUME NEW w \in Worker,
             \/ CompletePartition(w) \/ StopPartition(w) \/ FailPartition(w)
             \/ ClaimJobForFinalization(w) \/ PublishManifest(w) \/ FailFinalization(w)
             \/ StopJob(w) \/ Crash(w) \/ Restart(w)
      PROVE  BuilderHasPart'
  BY <1>0, <1>1, <1>9
     DEF CompletePartition, StopPartition, FailPartition, GiveUpPartition,
         ClaimJobForFinalization, PublishManifest, FailFinalization, StopJob, Crash, Restart
<1>10. ASSUME worker' = worker PROVE BuilderHasPart'
  BY <1>10 DEF TypeOK, BuilderHasPart
<1>11. CASE \/ CancelJob \/ ReadForCancel \/ ResumeJob \/ ReadForResume \/ CommitRequest
            \/ (\E p \in Part : ExpirePartLease(p)) \/ ExpireJobLease
  BY <1>10, <1>11
     DEF CancelJob, ReadForCancel, ResumeJob, ReadForResume, CommitRequest, ExpirePartLease,
         ExpireJobLease
<1>12. CASE UNCHANGED vars
  BY <1>10, <1>12 DEF vars
<1>13. QED
  BY <1>2, <1>4, <1>5, <1>6, <1>7, <1>8, <1>9, <1>11, <1>12 DEF Next, Advance

LEMMA TypeNext == TypeOK /\ [Next]_vars => TypeOK'
<1> SUFFICES ASSUME TypeOK, [Next]_vars PROVE TypeOK'
  OBVIOUS
<1> QED BY FieldsNext, PlaceNext DEF TypeOK, FieldsOK

\* Every row and every worker's copy of it stays in its type, through stale
\* writes, crashes and resumes.
THEOREM TypeCorrect == Spec => []TypeOK
BY TypeInit, TypeNext, PTL DEF Spec

-----------------------------------------------------------------------------
(* Retries.                                                                *)

\* A row that can still be claimed has an attempt left; this is what makes
\* AttemptsBounded inductive.
RetryLeft(row, n) ==
    /\ row.attempts <= MaxAttempts + n
    /\ row.status \in {"absent", "queued"} => row.attempts < MaxAttempts + n

\* The extra starts there have been reasons for: one for each resume, and one for
\* each overtaken transaction that is no longer open.
Extra == resumes + late.count - Cardinality(late.open)

RetryInv ==
    /\ TypeOK
    /\ IsFiniteSet(late.open) /\ Extra >= 0
    /\ \A p \in Part : RetryLeft(part[p], Extra)

LEMMA ExtraType ==
    ASSUME TypeOK, IsFiniteSet(late.open)
    PROVE  /\ Cardinality(late.open) \in Nat /\ resumes \in Nat /\ late.count \in Nat
           /\ Extra \in Int
BY FS_CardinalityType, PipelineAssumption DEF TypeOK, Extra, PipelineAssumption

\* Most steps keep a row's attempts and make no row claimable again.
LEMMA RetryKept ==
    ASSUME RetryInv, TypeOK', IsFiniteSet(late.open)', Extra' >= Extra,
           \A p \in Part :
              /\ part'[p].attempts = part[p].attempts
              /\ part'[p].status \in {"absent", "queued"}
                   => part[p].status \in {"absent", "queued"}
    PROVE  RetryInv'
<1>1. Extra \in Int /\ Extra' \in Int /\ MaxAttempts \in Nat
  <2>1. Cardinality(late'.open) \in Nat /\ resumes' \in 0 .. MaxResumes
        /\ late'.count \in 0 .. MaxOvertaken
    BY FS_CardinalityType DEF TypeOK
  <2>2. Extra' \in Int
    BY <2>1, PipelineAssumption DEF Extra, PipelineAssumption
  <2> QED BY <2>2, ExtraType, PipelineAssumption DEF RetryInv, PipelineAssumption
<1>2. ASSUME NEW p \in Part PROVE RetryLeft(part[p], Extra)'
  <2>1. RetryLeft(part[p], Extra) /\ part[p].attempts \in Nat
    BY DEF RetryInv, TypeOK, PartRow
  <2> QED BY <1>1, <2>1 DEF RetryLeft
<1>3. Extra' >= 0
  BY <1>1 DEF RetryInv
<1> QED BY <1>2, <1>3 DEF RetryInv

\* A step that leaves resumes and the open transactions alone adds no start.
LEMMA SameExtra ==
    ASSUME RetryInv, TypeOK', resumes' = resumes, late' = late,
           \A p \in Part :
              /\ part'[p].attempts = part[p].attempts
              /\ part'[p].status \in {"absent", "queued"}
                   => part[p].status \in {"absent", "queued"}
    PROVE  RetryInv'
<1>1. IsFiniteSet(late.open)' /\ Extra' = Extra /\ Extra \in Int
  BY ExtraType DEF Extra, RetryInv
<1> QED BY <1>1, RetryKept

LEMMA RetryInit == Init => RetryInv
<1> SUFFICES ASSUME Init PROVE RetryInv
  OBVIOUS
<1>1. late.open = {} /\ late.count = 0 /\ resumes = 0
  BY DEF Init
<1>2. IsFiniteSet(late.open) /\ Extra = 0
  BY <1>1, FS_EmptySet DEF Extra
<1> QED BY <1>2, TypeInit, PipelineAssumption DEF Init, RetryInv, RetryLeft, PipelineAssumption

\* Reading the rows allows for one more start, and pays for it by being open.
LEMMA ReadKeepsExtra ==
    ASSUME RetryInv, TypeOK', NEW op \in Op, NEW by \in Worker \cup {NoPart}, ReadOnly(op, by),
           op = "resume" => job.status \in {"failed", "cancelled"},
           UNCHANGED part, resumes' \in {resumes, resumes + 1}
    PROVE  RetryInv'
<1>t. TypeOK /\ IsFiniteSet(late.open)
  BY DEF RetryInv
<1>1. PICK t \in Txn : late'.open = late.open \cup {t} /\ late'.count = late.count + 1
  BY <1>t, PendingType
<1>2. /\ IsFiniteSet(late'.open)
      /\ Cardinality(late'.open) \in {Cardinality(late.open), Cardinality(late.open) + 1}
  BY <1>t, <1>1, FS_AddElement
<1>3. /\ Cardinality(late.open) \in Nat /\ resumes \in Nat /\ late.count \in Nat
  BY <1>t, ExtraType
<1>4. Extra' >= Extra
  BY <1>1, <1>2, <1>3 DEF Extra
<1> QED BY <1>2, <1>4, RetryKept

\* Committing spends it: a row it requeues has one start left.
LEMMA CommitKeepsRetry ==
    ASSUME RetryInv, TypeOK', NEW t \in late.open, CommitLate(t)
    PROVE  RetryInv'
<1>t. TypeOK /\ IsFiniteSet(late.open) /\ t \in Txn
  BY DEF RetryInv, TypeOK
<1>1. /\ late'.open = late.open \ {t} /\ late'.count = late.count /\ resumes' = resumes
  BY <1>t DEF CommitLate, TypeOK
<1>2. IsFiniteSet(late'.open) /\ Cardinality(late'.open) = Cardinality(late.open) - 1
  BY <1>t, <1>1, FS_RemoveElement
<1>3. /\ Cardinality(late.open) \in Nat /\ resumes \in Nat /\ late.count \in Nat
      /\ Extra \in Int
  BY <1>t, ExtraType
<1>4. Extra' = Extra + 1
  BY <1>1, <1>2, <1>3 DEF Extra
<1>5. ASSUME NEW p \in Part PROVE RetryLeft(part[p], Extra)'
  <2>1. /\ RetryLeft(part[p], Extra) /\ part[p].attempts \in Nat
        /\ part'[p].attempts = part[p].attempts
    BY <1>t, CommitFields DEF RetryInv, TypeOK, PartRow
  <2> QED BY <1>3, <1>4, <2>1, PipelineAssumption DEF RetryLeft, PipelineAssumption
<1>6. Extra' >= 0
  BY <1>3, <1>4 DEF RetryInv
<1> QED BY <1>2, <1>5, <1>6 DEF RetryInv

LEMMA RetryNext == RetryInv /\ [Next]_vars => RetryInv'
<1> SUFFICES ASSUME RetryInv, [Next]_vars PROVE RetryInv'
  OBVIOUS
<1>t. TypeOK /\ TypeOK'
  BY TypeNext DEF RetryInv
<1>n. /\ MaxAttempts \in Nat \ {0} /\ Extra \in Nat /\ IsFiniteSet(late.open)
      /\ \A p \in Part : part[p] \in PartRow /\ part[p].attempts \in Nat
  BY <1>t, ExtraType, PipelineAssumption DEF RetryInv, TypeOK, PartRow, PipelineAssumption
<1>e. ASSUME UNCHANGED <<resumes, late>> PROVE Extra' = Extra /\ IsFiniteSet(late.open)'
  BY <1>e, <1>n DEF Extra
<1>1. ASSUME NEW w \in Worker, RecoverStaleLeases(w) PROVE RetryInv'
  <2> SUFFICES ASSUME NEW p \in Part PROVE RetryLeft(RecoveredPart(job, part, p), Extra)
    BY <1>1, <1>e, <1>t DEF RecoverStaleLeases, RetryInv
  <2>0. RetryLeft(part[p], Extra)
    BY DEF RetryInv
  <2>1. CASE p \in SpentParts(part)
    BY <2>0, <2>1, <1>n DEF RecoveredPart, RetryLeft, PartRow
  <2>2. CASE p \in StaleParts(part) \ SpentParts(part)
    BY <2>2, <1>n DEF RecoveredPart, RetryLeft, SpentParts, StaleParts, PartRow
  <2>3. CASE p \notin StaleParts(part)
    BY <2>0, <2>3, <1>n DEF RecoveredPart, RetryLeft, SpentParts, PartRow
  <2>4. QED
    BY <2>1, <2>2, <2>3
<1>2. ASSUME NEW w \in Worker, PlanJob(w) PROVE RetryInv'
  BY <1>2, <1>t, <1>n, SameExtra DEF PlanJob, Rows, PartRow
<1>3. ASSUME NEW w \in Worker, ClaimPartition(w) PROVE RetryInv'
  <2>1. CASE UNCHANGED part
    BY <1>3, <2>1, <1>t, SameExtra DEF ClaimPartition
  <2>2. ASSUME NEW q \in Part, Claimable(q),
               part' = [part EXCEPT ![q] =
                          [status |-> "running", owner |-> w, lease |-> "live",
                           attempts |-> part[q].attempts + 1]]
        PROVE  RetryInv'
    <3> SUFFICES ASSUME NEW p \in Part PROVE RetryLeft(part'[p], Extra)
      BY <1>3, <1>e, <1>t DEF ClaimPartition, RetryInv
    <3>1. RetryLeft(part[p], Extra) /\ RetryLeft(part[q], Extra)
      BY DEF RetryInv
    <3>2. part'[p] = IF p = q THEN [status |-> "running", owner |-> w,
                                    lease |-> "live",
                                    attempts |-> part[q].attempts + 1]
                     ELSE part[p]
      BY <2>2, <1>t DEF TypeOK
    <3>3. QED
      BY <3>1, <3>2, <2>2, <1>n DEF Claimable, RetryLeft
  <2>3. QED
    BY <1>3, <2>1, <2>2 DEF ClaimPartition
<1>4. ASSUME NEW w \in Worker, CommitMesh(w) \/ CountCompleted(w) PROVE RetryInv'
  BY <1>4, <1>t, SameExtra DEF CommitMesh, CountCompleted, TypeOK, PartRow
<1>5. ASSUME NEW w \in Worker, CompletePartition(w) PROVE RetryInv'
  BY <1>5, <1>t, SameExtra DEF CompletePartition, TypeOK, PartRow
<1>6. ASSUME NEW w \in Worker, NEW s \in {"failed", "cancelled"},
             GiveUpPartition(w, s)
      PROVE  RetryInv'
  BY <1>6, <1>t, SameExtra DEF GiveUpPartition, TypeOK, PartRow
<1>7. CASE CancelJob
  BY <1>7, <1>t, SameExtra DEF CancelJob, CancelledPart, TypeOK, PartRow
<1>8. CASE ResumeJob
  <2>0. Extra' = Extra + 1 /\ Extra' >= 0 /\ IsFiniteSet(late.open)'
    <3>1. /\ Cardinality(late.open) \in Nat /\ resumes \in Nat /\ late.count \in Nat
      BY <1>t, <1>n, ExtraType
    <3> QED BY <1>8, <1>n, <3>1 DEF ResumeJob, Extra
  <2> SUFFICES ASSUME NEW p \in Part PROVE RetryLeft(Requeued(part[p]), Extra + 1)
    BY <1>8, <1>t, <2>0 DEF ResumeJob, RetryInv
  <2>1. RetryLeft(part[p], Extra)
    BY DEF RetryInv
  <2>2. QED
    BY <2>1, <1>n DEF Requeued, RetryLeft, PartRow
<1>9. ASSUME NEW p \in Part, ExpirePartLease(p) PROVE RetryInv'
  BY <1>9, <1>t, SameExtra DEF ExpirePartLease, TypeOK, PartRow
<1>10. ASSUME UNCHANGED <<part, resumes, late>> PROVE RetryInv'
  BY <1>10, <1>t, SameExtra
<1>12. ASSUME NEW w \in Worker, Crash(w) PROVE RetryInv'
  <2>1. /\ late'.open \in SUBSET late.open /\ late'.count = late.count
        /\ UNCHANGED <<part, resumes>>
    BY <1>12, <1>t DEF Crash, TypeOK
  <2>2. IsFiniteSet(late'.open) /\ Cardinality(late'.open) <= Cardinality(late.open)
    BY <2>1, <1>n, FS_Subset
  <2>3. /\ Cardinality(late.open) \in Nat /\ Cardinality(late'.open) \in Nat
        /\ resumes \in Nat /\ late.count \in Nat
    BY <1>t, <1>n, <2>2, ExtraType, FS_CardinalityType
  <2>4. Extra' >= Extra
    BY <2>1, <2>2, <2>3 DEF Extra
  <2> QED BY <1>t, <2>1, <2>2, <2>4, RetryKept
<1>13. ASSUME NEW w \in Worker, ReadForRecovery(w) PROVE RetryInv'
  BY <1>13, <1>t, ReadKeepsExtra DEF ReadForRecovery, Op
<1>14. CASE ReadForCancel \/ ReadForResume
  BY <1>14, <1>t, ReadKeepsExtra DEF ReadForCancel, ReadForResume, Resumable, Op
<1>15. ASSUME NEW w \in Worker, CommitRecovery(w) PROVE RetryInv'
  BY <1>15, <1>t, CommitKeepsRetry DEF CommitRecovery
<1>16. CASE CommitRequest
  BY <1>16, <1>t, CommitKeepsRetry DEF CommitRequest
<1>11. QED
  BY <1>1, <1>2, <1>3, <1>4, <1>5, <1>6, <1>7, <1>8, <1>9, <1>10, <1>12, <1>13, <1>14, <1>15,
     <1>16
     DEF Next, Advance, ClaimJobForPlanning, CheckPlan, StartPartition,
         StopPartition, FailPartition, ClaimJobForFinalization, CheckFinal,
         AssembleManifest, PublishManifest, FailFinalization, StopJob,
         ExpireJobLease, Restart, vars

\* Whatever crashes, lease overruns, resumes and stale commits happen, a partition
\* is started at most MaxAttempts times, once more for each resume, and once more
\* for each transaction that was overtaken (recover_stale_leases, claim_partition).
THEOREM RetriesBounded == Spec => []AttemptsBounded
<1>1. RetryInv => AttemptsBounded
  <2> SUFFICES ASSUME RetryInv, NEW p \in Part
               PROVE  part[p].attempts <= MaxAttempts + resumes + late.count
    BY DEF AttemptsBounded
  <2>1. /\ RetryLeft(part[p], Extra) /\ part[p].attempts \in Nat
        /\ Cardinality(late.open) \in Nat /\ resumes \in Nat /\ late.count \in Nat
    BY ExtraType DEF RetryInv, TypeOK, PartRow
  <2> QED BY <2>1, PipelineAssumption DEF RetryLeft, Extra, PipelineAssumption
<1>2. QED
  BY RetryInit, RetryNext, <1>1, PTL DEF Spec

-----------------------------------------------------------------------------
(* Leases.                                                                 *)

LeaseInv == TypeOK /\ ClaimedHasLease /\ \A t \in late.open : WithStatus(t)

LEMMA LateNext ==
    ASSUME TypeOK, \A t \in late.open : WithStatus(t), [Next]_vars
    PROVE  \A t \in late'.open : WithStatus(t)
<1>1. ASSUME late'.open \subseteq late.open PROVE \A t \in late'.open : WithStatus(t)
  BY <1>1
<1>2. ASSUME NEW t, late' = [late EXCEPT !.open = @ \ {t}] PROVE late'.open \subseteq late.open
  BY <1>2 DEF TypeOK
<1>3. ASSUME NEW w \in Worker, Crash(w) PROVE late'.open \subseteq late.open
  BY <1>3 DEF Crash, TypeOK
<1>4. ASSUME NEW op \in Op, NEW by \in Worker \cup {NoPart}, ReadOnly(op, by),
             op = "resume" => job.status \in {"failed", "cancelled"}
      PROVE  \A t \in late'.open : WithStatus(t)
  BY <1>4, PendingType
<1>5. ASSUME NEW w \in Worker, ReadForRecovery(w) PROVE \A t \in late'.open : WithStatus(t)
  BY <1>4, <1>5 DEF ReadForRecovery, Op
<1>6. ASSUME ReadForCancel \/ ReadForResume PROVE \A t \in late'.open : WithStatus(t)
  BY <1>4, <1>6 DEF ReadForCancel, ReadForResume, Resumable, Op
<1>7. ASSUME NEW w \in Worker, CommitRecovery(w) \/ CommitRequest
      PROVE  late'.open \subseteq late.open
  BY <1>2, <1>7 DEF CommitRecovery, CommitRequest, CommitLate
<1>8. ASSUME CommitRequest PROVE late'.open \subseteq late.open
  BY <1>2, <1>8 DEF CommitRequest, CommitLate
<1>9. ASSUME late' = late PROVE late'.open \subseteq late.open
  BY <1>9
<1>10. ASSUME NEW w \in Worker,
              \/ RecoverStaleLeases(w) \/ ClaimJobForPlanning(w) \/ CheckPlan(w) \/ PlanJob(w)
              \/ ClaimPartition(w) \/ StartPartition(w) \/ CommitMesh(w) \/ CountCompleted(w)
              \/ CompletePartition(w) \/ StopPartition(w) \/ FailPartition(w)
              \/ ClaimJobForFinalization(w) \/ CheckFinal(w) \/ AssembleManifest(w)
              \/ PublishManifest(w) \/ FailFinalization(w) \/ StopJob(w) \/ Restart(w)
       PROVE  late' = late
  BY <1>10
     DEF RecoverStaleLeases, ClaimJobForPlanning, CheckPlan, PlanJob, ClaimPartition,
         StartPartition, CommitMesh, CountCompleted, CompletePartition, StopPartition,
         FailPartition, GiveUpPartition, ClaimJobForFinalization, CheckFinal, AssembleManifest,
         PublishManifest, FailFinalization, StopJob, Restart
<1>11. CASE CancelJob \/ ResumeJob \/ (\E p \in Part : ExpirePartLease(p)) \/ ExpireJobLease
  BY <1>1, <1>11 DEF CancelJob, ResumeJob, ExpirePartLease, ExpireJobLease
<1>12. CASE UNCHANGED vars
  BY <1>1, <1>12 DEF vars
<1> QED
  BY <1>1, <1>3, <1>5, <1>6, <1>7, <1>8, <1>9, <1>10, <1>11, <1>12 DEF Next, Advance

\* What commits late claims nothing, and gives up no lease of a claim it leaves.
LEMMA CommitKeepsLeases ==
    ASSUME LeaseInv, NEW t \in late.open, CommitLate(t)
    PROVE  ClaimedHasLease'
<1>t. TypeOK /\ t \in Txn /\ WithStatus(t)
  BY DEF LeaseInv, TypeOK
<1>u. t.job \in JobUpdate /\ \A p \in Part : t.part[p] \in PartUpdate
  BY <1>t DEF Txn
<1>1. job'.status = "planning" => job'.lease # "none"
  <2> SUFFICES ASSUME job'.status = "planning" PROVE job'.lease # "none"
    OBVIOUS
  <2>1. /\ job'.status = Put(t.job.status, job.status)
        /\ job'.lease = Put(t.job.lease, job.lease)
    BY <1>t, CommitFields
  <2>2. t.job.status = {}
    <3>1. t.job.status # {} => Put(t.job.status, job.status) \in t.job.status
      BY DEF Put
    <3> QED BY <1>u, <2>1, <3>1 DEF JobUpdate
  <2>3. job'.status = job.status /\ job'.lease = job.lease
    BY <1>t, <2>1, <2>2 DEF Put, WithStatus
  <2> QED BY <2>3 DEF LeaseInv, ClaimedHasLease
<1>2. ASSUME NEW p \in Part, part'[p].status = "running" PROVE part'[p].lease # "none"
  <2>1. /\ part'[p].status = Put(t.part[p].status, part[p].status)
        /\ part'[p].lease = Put(t.part[p].lease, part[p].lease)
    BY <1>t, CommitFields
  <2>2. t.part[p].status = {}
    <3>1. t.part[p].status # {} => Put(t.part[p].status, part[p].status) \in t.part[p].status
      BY DEF Put
    <3> QED BY <1>u, <1>2, <2>1, <3>1 DEF PartUpdate
  <2>3. part'[p].status = part[p].status /\ part'[p].lease = part[p].lease
    BY <1>t, <2>1, <2>2 DEF Put, WithStatus
  <2> QED BY <1>2, <2>3 DEF LeaseInv, ClaimedHasLease, Running
<1> QED BY <1>1, <1>2 DEF ClaimedHasLease, Running

LEMMA LeaseNext == LeaseInv /\ [Next]_vars => LeaseInv'
<1> SUFFICES ASSUME LeaseInv, [Next]_vars PROVE LeaseInv'
  OBVIOUS
<1>t. TypeOK /\ TypeOK'
  BY TypeNext DEF LeaseInv
<1>l. \A t \in late'.open : WithStatus(t)
  BY LateNext DEF LeaseInv
<1> SUFFICES ClaimedHasLease'
  BY <1>t, <1>l DEF LeaseInv
<1> USE DEF LeaseInv, ClaimedHasLease, Running
<1>1. ASSUME NEW w \in Worker, RecoverStaleLeases(w) PROVE ClaimedHasLease'
  <2>1. RecoveredJob(job, part).status = "planning" => RecoveredJob(job, part).lease # "none"
    BY <1>t DEF RecoveredJob, TypeOK, JobRow, ACTIVE_STATUSES, TERMINAL_STATUSES
  <2>2. ASSUME NEW p \in Part, RecoveredPart(job, part, p).status = "running"
        PROVE  RecoveredPart(job, part, p).lease # "none"
    <3>1. CASE p \in SpentParts(part)
      BY <3>1, <2>2, <1>t DEF RecoveredPart, TypeOK, PartRow
    <3>2. CASE p \in StaleParts(part) \ SpentParts(part)
      BY <3>2, <2>2, <1>t DEF RecoveredPart, TypeOK, PartRow, SpentParts
    <3>3. CASE p \notin StaleParts(part)
      BY <3>3, <2>2, <1>t DEF RecoveredPart, TypeOK, PartRow, SpentParts
    <3>4. QED
      BY <3>1, <3>2, <3>3
  <2>3. QED
    BY <1>1, <2>1, <2>2 DEF RecoverStaleLeases
<1>2. ASSUME NEW w \in Worker,
             \/ ClaimJobForPlanning(w) \/ CheckPlan(w)
             \/ ClaimJobForFinalization(w) \/ PublishManifest(w)
             \/ FailFinalization(w) \/ StopJob(w)
      PROVE  ClaimedHasLease'
  BY <1>2, <1>t
     DEF ClaimJobForPlanning, CheckPlan, ClaimJobForFinalization,
         PublishManifest, FailFinalization, StopJob, TypeOK, JobRow
<1>3. ASSUME NEW w \in Worker, PlanJob(w) PROVE ClaimedHasLease'
  BY <1>3, <1>t DEF PlanJob, Rows, TypeOK, JobRow, PartRow
<1>4. ASSUME NEW w \in Worker, ClaimPartition(w) PROVE ClaimedHasLease'
  BY <1>4, <1>t DEF ClaimPartition, TypeOK, PartRow
<1>5. ASSUME NEW w \in Worker, CommitMesh(w) \/ CountCompleted(w)
      PROVE  ClaimedHasLease'
  BY <1>5, <1>t DEF CommitMesh, CountCompleted, TypeOK, PartRow
<1>6. ASSUME NEW w \in Worker, CompletePartition(w) PROVE ClaimedHasLease'
  BY <1>6, <1>t DEF CompletePartition, TypeOK, PartRow, JobRow
<1>7. ASSUME NEW w \in Worker, NEW s \in {"failed", "cancelled"},
             GiveUpPartition(w, s)
      PROVE  ClaimedHasLease'
  BY <1>7, <1>t DEF GiveUpPartition, Flush, TypeOK, PartRow, JobRow
<1>8. CASE CancelJob
  <2>1. \A p \in Part : part'[p].status = "running" => part'[p] = part[p]
    BY <1>8, <1>t DEF CancelJob, CancelledPart, TypeOK, PartRow
  <2>2. job'.status = "planning" => job.status = "planning" /\ job'.lease = job.lease
    BY <1>8, <1>t DEF CancelJob, CancelledJob, TypeOK, JobRow
  <2>3. QED
    BY <2>1, <2>2
<1>9. CASE ResumeJob
  <2>1. \A p \in Part : part'[p].status # "running"
    BY <1>9, <1>t DEF ResumeJob, Requeued, TypeOK, PartRow
  <2>2. job'.status \in {"queued", "running"}
    BY <1>9, <1>t DEF ResumeJob, ResumedJob, TypeOK, JobRow
  <2>3. QED
    BY <2>1, <2>2
<1>10. ASSUME NEW p \in Part, ExpirePartLease(p) PROVE ClaimedHasLease'
  BY <1>10, <1>t DEF ExpirePartLease, TypeOK, PartRow
<1>11. CASE ExpireJobLease
  BY <1>11, <1>t DEF ExpireJobLease, TypeOK, JobRow
<1>12. ASSUME UNCHANGED <<part, job>> PROVE ClaimedHasLease'
  BY <1>12
<1>14. ASSUME NEW w \in Worker, CommitRecovery(w) PROVE ClaimedHasLease'
  BY <1>14, CommitKeepsLeases DEF CommitRecovery
<1>15. CASE CommitRequest
  BY <1>15, CommitKeepsLeases DEF CommitRequest
<1>13. QED
  BY <1>1, <1>2, <1>3, <1>4, <1>5, <1>6, <1>7, <1>8, <1>9, <1>10, <1>11, <1>12, <1>14, <1>15
     DEF Next, Advance, StartPartition, StopPartition, FailPartition,
         CheckFinal, AssembleManifest, Crash, Restart, ReadForRecovery, ReadForCancel,
         ReadForResume, vars

\* No claim is ever without a lease, so recover_stale_leases can take back
\* every partition and every planning whose worker is gone.
THEOREM ClaimsHaveLeases == Spec => []ClaimedHasLease
<1>1. Init => LeaseInv
  BY TypeInit DEF Init, LeaseInv, ClaimedHasLease, Running
<1>2. LeaseInv => ClaimedHasLease
  BY DEF LeaseInv
<1>3. QED
  BY <1>1, <1>2, LeaseNext, PTL DEF Spec

-----------------------------------------------------------------------------
(* What a hostile environment cannot take away: leases run out under live  *)
(* workers, and users resume while workers are busy.                       *)

\* What a worker is about to claim of a partition or to publish is in storage.
WorkerStored(w) ==
    /\ worker[w].pc = "save" => worker[w].part \in stored
    /\ worker[w].pc \in {"assemble", "publish"} =>
          worker[w].rows # {} /\ worker[w].rows \subseteq stored
    /\ worker[w].pc = "publish" => manifest # {}

StoredInv ==
    /\ TypeOK
    /\ Completed \subseteq stored
    /\ \A w \in Worker : WorkerStored(w)
    /\ ListedIsStored

\* The places at which WorkerStored asks for something.
Pending == {"save", "assemble", "publish"}

\* Nothing is ever removed from storage, and a manifest is replaced by another.
StorageGrows == stored \subseteq stored' /\ (manifest # {} => manifest' # {})

\* One worker moves: the others keep what they had in storage.
LEMMA StoredStep ==
    ASSUME StoredInv, StorageGrows, NEW w \in Worker, NEW row,
           worker' = [worker EXCEPT ![w] = row],
           row.pc \in Pending => WorkerStored(w)'
    PROVE  \A v \in Worker : WorkerStored(v)'
<1>1. TAKE v \in Worker
<1>2. CASE v = w
  <2>1. worker'[w] = row
    BY DEF StoredInv, TypeOK
  <2>2. CASE row.pc \in Pending
    BY <1>2, <2>2
  <2>3. CASE row.pc \notin Pending
    BY <1>2, <2>1, <2>3 DEF Pending, WorkerStored
  <2> QED BY <2>2, <2>3
<1>3. CASE v # w
  <2>1. worker'[v] = worker[v] /\ WorkerStored(v)
    BY <1>3 DEF StoredInv, TypeOK
  <2> QED BY <2>1 DEF WorkerStored, StorageGrows
<1> QED BY <1>2, <1>3

LEMMA StoredIdle ==
    ASSUME StoredInv, StorageGrows, NEW w \in Worker, NEW pc, pc \notin Pending, Goto(w, pc)
    PROVE  \A v \in Worker : WorkerStored(v)'
BY StoredStep DEF Goto, At

LEMMA StoredNext == StoredInv /\ [Next]_vars => StoredInv'
<1> SUFFICES ASSUME StoredInv, [Next]_vars PROVE StoredInv'
  OBVIOUS
<1>t. TypeOK /\ TypeOK'
  BY TypeNext DEF StoredInv
<1>p. /\ "idle" \notin Pending /\ "seekPlan" \notin Pending /\ "seekPart" \notin Pending
      /\ "seekFinal" \notin Pending /\ "down" \notin Pending /\ "planCheck" \notin Pending
      /\ "planStop" \notin Pending /\ "plan" \notin Pending /\ "check" \notin Pending
      /\ "finalStop" \notin Pending /\ "recover" \notin Pending
  BY DEF Pending
\* Most steps leave the stores alone, build nothing and complete no job.
<1>q. ASSUME UNCHANGED <<stored, manifest>>, Completed' \subseteq Completed,
             job'.status = "completed" => job.status = "completed",
             \A v \in Worker : WorkerStored(v)'
      PROVE  StoredInv'
  BY <1>q, <1>t DEF StoredInv, ListedIsStored
<1>r. ASSUME UNCHANGED <<stored, manifest>> PROVE StorageGrows
  BY <1>r DEF StorageGrows
<1>s. ASSUME UNCHANGED part PROVE Completed' \subseteq Completed
  BY <1>s DEF Completed
<1>1. ASSUME NEW w \in Worker, RecoverStaleLeases(w) PROVE StoredInv'
  <2>1. \A p \in Part :
          RecoveredPart(job, part, p).status = "completed" => part[p].status = "completed"
    BY <1>t DEF RecoveredPart, TypeOK, PartRow
  <2>2. Completed' \subseteq Completed
    BY <1>1, <2>1 DEF RecoverStaleLeases, Completed
  <2>3. RecoveredJob(job, part).status = "completed" => job.status = "completed"
    BY <1>t DEF RecoveredJob, TypeOK, JobRow
  <2>4. \A v \in Worker : WorkerStored(v)'
    BY <1>1, <1>p, <1>r, StoredIdle DEF RecoverStaleLeases
  <2> QED BY <1>1, <1>q, <2>2, <2>3, <2>4 DEF RecoverStaleLeases
<1>2. ASSUME NEW w \in Worker, ClaimJobForPlanning(w) \/ CheckPlan(w) \/ ClaimJobForFinalization(w)
                                 \/ StopJob(w) \/ Crash(w) \/ Restart(w) \/ ReadForRecovery(w)
      PROVE  StoredInv'
  <2>1. UNCHANGED <<part, stored, manifest>>
    BY <1>2 DEF ClaimJobForPlanning, CheckPlan, ClaimJobForFinalization, StopJob, Crash, Restart,
                ReadForRecovery
  <2>2. job'.status = "completed" => job.status = "completed"
    BY <1>2, <1>t DEF ClaimJobForPlanning, CheckPlan, ClaimJobForFinalization, StopJob, Crash,
                      Restart, ReadForRecovery, TypeOK, JobRow
  <2>3. \A v \in Worker : WorkerStored(v)'
    BY <1>2, <1>p, <1>r, <2>1, StoredIdle
       DEF ClaimJobForPlanning, CheckPlan, ClaimJobForFinalization, StopJob, Crash, Restart,
           ReadForRecovery
  <2> QED BY <1>q, <1>s, <2>1, <2>2, <2>3
<1>3. ASSUME NEW w \in Worker, PlanJob(w) PROVE StoredInv'
  <2>1. Completed' \subseteq Completed
    BY <1>3, <1>t DEF PlanJob, Completed, TypeOK, PartRow
  <2>2. job'.status = "completed" => job.status = "completed"
    BY <1>3, <1>t DEF PlanJob, TypeOK, JobRow
  <2>3. \A v \in Worker : WorkerStored(v)'
    BY <1>3, <1>p, <1>r, StoredIdle DEF PlanJob
  <2> QED BY <1>3, <1>q, <2>1, <2>2, <2>3 DEF PlanJob
<1>4. ASSUME NEW w \in Worker, ClaimPartition(w) PROVE StoredInv'
  <2>1. Completed' \subseteq Completed /\ UNCHANGED <<job, stored, manifest>>
    BY <1>4, <1>t DEF ClaimPartition, Completed, TypeOK, PartRow
  <2>2. ASSUME NEW p \in Part, worker' = [worker EXCEPT ![w] = [At("start") EXCEPT !.part = p]]
        PROVE  \A v \in Worker : WorkerStored(v)'
    BY <1>r, <2>1, <2>2, StoredStep DEF At, Pending
  <2>3. \A v \in Worker : WorkerStored(v)'
    BY <1>4, <1>p, <1>r, <2>1, <2>2, StoredIdle DEF ClaimPartition
  <2> QED BY <1>q, <2>1, <2>3
<1>5. ASSUME NEW w \in Worker, StartPartition(w) \/ CommitMesh(w) PROVE StoredInv'
  <2>1. Completed' \subseteq Completed /\ UNCHANGED <<job, stored, manifest>>
    BY <1>5, <1>t DEF StartPartition, CommitMesh, Completed, TypeOK, PartRow
  <2>2. /\ worker'[w].pc \in {"stopPart", "build"}
        /\ \A v \in Worker : v # w => worker'[v] = worker[v]
    BY <1>5, <1>t DEF StartPartition, CommitMesh, Reload, TypeOK, WorkerState
  <2>3. \A v \in Worker : WorkerStored(v)'
    BY <2>1, <2>2 DEF WorkerStored, StoredInv
  <2> QED BY <1>q, <2>1, <2>3
<1>6. ASSUME NEW w \in Worker, CountCompleted(w) PROVE StoredInv'
  <2>1. /\ Completed' \subseteq Completed /\ UNCHANGED <<job, manifest>>
        /\ stored' = stored \cup {worker[w].part}
    BY <1>6, <1>t DEF CountCompleted, Completed, TypeOK, PartRow
  <2>2. /\ worker'[w].pc = "save" /\ worker'[w].part = worker[w].part
        /\ \A v \in Worker : v # w => worker'[v] = worker[v]
    BY <1>6, <1>t DEF CountCompleted, TypeOK, WorkerState
  <2>3. \A v \in Worker : WorkerStored(v)'
    BY <2>1, <2>2 DEF WorkerStored, StoredInv
  <2> QED BY <1>t, <2>1, <2>3 DEF StoredInv, ListedIsStored
<1>7. ASSUME NEW w \in Worker, CompletePartition(w) PROVE StoredInv'
  <2>1. UNCHANGED <<stored, manifest>> /\ job'.status = job.status
    BY <1>7, <1>t DEF CompletePartition, TypeOK, JobRow
  <2>2. worker[w].part \in stored
    BY <1>7 DEF CompletePartition, StoredInv, WorkerStored
  <2>3. Completed' \subseteq Completed \cup {worker[w].part}
    BY <1>7, <1>t DEF CompletePartition, Completed, TypeOK
  <2>4. \A v \in Worker : WorkerStored(v)'
    BY <1>7, <1>p, <1>r, <2>1, StoredIdle DEF CompletePartition
  <2> QED BY <1>t, <2>1, <2>2, <2>3, <2>4 DEF StoredInv, ListedIsStored
<1>8. ASSUME NEW w \in Worker, NEW s \in {"failed", "cancelled"}, GiveUpPartition(w, s)
      PROVE  StoredInv'
  <2>1. Completed' \subseteq Completed
    BY <1>8, <1>t DEF GiveUpPartition, Completed, TypeOK, PartRow
  <2>2. job'.status = "completed" => job.status = "completed"
    BY <1>8, <1>t DEF GiveUpPartition, Flush, TypeOK, JobRow
  <2>3. \A v \in Worker : WorkerStored(v)'
    BY <1>8, <1>p, <1>r, StoredIdle DEF GiveUpPartition
  <2> QED BY <1>8, <1>q, <2>1, <2>2, <2>3 DEF GiveUpPartition
<1>9. ASSUME NEW w \in Worker, CheckFinal(w) PROVE StoredInv'
  <2>1. UNCHANGED <<job, part, stored, manifest>>
    BY <1>9 DEF CheckFinal
  <2>2. ASSUME Rows # {}, Rows = Completed,
               worker' = [worker EXCEPT ![w] = [At("assemble") EXCEPT !.rows = Rows]]
        PROVE  \A v \in Worker : WorkerStored(v)'
    <3> DEFINE row == [At("assemble") EXCEPT !.rows = Rows]
    <3>1. row.pc = "assemble" /\ row.rows = Rows
      BY DEF At
    <3>2. worker'[w] = row
      BY <2>2, <1>t DEF TypeOK
    <3> HIDE DEF row
    <3>3. WorkerStored(w)'
      BY <2>1, <2>2, <3>1, <3>2 DEF StoredInv, WorkerStored
    <3>4. worker' = [worker EXCEPT ![w] = row]
      BY <2>2 DEF row
    <3> QED BY <1>r, <2>1, <3>3, <3>4, StoredStep
  <2>3. \A v \in Worker : WorkerStored(v)'
    BY <1>9, <1>p, <1>r, <2>1, <2>2, StoredIdle DEF CheckFinal
  <2> QED BY <1>q, <1>s, <2>1, <2>3
<1>10. ASSUME NEW w \in Worker, AssembleManifest(w) PROVE StoredInv'
  <2>1. /\ UNCHANGED <<job, part, stored>> /\ manifest' = worker[w].rows
        /\ worker[w].rows # {} /\ worker[w].rows \subseteq stored
    BY <1>10 DEF AssembleManifest, StoredInv, WorkerStored
  <2>2. /\ worker'[w].pc = "publish" /\ worker'[w].rows = worker[w].rows
        /\ \A v \in Worker : v # w => worker'[v] = worker[v]
    BY <1>10, <1>t DEF AssembleManifest, TypeOK, WorkerState
  <2>3. \A v \in Worker : WorkerStored(v)'
    BY <2>1, <2>2 DEF WorkerStored, StoredInv
  <2> QED BY <1>t, <2>1, <2>3 DEF StoredInv, ListedIsStored, Completed
<1>11. ASSUME NEW w \in Worker, PublishManifest(w) PROVE StoredInv'
  <2>1. UNCHANGED <<part, stored, manifest>> /\ manifest # {}
    BY <1>11 DEF PublishManifest, StoredInv, WorkerStored
  <2>2. \A v \in Worker : WorkerStored(v)'
    BY <1>11, <1>p, <1>r, <2>1, StoredIdle DEF PublishManifest
  <2> QED BY <1>t, <2>1, <2>2 DEF StoredInv, ListedIsStored, Completed
<1>12. ASSUME NEW w \in Worker, FailFinalization(w) PROVE StoredInv'
  <2>1. UNCHANGED <<part, stored, manifest>> /\ job'.status # "completed"
    BY <1>12, <1>t DEF FailFinalization, TypeOK, JobRow
  <2>2. \A v \in Worker : WorkerStored(v)'
    BY <1>12, <1>p, <1>r, <2>1, StoredIdle DEF FailFinalization
  <2> QED BY <1>q, <1>s, <2>1, <2>2
<1>13. ASSUME worker' = worker, UNCHANGED <<stored, manifest>> PROVE \A v \in Worker : WorkerStored(v)'
  BY <1>13 DEF StoredInv, WorkerStored
<1>14. CASE CancelJob
  <2>1. Completed' \subseteq Completed
    BY <1>14, <1>t DEF CancelJob, CancelledPart, Completed, TypeOK, PartRow
  <2>2. job'.status = "completed" => job.status = "completed"
    BY <1>14, <1>t DEF CancelJob, CancelledJob, TypeOK, JobRow
  <2> QED BY <1>13, <1>14, <1>q, <2>1, <2>2 DEF CancelJob
<1>15. CASE ResumeJob
  <2>1. Completed' \subseteq Completed
    BY <1>15, <1>t DEF ResumeJob, Requeued, Completed, TypeOK, PartRow
  <2>2. job'.status # "completed"
    BY <1>15, <1>t DEF ResumeJob, ResumedJob, TypeOK, JobRow
  <2> QED BY <1>13, <1>15, <1>q, <2>1, <2>2 DEF ResumeJob
<1>16. ASSUME NEW p \in Part, ExpirePartLease(p) PROVE StoredInv'
  <2>1. Completed' \subseteq Completed
    BY <1>16, <1>t DEF ExpirePartLease, Completed, TypeOK, PartRow
  <2> QED BY <1>13, <1>16, <1>q, <2>1 DEF ExpirePartLease
<1>17. CASE ExpireJobLease
  <2>1. job'.status = job.status
    BY <1>17, <1>t DEF ExpireJobLease, TypeOK, JobRow
  <2> QED BY <1>13, <1>17, <1>q, <1>s, <2>1 DEF ExpireJobLease
<1>18. CASE UNCHANGED vars
  BY <1>13, <1>18, <1>q, <1>s DEF vars
<1>19. ASSUME NEW t \in late.open, CommitLate(t), \A v \in Worker : WorkerStored(v)'
       PROVE  StoredInv'
  <2>0. t \in Txn
    BY <1>t DEF TypeOK
  <2>1. /\ job'.status \in {job.status, "queued", "running", "failed", "cancelled"}
        /\ \A p \in Part :
              part'[p].status \in {part[p].status, "queued", "failed", "cancelled"}
    BY <1>t, <1>19, <2>0, CommitFields
  <2>2. Completed' \subseteq Completed /\ (job'.status = "completed" => job.status = "completed")
    BY <2>1 DEF Completed
  <2>3. UNCHANGED <<stored, manifest>>
    BY <1>19 DEF CommitLate
  <2> QED BY <1>q, <1>19, <2>2, <2>3
<1>20. ASSUME NEW w \in Worker, CommitRecovery(w) PROVE StoredInv'
  <2>1. UNCHANGED <<stored, manifest>> /\ Goto(w, "seekPlan")
    BY <1>20 DEF CommitRecovery, CommitLate
  <2>2. \A v \in Worker : WorkerStored(v)'
    BY <1>p, <1>r, <2>1, StoredIdle
  <2> QED BY <1>19, <1>20, <2>2 DEF CommitRecovery
<1>21. CASE CommitRequest
  <2>1. \A v \in Worker : WorkerStored(v)'
    BY <1>13, <1>21 DEF CommitRequest, CommitLate
  <2> QED BY <1>19, <1>21, <2>1 DEF CommitRequest
<1>22. CASE ReadForCancel \/ ReadForResume
  <2>1. UNCHANGED <<job, part, worker, stored, manifest>>
    BY <1>22 DEF ReadForCancel, ReadForResume
  <2> QED BY <1>13, <1>q, <1>s, <2>1
<1> QED
  BY <1>1, <1>2, <1>3, <1>4, <1>5, <1>6, <1>7, <1>8, <1>9, <1>10, <1>11, <1>12, <1>14, <1>15,
     <1>16, <1>17, <1>18, <1>20, <1>21, <1>22 DEF Next, Advance, StopPartition, FailPartition

\* However slow the workers, eager the users and late the commits: the manifest lists only
\* partitions whose objects are in storage, and a completed job has a manifest.
THEOREM ListedIsAlwaysStored == Spec => []ListedIsStored
<1>1. Init => StoredInv
  BY TypeInit DEF Init, At, StoredInv, WorkerStored, ListedIsStored, Completed
<1>2. StoredInv => ListedIsStored
  BY DEF StoredInv
<1> QED BY <1>1, <1>2, StoredNext, PTL DEF Spec

\* A job that waits for its plan, or is being planned, has no partitions, and a
\* worker is only ever inside a partition that was planned.
PlannedInv ==
    /\ TypeOK
    /\ UnplannedHasNoRows
    /\ \A w \in Worker : worker[w].pc \in PartPc => worker[w].part \in Rows

\* Partition rows are inserted and never deleted.
LEMMA RowsStay ==
    ASSUME TypeOK, [Next]_vars
    PROVE  Rows \subseteq Rows'
<1> SUFFICES ASSUME NEW p \in Part, part[p].status # "absent" PROVE part'[p].status # "absent"
  BY DEF Rows
<1> USE DEF TypeOK, PartRow
<1>1. ASSUME NEW w \in Worker, RecoverStaleLeases(w) PROVE part'[p].status # "absent"
  <2>1. RecoveredPart(job, part, p).status # "absent"
    BY NewPartFields DEF NewPart, Op
  <2> QED BY <1>1, <2>1 DEF RecoverStaleLeases
<1>2. ASSUME NEW w \in Worker, PlanJob(w) PROVE part'[p].status # "absent"
  BY <1>2 DEF PlanJob
<1>3. ASSUME NEW w \in Worker, ClaimPartition(w) PROVE part'[p].status # "absent"
  BY <1>3 DEF ClaimPartition
<1>4. ASSUME NEW w \in Worker, CommitMesh(w) \/ CountCompleted(w)
      PROVE  part'[p].status # "absent"
  <2>1. part' = [part EXCEPT ![worker[w].part].lease = "live"]
    BY <1>4 DEF CommitMesh, CountCompleted
  <2> QED BY <2>1
<1>5. ASSUME NEW w \in Worker,
             CompletePartition(w) \/ StopPartition(w) \/ FailPartition(w)
      PROVE  part'[p].status # "absent"
  <2>1. ASSUME CompletePartition(w) PROVE part'[p].status # "absent"
    <3>1. CASE p = worker[w].part
      BY <2>1, <3>1 DEF CompletePartition
    <3>2. CASE p # worker[w].part
      BY <2>1, <3>2 DEF CompletePartition
    <3> QED BY <3>1, <3>2
  <2>2. ASSUME NEW s \in {"failed", "cancelled"}, GiveUpPartition(w, s)
        PROVE  part'[p].status # "absent"
    <3>1. CASE p = worker[w].part
      BY <2>2, <3>1 DEF GiveUpPartition
    <3>2. CASE p # worker[w].part
      BY <2>2, <3>2 DEF GiveUpPartition
    <3> QED BY <3>1, <3>2
  <2> QED BY <1>5, <2>1, <2>2 DEF StopPartition, FailPartition
<1>6. CASE CancelJob
  BY <1>6, NewPartFields DEF CancelJob, NewPart, Op
<1>7. CASE ResumeJob
  BY <1>7 DEF ResumeJob, Requeued
<1>8. ASSUME NEW q \in Part, ExpirePartLease(q) PROVE part'[p].status # "absent"
  BY <1>8 DEF ExpirePartLease
<1>9. ASSUME UNCHANGED part PROVE part'[p].status # "absent"
  BY <1>9
<1>10. ASSUME NEW t \in late.open, CommitLate(t) PROVE part'[p].status # "absent"
  BY <1>10, CommitFields
<1> QED
  BY <1>1, <1>2, <1>3, <1>4, <1>5, <1>6, <1>7, <1>8, <1>9, <1>10
     DEF Next, Advance, ClaimJobForPlanning, CheckPlan, StartPartition, ClaimJobForFinalization,
         CheckFinal, AssembleManifest, PublishManifest, FailFinalization, StopJob, Crash, Restart,
         ExpireJobLease, ReadForRecovery, ReadForCancel, ReadForResume, CommitRecovery,
         CommitRequest, vars

\* A worker inside a partition after a step was inside it before, or claimed it.
LEMMA InsidePlanned ==
    ASSUME PlannedInv, [Next]_vars, NEW w \in Worker, worker'[w].pc \in PartPc
    PROVE  worker'[w].part \in Rows'
<1>t. TypeOK /\ Rows \subseteq Rows'
  BY RowsStay DEF PlannedInv
<1>1. ASSUME worker[w].pc \in PartPc, worker'[w].part = worker[w].part
      PROVE  worker'[w].part \in Rows'
  BY <1>1, <1>t DEF PlannedInv
<1>2. ASSUME NEW v \in Worker, NEW pc, pc \notin PartPc, Goto(v, pc)
      PROVE  worker'[w].part \in Rows'
  BY <1>1, <1>2, <1>t DEF Goto, At, TypeOK
<1>3. ASSUME NEW v \in Worker, ClaimPartition(v) PROVE worker'[w].part \in Rows'
  <2>1. CASE v = w
    <3>1. PICK p \in Part : Claimable(p) /\ worker' = [worker EXCEPT ![v] = [At("start") EXCEPT !.part = p]]
      <4>1. CASE Goto(v, "seekFinal")
        BY <2>1, <4>1, <1>t DEF Goto, At, PartPc, TypeOK
      <4> QED BY <1>3, <4>1 DEF ClaimPartition
    <3>2. worker'[w].part = p /\ p \in Rows
      BY <2>1, <3>1, <1>t DEF Claimable, Rows, At, TypeOK
    <3> QED BY <3>2, <1>t
  <2>2. CASE v # w
    <3>1. worker'[w] = worker[w]
      BY <1>3, <1>t, <2>2 DEF ClaimPartition, Goto, TypeOK
    <3> QED BY <1>1, <3>1
  <2> QED BY <2>1, <2>2
<1>4. ASSUME NEW v \in Worker, StartPartition(v) \/ CommitMesh(v) \/ CountCompleted(v)
      PROVE  worker'[w].part \in Rows'
  <2>1. worker[w].pc \in PartPc /\ worker'[w].part = worker[w].part
    BY <1>4, <1>t DEF StartPartition, CommitMesh, CountCompleted, Reload, PartPc, TypeOK, WorkerState
  <2> QED BY <1>1, <2>1
<1>5. ASSUME NEW v \in Worker, CheckFinal(v) \/ AssembleManifest(v)
      PROVE  worker'[w].part \in Rows'
  <2>1. worker'[w] = worker[w]
    BY <1>5, <1>t DEF CheckFinal, AssembleManifest, Goto, At, PartPc, TypeOK, WorkerState
  <2> QED BY <1>1, <2>1
<1>6. ASSUME worker' = worker PROVE worker'[w].part \in Rows'
  BY <1>1, <1>6
<1>p. /\ "idle" \notin PartPc /\ "seekPlan" \notin PartPc /\ "seekPart" \notin PartPc
      /\ "seekFinal" \notin PartPc /\ "down" \notin PartPc /\ "planCheck" \notin PartPc
      /\ "planStop" \notin PartPc /\ "plan" \notin PartPc /\ "check" \notin PartPc
      /\ "recover" \notin PartPc
  BY DEF PartPc
<1>7. ASSUME NEW v \in Worker,
             \/ RecoverStaleLeases(v) \/ ReadForRecovery(v) \/ CommitRecovery(v)
             \/ ClaimJobForPlanning(v) \/ CheckPlan(v) \/ PlanJob(v)
      PROVE  worker'[w].part \in Rows'
  BY <1>2, <1>7, <1>p
     DEF RecoverStaleLeases, ReadForRecovery, CommitRecovery, ClaimJobForPlanning, CheckPlan,
         PlanJob
<1>8. ASSUME NEW v \in Worker,
             \/ CompletePartition(v) \/ StopPartition(v) \/ FailPartition(v)
             \/ ClaimJobForFinalization(v) \/ PublishManifest(v) \/ FailFinalization(v)
             \/ StopJob(v) \/ Crash(v) \/ Restart(v)
      PROVE  worker'[w].part \in Rows'
  BY <1>2, <1>8, <1>p
     DEF CompletePartition, StopPartition, FailPartition, GiveUpPartition,
         ClaimJobForFinalization, PublishManifest, FailFinalization, StopJob, Crash, Restart
<1>9. CASE \/ CancelJob \/ ReadForCancel \/ ResumeJob \/ ReadForResume \/ CommitRequest
           \/ (\E p \in Part : ExpirePartLease(p)) \/ ExpireJobLease
  BY <1>6, <1>9
     DEF CancelJob, ReadForCancel, ResumeJob, ReadForResume, CommitRequest, ExpirePartLease,
         ExpireJobLease
<1>10. CASE UNCHANGED vars
  BY <1>6, <1>10 DEF vars
<1> QED
  BY <1>3, <1>4, <1>5, <1>7, <1>8, <1>9, <1>10 DEF Next, Advance

\* When none may be overtaken, recoveries, cancels and resumes are single steps.
LEMMA NoneOvertaken ==
    ASSUME MaxOvertaken = 0, TypeOK
    PROVE  /\ \A w \in Worker : ~ReadForRecovery(w) /\ ~CommitRecovery(w)
           /\ ~ReadForCancel /\ ~ReadForResume /\ ~CommitRequest
<1>1. Txn = {}
  BY DEF Txn
<1>2. late.open = {} /\ late.count = 0
  BY <1>1 DEF TypeOK
<1> QED BY <1>2 DEF ReadForRecovery, CommitRecovery, ReadForCancel, ReadForResume, CommitRequest,
                    ReadOnly

LEMMA PlannedNext ==
    ASSUME MaxOvertaken = 0
    PROVE  PlannedInv /\ [Next]_vars => PlannedInv'
<1> SUFFICES ASSUME PlannedInv, [Next]_vars PROVE PlannedInv'
  OBVIOUS
<1>t. TypeOK /\ TypeOK'
  BY TypeNext DEF PlannedInv
<1>i. \A w \in Worker : worker'[w].pc \in PartPc => worker'[w].part \in Rows'
  BY InsidePlanned
<1> SUFFICES UnplannedHasNoRows'
  BY <1>t, <1>i DEF PlannedInv
\* No row is inserted, and the job was waiting or being planned before.
<1>q. ASSUME Rows' \subseteq Rows,
             job'.status \in {"queued", "planning"} => job.status \in {"queued", "planning"}
      PROVE  UnplannedHasNoRows'
  BY <1>q DEF PlannedInv, UnplannedHasNoRows
<1>s. ASSUME UNCHANGED part PROVE Rows' \subseteq Rows
  BY <1>s DEF Rows
<1>1. ASSUME NEW w \in Worker, RecoverStaleLeases(w) PROVE UnplannedHasNoRows'
  <2>1. \A p \in Part : part[p].status = "absent" => RecoveredPart(job, part, p).status = "absent"
    BY <1>t, NewPartFields DEF NewPart, Op
  <2>2. Rows' \subseteq Rows
    BY <1>1, <2>1 DEF RecoverStaleLeases, Rows
  <2>3. job'.status \in {"queued", "planning"} => job.status \in {"queued", "planning"}
    BY <1>1, <1>t DEF RecoverStaleLeases, RecoveredJob, TypeOK, JobRow
  <2> QED BY <1>q, <2>2, <2>3
<1>2. ASSUME NEW w \in Worker, ClaimJobForPlanning(w) \/ CheckPlan(w) \/ ClaimJobForFinalization(w)
                                 \/ PublishManifest(w) \/ FailFinalization(w) \/ StopJob(w)
      PROVE  UnplannedHasNoRows'
  <2>1. UNCHANGED part
    BY <1>2 DEF ClaimJobForPlanning, CheckPlan, ClaimJobForFinalization, PublishManifest,
                FailFinalization, StopJob
  <2>2. job'.status \in {"queued", "planning"} => job.status \in {"queued", "planning"}
    BY <1>2, <1>t DEF ClaimJobForPlanning, Plannable, CheckPlan, ClaimJobForFinalization,
                      PublishManifest, FailFinalization, StopJob, TypeOK, JobRow
  <2> QED BY <1>q, <1>s, <2>1, <2>2
<1>3. ASSUME NEW w \in Worker, PlanJob(w) PROVE UnplannedHasNoRows'
  <2>1. job'.status \in {"running", "failed"}
    BY <1>3, <1>t DEF PlanJob, TypeOK, JobRow
  <2> QED BY <2>1 DEF UnplannedHasNoRows
<1>4. ASSUME NEW w \in Worker, ClaimPartition(w) PROVE UnplannedHasNoRows'
  <2>1. Rows' \subseteq Rows /\ UNCHANGED job
    BY <1>4, <1>t DEF ClaimPartition, Claimable, Rows, TypeOK, PartRow
  <2> QED BY <1>q, <2>1
<1>5. ASSUME NEW w \in Worker, CommitMesh(w) \/ CountCompleted(w) PROVE UnplannedHasNoRows'
  <2>1. Rows' \subseteq Rows /\ UNCHANGED job
    BY <1>5, <1>t DEF CommitMesh, CountCompleted, Rows, TypeOK, PartRow
  <2> QED BY <1>q, <2>1
<1>6. ASSUME NEW w \in Worker, CompletePartition(w) PROVE UnplannedHasNoRows'
  <2>1. worker[w].part \in Rows
    BY <1>6 DEF CompletePartition, PlannedInv, PartPc
  <2>2. Rows' \subseteq Rows
    BY <1>6, <1>t, <2>1 DEF CompletePartition, Rows, TypeOK
  <2>3. job'.status = job.status
    BY <1>6, <1>t DEF CompletePartition, TypeOK, JobRow
  <2> QED BY <1>q, <2>2, <2>3
<1>7. ASSUME NEW w \in Worker, NEW s \in {"failed", "cancelled"}, GiveUpPartition(w, s),
             worker[w].pc \in PartPc
      PROVE  UnplannedHasNoRows'
  <2>1. worker[w].part \in Rows
    BY <1>7 DEF PlannedInv
  <2>2. Rows' \subseteq Rows
    BY <1>7, <1>t, <2>1 DEF GiveUpPartition, Rows, TypeOK
  <2>3. job'.status \in {"queued", "planning"} => job.status \in {"queued", "planning"}
    BY <1>7, <1>t DEF GiveUpPartition, Flush, TypeOK, JobRow
  <2> QED BY <1>q, <2>2, <2>3
<1>8. CASE CancelJob
  <2>1. Rows' \subseteq Rows
    BY <1>8, <1>t DEF CancelJob, CancelledPart, Rows, TypeOK, PartRow
  <2>2. job'.status \in {"queued", "planning"} => job.status \in {"queued", "planning"}
    BY <1>8, <1>t DEF CancelJob, CancelledJob, TypeOK, JobRow
  <2> QED BY <1>q, <2>1, <2>2
<1>9. CASE ResumeJob
  <2>1. Rows' \subseteq Rows
    BY <1>9, <1>t DEF ResumeJob, Requeued, Rows, TypeOK, PartRow
  <2>2. job'.status = IF Rows = {} THEN "queued" ELSE "running"
    BY <1>9, <1>t DEF ResumeJob, ResumedJob, Rows, TypeOK, JobRow
  <2> QED BY <2>1, <2>2 DEF UnplannedHasNoRows
<1>10. ASSUME NEW p \in Part, ExpirePartLease(p) PROVE UnplannedHasNoRows'
  <2>1. Rows' \subseteq Rows /\ UNCHANGED job
    BY <1>10, <1>t DEF ExpirePartLease, Rows, TypeOK, PartRow
  <2> QED BY <1>q, <2>1
<1>11. CASE ExpireJobLease
  <2>1. job'.status = job.status /\ UNCHANGED part
    BY <1>11, <1>t DEF ExpireJobLease, TypeOK, JobRow
  <2> QED BY <1>q, <1>s, <2>1
<1>12. ASSUME UNCHANGED <<job, part>> PROVE UnplannedHasNoRows'
  BY <1>12, <1>q, <1>s
<1> QED
  BY <1>1, <1>2, <1>3, <1>4, <1>5, <1>6, <1>7, <1>8, <1>9, <1>10, <1>11, <1>12, <1>t,
     NoneOvertaken
     DEF Next, Advance, StartPartition, StopPartition, FailPartition, PartPc,
         CheckFinal, AssembleManifest, Crash, Restart, vars

\* A model is cut into partitions only while the job has none: however slow the
\* workers and eager the users, no recovery, resumption or stale write of a worker
\* sends a planned job back to be planned, unless a recovery, cancel or resume is
\* overtaken between its reads and its commit.
THEOREM PlannedIsNeverReplanned ==
    ASSUME MaxOvertaken = 0
    PROVE  Spec => []UnplannedHasNoRows
<1>1. Init => PlannedInv
  BY TypeInit DEF Init, At, PlannedInv, UnplannedHasNoRows, Rows, PartPc
<1>2. PlannedInv => UnplannedHasNoRows
  BY DEF PlannedInv
<1> QED BY <1>1, <1>2, PlannedNext, PTL DEF Spec

-----------------------------------------------------------------------------
(* The quiet pipeline: no worker outlives its lease, nobody resumes a job  *)
(* that is still being built, and no recovery, cancel or resume is         *)
(* overtaken between its reads and its commit.                             *)

Quiet == ~SlowWorkers /\ ~EagerResume /\ MaxOvertaken = 0

\* The facts of QuietInv about one worker, and about the job.
WorkerInv(w) ==
    /\ \A p \in Part : Building(w, p) =>
          part[p].status = "running" /\ part[p].owner = w
    /\ worker[w].pc \in PartPc =>
          worker[w].part \in Part /\ part[worker[w].part].lease = "live"
    /\ worker[w].pc = "save" => worker[w].count <= Cardinality(Completed) + 1
    /\ worker[w].pc \in PlanPc =>
          /\ Rows = {}
          /\ job.status \in {"planning", "cancelled"}
          /\ job.status = "planning" => job.lease = "live"
    /\ worker[w].pc \in FinalPc =>
          /\ job.status \in {"finalizing", "cancelled"}
          /\ Rows # {} /\ Rows = Completed /\ job.total > 0
          /\ worker[w].pc \in {"assemble", "publish"} => worker[w].rows = Rows
          /\ worker[w].pc = "publish" => manifest = Rows

JobInv ==
    /\ UnplannedHasNoRows /\ TotalIsRows /\ DoneNeverAhead
    /\ FinalizeOnlyComplete /\ CompletedIsWhole

LEMMA QuietParts ==
    QuietInv <=> TypeOK /\ OneJobWorker /\ JobInv /\ \A w \in Worker : WorkerInv(w)
BY DEF QuietInv, JobInv, WorkerInv, OneBuilder, BuilderHoldsLease, PlannerOwnsJob,
       FinalizerOwnsJob, CountNeverAhead

\* A worker outside its units of work has no obligation.
LEMMA IdleWorker ==
    ASSUME NEW w \in Worker, worker[w].pc \in SeekPc \cup {"down"}
    PROVE  WorkerInv(w)
BY DEF WorkerInv, Building, SeekPc, PlanPc, PartPc, FinalPc

LEMMA SameSets ==
    ASSUME UNCHANGED part
    PROVE  Rows' = Rows /\ Completed' = Completed /\ Running' = Running
BY DEF Rows, Completed, Running

LEMMA GotoOne ==
    ASSUME TypeOK, NEW w \in Worker, NEW pc, Goto(w, pc)
    PROVE  /\ worker'[w] = At(pc) /\ worker'[w].pc = pc
           /\ \A v \in Worker \ {w} : worker'[v] = worker[v]
BY DEF TypeOK, Goto, At

\* A worker that becomes idle leaves the others' facts alone.
LEMMA Leave ==
    ASSUME QuietInv, TypeOK', JobInv', NEW w \in Worker,
           NEW pc \in SeekPc \cup {"down"}, Goto(w, pc),
           \A v \in Worker \ {w} : WorkerInv(v)'
    PROVE  QuietInv'
<1>1. /\ worker'[w].pc = pc
      /\ \A v \in Worker \ {w} : worker'[v] = worker[v]
  BY GotoOne DEF QuietInv
<1>2. WorkerInv(w)'
  BY <1>1 DEF WorkerInv, Building, SeekPc, PlanPc, PartPc, FinalPc
<1>3. OneJobWorker'
  BY <1>1 DEF OneJobWorker, QuietInv, SeekPc, PlanPc, FinalPc
<1>4. QED
  BY <1>2, <1>3 DEF QuietInv, JobInv, WorkerInv, OneBuilder, BuilderHoldsLease,
       PlannerOwnsJob, FinalizerOwnsJob, CountNeverAhead

LEMMA QuietAssemble ==
    ASSUME TypeOK', JobInv', OneJobWorker', \A v \in Worker : WorkerInv(v)'
    PROVE  QuietInv'
BY DEF QuietInv, JobInv, WorkerInv, OneBuilder, BuilderHoldsLease,
       PlannerOwnsJob, FinalizerOwnsJob, CountNeverAhead

\* Steps that touch neither rows nor manifest keep the facts of the job, and
\* those of every worker they do not move.
LEMMA SameJob ==
    ASSUME JobInv, UNCHANGED <<job, part, manifest>>
    PROVE  JobInv'
BY SameSets DEF JobInv, UnplannedHasNoRows, TotalIsRows, DoneNeverAhead,
       FinalizeOnlyComplete, CompletedIsWhole

LEMMA SameWorker ==
    ASSUME NEW v \in Worker, WorkerInv(v), worker'[v] = worker[v],
           UNCHANGED <<job, part, manifest>>
    PROVE  WorkerInv(v)'
BY SameSets DEF WorkerInv, Building

\* A builder's facts do not depend on the job row.
LEMMA SameBuilder ==
    ASSUME NEW v \in Worker, WorkerInv(v), worker'[v] = worker[v],
           worker[v].pc \notin PlanPc \cup FinalPc, UNCHANGED part
    PROVE  WorkerInv(v)'
BY SameSets DEF WorkerInv, Building

-----------------------------------------------------------------------------
(* Planning.                                                               *)

\* Recovery inserts, completes and takes back no row, and leaves alone the
\* rows whose lease is live.
LEMMA RecoveredRows ==
    ASSUME TypeOK, NEW w \in Worker, RecoverStaleLeases(w)
    PROVE  /\ Rows' = Rows /\ Completed' = Completed
           /\ \A p \in Part : part[p].status = "running" /\ part[p].lease = "live"
                 => part'[p] = part[p]
<1>1. \A p \in Part : part'[p] = RecoveredPart(job, part, p)
  BY DEF RecoverStaleLeases
<1>2. ASSUME NEW p \in Part
      PROVE  /\ (part'[p].status = "absent") <=> (part[p].status = "absent")
             /\ (part'[p].status = "completed") <=> (part[p].status = "completed")
             /\ part[p].status = "running" /\ part[p].lease = "live"
                  => part'[p] = part[p]
  <2>1. CASE p \in SpentParts(part)
    BY <2>1, <1>1 DEF RecoveredPart, SpentParts, StaleParts, Running, TypeOK, PartRow
  <2>2. CASE p \in StaleParts(part) \ SpentParts(part)
    BY <2>2, <1>1 DEF RecoveredPart, StaleParts, Running, TypeOK, PartRow
  <2>3. CASE p \notin StaleParts(part)
    BY <2>3, <1>1
       DEF RecoveredPart, SpentParts, Cancelling, Running, TypeOK, PartRow
  <2>4. QED
    BY <2>1, <2>2, <2>3
<1>3. QED
  BY <1>2 DEF Rows, Completed

LEMMA SpentNotBuilt == SpentParts(part) # {} => Rows # Completed
BY DEF SpentParts, StaleParts, Running, Rows, Completed

LEMMA RecoverQuiet ==
    ASSUME QuietInv, TypeOK', NEW w \in Worker, RecoverStaleLeases(w)
    PROVE  QuietInv'
<1>t. TypeOK /\ JobInv /\ OneJobWorker /\ \A v \in Worker : WorkerInv(v)
  BY QuietParts
<1>1. /\ job' = RecoveredJob(job, part) /\ manifest' = manifest /\ Goto(w, "seekPlan")
  BY DEF RecoverStaleLeases
<1>2. /\ Rows' = Rows /\ Completed' = Completed
      /\ \A p \in Part : part[p].status = "running" /\ part[p].lease = "live"
            => part'[p] = part[p]
  BY <1>t, RecoveredRows
<1>3. /\ job'.total = job.total /\ job'.done = job.done
      /\ job'.status \in {job.status, "cancelled", "failed", "queued"}
      /\ job'.status = "cancelled" /\ job.status # "cancelled" => Cancelling(job, part)
      /\ job'.status = "failed" /\ job.status # "failed" => SpentParts(part) # {}
      /\ job'.status = "queued" /\ job.status # "queued"
           => job.status = "planning" /\ job.lease = "expired"
      /\ job'.status = "planning" => job'.lease = job.lease
  BY <1>1, <1>t DEF RecoveredJob, Cancelling, TypeOK, JobRow, ACTIVE_STATUSES, TERMINAL_STATUSES
<1>4. JobInv'
  BY <1>t, <1>1, <1>2, <1>3, SpentNotBuilt
     DEF JobInv, UnplannedHasNoRows, TotalIsRows, DoneNeverAhead,
         FinalizeOnlyComplete, CompletedIsWhole
<1>5. ASSUME NEW v \in Worker \ {w} PROVE WorkerInv(v)'
  <2>1. worker'[v] = worker[v] /\ WorkerInv(v)
    BY <1>t, <1>1, GotoOne
  <2>2. \A p \in Part : Building(v, p)' <=> Building(v, p)
    BY <2>1 DEF Building
  <2>3. ASSUME NEW p \in Part, Building(v, p) PROVE part'[p] = part[p]
    BY <2>1, <2>3, <1>2 DEF WorkerInv, Building
  <2>4. SpentParts(part) # {} => worker[v].pc \notin PlanPc \cup FinalPc
    BY <2>1, SpentNotBuilt DEF WorkerInv, SpentParts, StaleParts, Running, Rows
  <2>5. worker[v].pc \in PlanPc \cup FinalPc =>
          /\ job'.status \in {job.status, "cancelled"}
          /\ job'.status = "planning" => job'.lease = job.lease
    BY <2>1, <2>4, <1>3 DEF WorkerInv, PlanPc, FinalPc
  <2>6. QED
    BY <2>1, <2>2, <2>3, <2>5, <1>1, <1>2, <1>3 DEF WorkerInv, Building
<1>6. QED
  BY <1>1, <1>4, <1>5, Leave DEF SeekPc

LEMMA ClaimPlanQuiet ==
    ASSUME QuietInv, TypeOK', NEW w \in Worker, ClaimJobForPlanning(w)
    PROVE  QuietInv'
<1>t. TypeOK /\ JobInv /\ OneJobWorker /\ \A v \in Worker : WorkerInv(v)
  BY QuietParts
<1>1. Rows' = Rows /\ Completed' = Completed /\ manifest' = manifest /\ part' = part
  BY SameSets DEF ClaimJobForPlanning
<1>2. CASE UNCHANGED job /\ Goto(w, "seekPart")
  <2>1. JobInv'
    BY <1>t, <1>1, <1>2 DEF JobInv, UnplannedHasNoRows, TotalIsRows, DoneNeverAhead,
         FinalizeOnlyComplete, CompletedIsWhole
  <2>2. ASSUME NEW v \in Worker \ {w} PROVE WorkerInv(v)'
    <3>1. worker'[v] = worker[v] /\ WorkerInv(v)
      BY <1>t, <1>2, GotoOne
    <3>2. QED
      BY <3>1, <1>1, <1>2 DEF WorkerInv, Building
  <2>3. QED
    BY <1>2, <2>1, <2>2, Leave DEF SeekPc
<1>3. CASE /\ Plannable /\ Goto(w, "planCheck")
           /\ job' = [job EXCEPT !.status = "planning", !.lease = "live"]
  <2>1. /\ job'.status = "planning" /\ job'.lease = "live"
        /\ job'.total = job.total /\ job'.done = job.done /\ job.status = "queued"
    BY <1>3, <1>t DEF Plannable, TypeOK, JobRow
  <2>2. JobInv'
    BY <1>t, <1>1, <2>1 DEF JobInv, UnplannedHasNoRows, TotalIsRows, DoneNeverAhead,
         FinalizeOnlyComplete, CompletedIsWhole
  <2>3. \A v \in Worker : worker[v].pc \notin PlanPc \cup FinalPc
    BY <1>t, <2>1 DEF WorkerInv
  <2>4. worker'[w].pc = "planCheck" /\ \A v \in Worker \ {w} : worker'[v] = worker[v]
    BY <1>3, <1>t, GotoOne
  <2>5. OneJobWorker'
    BY <2>3, <2>4 DEF OneJobWorker
  <2>6. WorkerInv(w)'
    BY <2>1, <2>4, <1>1, <1>t
       DEF WorkerInv, Building, PlanPc, PartPc, FinalPc, JobInv, UnplannedHasNoRows
  <2>7. ASSUME NEW v \in Worker \ {w} PROVE WorkerInv(v)'
    BY <2>3, <2>4, <1>1, <1>t DEF WorkerInv, Building
  <2>8. QED
    BY <2>2, <2>5, <2>6, <2>7 DEF QuietInv, JobInv, WorkerInv, OneBuilder,
       BuilderHoldsLease, PlannerOwnsJob, FinalizerOwnsJob, CountNeverAhead
<1>4. QED
  BY <1>2, <1>3 DEF ClaimJobForPlanning

\* The steps by which the job's planner or finalizer ends its unit of work.
LEMMA JobWorkerLeaves ==
    ASSUME QuietInv, TypeOK', NEW w \in Worker,
           worker[w].pc \in PlanPc \cup FinalPc,
           NEW pc \in SeekPc \cup {"down"}, Goto(w, pc),
           UNCHANGED part, JobInv'
    PROVE  QuietInv'
<1>t. TypeOK /\ JobInv /\ OneJobWorker /\ \A v \in Worker : WorkerInv(v)
  BY QuietParts
<1>1. ASSUME NEW v \in Worker \ {w} PROVE WorkerInv(v)'
  <2>1. worker'[v] = worker[v] /\ WorkerInv(v)
    BY <1>t, GotoOne
  <2>2. worker[v].pc \notin PlanPc \cup FinalPc
    BY <1>t DEF OneJobWorker
  <2>3. QED
    BY <2>1, <2>2, SameBuilder
<1>2. QED
  BY <1>1, Leave

\* The steps by which it goes on to the next part of its unit of work.
LEMMA JobWorkerMoves ==
    ASSUME QuietInv, TypeOK', NEW w \in Worker,
           worker[w].pc \in PlanPc \cup FinalPc,
           \A v \in Worker \ {w} : worker'[v] = worker[v],
           UNCHANGED part, JobInv', WorkerInv(w)'
    PROVE  QuietInv'
<1>t. TypeOK /\ JobInv /\ OneJobWorker /\ \A v \in Worker : WorkerInv(v)
  BY QuietParts
<1>2. ASSUME NEW v \in Worker \ {w} PROVE WorkerInv(v)'
  <2>1. worker[v].pc \notin PlanPc \cup FinalPc
    BY <1>t DEF OneJobWorker
  <2>2. QED
    BY <1>t, <2>1, SameBuilder
<1>3. OneJobWorker'
  BY <1>t DEF OneJobWorker
<1>4. QED
  BY <1>2, <1>3, QuietAssemble

LEMMA CheckPlanQuiet ==
    ASSUME QuietInv, TypeOK', NEW w \in Worker, CheckPlan(w)
    PROVE  QuietInv'
<1>t. TypeOK /\ JobInv /\ OneJobWorker /\ \A v \in Worker : WorkerInv(v)
  BY QuietParts
<1>1. /\ worker[w].pc = "planCheck" /\ UNCHANGED <<part, manifest>>
      /\ worker[w].pc \in PlanPc
  BY DEF CheckPlan, PlanPc
<1>2. Rows = {}
  BY <1>t, <1>1 DEF WorkerInv
<1>3. PICK pc \in {"planStop", "plan"} : Goto(w, pc) /\ UNCHANGED job
  BY <1>2 DEF CheckPlan
<1>4. JobInv'
  BY <1>t, <1>1, <1>3, SameJob
<1>5. worker'[w].pc \in PlanPc /\ \A v \in Worker \ {w} : worker'[v] = worker[v]
  BY <1>3, <1>t, GotoOne DEF PlanPc
<1>6. WorkerInv(w)'
  <2>1. worker'[w].pc \notin PartPc \cup FinalPc
    BY <1>5 DEF PlanPc, PartPc, FinalPc
  <2>2. QED
    BY <2>1, <1>1, <1>3, <1>5, <1>t, SameSets DEF WorkerInv, Building, PartPc
<1>7. QED
  BY <1>1, <1>4, <1>5, <1>6, JobWorkerMoves

LEMMA PlanQuiet ==
    ASSUME QuietInv, TypeOK', NEW w \in Worker, PlanJob(w)
    PROVE  QuietInv'
<1>t. TypeOK /\ JobInv /\ OneJobWorker /\ \A v \in Worker : WorkerInv(v)
  BY QuietParts
<1>1. /\ worker[w].pc \in PlanPc /\ Goto(w, "idle") /\ manifest' = manifest
      /\ Rows = {} /\ Completed = {}
      /\ job.status \in {"planning", "cancelled"}
  BY <1>t DEF PlanJob, PlanPc, WorkerInv, Rows, Completed
<1>2. PICK S \in SUBSET (Part \ Rows), whole \in BOOLEAN :
          /\ part' = [p \in Part |-> IF p \in S
                        THEN [part[p] EXCEPT !.status = "queued"] ELSE part[p]]
          /\ job' = IF whole /\ S # {}
                    THEN [job EXCEPT !.status = "running", !.lease = "none",
                                     !.total = Cardinality(S)]
                    ELSE [job EXCEPT !.status = "failed", !.lease = "none"]
  BY DEF PlanJob
<1>3. Rows' = S /\ Completed' = {}
  BY <1>1, <1>2, <1>t DEF Rows, Completed, TypeOK, PartRow
<1>4. /\ job'.status \in {"failed", "running"} /\ job'.done = job.done
      /\ job'.total \in {job.total, Cardinality(S)}
  BY <1>2, <1>t DEF TypeOK, JobRow
<1>5. JobInv'
  <2>1. job.total = 0
    BY <1>1, <1>t, FS_EmptySet DEF JobInv, TotalIsRows
  <2> QED BY <1>1, <1>3, <1>4, <1>t, <2>1 DEF JobInv, UnplannedHasNoRows, TotalIsRows,
         DoneNeverAhead, FinalizeOnlyComplete, CompletedIsWhole
<1>6. ASSUME NEW v \in Worker \ {w} PROVE WorkerInv(v)'
  <2>1. worker'[v] = worker[v] /\ WorkerInv(v)
    BY <1>t, <1>1, GotoOne
  <2>2. worker[v].pc \notin PlanPc \cup FinalPc
    BY <1>t, <1>1 DEF OneJobWorker
  <2>3. worker[v].pc \notin PartPc
    BY <2>1, <1>1 DEF WorkerInv, Building, Rows
  <2>4. QED
    BY <2>1, <2>2, <2>3 DEF WorkerInv, Building, PartPc
<1>7. QED
  BY <1>1, <1>5, <1>6, Leave DEF SeekPc

LEMMA StopJobQuiet ==
    ASSUME QuietInv, TypeOK', NEW w \in Worker, StopJob(w)
    PROVE  QuietInv'
<1>t. TypeOK /\ JobInv /\ OneJobWorker /\ \A v \in Worker : WorkerInv(v)
  BY QuietParts
<1>1. /\ worker[w].pc \in PlanPc \cup FinalPc /\ Goto(w, "idle")
      /\ UNCHANGED <<part, manifest>>
  BY DEF StopJob, PlanPc, FinalPc
<1>2. /\ job'.status = "cancelled"
      /\ job'.total = job.total /\ job'.done = job.done
  BY <1>t DEF StopJob, TypeOK, JobRow
<1>3. JobInv'
  BY <1>t, <1>1, <1>2, SameSets DEF JobInv, UnplannedHasNoRows, TotalIsRows, DoneNeverAhead,
         FinalizeOnlyComplete, CompletedIsWhole
<1>4. QED
  BY <1>1, <1>3, JobWorkerLeaves DEF SeekPc

-----------------------------------------------------------------------------
(* Building.                                                               *)

\* No partition is running while the job is being planned or finalized, or is
\* completed: a builder implies a row that is not built.
LEMMA BuilderMeansOpen ==
    ASSUME QuietInv, NEW w \in Worker, worker[w].pc \in PartPc
    PROVE  /\ worker[w].part \in Part /\ part[worker[w].part].status = "running"
           /\ worker[w].part \in Rows /\ worker[w].part \notin Completed
           /\ job.status \notin {"queued", "planning", "finalizing", "completed"}
           /\ \A v \in Worker : worker[v].pc \notin PlanPc \cup FinalPc
<1>t. TypeOK /\ JobInv /\ OneJobWorker /\ \A v \in Worker : WorkerInv(v)
  BY QuietParts
<1>1. worker[w].part \in Part /\ part[worker[w].part].status = "running"
  BY <1>t DEF WorkerInv, Building
<1>2. worker[w].part \in Rows /\ worker[w].part \notin Completed
  BY <1>1 DEF Rows, Completed
<1>3. job.status \notin {"queued", "planning", "finalizing", "completed"}
  BY <1>2, <1>t DEF JobInv, UnplannedHasNoRows, FinalizeOnlyComplete, CompletedIsWhole
<1>4. \A v \in Worker : worker[v].pc \notin PlanPc \cup FinalPc
  BY <1>2, <1>t DEF WorkerInv
<1>5. QED
  BY <1>1, <1>2, <1>3, <1>4

\* A builder's step that changes its own row only, without completing it.
LEMMA OthersKept ==
    ASSUME QuietInv, NEW w \in Worker, worker[w].pc \in PartPc,
           NEW v \in Worker \ {w}, worker'[v] = worker[v],
           \A p \in Part : p # worker[w].part => part'[p] = part[p],
           Completed \subseteq Completed', Completed' \in SUBSET Part
    PROVE  WorkerInv(v)'
<1>t. TypeOK /\ JobInv /\ OneJobWorker /\ \A u \in Worker : WorkerInv(u)
  BY QuietParts
<1>1. worker[v].pc \notin PlanPc \cup FinalPc
  BY BuilderMeansOpen
<1>2. \A p \in Part : Building(v, p) => p # worker[w].part
  BY <1>t, BuilderMeansOpen DEF WorkerInv, Building
<1>3. Cardinality(Completed) <= Cardinality(Completed')
  BY FS_Subset, PartsCount
<1>4. /\ Cardinality(Completed) \in Nat /\ Cardinality(Completed') \in Nat
      /\ worker[v].count \in Nat
  BY RowsCount, PartsCount, <1>t DEF TypeOK, WorkerState
<1>5. worker'[v].pc = "save" => worker'[v].count <= Cardinality(Completed') + 1
  <2>1. worker[v].pc = "save" => worker[v].count <= Cardinality(Completed) + 1
    BY <1>t DEF WorkerInv
  <2>2. QED
    BY <2>1, <1>3, <1>4
<1>6. QED
  BY <1>1, <1>2, <1>5, <1>t DEF WorkerInv, Building

LEMMA ClaimPartQuiet ==
    ASSUME QuietInv, TypeOK', NEW w \in Worker, ClaimPartition(w)
    PROVE  QuietInv'
<1>t. TypeOK /\ JobInv /\ OneJobWorker /\ \A v \in Worker : WorkerInv(v)
  BY QuietParts
<1>1. CASE UNCHANGED part /\ Goto(w, "seekFinal")
  <2>1. UNCHANGED <<job, part, manifest>>
    BY <1>1 DEF ClaimPartition
  <2>2. ASSUME NEW v \in Worker \ {w} PROVE WorkerInv(v)'
    BY <2>1, <1>1, <1>t, GotoOne, SameWorker
  <2>3. QED
    BY <1>1, <1>t, <2>1, <2>2, SameJob, Leave DEF SeekPc
<1>2. ASSUME NEW p \in Part, Claimable(p),
             part' = [part EXCEPT ![p] =
                        [status |-> "running", owner |-> w, lease |-> "live",
                         attempts |-> part[p].attempts + 1]],
             worker' = [worker EXCEPT ![w] = [At("start") EXCEPT !.part = p]]
      PROVE  QuietInv'
  <2>1. /\ UNCHANGED <<job, manifest>> /\ job.status = "running"
        /\ part[p].status = "queued" /\ worker[w].pc = "seekPart"
    BY <1>2 DEF ClaimPartition, Claimable
  <2>2. /\ part'[p].status = "running" /\ part'[p].owner = w /\ part'[p].lease = "live"
        /\ \A q \in Part \ {p} : part'[q] = part[q]
    BY <1>2, <1>t DEF TypeOK
  <2>3. Rows' = Rows /\ Completed' = Completed
    BY <2>1, <2>2 DEF Rows, Completed
  <2>4. /\ worker'[w].pc = "start" /\ worker'[w].part = p
        /\ \A v \in Worker \ {w} : worker'[v] = worker[v]
    BY <1>2, <1>t DEF TypeOK, At
  <2>5. JobInv'
    BY <1>t, <2>1, <2>3 DEF JobInv, UnplannedHasNoRows, TotalIsRows, DoneNeverAhead,
         FinalizeOnlyComplete, CompletedIsWhole
  <2>6. OneJobWorker'
    BY <1>t, <2>4 DEF OneJobWorker, PlanPc, FinalPc
  <2>7. WorkerInv(w)'
    BY <2>2, <2>4 DEF WorkerInv, Building, PartPc, PlanPc, FinalPc
  <2>8. ASSUME NEW v \in Worker \ {w} PROVE WorkerInv(v)'
    <3>1. worker'[v] = worker[v] /\ WorkerInv(v)
      BY <2>4, <1>t
    <3>2. \A q \in Part : Building(v, q) => q # p
      BY <3>1, <2>1 DEF WorkerInv
    <3>3. QED
      BY <3>1, <3>2, <2>1, <2>2, <2>3 DEF WorkerInv, Building
  <2>9. QED
    BY <2>5, <2>6, <2>7, <2>8, QuietAssemble
<1>3. QED
  BY <1>1, <1>2 DEF ClaimPartition

\* A builder that goes on building: its row keeps its status and owner, and
\* its lease stays or becomes live.
BuilderGoesOn(w) ==
    /\ worker[w].pc \in PartPc /\ worker'[w].pc \in PartPc
    /\ worker'[w].part = worker[w].part
    /\ \A v \in Worker \ {w} : worker'[v] = worker[v]
    /\ worker'[w].pc = "save" => worker'[w].count <= Cardinality(Completed) + 1
    /\ UNCHANGED <<job, manifest>>
    /\ \A p \in Part : /\ part'[p].status = part[p].status
                       /\ part'[p].owner = part[p].owner
                       /\ p # worker[w].part => part'[p] = part[p]
    /\ part'[worker[w].part].lease = "live"

LEMMA BuilderMoves ==
    ASSUME QuietInv, TypeOK', NEW w \in Worker, BuilderGoesOn(w)
    PROVE  QuietInv'
<1>t. TypeOK /\ JobInv /\ OneJobWorker /\ \A v \in Worker : WorkerInv(v)
  BY QuietParts
<1>1. UNCHANGED <<job, manifest>> /\ worker[w].pc \in PartPc
  BY DEF BuilderGoesOn
<1>2. Rows' = Rows /\ Completed' = Completed
  BY DEF Rows, Completed, BuilderGoesOn
<1>3. JobInv'
  BY <1>t, <1>1, <1>2 DEF JobInv, UnplannedHasNoRows, TotalIsRows, DoneNeverAhead,
         FinalizeOnlyComplete, CompletedIsWhole
<1>4. OneJobWorker'
  BY <1>t DEF BuilderGoesOn, OneJobWorker, PartPc, PlanPc, FinalPc
<1>5. WorkerInv(w)'
  <2>1. worker'[w].pc \notin PlanPc \cup FinalPc
    BY DEF BuilderGoesOn, PartPc, PlanPc, FinalPc
  <2>2. QED
    BY <2>1, <1>1, <1>2, <1>t DEF BuilderGoesOn, WorkerInv, Building
<1>6. ASSUME NEW v \in Worker \ {w} PROVE WorkerInv(v)'
  BY <1>1, <1>2, OthersKept DEF Completed, BuilderGoesOn
<1>7. QED
  BY <1>3, <1>4, <1>5, <1>6, QuietAssemble

LEMMA ReloadQuiet ==
    ASSUME QuietInv, TypeOK', NEW w \in Worker,
           StartPartition(w) \/ CommitMesh(w)
    PROVE  QuietInv'
<1>t. TypeOK /\ JobInv /\ OneJobWorker /\ \A v \in Worker : WorkerInv(v)
  BY QuietParts
<1>1. worker[w].pc \in PartPc /\ UNCHANGED <<job, manifest>> /\ Reload(w, "build")
  BY DEF StartPartition, CommitMesh, PartPc
<1>2. /\ worker'[w].pc \in {"stopPart", "build"}
      /\ worker'[w].part = worker[w].part
      /\ \A v \in Worker \ {w} : worker'[v] = worker[v]
  BY <1>1, <1>t DEF Reload, TypeOK, WorkerState
<1>3. /\ \A p \in Part : /\ part'[p].status = part[p].status
                         /\ part'[p].owner = part[p].owner
                         /\ p # worker[w].part => part'[p] = part[p]
      /\ part'[worker[w].part].lease = "live"
  BY <1>1, <1>t, BuilderMeansOpen
     DEF StartPartition, CommitMesh, TypeOK, PartRow, WorkerInv
<1>4. worker'[w].pc \in PartPc /\ worker'[w].pc # "save"
  BY <1>2 DEF PartPc
<1>5. QED
  BY <1>1, <1>2, <1>3, <1>4, BuilderMoves DEF BuilderGoesOn

LEMMA CountQuiet ==
    ASSUME QuietInv, TypeOK', NEW w \in Worker, CountCompleted(w)
    PROVE  QuietInv'
<1>t. TypeOK /\ JobInv /\ OneJobWorker /\ \A v \in Worker : WorkerInv(v)
  BY QuietParts
<1> DEFINE n == Cardinality(Completed) + 1
<1> DEFINE c == IF job.total > 0 /\ job.total < n THEN job.total ELSE n
<1>1. worker[w].pc \in PartPc /\ UNCHANGED <<job, manifest>>
  BY DEF CountCompleted, PartPc
<1>2. c <= n
  BY RowsCount, <1>t DEF TypeOK, JobRow
<1>3. /\ worker'[w].pc = "save" /\ worker'[w].part = worker[w].part
      /\ worker'[w].count = c
      /\ \A v \in Worker \ {w} : worker'[v] = worker[v]
  BY <1>t DEF CountCompleted, TypeOK, WorkerState
<1>4. /\ \A p \in Part : /\ part'[p].status = part[p].status
                         /\ part'[p].owner = part[p].owner
                         /\ p # worker[w].part => part'[p] = part[p]
      /\ part'[worker[w].part].lease = "live"
  BY <1>1, <1>t, BuilderMeansOpen DEF CountCompleted, TypeOK, PartRow
<1>5. worker'[w].pc \in PartPc /\ worker'[w].count <= Cardinality(Completed) + 1
  BY <1>2, <1>3 DEF PartPc
<1>6. QED
  BY <1>1, <1>3, <1>4, <1>5, BuilderMoves DEF BuilderGoesOn

\* What a builder writes when it is done with its row, built or given up.
LEMMA CompleteQuiet ==
    ASSUME QuietInv, TypeOK', NEW w \in Worker, CompletePartition(w)
    PROVE  QuietInv'
<1>t. TypeOK /\ JobInv /\ OneJobWorker /\ \A v \in Worker : WorkerInv(v)
  BY QuietParts
<1> DEFINE p == worker[w].part
<1>1. /\ worker[w].pc = "save" /\ worker[w].pc \in PartPc /\ Goto(w, "idle")
      /\ manifest' = manifest
  BY DEF CompletePartition, PartPc
<1>2. /\ p \in Rows /\ p \notin Completed /\ p \in Part
      /\ job.status \notin {"queued", "planning", "finalizing", "completed"}
  BY <1>1, BuilderMeansOpen
<1>3. /\ part'[p].status = "completed"
      /\ \A q \in Part : q # p => part'[q] = part[q]
  BY <1>2, <1>t DEF CompletePartition, TypeOK, PartRow
<1>4. Rows' = Rows /\ Completed' = Completed \cup {p}
  BY <1>2, <1>3 DEF Rows, Completed
<1>5. Cardinality(Completed') = Cardinality(Completed) + 1
  BY <1>2, <1>4, RowsCount, PartsCount, FS_AddElement
<1>6. /\ job'.status = job.status /\ job'.total = job.total
      /\ job'.done \in {job.done, worker[w].count}
  BY <1>t DEF CompletePartition, Flush, TypeOK, JobRow
<1>7. job'.done <= Cardinality(Completed')
  <2>1. worker[w].count <= Cardinality(Completed) + 1
    BY <1>1, <1>t DEF WorkerInv
  <2>2. job.done <= Cardinality(Completed) /\ job.done \in Nat
    BY <1>t DEF JobInv, DoneNeverAhead, TypeOK, JobRow
  <2>3. QED
    BY <2>1, <2>2, <1>5, <1>6, RowsCount
<1>8. JobInv'
  BY <1>t, <1>2, <1>4, <1>6, <1>7 DEF JobInv, UnplannedHasNoRows, TotalIsRows,
       DoneNeverAhead, FinalizeOnlyComplete, CompletedIsWhole
<1>9. ASSUME NEW v \in Worker \ {w} PROVE WorkerInv(v)'
  BY <1>1, <1>3, <1>4, <1>t, GotoOne, OthersKept DEF Completed
<1>10. QED
  BY <1>1, <1>8, <1>9, Leave DEF SeekPc

LEMMA GiveUpQuiet ==
    ASSUME QuietInv, TypeOK', NEW w \in Worker, NEW status \in {"cancelled", "failed"},
           worker[w].pc \in PartPc, GiveUpPartition(w, status)
    PROVE  QuietInv'
<1>t. TypeOK /\ JobInv /\ OneJobWorker /\ \A v \in Worker : WorkerInv(v)
  BY QuietParts
<1> DEFINE p == worker[w].part
<1>1. Goto(w, "idle") /\ manifest' = manifest
  BY DEF GiveUpPartition
<1>2. /\ p \in Rows /\ p \notin Completed /\ p \in Part
      /\ job.status \notin {"queued", "planning", "finalizing", "completed"}
  BY BuilderMeansOpen
<1>3. /\ part'[p].status = status
      /\ \A q \in Part : q # p => part'[q] = part[q]
  BY <1>2, <1>t DEF GiveUpPartition, TypeOK, PartRow
<1>4. Rows' = Rows /\ Completed' = Completed
  BY <1>2, <1>3 DEF Rows, Completed
<1>5. /\ job'.total = job.total /\ job'.done = job.done
      /\ job'.status \in {job.status, status}
  BY <1>t DEF GiveUpPartition, Flush, TypeOK, JobRow
<1>6. JobInv'
  BY <1>t, <1>2, <1>4, <1>5 DEF JobInv, UnplannedHasNoRows, TotalIsRows,
       DoneNeverAhead, FinalizeOnlyComplete, CompletedIsWhole
<1>7. ASSUME NEW v \in Worker \ {w} PROVE WorkerInv(v)'
  BY <1>1, <1>3, <1>4, <1>t, GotoOne, OthersKept DEF Completed
<1>8. QED
  BY <1>1, <1>6, <1>7, Leave DEF SeekPc

-----------------------------------------------------------------------------
(* Finalizing.                                                             *)

\* The counters claim_job_for_finalization compares are enough: the count
\* never runs ahead, so when it reaches the total every row is built.
LEMMA FinalizableIsWhole ==
    ASSUME QuietInv, Finalizable
    PROVE  Rows # {} /\ Rows = Completed
<1>1. /\ job.done <= Cardinality(Completed) /\ job.total = Cardinality(Rows)
      /\ job.done \in Nat /\ job.total \in Nat
  BY DEF QuietInv, DoneNeverAhead, TotalIsRows, TypeOK, JobRow, Finalizable
<1>2. Completed \in SUBSET Rows /\ IsFiniteSet(Rows)
  BY RowsCount, PartsCount DEF Completed, Rows
<1>3. Cardinality(Completed) <= Cardinality(Rows)
  BY <1>2, FS_Subset
<1>4. Cardinality(Completed) = Cardinality(Rows) /\ Cardinality(Rows) > 0
  BY <1>1, <1>3, RowsCount DEF Finalizable
<1>5. Rows = Completed
  BY <1>2, <1>4, FS_Subset
<1>6. QED
  BY <1>4, <1>5, FS_EmptySet

LEMMA ClaimFinalQuiet ==
    ASSUME QuietInv, TypeOK', NEW w \in Worker, ClaimJobForFinalization(w)
    PROVE  QuietInv'
<1>t. TypeOK /\ JobInv /\ OneJobWorker /\ \A v \in Worker : WorkerInv(v)
  BY QuietParts
<1>1. UNCHANGED <<part, manifest>> /\ Rows' = Rows /\ Completed' = Completed
  BY SameSets DEF ClaimJobForFinalization
<1>2. CASE UNCHANGED job /\ Goto(w, "idle")
  <2>1. ASSUME NEW v \in Worker \ {w} PROVE WorkerInv(v)'
    BY <1>1, <1>2, <1>t, GotoOne, SameWorker
  <2>2. QED
    BY <1>1, <1>2, <1>t, <2>1, SameJob, Leave DEF SeekPc
<1>3. CASE /\ Finalizable /\ Goto(w, "check")
           /\ job' = [job EXCEPT !.status = "finalizing", !.lease = "live"]
  <2>1. /\ job'.status = "finalizing" /\ job.status = "running"
        /\ job'.total = job.total /\ job'.total > 0 /\ job'.done = job.done
    BY <1>3, <1>t DEF Finalizable, TypeOK, JobRow
  <2>2. Rows # {} /\ Rows = Completed
    BY <1>3, FinalizableIsWhole
  <2>3. JobInv'
    BY <1>t, <1>1, <2>1, <2>2 DEF JobInv, UnplannedHasNoRows, TotalIsRows,
         DoneNeverAhead, FinalizeOnlyComplete, CompletedIsWhole
  <2>4. \A v \in Worker : worker[v].pc \notin PlanPc \cup FinalPc
    BY <2>1, <1>t DEF WorkerInv
  <2>5. worker'[w].pc = "check" /\ \A v \in Worker \ {w} : worker'[v] = worker[v]
    BY <1>3, <1>t, GotoOne
  <2>6. OneJobWorker'
    BY <2>4, <2>5 DEF OneJobWorker
  <2>7. WorkerInv(w)'
    BY <2>1, <2>2, <2>5, <1>1 DEF WorkerInv, Building, PlanPc, PartPc, FinalPc
  <2>8. ASSUME NEW v \in Worker \ {w} PROVE WorkerInv(v)'
    BY <2>4, <2>5, <1>1, <1>t, SameBuilder
  <2>9. QED
    BY <2>3, <2>6, <2>7, <2>8, QuietAssemble
<1>4. QED
  BY <1>2, <1>3 DEF ClaimJobForFinalization

\* The steps of finalize_job that leave the database as it is.
LEMMA FinalWorkQuiet ==
    ASSUME QuietInv, TypeOK', NEW w \in Worker,
           CheckFinal(w) \/ AssembleManifest(w)
    PROVE  QuietInv'
<1>t. TypeOK /\ JobInv /\ OneJobWorker /\ \A v \in Worker : WorkerInv(v)
  BY QuietParts
<1>1. /\ worker[w].pc \in {"check", "assemble"} /\ worker[w].pc \in FinalPc
      /\ UNCHANGED <<job, part>> /\ Rows' = Rows /\ Completed' = Completed
  BY SameSets DEF CheckFinal, AssembleManifest, FinalPc
<1>2. /\ job.status \in {"finalizing", "cancelled"} /\ Rows # {} /\ Rows = Completed
      /\ job.total > 0
      /\ worker[w].pc = "assemble" => worker[w].rows = Rows
  BY <1>1, <1>t DEF WorkerInv
<1>3. /\ worker'[w].pc \in FinalPc
      /\ worker'[w].pc \in {"assemble", "publish"} => worker'[w].rows = Rows
      /\ worker'[w].pc = "publish" => manifest' = Rows
      /\ \A v \in Worker \ {w} : worker'[v] = worker[v]
  <2>1. CASE CheckFinal(w) /\ Goto(w, "finalStop")
    BY <2>1, <1>t, GotoOne DEF FinalPc
  <2>2. CASE /\ CheckFinal(w)
             /\ worker' = [worker EXCEPT ![w] = [At("assemble") EXCEPT !.rows = Rows]]
    BY <2>2, <1>t DEF At, FinalPc, TypeOK
  <2>3. CASE AssembleManifest(w)
    BY <2>3, <1>2, <1>t DEF AssembleManifest, TypeOK, WorkerState, FinalPc
  <2>4. QED
    BY <2>1, <2>2, <2>3, <1>2 DEF CheckFinal
<1>4. JobInv'
  BY <1>1, <1>2, <1>t DEF JobInv, UnplannedHasNoRows, TotalIsRows,
       DoneNeverAhead, FinalizeOnlyComplete, CompletedIsWhole
<1>5. WorkerInv(w)'
  BY <1>1, <1>2, <1>3 DEF WorkerInv, Building, PlanPc, PartPc, FinalPc
<1>6. QED
  BY <1>1, <1>3, <1>4, <1>5, JobWorkerMoves

LEMMA EndFinalQuiet ==
    ASSUME QuietInv, TypeOK', NEW w \in Worker,
           PublishManifest(w) \/ FailFinalization(w)
    PROVE  QuietInv'
<1>t. TypeOK /\ JobInv /\ OneJobWorker /\ \A v \in Worker : WorkerInv(v)
  BY QuietParts
<1>1. /\ worker[w].pc \in {"assemble", "publish"} /\ worker[w].pc \in FinalPc
      /\ UNCHANGED <<part, manifest>> /\ Goto(w, "idle")
      /\ Rows' = Rows /\ Completed' = Completed
  BY SameSets DEF PublishManifest, FailFinalization, FinalPc
<1>2. /\ Rows # {} /\ Rows = Completed /\ worker[w].rows = Rows
      /\ worker[w].pc = "publish" => manifest = Rows
  BY <1>1, <1>t DEF WorkerInv
<1>3. /\ job'.total = job.total
      /\ \/ job'.status = "failed" /\ job'.done = job.done
         \/ /\ job'.status = "completed" /\ manifest = Rows
            /\ job'.done = Cardinality(Completed)
  <2>1. CASE PublishManifest(w)
    <3>1. job' = [job EXCEPT !.status = "completed", !.lease = "none",
                             !.done = Cardinality(Completed)]
      BY <2>1, <1>2 DEF PublishManifest
    <3>2. QED
      BY <2>1, <3>1, <1>2, <1>t DEF PublishManifest, TypeOK, JobRow
  <2>2. CASE FailFinalization(w)
    BY <2>2, <1>t DEF FailFinalization, TypeOK, JobRow
  <2>3. QED
    BY <2>1, <2>2
<1>4. JobInv'
  BY <1>1, <1>2, <1>3, <1>t, RowsCount DEF JobInv, UnplannedHasNoRows, TotalIsRows,
       DoneNeverAhead, FinalizeOnlyComplete, CompletedIsWhole
<1>5. QED
  BY <1>1, <1>4, JobWorkerLeaves DEF SeekPc

-----------------------------------------------------------------------------
(* The API, the clock and the machines.                                    *)

LEMMA CancelQuiet ==
    ASSUME QuietInv, TypeOK', CancelJob
    PROVE  QuietInv'
<1>t. TypeOK /\ JobInv /\ OneJobWorker /\ \A v \in Worker : WorkerInv(v)
  BY QuietParts
<1>1. UNCHANGED <<worker, manifest>> /\ OneJobWorker'
  BY <1>t DEF CancelJob, OneJobWorker
<1>2. CASE job.status = "queued"
  <2>1. \A p \in Part : part[p].status = "absent"
    BY <1>2, <1>t DEF JobInv, UnplannedHasNoRows, Rows
  <2>2. \A p \in Part : part'[p] = part[p]
    BY <1>2, <2>1 DEF CancelJob, CancelledPart
  <2>3. Rows' = Rows /\ Completed' = Completed
    BY <2>2 DEF Rows, Completed
  <2>4. /\ job'.status = "cancelled" /\ job'.total = job.total
        /\ job'.done = job.done
    BY <1>2, <1>t DEF CancelJob, CancelledJob, TypeOK, JobRow
  <2>5. JobInv'
    BY <1>1, <2>3, <2>4, <1>t DEF JobInv, UnplannedHasNoRows, TotalIsRows,
         DoneNeverAhead, FinalizeOnlyComplete, CompletedIsWhole
  <2>6. ASSUME NEW v \in Worker PROVE WorkerInv(v)'
    BY <1>1, <1>2, <1>t, <2>2, <2>3 DEF WorkerInv, Building
  <2>7. QED
    BY <1>1, <2>5, <2>6, QuietAssemble
<1>3. CASE job.status # "queued"
  <2>1. \A p \in Part : part'[p] = part[p]
    BY <1>3 DEF CancelJob, CancelledPart
  <2>0. Rows' = Rows /\ Completed' = Completed
    BY <2>1 DEF Rows, Completed
  <2>2. /\ job'.status = job.status /\ job'.total = job.total
        /\ job'.done = job.done /\ job'.lease = job.lease
    BY <1>3, <1>t DEF CancelJob, CancelledJob, TypeOK, JobRow
  <2>3. JobInv'
    BY <1>1, <2>0, <2>2, <1>t DEF JobInv, UnplannedHasNoRows, TotalIsRows,
         DoneNeverAhead, FinalizeOnlyComplete, CompletedIsWhole
  <2>4. ASSUME NEW v \in Worker PROVE WorkerInv(v)'
    BY <1>1, <1>t, <2>0, <2>1, <2>2 DEF WorkerInv, Building
  <2>5. QED
    BY <1>1, <2>3, <2>4, QuietAssemble
<1>4. QED
  BY <1>2, <1>3

\* Resuming waits for the workers, so no one holds what it requeues.
LEMMA ResumeQuiet ==
    ASSUME QuietInv, TypeOK', ~EagerResume, ResumeJob
    PROVE  QuietInv'
<1>t. TypeOK /\ JobInv /\ OneJobWorker /\ \A v \in Worker : WorkerInv(v)
  BY QuietParts
<1>1. UNCHANGED <<worker, manifest>> /\ OneJobWorker'
  BY <1>t DEF ResumeJob, OneJobWorker
<1>2. \A v \in Worker : worker'[v].pc \notin PlanPc \cup PartPc \cup FinalPc
  BY <1>1 DEF ResumeJob, Resumable, Busy
<1>3. Rows' = Rows /\ Completed' = Completed
  <2>1. ASSUME NEW p \in Part
        PROVE  /\ (part'[p].status = "absent") <=> (part[p].status = "absent")
               /\ (part'[p].status = "completed") <=> (part[p].status = "completed")
    BY <1>t DEF ResumeJob, Requeued, TypeOK, PartRow
  <2>2. QED
    BY <2>1 DEF Rows, Completed
<1>4. /\ job'.status = IF Rows = {} THEN "queued" ELSE "running"
      /\ job'.total = job.total /\ job'.done = Cardinality(Completed)
  BY <1>t DEF ResumeJob, ResumedJob, Rows, Completed, TypeOK, JobRow
<1>5. JobInv'
  BY <1>1, <1>3, <1>4, <1>t, RowsCount DEF JobInv, UnplannedHasNoRows, TotalIsRows,
       DoneNeverAhead, FinalizeOnlyComplete, CompletedIsWhole
<1>6. ASSUME NEW v \in Worker PROVE WorkerInv(v)'
  BY <1>2 DEF WorkerInv, Building, PartPc
<1>7. QED
  BY <1>1, <1>5, <1>6, QuietAssemble

LEMMA ExpirePartQuiet ==
    ASSUME QuietInv, TypeOK', ~SlowWorkers, NEW p \in Part, ExpirePartLease(p)
    PROVE  QuietInv'
<1>t. TypeOK /\ JobInv /\ OneJobWorker /\ \A v \in Worker : WorkerInv(v)
  BY QuietParts
<1>1. /\ UNCHANGED <<job, worker, manifest>> /\ OneJobWorker'
      /\ \A v \in Worker : ~Building(v, p)
  BY <1>t DEF ExpirePartLease, OneJobWorker
<1>2. \A q \in Part : /\ part'[q].status = part[q].status
                      /\ part'[q].owner = part[q].owner
                      /\ q # p => part'[q] = part[q]
  BY <1>t DEF ExpirePartLease, TypeOK, PartRow
<1>3. Rows' = Rows /\ Completed' = Completed
  BY <1>2 DEF Rows, Completed
<1>4. JobInv'
  BY <1>1, <1>3, <1>t DEF JobInv, UnplannedHasNoRows, TotalIsRows,
       DoneNeverAhead, FinalizeOnlyComplete, CompletedIsWhole
<1>5. ASSUME NEW v \in Worker PROVE WorkerInv(v)'
  BY <1>1, <1>2, <1>3, <1>t DEF WorkerInv, Building
<1>6. QED
  BY <1>1, <1>4, <1>5, QuietAssemble

LEMMA ExpireJobQuiet ==
    ASSUME QuietInv, TypeOK', ~SlowWorkers, ExpireJobLease
    PROVE  QuietInv'
<1>t. TypeOK /\ JobInv /\ OneJobWorker /\ \A v \in Worker : WorkerInv(v)
  BY QuietParts
<1>1. /\ UNCHANGED <<part, worker, manifest>> /\ OneJobWorker'
      /\ \A v \in Worker : worker[v].pc \notin PlanPc \cup FinalPc
      /\ Rows' = Rows /\ Completed' = Completed
  BY <1>t, SameSets DEF ExpireJobLease, OneJobWorker
<1>2. /\ job'.status = job.status /\ job'.total = job.total
      /\ job'.done = job.done
  BY <1>t DEF ExpireJobLease, TypeOK, JobRow
<1>3. JobInv'
  BY <1>1, <1>2, <1>t DEF JobInv, UnplannedHasNoRows, TotalIsRows,
       DoneNeverAhead, FinalizeOnlyComplete, CompletedIsWhole
<1>4. ASSUME NEW v \in Worker PROVE WorkerInv(v)'
  BY <1>1, <1>t, SameBuilder
<1>5. QED
  BY <1>1, <1>3, <1>4, QuietAssemble

\* A worker that dies or comes back holds nothing.
LEMMA CrashQuiet ==
    ASSUME QuietInv, TypeOK', NEW w \in Worker, Crash(w) \/ Restart(w)
    PROVE  QuietInv'
<1>t. TypeOK /\ JobInv /\ OneJobWorker /\ \A v \in Worker : WorkerInv(v)
  BY QuietParts
<1>1. UNCHANGED <<job, part, manifest>>
  BY DEF Crash, Restart
<1>2. PICK pc \in {"down", "idle"} : Goto(w, pc)
  BY DEF Crash, Restart
<1>3. ASSUME NEW v \in Worker \ {w} PROVE WorkerInv(v)'
  BY <1>1, <1>2, <1>t, GotoOne, SameWorker
<1>4. pc \in SeekPc \cup {"down"}
  BY DEF SeekPc
<1>5. QED
  BY <1>1, <1>2, <1>3, <1>4, <1>t, SameJob, Leave

-----------------------------------------------------------------------------
(* The theorems.                                                           *)

LEMMA QuietInit == Init => QuietInv
<1>1. ASSUME Init PROVE QuietInv
  <2>1. TypeOK
    BY <1>1, TypeInit
  <2>2. Rows = {} /\ Completed = {}
    BY <1>1 DEF Init, Rows, Completed
  <2>3. \A w \in Worker : worker[w].pc = "idle"
    BY <1>1 DEF Init, At
  <2>4. JobInv
    BY <1>1, <2>2, FS_EmptySet DEF Init, JobInv, UnplannedHasNoRows, TotalIsRows,
         DoneNeverAhead, FinalizeOnlyComplete, CompletedIsWhole
  <2>5. ASSUME NEW w \in Worker PROVE WorkerInv(w)
    BY <2>3, IdleWorker DEF SeekPc
  <2>6. OneJobWorker
    BY <2>3 DEF OneJobWorker, PlanPc, FinalPc
  <2>7. QED
    BY <2>1, <2>4, <2>5, <2>6, QuietParts
<1>2. QED
  BY <1>1

LEMMA QuietNext ==
    ASSUME Quiet
    PROVE  QuietInv /\ [Next]_vars => QuietInv'
<1> SUFFICES ASSUME QuietInv, [Next]_vars PROVE QuietInv'
  OBVIOUS
<1>t. TypeOK'
  BY TypeNext DEF QuietInv
<1>s. ~SlowWorkers /\ ~EagerResume /\ MaxOvertaken = 0
  BY DEF Quiet
<1>o. /\ \A w \in Worker : ~ReadForRecovery(w) /\ ~CommitRecovery(w)
      /\ ~ReadForCancel /\ ~ReadForResume /\ ~CommitRequest
  BY <1>s, NoneOvertaken DEF QuietInv
<1>1. ASSUME NEW w \in Worker, Advance(w) PROVE QuietInv'
  BY <1>1, <1>o, <1>t, RecoverQuiet, ClaimPlanQuiet, CheckPlanQuiet, PlanQuiet,
     ClaimPartQuiet, ReloadQuiet, CountQuiet, CompleteQuiet, GiveUpQuiet,
     ClaimFinalQuiet, FinalWorkQuiet, EndFinalQuiet, StopJobQuiet
     DEF Advance, StopPartition, PartPc
<1>2. ASSUME NEW w \in Worker, CommitMesh(w) PROVE QuietInv'
  BY <1>2, <1>t, ReloadQuiet
<1>3. ASSUME NEW w \in Worker, FailPartition(w) PROVE QuietInv'
  BY <1>3, <1>t, GiveUpQuiet DEF FailPartition, PartPc
<1>4. ASSUME NEW w \in Worker, FailFinalization(w) PROVE QuietInv'
  BY <1>4, <1>t, EndFinalQuiet
<1>5. ASSUME NEW w \in Worker, Crash(w) \/ Restart(w) PROVE QuietInv'
  BY <1>5, <1>t, CrashQuiet
<1>6. ASSUME CancelJob PROVE QuietInv'
  BY <1>6, <1>t, CancelQuiet
<1>7. ASSUME ResumeJob PROVE QuietInv'
  BY <1>7, <1>s, <1>t, ResumeQuiet
<1>8. ASSUME NEW p \in Part, ExpirePartLease(p) PROVE QuietInv'
  BY <1>8, <1>s, <1>t, ExpirePartQuiet
<1>9. ASSUME ExpireJobLease PROVE QuietInv'
  BY <1>9, <1>s, <1>t, ExpireJobQuiet
<1>10. ASSUME UNCHANGED vars PROVE QuietInv'
  <2>1. UNCHANGED <<job, part, manifest, worker>>
    BY <1>10 DEF vars
  <2>2. OneJobWorker' /\ \A v \in Worker : WorkerInv(v)'
    BY <2>1, QuietParts, SameWorker DEF OneJobWorker
  <2>3. QED
    BY <2>1, <2>2, <1>t, QuietParts, SameJob, QuietAssemble
<1>11. QED
  BY <1>1, <1>2, <1>3, <1>4, <1>5, <1>6, <1>7, <1>8, <1>9, <1>10, <1>o DEF Next

\* When leases outlast live workers, users resume only a job no worker is busy
\* with, and no recovery, cancel or resume is overtaken, the inductive invariant
\* holds of any number of workers, partitions, attempts, crashes and resumes.
THEOREM QuietBuild ==
    ASSUME Quiet
    PROVE  Spec => []QuietInv
BY QuietInit, QuietNext, PTL DEF Spec

\* Then no partition has two builders (claim_partition, recover_stale_leases).
THEOREM OneBuilderPerPartition ==
    ASSUME Quiet
    PROVE  Spec => []OneBuilder
<1>1. QuietInv => OneBuilder
  BY DEF QuietInv
<1>2. QED
  BY QuietBuild, <1>1, PTL

\* Then a job is finalized only when every partition is built
\* (claim_job_for_finalization trusts the counter process_partition keeps).
THEOREM FinalizedOnlyComplete ==
    ASSUME Quiet
    PROVE  Spec => []FinalizeOnlyComplete
<1>1. QuietInv => FinalizeOnlyComplete
  BY DEF QuietInv
<1>2. QED
  BY QuietBuild, <1>1, PTL

\* Then a completed job lists every partition, each of them built.
THEOREM CompletedJobIsWhole ==
    ASSUME Quiet
    PROVE  Spec => []CompletedIsWhole
<1>1. QuietInv => CompletedIsWhole
  BY DEF QuietInv
<1>2. QED
  BY QuietBuild, <1>1, PTL
-----------------------------------------------------------------------------
(* A quiet pipeline implements AssetBuild: every step of its workers, its  *)
(* API and its clock is a step of the promise, or one no reader sees.      *)

Stage == IF job.status \in TERMINAL_STATUSES THEN job.status ELSE "open"

\* A step that keeps the rows, what is built and what is listed, and neither
\* enters nor leaves "completed", is an interruption at most.
LEMMA StatusStep ==
    ASSUME TypeOK, TypeOK', Rows' = Rows, Completed' = Completed, manifest' = manifest,
           job'.total = job.total,
           \/ job'.status = job.status
           \/ job.status # "completed" /\ job'.status # "completed"
    PROVE  [Promise!Next]_(Promise!vars)
<1>1. CASE job'.status = job.status
  BY <1>1 DEF Promise!vars
<1>2. CASE job.status # "completed" /\ job'.status # "completed"
  <2>1. Stage # "completed" /\ Stage' \in {"open", "failed", "cancelled"}
    BY <1>2 DEF Stage, TERMINAL_STATUSES
  <2>2. Promise!Interrupt
    BY <2>1 DEF Promise!Interrupt, Stage
  <2>3. QED
    BY <2>2 DEF Promise!Next
<1>3. QED
  BY <1>1, <1>2

LEMMA RecoverKeeps ==
    ASSUME QuietInv, TypeOK', NEW w \in Worker, RecoverStaleLeases(w)
    PROVE  [Promise!Next]_(Promise!vars)
<1>1. TypeOK /\ CompletedIsWhole
  BY DEF QuietInv
<1>2. Rows' = Rows /\ Completed' = Completed /\ manifest' = manifest
  BY <1>1, RecoveredRows DEF RecoverStaleLeases
<1>3. job.status = "completed" => SpentParts(part) = {}
  BY <1>1, SpentNotBuilt DEF CompletedIsWhole
<1>4. \/ job'.status = job.status
      \/ job.status # "completed" /\ job'.status # "completed"
  BY <1>1, <1>3 DEF RecoverStaleLeases, RecoveredJob, Cancelling, TypeOK, JobRow,
                    ACTIVE_STATUSES, TERMINAL_STATUSES
<1>6. job'.total = job.total
  BY <1>1 DEF RecoverStaleLeases, RecoveredJob, TypeOK, JobRow
<1>5. QED
  BY <1>1, <1>2, <1>4, <1>6, StatusStep

LEMMA PlanKeeps ==
    ASSUME QuietInv, TypeOK', NEW w \in Worker, PlanJob(w)
    PROVE  [Promise!Next]_(Promise!vars)
<1>t. TypeOK /\ \A v \in Worker : WorkerInv(v)
  BY QuietParts
<1>1. /\ manifest' = manifest /\ Rows = {} /\ Completed = {}
      /\ job.status \in {"planning", "cancelled"}
  BY <1>t DEF PlanJob, PlanPc, WorkerInv, Rows, Completed
<1>2. PICK S \in SUBSET (Part \ Rows), whole \in BOOLEAN :
          /\ part' = [p \in Part |-> IF p \in S
                        THEN [part[p] EXCEPT !.status = "queued"] ELSE part[p]]
          /\ job' = IF whole /\ S # {}
                    THEN [job EXCEPT !.status = "running", !.lease = "none",
                                     !.total = Cardinality(S)]
                    ELSE [job EXCEPT !.status = "failed", !.lease = "none"]
  BY DEF PlanJob
<1>3. Rows' = S /\ Completed' = {}
  BY <1>1, <1>2, <1>t DEF Rows, Completed, TypeOK, PartRow
<1>4. job.total = 0
  BY <1>1, FS_EmptySet DEF QuietInv, TotalIsRows
<1>5. CASE S = {}
  <2>1. job'.status = "failed" /\ job'.total = job.total
    BY <1>2, <1>5, <1>t DEF TypeOK, JobRow
  <2>2. QED
    BY <1>1, <1>3, <1>5, <1>t, <2>1, StatusStep
<1>6. CASE S # {}
  <2>1. S \in SUBSET Part /\ Cardinality(S) \in Nat /\ Cardinality(S) # 0
    BY <1>6, PartsCount, FS_EmptySet
  <2>2. \/ job'.status = "running" /\ job'.total > 0
        \/ job'.status = "failed" /\ ~(job'.total > 0)
    BY <1>2, <1>4, <1>6, <1>t, <2>1 DEF TypeOK, JobRow
  <2>3. /\ Rows' \in SUBSET Part /\ (job'.total > 0) \in BOOLEAN
        /\ Stage' = IF job'.total > 0 THEN "open" ELSE "failed"
    BY <1>3, <2>1, <2>2 DEF Stage, TERMINAL_STATUSES
  <2>4. Promise!Plan
    BY <1>1, <1>3, <2>3 DEF Promise!Plan, Stage
  <2> QED BY <2>4 DEF Promise!Next
<1>7. QED
  BY <1>5, <1>6

LEMMA CompleteKeeps ==
    ASSUME QuietInv, TypeOK', NEW w \in Worker, CompletePartition(w)
    PROVE  [Promise!Next]_(Promise!vars)
<1>t. TypeOK
  BY DEF QuietInv
<1> DEFINE p == worker[w].part
<1>1. p \in Rows /\ p \notin Completed /\ p \in Part /\ manifest' = manifest
  BY BuilderMeansOpen DEF CompletePartition, PartPc
<1>2. /\ part'[p].status = "completed"
      /\ \A q \in Part : q # p => part'[q] = part[q]
  BY <1>1, <1>t DEF CompletePartition, TypeOK, PartRow
<1>3. Rows' = Rows /\ Completed' = Completed \cup {p}
  BY <1>1, <1>2 DEF Rows, Completed
<1>4. job'.status = job.status /\ job'.total = job.total
  BY <1>t DEF CompletePartition, TypeOK, JobRow
<1>5. Promise!Build(p)
  BY <1>1, <1>3, <1>4 DEF Promise!Build
<1>6. QED
  BY <1>1, <1>5 DEF Promise!Next

LEMMA GiveUpKeeps ==
    ASSUME QuietInv, TypeOK', NEW w \in Worker, NEW status \in {"cancelled", "failed"},
           worker[w].pc \in PartPc, GiveUpPartition(w, status)
    PROVE  [Promise!Next]_(Promise!vars)
<1>t. TypeOK
  BY DEF QuietInv
<1> DEFINE p == worker[w].part
<1>1. /\ p \in Rows /\ p \notin Completed /\ p \in Part /\ manifest' = manifest
      /\ job.status # "completed"
  BY BuilderMeansOpen DEF GiveUpPartition
<1>2. /\ part'[p].status = status
      /\ \A q \in Part : q # p => part'[q] = part[q]
  BY <1>1, <1>t DEF GiveUpPartition, TypeOK, PartRow
<1>3. Rows' = Rows /\ Completed' = Completed
  BY <1>1, <1>2 DEF Rows, Completed
<1>4. job'.status \in {job.status, status} /\ job'.total = job.total
  BY <1>t DEF GiveUpPartition, Flush, TypeOK, JobRow
<1>5. QED
  BY <1>1, <1>3, <1>4, <1>t, StatusStep

LEMMA FinalizeKeeps ==
    ASSUME QuietInv, TypeOK', NEW w \in Worker,
           \/ AssembleManifest(w) \/ PublishManifest(w) \/ FailFinalization(w)
           \/ worker[w].pc = "finalStop" /\ StopJob(w)
    PROVE  [Promise!Next]_(Promise!vars)
<1>t. TypeOK /\ \A v \in Worker : WorkerInv(v)
  BY QuietParts
<1>1. /\ worker[w].pc \in FinalPc /\ Rows' = Rows /\ Completed' = Completed
      /\ part' = part
  BY SameSets DEF AssembleManifest, PublishManifest, FailFinalization, StopJob, FinalPc
<1>2. /\ Rows # {} /\ Rows = Completed /\ job.status \in {"finalizing", "cancelled"}
      /\ job.total > 0
      /\ worker[w].pc \in {"assemble", "publish"} => worker[w].rows = Rows
      /\ worker[w].pc = "publish" => manifest = Rows
  BY <1>1, <1>t DEF WorkerInv
<1>3. CASE AssembleManifest(w)
  <2>1. manifest' = Rows /\ job' = job
    BY <1>2, <1>3 DEF AssembleManifest
  <2>2. Promise!List
    BY <1>1, <1>2, <2>1 DEF Promise!List, Promise!Whole
  <2>3. QED
    BY <2>2 DEF Promise!Next
<1>4. CASE PublishManifest(w)
  <2>1. /\ job'.status = "completed" /\ manifest' = manifest /\ manifest = Rows
        /\ job'.total = job.total
    BY <1>2, <1>4, <1>t DEF PublishManifest, TypeOK, JobRow
  <2>2. Promise!Publish
    BY <1>1, <1>2, <2>1 DEF Promise!Publish, Promise!Whole, TERMINAL_STATUSES
  <2>3. QED
    BY <2>2 DEF Promise!Next
<1>5. CASE FailFinalization(w) \/ StopJob(w)
  <2>1. /\ manifest' = manifest /\ job'.status \in {"failed", "cancelled"}
        /\ job'.total = job.total
    BY <1>5, <1>t DEF FailFinalization, StopJob, TypeOK, JobRow
  <2>2. QED
    BY <1>1, <1>2, <1>t, <2>1, StatusStep
<1>6. QED
  BY <1>3, <1>4, <1>5

\* Claims, planning checks and cancellation: no row is inserted or completed.
LEMMA ControlKeeps ==
    ASSUME QuietInv, TypeOK', NEW w \in Worker,
           \/ ClaimJobForPlanning(w) \/ CheckPlan(w) \/ ClaimJobForFinalization(w)
           \/ CheckFinal(w)
           \/ worker[w].pc = "planStop" /\ StopJob(w)
    PROVE  [Promise!Next]_(Promise!vars)
<1>t. TypeOK /\ \A v \in Worker : WorkerInv(v)
  BY QuietParts
<1>1. /\ UNCHANGED <<part, manifest>> /\ Rows' = Rows /\ Completed' = Completed
  BY SameSets DEF ClaimJobForPlanning, CheckPlan, ClaimJobForFinalization, CheckFinal, StopJob
<1>2. CASE ClaimJobForPlanning(w) \/ ClaimJobForFinalization(w)
  <2>1. /\ job'.total = job.total
        /\ \/ job'.status = job.status
           \/ /\ job.status \in {"queued", "running"}
              /\ job'.status \in {"planning", "finalizing"}
    BY <1>2, <1>t DEF ClaimJobForPlanning, Plannable, ClaimJobForFinalization,
                      Finalizable, TypeOK, JobRow
  <2>2. QED
    BY <1>1, <1>t, <2>1, StatusStep
<1>3. CASE CheckPlan(w) \/ (worker[w].pc = "planStop" /\ StopJob(w))
  <2>1. job.status \in {"planning", "cancelled"}
    BY <1>3, <1>t DEF WorkerInv, CheckPlan, PlanPc
  <2>2. job'.total = job.total /\ (job' = job \/ job'.status = "cancelled")
    <3>1. CASE CheckPlan(w)
      <4>1. Rows = {}
        BY <3>1, <1>t DEF CheckPlan, WorkerInv, PlanPc
      <4> QED BY <3>1, <4>1 DEF CheckPlan
    <3>2. CASE StopJob(w)
      BY <3>2, <1>t DEF StopJob, TypeOK, JobRow
    <3> QED BY <1>3, <3>1, <3>2
  <2>3. QED
    BY <1>1, <1>t, <2>1, <2>2, StatusStep
<1>4. CASE CheckFinal(w)
  BY <1>1, <1>4, <1>t, StatusStep DEF CheckFinal
<1>5. QED
  BY <1>2, <1>3, <1>4

\* Steps of a builder, and of the clock, that change neither status.
LEMMA BuilderKeeps ==
    ASSUME QuietInv, TypeOK', UNCHANGED manifest, job'.status = job.status,
           job'.total = job.total,
           \A p \in Part : \/ part'[p].status = part[p].status
                           \/ part[p].status = "queued" /\ part'[p].status = "running"
    PROVE  [Promise!Next]_(Promise!vars)
<1>1. Rows' = Rows /\ Completed' = Completed
  BY DEF Rows, Completed
<1>2. QED
  BY <1>1, StatusStep DEF QuietInv

LEMMA ApiKeeps ==
    ASSUME QuietInv, TypeOK', CancelJob \/ ResumeJob
    PROVE  [Promise!Next]_(Promise!vars)
<1>t. TypeOK
  BY DEF QuietInv
<1>1. ASSUME NEW p \in Part
      PROVE  /\ (part'[p].status = "absent") <=> (part[p].status = "absent")
             /\ (part'[p].status = "completed") <=> (part[p].status = "completed")
  <2>1. CASE CancelJob
    BY <2>1, <1>t DEF CancelJob, CancelledPart, TypeOK, PartRow
  <2>2. CASE ResumeJob
    BY <2>2, <1>t DEF ResumeJob, Requeued, TypeOK, PartRow
  <2>3. QED
    BY <2>1, <2>2
<1>2. Rows' = Rows /\ Completed' = Completed /\ manifest' = manifest
  BY <1>1 DEF CancelJob, ResumeJob, Rows, Completed
<1>3. \/ job'.status = job.status
      \/ job.status # "completed" /\ job'.status # "completed"
  <2>1. CASE CancelJob
    BY <2>1, <1>t DEF CancelJob, CancelledJob, TypeOK, JobRow
  <2>2. CASE ResumeJob
    BY <2>2, <1>t DEF ResumeJob, Resumable, ResumedJob, TypeOK, JobRow
  <2> QED BY <2>1, <2>2
<1>5. job'.total = job.total
  BY <1>t DEF CancelJob, CancelledJob, ResumeJob, ResumedJob, TypeOK, JobRow
<1>4. QED
  BY <1>2, <1>3, <1>5, <1>t, StatusStep

LEMMA PromiseInit == Init => Promise!Init
<1>1. Init => Rows = {} /\ Completed = {}
  BY DEF Init, Rows, Completed
<1>2. QED
  BY <1>1 DEF Init, Promise!Init, TERMINAL_STATUSES

LEMMA PromiseNext ==
    ASSUME MaxOvertaken = 0
    PROVE  QuietInv /\ [Next]_vars => [Promise!Next]_(Promise!vars)
<1> SUFFICES ASSUME QuietInv, [Next]_vars PROVE [Promise!Next]_(Promise!vars)
  OBVIOUS
<1>t. TypeOK /\ TypeOK'
  BY TypeNext DEF QuietInv
<1>o. /\ \A w \in Worker : ~ReadForRecovery(w) /\ ~CommitRecovery(w)
      /\ ~ReadForCancel /\ ~ReadForResume /\ ~CommitRequest
  BY <1>t, NoneOvertaken
<1>1. ASSUME NEW w \in Worker, Advance(w) PROVE [Promise!Next]_(Promise!vars)
  <2>1. CASE ClaimPartition(w)
    BY <2>1, <1>t, BuilderKeeps DEF ClaimPartition, Claimable, TypeOK, PartRow
  <2>2. CASE StartPartition(w) \/ CountCompleted(w)
    BY <2>2, <1>t, BuilderKeeps DEF StartPartition, CountCompleted, TypeOK, PartRow
  <2>3. CASE StopPartition(w)
    BY <2>3, <1>t, GiveUpKeeps DEF StopPartition, PartPc
  <2>4. CASE StopJob(w)
    BY <2>4, <1>t, FinalizeKeeps, ControlKeeps DEF StopJob
  <2>5. QED
    BY <1>1, <1>o, <1>t, <2>1, <2>2, <2>3, <2>4, RecoverKeeps, PlanKeeps, CompleteKeeps,
       FinalizeKeeps, ControlKeeps DEF Advance
<1>2. ASSUME NEW w \in Worker, CommitMesh(w) PROVE [Promise!Next]_(Promise!vars)
  BY <1>2, <1>t, BuilderKeeps DEF CommitMesh, TypeOK, PartRow
<1>3. ASSUME NEW w \in Worker, FailPartition(w) PROVE [Promise!Next]_(Promise!vars)
  BY <1>3, <1>t, GiveUpKeeps DEF FailPartition, PartPc
<1>4. ASSUME NEW w \in Worker, FailFinalization(w) PROVE [Promise!Next]_(Promise!vars)
  BY <1>4, <1>t, FinalizeKeeps
<1>5. ASSUME NEW w \in Worker, Crash(w) \/ Restart(w)
      PROVE  [Promise!Next]_(Promise!vars)
  BY <1>5, <1>t, BuilderKeeps DEF Crash, Restart
<1>6. ASSUME CancelJob \/ ResumeJob PROVE [Promise!Next]_(Promise!vars)
  BY <1>6, <1>t, ApiKeeps
<1>7. ASSUME NEW p \in Part, ExpirePartLease(p) PROVE [Promise!Next]_(Promise!vars)
  BY <1>7, <1>t, BuilderKeeps DEF ExpirePartLease, TypeOK, PartRow
<1>8. ASSUME ExpireJobLease PROVE [Promise!Next]_(Promise!vars)
  BY <1>8, <1>t, BuilderKeeps DEF ExpireJobLease, TypeOK, JobRow
<1>9. ASSUME UNCHANGED vars PROVE [Promise!Next]_(Promise!vars)
  BY <1>9, <1>t, BuilderKeeps DEF vars
<1>10. QED
  BY <1>1, <1>2, <1>3, <1>4, <1>5, <1>6, <1>7, <1>8, <1>9, <1>o DEF Next

\* A quiet build keeps the promise of AssetBuild, whatever workers, API calls,
\* crashes and clock do within it.
THEOREM PipelineKeepsPromise ==
    ASSUME Quiet
    PROVE  Spec => KeepsPromise
<1>1. Spec => []QuietInv
  BY QuietBuild
<1>2. QED
  BY <1>1, PromiseInit, PromiseNext, PTL DEF Spec, KeepsPromise, Promise!Spec, Quiet

\* What the promise says of the rows: nothing built is ever taken back
\* (resume_job, recover_stale_leases and process_partition requeue or give up
\* only rows that are not completed).
THEOREM BuiltIsNeverRebuilt ==
    ASSUME Quiet
    PROVE  Spec => CompletedStays
<1>1. [Promise!Next]_(Promise!vars) => Completed \subseteq Completed'
  BY DEF Promise!Next, Promise!vars, Promise!Plan, Promise!Build, Promise!List,
         Promise!Publish, Promise!Interrupt
<1>2. QuietInv /\ [Next]_vars => [Completed \subseteq Completed']_vars
  BY <1>1, PromiseNext DEF Quiet
<1>3. QED
  BY <1>2, QuietBuild, PTL DEF Spec, CompletedStays

\* And a job once completed stays completed, whatever is still in flight.
THEOREM CompletedJobIsFinal ==
    ASSUME Quiet
    PROVE  Spec => CompletedJobStays
<1>1. QuietInv /\ [Promise!Next]_(Promise!vars) /\ job.status = "completed"
        => job'.status = "completed"
  <2>1. QuietInv /\ job.status = "completed" => Rows # {}
    BY DEF QuietInv, CompletedIsWhole
  <2>2. QED
    BY <2>1 DEF Promise!Next, Promise!vars, Promise!Plan, Promise!Build, Promise!List,
       Promise!Publish, Promise!Interrupt, TERMINAL_STATUSES
<1>2. QuietInv /\ [Next]_vars
        => [job.status = "completed" => job'.status = "completed"]_vars
  BY <1>1, PromiseNext DEF Quiet
<1>3. QED
  BY <1>2, QuietBuild, PTL DEF Spec, CompletedJobStays
=============================================================================
