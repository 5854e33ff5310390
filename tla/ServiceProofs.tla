---------------------------- MODULE ServiceProofs ----------------------------
(***************************************************************************)
(* Theorems about the services around the twin, each with a specification  *)
(* of its own.                                                             *)
(***************************************************************************)
EXTENDS Backup, Readiness, Throttle, AccessControl, AskTwin, DataLemmas

-----------------------------------------------------------------------------
(* Backup, for any set of objects and any number of restores.  The         *)
(* argument follows a key: its object is put before its row is committed,  *)
(* the rows are dumped before the objects are listed, and a restore brings *)
(* back a dump together with the objects archived after it.                *)

\* Who holds which step: no restore runs beside a backup, and what a restore
\* works from was verified.
StepsInv ==
    /\ archive.pc # "complete" => ~archive.manifest /\ ~archive.damaged
    /\ restore.pc # "idle" => /\ archive.pc \in {"none", "complete"}
                              /\ archive.pc = "complete" => verify_backup
    /\ restore.pc \in {"rows", "removed", "failed"} => restore.half
    /\ restore.pc = "idle" => ~restore.half

\* Every row has its object: in the store, in the archive, or in what is
\* unpacked and not yet copied.
ArchiveInv ==
    /\ archive.pc = "dumped" => archive.dump \subseteq objects
    /\ archive.pc = "walking" => /\ archive.dump \subseteq archive.listed
                                 /\ archive.listed \subseteq objects
    /\ archive.pc = "archived" \/ verify_backup => archive.dump \subseteq archive.objects

StoresInv ==
    /\ ~restore.half => rows \subseteq objects
    /\ restore.pc = "idle" => writing \subseteq objects
    /\ restore.pc # "idle" => writing = {}
    /\ restore.pc = "rows" /\ archive.pc = "complete" => rows = archive.dump
    /\ restore.pc = "removed" => rows \subseteq restore.objects

BackupInv ==
    /\ BackupTypeOK /\ StepsInv
    /\ ~disturbed => ArchiveInv /\ StoresInv

LEMMA InitBackup == BackupInit => BackupInv
<1> SUFFICES ASSUME BackupInit PROVE BackupInv
  OBVIOUS
<1>1. /\ archive = [pc |-> "none", dump |-> {}, listed |-> {}, objects |-> {},
                    manifest |-> FALSE, damaged |-> FALSE]
      /\ restore = [pc |-> "idle", times |-> 0, half |-> FALSE, objects |-> {}]
  BY DEF BackupInit, NoArchive, NoRestore
<1>2. BackupTypeOK
  <2>1. archive \in [pc : {"none", "dumped", "walking", "archived", "complete"},
                     dump : SUBSET Key, listed : SUBSET Key, objects : SUBSET Key,
                     manifest : BOOLEAN, damaged : BOOLEAN]
    BY <1>1
  <2>2. restore \in [pc : {"idle", "verified", "rows", "removed", "failed"},
                     times : 0 .. MaxRestores, half : BOOLEAN, objects : SUBSET Key]
    BY <1>1, BackupAssumption
  <2>3. backend \in {"local", "s3"}
    BY BackupAssumption DEF BackupInit
  <2> QED BY <2>1, <2>2, <2>3 DEF BackupInit, BackupTypeOK
<1>3. StepsInv /\ ArchiveInv /\ StoresInv
  BY <1>1 DEF BackupInit, StepsInv, ArchiveInv, StoresInv, verify_backup
<1> QED BY <1>2, <1>3 DEF BackupInv

\* What a writer does: its object is there before its row.
LEMMA WriterSteps ==
    ASSUME BackupInv, NEW k \in Key, Put(k) \/ EndWrite(k)
    PROVE  BackupInv'
<1> USE DEF BackupInv
<1>1. UNCHANGED <<archive, restore>> /\ objects \subseteq objects'
  BY DEF Put, EndWrite
<1>2. BackupTypeOK'
  BY DEF Put, EndWrite, BackupTypeOK
<1>3. StepsInv'
  BY <1>1 DEF StepsInv, verify_backup
<1>4. ASSUME ~disturbed' PROVE ArchiveInv' /\ StoresInv'
  <2>1. ~disturbed /\ restore.pc = "idle" /\ ~restore.half
    BY <1>4 DEF Put, EndWrite, StepsInv
  <2>2. ArchiveInv'
    BY <1>1, <2>1 DEF ArchiveInv, verify_backup
  <2>3. rows' \subseteq objects' /\ writing' \subseteq objects'
    BY <2>1 DEF Put, EndWrite, StoresInv
  <2> QED BY <1>1, <2>1, <2>2, <2>3 DEF StoresInv
<1> QED BY <1>2, <1>3, <1>4

\* What a backup does.  None of its steps writes to a store.
LEMMA BackupSteps ==
    ASSUME BackupInv,
           \/ _backup_database \/ ListObjects \/ _backup_objects \/ WriteManifest
           \/ BackupDies \/ Damage \/ prune_old_backups
    PROVE  BackupInv'
<1> USE DEF BackupInv, At
<1>0. UNCHANGED <<backend, disturbed, rows, objects, writing, restore>>
  BY DEF _backup_database, ListObjects, _backup_objects, WriteManifest, BackupDies,
         Damage, prune_old_backups
<1>1. ASSUME BackupTypeOK', StepsInv', ~disturbed => ArchiveInv',
             restore.pc = "rows" /\ archive'.pc = "complete" => archive'.dump = archive.dump
                                                                /\ archive.pc = "complete"
      PROVE  BackupInv'
  <2>1. ~disturbed => StoresInv'
    BY <1>0, <1>1 DEF StoresInv
  <2> QED BY <1>0, <1>1, <2>1
<1>2. CASE _backup_database
  <2>1. /\ archive' = [pc |-> "dumped", dump |-> rows, listed |-> {}, objects |-> {},
                       manifest |-> FALSE, damaged |-> FALSE]
        /\ restore.pc = "idle"
    BY <1>2 DEF _backup_database, NoArchive
  <2>2. BackupTypeOK' /\ StepsInv' /\ (~disturbed => ArchiveInv')
    BY <1>0, <2>1 DEF BackupTypeOK, StepsInv, ArchiveInv, StoresInv, verify_backup
  <2> QED BY <1>1, <2>1, <2>2
<1>3. CASE ListObjects
  <2>1. archive' = [archive EXCEPT !.pc = "walking", !.listed = objects]
        /\ archive.pc = "dumped" /\ restore.pc = "idle"
    BY <1>3 DEF ListObjects, StepsInv, BackupTypeOK
  <2>2. BackupTypeOK'
    BY <1>0, <2>1 DEF BackupTypeOK
  <2>3. StepsInv' /\ (~disturbed => ArchiveInv')
    BY <1>0, <2>1 DEF BackupTypeOK, StepsInv, ArchiveInv, verify_backup
  <2> QED BY <1>1, <2>1, <2>2, <2>3
<1>4. CASE _backup_objects
  <2>1. PICK late \in SUBSET (objects \ archive.listed) :
          archive' = [archive EXCEPT !.pc = "archived",
                                     !.objects = (archive.listed \cap objects) \cup late]
    BY <1>4 DEF _backup_objects
  <2>2. archive.pc = "walking" /\ restore.pc = "idle"
    BY <1>4 DEF _backup_objects, StepsInv
  <2>3. BackupTypeOK'
    BY <1>0, <2>1 DEF BackupTypeOK
  <2>4. StepsInv' /\ (~disturbed => ArchiveInv')
    BY <1>0, <2>1, <2>2 DEF BackupTypeOK, StepsInv, ArchiveInv, verify_backup
  <2> QED BY <1>1, <2>2, <2>3, <2>4
<1>5. CASE WriteManifest
  <2>1. archive' = [archive EXCEPT !.pc = "complete", !.manifest = TRUE]
        /\ archive.pc = "archived" /\ restore.pc = "idle"
    BY <1>5 DEF WriteManifest, StepsInv
  <2>2. BackupTypeOK'
    BY <1>0, <2>1 DEF BackupTypeOK
  <2>3. StepsInv' /\ (~disturbed => ArchiveInv')
    BY <1>0, <2>1 DEF BackupTypeOK, StepsInv, ArchiveInv, verify_backup
  <2> QED BY <1>1, <2>1, <2>2, <2>3
<1>6. CASE BackupDies
  <2>1. archive' = [archive EXCEPT !.pc = "complete"] /\ restore.pc = "idle"
        /\ ~archive.manifest
    BY <1>6 DEF BackupDies, StepsInv
  <2>2. BackupTypeOK'
    BY <1>0, <2>1 DEF BackupTypeOK
  <2>3. StepsInv' /\ (~disturbed => ArchiveInv')
    BY <1>0, <2>1 DEF BackupTypeOK, StepsInv, ArchiveInv, verify_backup
  <2> QED BY <1>1, <2>1, <2>2, <2>3
<1>7. CASE Damage
  <2>1. PICK rest \in SUBSET archive.objects :
          archive' = [archive EXCEPT !.damaged = TRUE, !.objects = rest]
    BY <1>7 DEF Damage
  <2>2. archive.pc = "complete" /\ restore.pc = "idle"
    BY <1>7 DEF Damage
  <2>3. BackupTypeOK'
    BY <1>0, <2>1 DEF BackupTypeOK
  <2>4. StepsInv' /\ (~disturbed => ArchiveInv')
    BY <1>0, <2>1, <2>2 DEF BackupTypeOK, StepsInv, ArchiveInv, verify_backup
  <2> QED BY <1>1, <2>2, <2>3, <2>4
<1>8. CASE prune_old_backups
  <2>1. archive' = [pc |-> "none", dump |-> {}, listed |-> {}, objects |-> {},
                    manifest |-> FALSE, damaged |-> FALSE]
    BY <1>8 DEF prune_old_backups, NoArchive
  <2>2. BackupTypeOK' /\ StepsInv' /\ (~disturbed => ArchiveInv')
    BY <1>0, <2>1 DEF BackupTypeOK, StepsInv, ArchiveInv, verify_backup
  <2> QED BY <1>1, <2>1, <2>2
<1> QED
  BY <1>2, <1>3, <1>4, <1>5, <1>6, <1>7, <1>8

\* What a restore does.  None of its steps writes to the archive.
LEMMA RestoreSteps ==
    ASSUME BackupInv,
           \/ BeginRestore \/ RestoreDatabase \/ RemoveObjects \/ CopyObjects
           \/ RestoreFails \/ RestoreAgain
    PROVE  BackupInv'
<1> USE DEF BackupInv, Restoring
<1>0. UNCHANGED <<backend, writing, archive>>
  BY DEF BeginRestore, RestoreDatabase, RemoveObjects, CopyObjects, RestoreFails, RestoreAgain
<1>1. CASE BeginRestore
  <2>1. /\ restore' = [restore EXCEPT !.pc = "verified", !.times = @ + 1]
        /\ restore.pc = "idle" /\ restore.times < MaxRestores /\ UNCHANGED <<rows, objects>>
        /\ archive.pc = "complete" /\ verify_backup /\ ~restore.half
        /\ disturbed' = (disturbed \/ writing # {})
    BY <1>1 DEF BeginRestore, StepsInv
  <2>2. BackupTypeOK'
    <3>1. restore.times + 1 \in 0 .. MaxRestores
      BY <2>1, BackupAssumption DEF BackupTypeOK
    <3> QED BY <1>0, <2>1, <3>1 DEF BackupTypeOK
  <2>3. restore'.pc = "verified" /\ restore'.half = restore.half
    BY <2>1 DEF BackupTypeOK
  <2>4. StepsInv' /\ (~disturbed' => ArchiveInv' /\ StoresInv')
    BY <1>0, <2>1, <2>3 DEF StepsInv, ArchiveInv, StoresInv, verify_backup
  <2> QED BY <2>2, <2>4
<1>2. CASE RestoreDatabase
  <2>1. /\ restore' = [restore EXCEPT !.pc = "rows", !.half = TRUE]
        /\ restore.pc = "verified" /\ archive.pc = "complete"
        /\ rows' = archive.dump /\ UNCHANGED <<objects, disturbed>>
    BY <1>2 DEF RestoreDatabase
  <2>2. BackupTypeOK'
    BY <1>0, <2>1 DEF BackupTypeOK
  <2>3. restore'.pc = "rows" /\ restore'.half
    BY <2>1 DEF BackupTypeOK
  <2>4. StepsInv' /\ (~disturbed' => ArchiveInv' /\ StoresInv')
    BY <1>0, <2>1, <2>3 DEF StepsInv, ArchiveInv, StoresInv, verify_backup
  <2> QED BY <2>2, <2>4
<1>3. CASE RemoveObjects
  <2>1. /\ restore' = [restore EXCEPT !.pc = "removed", !.objects = archive.objects]
        /\ restore.pc = "rows" /\ archive.pc = "complete" /\ verify_backup
        /\ objects' \subseteq objects /\ UNCHANGED <<rows, disturbed>>
    BY <1>3 DEF RemoveObjects, StepsInv
  <2>2. BackupTypeOK'
    BY <1>0, <2>1 DEF BackupTypeOK
  <2>3. restore'.pc = "removed" /\ restore'.half = restore.half
        /\ restore'.objects = archive.objects
    BY <2>1 DEF BackupTypeOK
  <2>4. StepsInv' /\ (~disturbed' => ArchiveInv' /\ StoresInv')
    BY <1>0, <2>1, <2>3 DEF StepsInv, ArchiveInv, StoresInv, verify_backup
  <2> QED BY <2>2, <2>4
<1>4. CASE CopyObjects
  <2>1. /\ restore' = [restore EXCEPT !.pc = "idle", !.half = FALSE, !.objects = {}]
        /\ restore.pc = "removed" /\ objects' = objects \cup restore.objects
        /\ UNCHANGED <<rows, disturbed>>
    BY <1>4 DEF CopyObjects
  <2>2. BackupTypeOK'
    BY <1>0, <2>1 DEF BackupTypeOK
  <2>3. restore'.pc = "idle" /\ ~restore'.half
    BY <2>1 DEF BackupTypeOK
  <2>4. StepsInv' /\ (~disturbed' => ArchiveInv' /\ StoresInv')
    BY <1>0, <2>1, <2>3 DEF StepsInv, ArchiveInv, StoresInv, verify_backup
  <2> QED BY <2>2, <2>4
<1>5. CASE RestoreFails
  <2>1. /\ restore' = [restore EXCEPT !.pc = IF restore.half THEN "failed" ELSE "idle",
                                      !.objects = {}]
        /\ restore.pc # "idle" /\ UNCHANGED <<rows, objects, disturbed>>
    BY <1>5 DEF RestoreFails
  <2>2. BackupTypeOK'
    BY <1>0, <2>1 DEF BackupTypeOK
  <2>3. restore'.pc = (IF restore.half THEN "failed" ELSE "idle")
        /\ restore'.half = restore.half
    BY <2>1 DEF BackupTypeOK
  <2>4. StepsInv' /\ (~disturbed' => ArchiveInv' /\ StoresInv')
    BY <1>0, <2>1, <2>3 DEF StepsInv, ArchiveInv, StoresInv, verify_backup
  <2> QED BY <2>2, <2>4
<1>6. CASE RestoreAgain
  <2>1. /\ restore' = [restore EXCEPT !.pc = "verified", !.times = @ + 1]
        /\ restore.pc = "failed" /\ restore.times < MaxRestores
        /\ UNCHANGED <<rows, objects, disturbed>>
    BY <1>6 DEF RestoreAgain
  <2>2. BackupTypeOK'
    <3>1. restore.times + 1 \in 0 .. MaxRestores
      BY <2>1, BackupAssumption DEF BackupTypeOK
    <3> QED BY <1>0, <2>1, <3>1 DEF BackupTypeOK
  <2>3. restore'.pc = "verified" /\ restore'.half = restore.half
    BY <2>1 DEF BackupTypeOK
  <2>4. StepsInv' /\ (~disturbed' => ArchiveInv' /\ StoresInv')
    BY <1>0, <2>1, <2>3 DEF StepsInv, ArchiveInv, StoresInv, verify_backup
  <2> QED BY <2>2, <2>4
<1> QED
  BY <1>1, <1>2, <1>3, <1>4, <1>5, <1>6

LEMMA BackupInvHolds == BackupSpec => []BackupInv
<1>1. BackupInit => BackupInv
  BY InitBackup
<1>2. BackupInv /\ [BackupNext]_backupVars => BackupInv'
  <2> SUFFICES ASSUME BackupInv, [BackupNext]_backupVars PROVE BackupInv'
    OBVIOUS
  <2>1. CASE \E k \in Key : Put(k) \/ EndWrite(k)
    BY <2>1, WriterSteps
  <2>2. CASE \/ _backup_database \/ ListObjects \/ _backup_objects \/ WriteManifest
             \/ BackupDies \/ Damage \/ prune_old_backups
    BY <2>2, BackupSteps
  <2>3. CASE \/ BeginRestore \/ RestoreDatabase \/ RemoveObjects \/ CopyObjects
             \/ RestoreFails \/ RestoreAgain
    BY <2>3, RestoreSteps
  <2>4. CASE UNCHANGED backupVars
    BY <2>4 DEF backupVars, BackupInv, BackupTypeOK, StepsInv, ArchiveInv, StoresInv,
                verify_backup
  <2> QED
    BY <2>1, <2>2, <2>3, <2>4 DEF BackupNext
<1>3. QED
  BY <1>1, <1>2, PTL DEF BackupSpec

\* create_backup, verify_backup and restore_backup in any order with the
\* writers, failing where they may: what verifies is whole, and a restore of
\* it, with the service stopped, leaves no row without its object.
THEOREM RestoreIsAlwaysWhole == BackupSpec => []RestoreIsWhole
<1>1. BackupInv => RestoreIsWhole
  BY DEF BackupInv, StepsInv, ArchiveInv, StoresInv, RestoreIsWhole
<1>2. QED
  BY <1>1, BackupInvHolds, PTL

-----------------------------------------------------------------------------
(* Readiness, for any number of worker processes.  A row is at most as old *)
(* as the last beat its loop knows of, and before it looks at that beat    *)
(* again the loop waits at most for the socket and sleeps one poll on top. *)

\* The intervals are whole seconds, and a row that is beaten when it is due
\* and found late by the longest wait is not stale yet: with the settings of
\* the code 15 - 1 + 2 + 1 <= 90 (worker_heartbeat_seconds, the socket timeout,
\* asset_worker_poll_seconds, worker_stale_after_seconds).
BeatsInTime ==
    /\ HeartbeatEvery \in Nat \ {0} /\ Poll \in Nat /\ StaleAfter \in Nat
    /\ MaxWakes \in Nat /\ SocketTimeout \in Nat
    /\ HeartbeatEvery - 1 + SocketTimeout + Poll <= StaleAfter

Worker == [pc : {"off", "top", "working", "waiting", "sleeping"},
           for : 0 .. StaleAfter + 1, beat : 0 .. HeartbeatEvery]
Heartbeat == [status : {"none", "online", "offline"}, age : 0 .. StaleAfter + 1]

RowFits(w, r) ==
    /\ w.pc \in {"top", "waiting", "sleeping"} =>
          /\ r.status = "online"
          /\ w.beat < HeartbeatEvery => r.age <= w.beat
    /\ w.pc = "waiting" =>
          /\ r.age <= HeartbeatEvery - 1 + w.for
          /\ w.for <= SocketTimeout
    /\ w.pc = "sleeping" =>
          /\ r.age <= HeartbeatEvery - 1 + SocketTimeout + w.for
          /\ w.for <= Poll
    /\ w.pc = "off" => w.for <= r.age
    /\ r.status = "offline" => w.pc = "off"

WorkerRowInv(p) == RowFits(process[p], row[p])

ReadinessInv == ReadinessTypeOK /\ \A p \in Process : WorkerRowInv(p)

\* A number that grows by one up to a limit.
LEMMA OlderIs ==
    ASSUME NEW limit \in Nat, NEW age \in 0 .. limit
    PROVE  Older(age, limit) = IF age < limit THEN age + 1 ELSE limit
<1> DEFINE S == {age + 1, limit}
           least == IF age < limit THEN age + 1 ELSE limit
<1>1. least \in S /\ \A n \in S : least <= n
  OBVIOUS
<1>2. \A x \in S : (\A n \in S : x <= n) => x = least
  OBVIOUS
<1>3. Min(S) = least
  BY <1>1, <1>2 DEF Min
<1>4. QED
  BY <1>3 DEF Older

LEMMA InitReadiness ==
    ASSUME BeatsInTime, ReadinessInit
    PROVE  ReadinessInv
BY DEF BeatsInTime, ReadinessInit, ReadinessInv, ReadinessTypeOK, WorkerRowInv, RowFits

\* A step of one process leaves the others alone.
LEMMA OneProcess ==
    ASSUME BeatsInTime, ReadinessInv, NEW p \in Process,
           NEW w \in Worker, NEW r \in Heartbeat, RowFits(w, r),
           process' = [process EXCEPT ![p] = w], row' = [row EXCEPT ![p] = r],
           wakes' \in 0 .. MaxWakes, database' \in BOOLEAN
    PROVE  ReadinessInv'
<1>1. process \in [Process -> Worker] /\ row \in [Process -> Heartbeat]
  BY DEF ReadinessInv, ReadinessTypeOK, Worker, Heartbeat
<1>2. process' \in [Process -> Worker] /\ row' \in [Process -> Heartbeat]
  BY <1>1
<1>3. ReadinessTypeOK'
  BY <1>2 DEF ReadinessTypeOK, Worker, Heartbeat
<1>4. ASSUME NEW o \in Process PROVE WorkerRowInv(o)'
  <2>1. CASE o = p
    BY <1>1, <2>1 DEF WorkerRowInv, RowFits
  <2>2. CASE o # p
    <3>1. process'[o] = process[o] /\ row'[o] = row[o]
      BY <1>1, <2>2
    <3>2. WorkerRowInv(o)
      BY DEF ReadinessInv
    <3>3. QED
      BY <3>1, <3>2 DEF WorkerRowInv, RowFits
  <2>3. QED
    BY <2>1, <2>2
<1>5. QED
  BY <1>3, <1>4 DEF ReadinessInv

\* Where a process goes, and what is left of its record.
LEMMA GoesTo ==
    ASSUME ReadinessInv, NEW p \in Process, NEW pc, Goes(p, pc)
    PROVE  process' = [process EXCEPT ![p] =
              [pc |-> pc, for |-> 0, beat |-> process[p].beat]]
<1> DEFINE w == [pc |-> pc, for |-> 0, beat |-> process[p].beat]
<1>1. process \in [Process -> Worker]
  BY DEF ReadinessInv, ReadinessTypeOK, Worker
<1> DEFINE u == [pc |-> pc, for |-> process[p].for, beat |-> process[p].beat]
<1>a. process[p] \in Worker
  BY <1>1
<1>b. [process[p] EXCEPT !.pc = pc] = u
  BY <1>a DEF Worker
<1>c. [u EXCEPT !.for = 0] = w
  OBVIOUS
<1>2. [[process[p] EXCEPT !.pc = pc] EXCEPT !.for = 0] = w
  BY <1>b, <1>c
<1>3. process' = [process EXCEPT ![p] = [[process[p] EXCEPT !.pc = pc] EXCEPT !.for = 0]]
  BY <1>1 DEF Goes
<1>4. QED
  BY <1>2, <1>3

LEMMA ProcessSteps ==
    ASSUME BeatsInTime, ReadinessInv, NEW p \in Process,
           \/ StartWorker(p) \/ Turn(p) \/ WorkEnds(p) \/ CycleFails(p)
           \/ Woken(p) \/ WaitFails(p) \/ SleptOut(p)
           \/ Collapse(p) \/ Killed(p) \/ mark_worker_offline(p)
    PROVE  ReadinessInv'
<1> DEFINE beaten == [status |-> "online", age |-> 0]
           gone == [pc |-> "off", for |-> 0, beat |-> process[p].beat]
           again == [pc |-> "top", for |-> 0, beat |-> process[p].beat]
           asleep == [pc |-> "sleeping", for |-> 0, beat |-> process[p].beat]
<1>0. /\ process[p] \in Worker /\ row[p] \in Heartbeat /\ WorkerRowInv(p)
      /\ row \in [Process -> Heartbeat] /\ beaten \in Heartbeat
      /\ gone \in Worker /\ again \in Worker /\ asleep \in Worker
      /\ wakes \in 0 .. MaxWakes /\ database \in BOOLEAN
  BY DEF BeatsInTime, ReadinessInv, ReadinessTypeOK, Worker, Heartbeat
<1>a. row = [row EXCEPT ![p] = row[p]]
  BY <1>0
<1>1. CASE StartWorker(p)
  <2> DEFINE w == [pc |-> "top", for |-> 0, beat |-> HeartbeatEvery]
  <2>1. w \in Worker /\ RowFits(w, beaten)
    BY DEF BeatsInTime, Worker, RowFits
  <2>2. process' = [process EXCEPT ![p] = w] /\ row' = [row EXCEPT ![p] = beaten]
    BY <1>1 DEF StartWorker, record_worker_heartbeat
  <2>3. QED
    BY <1>0, <1>1, <2>1, <2>2, OneProcess DEF StartWorker
<1>2. CASE Turn(p)
  <2>1. PICK pc \in {"working", "waiting"} :
           process' = [process EXCEPT ![p] =
              [pc |-> pc, for |-> 0, beat |-> IF Beats(p) THEN 0 ELSE process[p].beat]]
    BY <1>2 DEF Turn
  <2> DEFINE w == [pc |-> pc, for |-> 0, beat |-> IF Beats(p) THEN 0 ELSE process[p].beat]
             r == IF Beats(p) THEN beaten ELSE row[p]
  <2>2. w \in Worker /\ r \in Heartbeat
    BY <1>0 DEF BeatsInTime, Worker
  <2>3. RowFits(w, r)
    BY <1>0, <1>2 DEF BeatsInTime, WorkerRowInv, RowFits, Worker, Heartbeat, Beats, Turn
  <2>4. row' = [row EXCEPT ![p] = r]
    BY <1>2, <1>a DEF Turn, record_worker_heartbeat
  <2>5. wakes' = wakes /\ database' = database
    BY <1>2 DEF Turn
  <2>6. QED
    BY <1>0, <2>1, <2>2, <2>3, <2>4, <2>5, OneProcess
<1>3. CASE WorkEnds(p)
  <2>1. RowFits(again, beaten)
    BY <1>0 DEF BeatsInTime, RowFits, Worker
  <2>2. process' = [process EXCEPT ![p] = again] /\ row' = [row EXCEPT ![p] = beaten]
    BY <1>3, GoesTo DEF WorkEnds, record_worker_heartbeat
  <2>3. QED
    BY <1>0, <1>3, <2>1, <2>2, OneProcess DEF WorkEnds
<1>3a. CASE CycleFails(p)
  <2>1. RowFits(asleep, beaten)
    BY <1>0 DEF BeatsInTime, RowFits, Worker
  <2>2. process' = [process EXCEPT ![p] = asleep] /\ row' = [row EXCEPT ![p] = beaten]
    BY <1>3a, GoesTo DEF CycleFails, record_worker_heartbeat
  <2>3. QED
    BY <1>0, <1>3a, <2>1, <2>2, OneProcess DEF CycleFails
<1>4. CASE Woken(p) \/ SleptOut(p)
  <2>1. RowFits(again, row[p])
    BY <1>0, <1>4 DEF BeatsInTime, RowFits, WorkerRowInv, Worker, Heartbeat, Woken, SleptOut
  <2>2. process' = [process EXCEPT ![p] = again] /\ row' = [row EXCEPT ![p] = row[p]]
    BY <1>4, <1>a, GoesTo DEF Woken, SleptOut
  <2>3. wakes' \in 0 .. MaxWakes /\ database' = database
    BY <1>0, <1>4 DEF Woken, SleptOut, BeatsInTime
  <2>4. QED
    BY <1>0, <2>1, <2>2, <2>3, OneProcess
<1>4a. CASE WaitFails(p)
  <2>1. RowFits(asleep, row[p])
    BY <1>0, <1>4a DEF BeatsInTime, RowFits, WorkerRowInv, Worker, Heartbeat, WaitFails
  <2>2. process' = [process EXCEPT ![p] = asleep] /\ row' = [row EXCEPT ![p] = row[p]]
    BY <1>4a, <1>a, GoesTo DEF WaitFails
  <2>3. wakes' \in 0 .. MaxWakes /\ database' = database
    BY <1>0, <1>4a DEF WaitFails, BeatsInTime
  <2>4. QED
    BY <1>0, <2>1, <2>2, <2>3, OneProcess
<1>5. CASE Collapse(p) \/ Killed(p)
  <2>1. RowFits(gone, row[p])
    BY <1>0 DEF BeatsInTime, RowFits, Heartbeat
  <2>2. process' = [process EXCEPT ![p] = gone] /\ row' = [row EXCEPT ![p] = row[p]]
    BY <1>5, <1>a, GoesTo DEF Collapse, Killed
  <2>3. wakes' = wakes /\ database' = database
    BY <1>5 DEF Collapse, Killed
  <2>4. QED
    BY <1>0, <2>1, <2>2, <2>3, OneProcess
<1>6. CASE mark_worker_offline(p)
  <2> DEFINE r == [status |-> "offline", age |-> 0]
  <2>1. RowFits(gone, r) /\ r \in Heartbeat
    BY DEF BeatsInTime, RowFits, Heartbeat
  <2>2. process' = [process EXCEPT ![p] = gone] /\ row' = [row EXCEPT ![p] = r]
    BY <1>6, GoesTo DEF mark_worker_offline
  <2>3. QED
    BY <1>0, <1>6, <2>1, <2>2, OneProcess DEF mark_worker_offline
<1>7. QED
  BY <1>1, <1>2, <1>3, <1>3a, <1>4, <1>4a, <1>5, <1>6

\* A tick: every count goes up by one, or stays at its limit.
LEMMA TickStep ==
    ASSUME BeatsInTime, ReadinessInv, Tick
    PROVE  ReadinessInv'
<1> DEFINE older(p) == [pc |-> process[p].pc,
                        for |-> Older(process[p].for, StaleAfter + 1),
                        beat |-> Older(process[p].beat, HeartbeatEvery)]
           aged(p) == [status |-> row[p].status, age |-> Older(row[p].age, StaleAfter + 1)]
<1>1. process \in [Process -> Worker] /\ row \in [Process -> Heartbeat]
  BY DEF ReadinessInv, ReadinessTypeOK, Worker, Heartbeat
<1>2. ASSUME NEW p \in Process
      PROVE  process'[p] = older(p) /\ row'[p] = aged(p)
  BY <1>1 DEF Tick, Worker, Heartbeat
<1>3. ASSUME NEW p \in Process
      PROVE  /\ older(p) \in Worker /\ aged(p) \in Heartbeat
             /\ RowFits(older(p), aged(p))
  <2> DEFINE w == process[p]
             r == row[p]
  <2>1. /\ w.for \in 0 .. StaleAfter + 1 /\ w.beat \in 0 .. HeartbeatEvery
        /\ r.age \in 0 .. StaleAfter + 1
        /\ w.pc \in {"off", "top", "working", "waiting", "sleeping"}
        /\ r.status \in {"none", "online", "offline"}
        /\ StaleAfter + 1 \in Nat /\ HeartbeatEvery \in Nat
    BY <1>1 DEF Worker, Heartbeat, BeatsInTime
  <2>2. /\ Older(w.for, StaleAfter + 1) = IF w.for < StaleAfter + 1
                                          THEN w.for + 1 ELSE StaleAfter + 1
        /\ Older(w.beat, HeartbeatEvery) = IF w.beat < HeartbeatEvery
                                           THEN w.beat + 1 ELSE HeartbeatEvery
        /\ Older(r.age, StaleAfter + 1) = IF r.age < StaleAfter + 1
                                          THEN r.age + 1 ELSE StaleAfter + 1
    BY <2>1, OlderIs
  <2>3. older(p) \in Worker /\ aged(p) \in Heartbeat
    BY <2>1, <2>2 DEF Worker, Heartbeat
  <2>4. RowFits(w, r) /\ w.pc # "top" /\ (w.pc = "waiting" => w.for < SocketTimeout)
        /\ (w.pc = "sleeping" => w.for < Poll)
    BY DEF ReadinessInv, WorkerRowInv, Tick
  <2>5. RowFits(older(p), aged(p))
    <3>1. /\ older(p).pc = w.pc /\ older(p).for = Older(w.for, StaleAfter + 1)
          /\ older(p).beat = Older(w.beat, HeartbeatEvery)
          /\ aged(p).status = r.status /\ aged(p).age = Older(r.age, StaleAfter + 1)
      OBVIOUS
    <3> HIDE DEF older, aged, w, r
    <3>2. QED
      BY <2>1, <2>2, <2>4, <3>1 DEF RowFits, BeatsInTime
  <2>6. QED
    BY <2>3, <2>5
<1>4. process' \in [Process -> Worker] /\ row' \in [Process -> Heartbeat]
  <2>1. /\ process' = [p \in Process |-> process'[p]]
        /\ row' = [p \in Process |-> row'[p]]
    BY DEF Tick
  <2> HIDE DEF older, aged
  <2>2. QED
    BY <1>2, <1>3, <2>1
<1>5. ReadinessTypeOK'
  BY <1>4 DEF Tick, ReadinessInv, ReadinessTypeOK, Worker, Heartbeat
<1>6. ASSUME NEW p \in Process PROVE WorkerRowInv(p)'
  <2> HIDE DEF older, aged
  <2>1. QED
    BY <1>2, <1>3 DEF WorkerRowInv, RowFits
<1>7. QED
  BY <1>5, <1>6 DEF ReadinessInv

LEMMA NextReadiness ==
    ASSUME BeatsInTime, ReadinessInv, [ReadinessNext]_readinessVars
    PROVE  ReadinessInv'
<1>1. CASE notify_workers \/ DatabaseChanges
  <2>1. /\ process' = process /\ row' = row
        /\ wakes' \in 0 .. MaxWakes /\ database' \in BOOLEAN
    <3>1. wakes \in 0 .. MaxWakes /\ database \in BOOLEAN /\ MaxWakes \in Nat
      BY DEF BeatsInTime, ReadinessInv, ReadinessTypeOK
    <3>2. CASE notify_workers
      BY <3>1, <3>2 DEF notify_workers
    <3>3. CASE DatabaseChanges
      BY <3>1, <3>3 DEF DatabaseChanges
    <3>4. QED
      BY <1>1, <3>2, <3>3
  <2>2. QED
    BY <2>1 DEF ReadinessInv, ReadinessTypeOK, WorkerRowInv, RowFits
<1>2. CASE UNCHANGED readinessVars
  BY <1>2 DEF readinessVars, ReadinessInv, ReadinessTypeOK, WorkerRowInv, RowFits
<1>3. QED
  BY <1>1, <1>2, ProcessSteps, TickStep DEF ReadinessNext

LEMMA ReadinessInvHolds ==
    ASSUME BeatsInTime
    PROVE  ReadinessSpec => []ReadinessInv
<1>1. ReadinessInit => ReadinessInv
  BY InitReadiness
<1>2. ReadinessInv /\ [ReadinessNext]_readinessVars => ReadinessInv'
  BY NextReadiness
<1>3. QED
  BY <1>1, <1>2, PTL DEF ReadinessSpec

\* The readiness page counts who is there: a worker that waits for work, or
\* sleeps after an error, is on the list, however long its last unit of work
\* took and whatever happens to the database and to Redis, and no worker that
\* was gone for longer than StaleAfter is.
THEOREM WorkersAreAlwaysCounted ==
    ASSUME BeatsInTime
    PROVE  ReadinessSpec => []WorkersAreCounted
<1>1. ReadinessInv => WorkersAreCounted
  BY DEF ReadinessInv, ReadinessTypeOK, WorkerRowInv, RowFits, WorkersAreCounted, active_workers,
         _workers, BeatsInTime
<1>2. QED
  BY <1>1, ReadinessInvHolds, PTL
-----------------------------------------------------------------------------
(* The request budget, for any number of processes and of requests.  Who   *)
(* holds a place of the Redis window has passed it or is at the EXPIRE of  *)
(* its first hit; there are never more of them than the counter says.      *)

PLACES == {"new", "incr", "expire", "local", "guard", "ask",
           "question", "served", "reasoned", "refused"}
BUDGETS == BUCKETS \cup {"redis"}
Request == [pc : PLACES, at : Server, kind : KINDS, passed : SUBSET BUDGETS]

Held == {q \in Hit : "redis" \in hits[q].passed \/ hits[q].pc = "expire"}
HeldAt(s, b) == {q \in Hit : hits[q].at = s /\ b \in hits[q].passed}
LimitOf(b) == IF b = "api" THEN Limit ELSE IF b = "read" THEN ReadLimit ELSE AskLimit

RedisInv ==
    /\ IsFiniteSet(Held) /\ Cardinality(Held) <= counter.count
    /\ Limit >= 1 => Cardinality(Held) <= Limit
    /\ Limit = 0 => \A q \in Hit : "redis" \notin hits[q].passed
    /\ counter.expires => counter.count > 0
    /\ \A q \in Hit : hits[q].pc = "expire" =>
          /\ counter.count > 0 /\ ~counter.expires
          /\ \A o \in Hit : hits[o].pc = "expire" => o = q
    /\ counter.count > 0 /\ ~counter.expires =>
          lost \/ \E q \in Hit : hits[q].pc = "expire"

LocalInv(s, b) ==
    /\ IsFiniteSet(HeldAt(s, b)) /\ Cardinality(HeldAt(s, b)) <= window[s][b]
    /\ Cardinality(HeldAt(s, b)) <= LimitOf(b)

LocalsInv == \A s \in Server, b \in BUCKETS : LocalInv(s, b)

ThrottleInv == ThrottleTypeOK /\ RedisInv /\ LocalsInv

\* q is at pc next and has passed budgets more, every other request is as it was.
Becomes(q, pc, more) ==
    hits' = [hits EXCEPT ![q] = [pc |-> pc, at |-> hits[q].at, kind |-> hits[q].kind,
                                 passed |-> hits[q].passed \cup more]]

LEMMA ToIs ==
    ASSUME ThrottleTypeOK, NEW q \in Hit, NEW pc \in PLACES, To(q, pc)
    PROVE  Becomes(q, pc, {})
<1>1. hits \in [Hit -> Request]
  BY DEF ThrottleTypeOK, Request, PLACES, BUDGETS
<1>2. [hits[q] EXCEPT !.pc = pc] = [pc |-> pc, at |-> hits[q].at, kind |-> hits[q].kind,
                                    passed |-> hits[q].passed \cup {}]
  BY <1>1 DEF Request
<1>3. QED
  BY <1>1, <1>2 DEF To, Becomes

LEMMA PassIs ==
    ASSUME ThrottleTypeOK, NEW q \in Hit, NEW pc \in PLACES, NEW budget \in BUDGETS,
           Pass(q, pc, budget)
    PROVE  Becomes(q, pc, {budget})
<1> DEFINE u == [hits[q] EXCEPT !.pc = pc]
           more == hits[q].passed \cup {budget}
<1>1. hits \in [Hit -> Request]
  BY DEF ThrottleTypeOK, Request, PLACES, BUDGETS
<1>2. u = [pc |-> pc, at |-> hits[q].at, kind |-> hits[q].kind, passed |-> hits[q].passed]
  BY <1>1 DEF Request
<1>3. [u EXCEPT !.passed = u.passed \cup {budget}]
         = [pc |-> pc, at |-> hits[q].at, kind |-> hits[q].kind, passed |-> more]
  <2> HIDE DEF u
  <2>1. u.passed = hits[q].passed
    BY <1>2
  <2>2. QED
    BY <1>2, <2>1
<1>4. hits' = [hits EXCEPT ![q] = [u EXCEPT !.passed = u.passed \cup {budget}]]
  BY <1>1 DEF Pass
<1>5. QED
  BY <1>3, <1>4 DEF Becomes

LEMMA BecomesFields ==
    ASSUME ThrottleTypeOK, NEW q \in Hit, NEW pc \in PLACES, NEW more \in SUBSET BUDGETS,
           Becomes(q, pc, more)
    PROVE  /\ hits' \in [Hit -> Request]
           /\ hits'[q].pc = pc /\ hits'[q].passed = hits[q].passed \cup more
           /\ \A o \in Hit : hits'[o].at = hits[o].at
           /\ \A o \in Hit \ {q} : hits'[o] = hits[o]
<1> DEFINE w == [pc |-> pc, at |-> hits[q].at, kind |-> hits[q].kind,
                 passed |-> hits[q].passed \cup more]
<1>1. hits \in [Hit -> Request]
  BY DEF ThrottleTypeOK, Request, PLACES, BUDGETS
<1>2. w \in Request
  BY <1>1 DEF Request
<1>3. hits' = [hits EXCEPT ![q] = w]
  BY DEF Becomes
<1> HIDE DEF w
<1>4. hits' \in [Hit -> Request] /\ hits'[q] = w /\ \A o \in Hit \ {q} : hits'[o] = hits[o]
  BY <1>1, <1>2, <1>3
<1>5. w.pc = pc /\ w.at = hits[q].at /\ w.passed = hits[q].passed \cup more
  BY DEF w
<1>6. QED
  BY <1>4, <1>5

\* A request that passes no local window leaves them as they are.
LEMMA LocalsStay ==
    ASSUME ThrottleInv, window' = window,
           \A q \in Hit : /\ hits'[q].at = hits[q].at
                          /\ hits'[q].passed \ {"redis"} = hits[q].passed \ {"redis"}
    PROVE  LocalsInv'
<1> SUFFICES ASSUME NEW s \in Server, NEW b \in BUCKETS PROVE LocalInv(s, b)'
  BY DEF LocalsInv
<1>1. b # "redis"
  BY DEF BUCKETS
<1>2. HeldAt(s, b)' = HeldAt(s, b)
  BY <1>1 DEF HeldAt
<1>3. LocalInv(s, b)
  BY DEF ThrottleInv, LocalsInv
<1>4. QED
  BY <1>2, <1>3 DEF LocalInv

\* A request that neither holds a place of the Redis window anew nor gives one
\* up leaves that window as it is.
LEMMA RedisStays ==
    ASSUME ThrottleInv, counter' = counter, lost => lost',
           \A q \in Hit : /\ hits'[q].pc = "expire" <=> hits[q].pc = "expire"
                          /\ "redis" \in hits'[q].passed <=> "redis" \in hits[q].passed
    PROVE  RedisInv'
<1>1. Held' = Held
  BY DEF Held
<1>2. RedisInv
  BY DEF ThrottleInv
<1>3. QED
  BY <1>1, <1>2 DEF RedisInv

LEMMA InitThrottle ==
    ASSUME ThrottleInit
    PROVE  ThrottleInv
<1>1. ThrottleTypeOK
  BY ThrottleAssumption DEF ThrottleInit, ThrottleTypeOK, BUCKETS
<1>2. Held = {} /\ \A s \in Server, b \in BUCKETS : HeldAt(s, b) = {}
  BY DEF ThrottleInit, Held, HeldAt
<1>3. IsFiniteSet({}) /\ Cardinality({}) = 0
  BY FS_EmptySet
<1>4. RedisInv
  BY <1>2, <1>3, ThrottleAssumption DEF RedisInv, ThrottleInit
<1>5. LocalsInv
  <2>1. ASSUME NEW s \in Server, NEW b \in BUCKETS
        PROVE  /\ Cardinality(HeldAt(s, b)) = 0 /\ IsFiniteSet(HeldAt(s, b))
               /\ window[s][b] = 0 /\ LimitOf(b) \in Nat
    BY <1>2, <1>3, ThrottleAssumption DEF LimitOf, ThrottleInit
  <2>2. QED
    BY <2>1 DEF LocalsInv, LocalInv
<1>6. QED
  BY <1>1, <1>4, <1>5 DEF ThrottleInv

\* The steps at which a request is neither counted nor counted out.
LEMMA Uncounted ==
    ASSUME ThrottleInv, NEW q \in Hit,
           Connect(q) \/ Question(q)
    PROVE  ThrottleInv'
<1>1. ThrottleTypeOK
  BY DEF ThrottleInv
<1>2. PICK pc \in PLACES \ {"expire"} : To(q, pc) /\ hits[q].pc # "expire"
  BY DEF Connect, Question, Hitting, PLACES
<1>3. /\ hits' \in [Hit -> Request]
      /\ hits'[q].pc = pc /\ hits'[q].passed = hits[q].passed \cup {}
      /\ \A o \in Hit : hits'[o].at = hits[o].at
      /\ \A o \in Hit \ {q} : hits'[o] = hits[o]
  BY <1>1, <1>2, ToIs, BecomesFields
<1>4. /\ counter' = counter /\ window' = window /\ (lost => lost')
      /\ latched' \subseteq Server /\ connected' \subseteq Server
      /\ latched' \cap connected' = {}
  <2>1. hits[q].at \in Server
    BY <1>1 DEF ThrottleTypeOK
  <2>2. QED
    <3>1. CASE Connect(q)
      <4>1. counter' = counter /\ window' = window /\ lost' = lost
        BY <3>1 DEF Connect
      <4>2. /\ latched' \in {latched, latched \cup {hits[q].at}}
            /\ connected' \in {connected, connected \cup {hits[q].at}}
            /\ hits[q].at \notin latched' \/ hits[q].at \notin connected'
            /\ latched \subseteq Server /\ connected \subseteq Server
            /\ latched \cap connected = {}
        BY <1>1, <3>1 DEF Connect, ThrottleTypeOK
      <4>3. QED
        BY <2>1, <4>1, <4>2
    <3>2. CASE Question(q)
      BY <1>1, <3>2 DEF Question, ThrottleTypeOK
    <3>3. QED
      BY <3>1, <3>2
<1>5. ThrottleTypeOK'
  BY <1>1, <1>3, <1>4 DEF ThrottleTypeOK, Request, PLACES, BUDGETS
<1>6. LocalsInv'
  BY <1>3, <1>4, LocalsStay
<1>7. RedisInv'
  BY <1>2, <1>3, <1>4, RedisStays
<1>8. QED
  BY <1>5, <1>6, <1>7 DEF ThrottleInv

\* INCR: the first hit of a window goes on to EXPIRE, another is counted
\* against the limit, and none of them is counted twice.
LEMMA IncrCounts ==
    ASSUME ThrottleInv, NEW q \in Hit, Incr(q)
    PROVE  ThrottleInv'
<1> DEFINE count == counter.count + 1
<1>1. /\ ThrottleTypeOK /\ RedisInv /\ counter.count \in Nat /\ counter.expires \in BOOLEAN
      /\ Limit \in Nat /\ IsFiniteSet(Held) /\ Cardinality(Held) \in Nat
  BY FS_CardinalityType, ThrottleAssumption DEF ThrottleInv, ThrottleTypeOK, RedisInv
<1>2. PICK pc \in PLACES, more \in SUBSET {"redis"} :
         /\ Becomes(q, pc, more)
         /\ count = 1 => pc = "expire" /\ more = {}
         /\ count # 1 => pc # "expire"
         /\ more # {} => count <= Limit
  <2>1. Admitted(q) \in {"served", "guard"}
    BY DEF Admitted
  <2>2. CASE count = 1
    <3>1. To(q, "expire") /\ "expire" \in PLACES
      BY <2>2 DEF Incr, StartsWindow, PLACES
    <3>2. Becomes(q, "expire", {})
      BY <1>1, <3>1, ToIs
    <3>3. QED
      BY <2>2, <3>1, <3>2
  <2>3. CASE count # 1 /\ count <= Limit
    <3>1. Pass(q, Admitted(q), "redis") /\ "redis" \in BUDGETS /\ Admitted(q) \in PLACES
          /\ Admitted(q) # "expire"
      BY <2>1, <2>3 DEF Incr, StartsWindow, BUDGETS, PLACES
    <3>2. Becomes(q, Admitted(q), {"redis"})
      BY <1>1, <3>1, PassIs
    <3>3. QED
      BY <2>3, <3>1, <3>2
  <2>4. CASE count # 1 /\ ~(count <= Limit)
    <3>1. To(q, "refused") /\ "refused" \in PLACES
      BY <2>4 DEF Incr, StartsWindow, PLACES
    <3>2. Becomes(q, "refused", {})
      BY <1>1, <3>1, ToIs
    <3>3. QED
      BY <2>4, <3>1, <3>2
  <2>5. QED
    BY <2>2, <2>3, <2>4
<1>3. /\ hits' \in [Hit -> Request]
      /\ hits'[q].pc = pc /\ hits'[q].passed = hits[q].passed \cup more
      /\ \A o \in Hit : hits'[o].at = hits[o].at
      /\ \A o \in Hit \ {q} : hits'[o] = hits[o]
  <2>1. more \in SUBSET BUDGETS
    BY DEF BUDGETS
  <2>2. QED
    BY <1>1, <1>2, <2>1, BecomesFields
<1>4. /\ counter' = [count |-> count, expires |-> counter.expires]
      /\ counter'.count = count /\ counter'.expires = counter.expires /\ window' = window
      /\ latched' = latched /\ connected' = connected /\ lost' = lost
      /\ hits[q].pc = "incr"
  BY <1>1 DEF Incr, Counting, ThrottleTypeOK, Hitting
<1>5. ThrottleTypeOK'
  BY <1>1, <1>3, <1>4 DEF ThrottleTypeOK, Request, PLACES, BUDGETS
<1>6. LocalsInv'
  BY <1>3, <1>4, LocalsStay
<1>7. RedisInv'
  <2>1. Held' \subseteq Held \cup {q}
    BY <1>3 DEF Held
  <2>2. /\ IsFiniteSet(Held') /\ Cardinality(Held') \in Nat
        /\ Cardinality(Held') <= Cardinality(Held) + 1
    BY <1>1, <2>1, OneMore, FS_CardinalityType
  <2>3. Cardinality(Held') <= count
    BY <1>1, <2>2 DEF RedisInv
  <2>4. ASSUME Limit >= 1 PROVE Cardinality(Held') <= Limit
    <3>1. CASE count <= Limit
      BY <1>1, <2>2, <2>3, <3>1
    <3>2. CASE count > Limit
      <4>1. pc # "expire" /\ more = {}
        BY <1>1, <1>2, <2>4, <3>2
      <4>2. Held' \subseteq Held
        BY <1>3, <4>1 DEF Held
      <4>3. Cardinality(Held') <= Cardinality(Held)
        BY <1>1, <4>2, NoMore
      <4>4. QED
        BY <1>1, <2>2, <2>4, <4>3 DEF RedisInv
    <3>3. QED
      BY <1>1, <3>1, <3>2
  <2>5. ASSUME Limit = 0, NEW o \in Hit PROVE "redis" \notin hits'[o].passed
    <3>1. more = {}
      BY <1>1, <1>2, <2>5
    <3>2. QED
      BY <1>1, <1>3, <2>5, <3>1 DEF RedisInv
  <2>6. ASSUME NEW o \in Hit, hits'[o].pc = "expire"
        PROVE  /\ counter'.count > 0 /\ ~counter'.expires
               /\ \A other \in Hit : hits'[other].pc = "expire" => other = o
    <3>1. CASE count = 1
      <4>1. \A other \in Hit : hits[other].pc # "expire"
        BY <1>1, <3>1 DEF RedisInv
      <4>2. o = q /\ \A other \in Hit : hits'[other].pc = "expire" => other = q
        BY <1>3, <2>6, <4>1
      <4>3. ~counter.expires
        BY <1>1, <3>1 DEF RedisInv
      <4>4. QED
        BY <1>1, <1>4, <4>2, <4>3
    <3>2. CASE count # 1
      <4>1. o # q /\ hits'[q].pc # "expire"
        BY <1>2, <1>3, <2>6, <3>2
      <4>2. hits[o].pc = "expire" /\ \A other \in Hit : hits'[other].pc = "expire" =>
                                                            hits[other].pc = "expire"
        BY <1>3, <2>6, <4>1
      <4>3. QED
        BY <1>1, <1>4, <4>2 DEF RedisInv
    <3>3. QED
      BY <3>1, <3>2
  <2>7. ASSUME ~counter'.expires PROVE lost' \/ \E o \in Hit : hits'[o].pc = "expire"
    <3>1. CASE count = 1
      BY <1>2, <1>3, <3>1
    <3>2. CASE count # 1
      <4>1. lost \/ \E o \in Hit : hits[o].pc = "expire"
        BY <1>1, <1>4, <2>7, <3>2 DEF RedisInv
      <4>2. QED
        BY <1>3, <1>4, <4>1
    <3>3. QED
      BY <3>1, <3>2
  <2>8. counter'.expires => counter'.count > 0
    BY <1>1, <1>4
  <2>9. QED
    BY <1>4, <2>2, <2>3, <2>4, <2>5, <2>6, <2>7, <2>8 DEF RedisInv
<1>8. QED
  BY <1>5, <1>6, <1>7 DEF ThrottleInv

\* EXPIRE answered: the place the first hit held is now passed, or refused
\* where nothing is allowed.
LEMMA ExpireCounts ==
    ASSUME ThrottleInv, NEW q \in Hit, Expire(q)
    PROVE  ThrottleInv'
<1>1. /\ ThrottleTypeOK /\ RedisInv /\ counter.count \in Nat /\ Limit \in Nat
      /\ IsFiniteSet(Held) /\ Cardinality(Held) \in Nat
      /\ hits[q].pc = "expire" /\ counter.count > 0
  BY FS_CardinalityType, ThrottleAssumption
     DEF ThrottleInv, ThrottleTypeOK, RedisInv, Expire, Hitting
<1>2. PICK pc \in PLACES \ {"expire"}, more \in SUBSET {"redis"} :
         /\ Becomes(q, pc, more)
         /\ Limit = 0 => more = {}
  <2>1. Admitted(q) \in PLACES \ {"expire"}
    BY DEF Admitted, PLACES
  <2>2. CASE 1 <= Limit
    <3>1. Pass(q, Admitted(q), "redis") /\ "redis" \in BUDGETS
      BY <2>2 DEF Expire, BUDGETS
    <3>2. Becomes(q, Admitted(q), {"redis"})
      BY <1>1, <2>1, <3>1, PassIs
    <3>3. QED
      BY <2>1, <2>2, <3>2
  <2>3. CASE ~(1 <= Limit)
    <3>1. To(q, "refused") /\ "refused" \in PLACES \ {"expire"}
      BY <2>3 DEF Expire, PLACES
    <3>2. Becomes(q, "refused", {})
      BY <1>1, <3>1, ToIs
    <3>3. QED
      BY <3>1, <3>2
  <2>4. QED
    BY <2>2, <2>3
<1>3. /\ hits' \in [Hit -> Request]
      /\ hits'[q].pc = pc /\ hits'[q].passed = hits[q].passed \cup more
      /\ \A o \in Hit : hits'[o].at = hits[o].at
      /\ \A o \in Hit \ {q} : hits'[o] = hits[o]
  <2>1. more \in SUBSET BUDGETS
    BY DEF BUDGETS
  <2>2. QED
    BY <1>1, <1>2, <2>1, BecomesFields
<1>4. /\ counter' \in [count : Nat, expires : BOOLEAN]
      /\ counter'.count = counter.count /\ counter'.expires /\ window' = window
      /\ latched' = latched /\ connected' = connected /\ lost' = lost
  BY <1>1 DEF Expire, Expiring, ThrottleTypeOK
<1>5. ThrottleTypeOK'
  BY <1>1, <1>3, <1>4 DEF ThrottleTypeOK, Request, PLACES, BUDGETS
<1>6. LocalsInv'
  BY <1>3, <1>4, LocalsStay
<1>7. RedisInv'
  <2>1. Held' \subseteq Held
    BY <1>1, <1>3 DEF Held
  <2>2. /\ IsFiniteSet(Held') /\ Cardinality(Held') \in Nat
        /\ Cardinality(Held') <= Cardinality(Held)
    BY <1>1, <2>1, NoMore, FS_CardinalityType
  <2>3. \A o \in Hit : hits'[o].pc # "expire"
    BY <1>1, <1>2, <1>3 DEF RedisInv
  <2>4. Limit = 0 => \A o \in Hit : "redis" \notin hits'[o].passed
    BY <1>1, <1>2, <1>3 DEF RedisInv
  <2>5. Cardinality(Held') <= counter'.count /\ (Limit >= 1 => Cardinality(Held') <= Limit)
    BY <1>1, <1>4, <2>2 DEF RedisInv
  <2>6. QED
    BY <1>1, <1>4, <2>2, <2>3, <2>4, <2>5 DEF RedisInv
<1>8. QED
  BY <1>5, <1>6, <1>7 DEF ThrottleInv

\* A command that is not answered: nobody has passed the window, what was
\* counted stays counted, and the counter is at most given an expiry.
LEMMA UnansweredPasses ==
    ASSUME ThrottleInv, NEW q \in Hit, CommandFails(q) \/ AnswerFails(q)
    PROVE  ThrottleInv'
<1>1. /\ ThrottleTypeOK /\ RedisInv /\ counter.count \in Nat /\ Limit \in Nat
      /\ IsFiniteSet(Held) /\ Cardinality(Held) \in Nat /\ counter.expires \in BOOLEAN
  BY FS_CardinalityType, ThrottleAssumption DEF ThrottleInv, ThrottleTypeOK, RedisInv
<1>2. PICK pc \in PLACES \ {"expire"} : To(q, pc)
  BY DEF CommandFails, AnswerFails, GotNoAnswer, PLACES
<1>3. /\ hits' \in [Hit -> Request]
      /\ hits'[q].pc = pc /\ hits'[q].passed = hits[q].passed \cup {}
      /\ \A o \in Hit : hits'[o].at = hits[o].at
      /\ \A o \in Hit \ {q} : hits'[o] = hits[o]
  BY <1>1, <1>2, ToIs, BecomesFields
<1>4. /\ window' = window /\ latched' = latched /\ connected' = connected
      /\ hits[q].pc \in {"incr", "expire"} /\ (lost => lost')
  BY DEF CommandFails, AnswerFails, GotNoAnswer
<1>5. \/ counter' = counter /\ (hits[q].pc = "expire" => lost')
      \/ /\ hits[q].pc = "incr" /\ counter' = Counting /\ (counter.count = 0 => lost')
      \/ hits[q].pc = "expire" /\ counter' = Expiring
  BY <1>4 DEF CommandFails, AnswerFails
<1>6. /\ counter' \in [count : Nat, expires : BOOLEAN]
      /\ counter'.count >= counter.count
      /\ counter.expires => counter'.expires
      /\ counter'.count # counter.count => hits[q].pc = "incr"
      /\ counter'.expires # counter.expires => hits[q].pc = "expire"
      /\ counter'.expires => counter'.count > 0
      /\ counter'.count > 0 /\ ~counter'.expires =>
            lost' \/ (counter.count > 0 /\ hits[q].pc = "incr")
  <2>1. counter \in [count : Nat, expires : BOOLEAN] /\ (counter.expires => counter.count > 0)
    BY <1>1 DEF ThrottleTypeOK, RedisInv
  <2>2. CASE counter' = counter /\ (hits[q].pc = "expire" => lost')
    BY <1>4, <2>1, <2>2
  <2>3. CASE hits[q].pc = "incr" /\ counter' = Counting /\ (counter.count = 0 => lost')
    <3>1. counter' = [count |-> counter.count + 1, expires |-> counter.expires]
      BY <2>1, <2>3 DEF Counting
    <3>2. QED
      BY <2>1, <2>3, <3>1
  <2>4. CASE hits[q].pc = "expire" /\ counter' = Expiring
    <3>1. counter.count > 0
      BY <1>1, <2>4 DEF RedisInv
    <3>2. counter' = [count |-> counter.count, expires |-> TRUE]
      BY <2>1, <2>4, <3>1 DEF Expiring
    <3>3. QED
      BY <2>1, <2>4, <3>1, <3>2
  <2>5. QED
    BY <1>5, <2>2, <2>3, <2>4
<1>7. ThrottleTypeOK'
  BY <1>1, <1>3, <1>4, <1>6 DEF ThrottleTypeOK, Request, PLACES, BUDGETS
<1>8. LocalsInv'
  BY <1>3, <1>4, LocalsStay
<1>9. RedisInv'
  <2>1. Held' \subseteq Held
    BY <1>2, <1>3 DEF Held
  <2>2. /\ IsFiniteSet(Held') /\ Cardinality(Held') \in Nat
        /\ Cardinality(Held') <= Cardinality(Held)
    BY <1>1, <2>1, NoMore, FS_CardinalityType
  <2>3. \A o \in Hit : hits'[o].pc = "expire" => hits[o].pc = "expire" /\ o # q
    BY <1>2, <1>3
  <2>4. Limit = 0 => \A o \in Hit : "redis" \notin hits'[o].passed
    BY <1>1, <1>3 DEF RedisInv
  <2>5. Cardinality(Held') <= counter'.count /\ (Limit >= 1 => Cardinality(Held') <= Limit)
    BY <1>1, <1>6, <2>2 DEF RedisInv
  <2>6. ASSUME NEW o \in Hit, hits'[o].pc = "expire"
        PROVE  /\ counter'.count > 0 /\ ~counter'.expires
               /\ \A other \in Hit : hits'[other].pc = "expire" => other = o
    <3>1. /\ hits[o].pc = "expire" /\ hits[q].pc # "expire"
          /\ counter.count > 0 /\ ~counter.expires
          /\ \A other \in Hit : hits[other].pc = "expire" => other = o
      BY <1>1, <2>3, <2>6 DEF RedisInv
    <3>2. counter'.count > 0 /\ ~counter'.expires
      BY <1>1, <1>6, <3>1
    <3>3. QED
      BY <2>3, <3>1, <3>2
  <2>7. ASSUME counter'.count > 0, ~counter'.expires
        PROVE  lost' \/ \E o \in Hit : hits'[o].pc = "expire"
    <3>1. lost' \/ (counter.count > 0 /\ hits[q].pc = "incr")
      BY <1>6, <2>7
    <3>2. ASSUME counter.count > 0, hits[q].pc = "incr"
          PROVE  lost' \/ \E o \in Hit : hits'[o].pc = "expire"
      <4>1. lost \/ \E o \in Hit : hits[o].pc = "expire"
        BY <1>1, <1>6, <2>7, <3>2 DEF RedisInv
      <4>2. QED
        BY <1>3, <1>4, <3>2, <4>1
    <3>3. QED
      BY <3>1, <3>2
  <2>8. counter'.expires => counter'.count > 0
    BY <1>6
  <2>9. QED
    BY <2>2, <2>4, <2>5, <2>6, <2>7, <2>8 DEF RedisInv
<1>10. QED
  BY <1>7, <1>8, <1>9 DEF ThrottleInv

\* A hit of a local window: it is counted there, and only there.
LEMMA LocalCounts ==
    ASSUME ThrottleInv, NEW q \in Hit, NEW pc \in PLACES, pc # "expire",
           NEW bucket \in BUCKETS, NEW next \in PLACES \ {"expire"},
           Local(q, pc, bucket, LimitOf(bucket), next)
    PROVE  ThrottleInv'
<1> DEFINE s == hits[q].at
           count == window[s][bucket] + 1
<1>1. /\ ThrottleTypeOK /\ s \in Server /\ window \in [Server -> [BUCKETS -> Nat]]
      /\ LimitOf(bucket) \in Nat /\ hits[q].pc = pc
  BY ThrottleAssumption DEF ThrottleInv, ThrottleTypeOK, LimitOf, Local, Hitting
<1>2. PICK to \in PLACES \ {"expire"}, more \in SUBSET {bucket} :
         /\ Becomes(q, to, more)
         /\ more # {} => count <= LimitOf(bucket)
  <2>1. CASE count <= LimitOf(bucket)
    <3>1. Pass(q, next, bucket) /\ bucket \in BUDGETS
      BY <2>1 DEF Local, BUDGETS
    <3>2. Becomes(q, next, {bucket})
      BY <1>1, <3>1, PassIs
    <3>3. QED
      BY <2>1, <3>2
  <2>2. CASE ~(count <= LimitOf(bucket))
    <3>1. To(q, "refused") /\ "refused" \in PLACES \ {"expire"}
      BY <2>2 DEF Local, PLACES
    <3>2. Becomes(q, "refused", {})
      BY <1>1, <3>1, ToIs
    <3>3. QED
      BY <3>1, <3>2
  <2>3. QED
    BY <2>1, <2>2
<1>3. /\ hits' \in [Hit -> Request]
      /\ hits'[q].pc = to /\ hits'[q].passed = hits[q].passed \cup more
      /\ \A o \in Hit : hits'[o].at = hits[o].at
      /\ \A o \in Hit \ {q} : hits'[o] = hits[o]
  <2>1. more \in SUBSET BUDGETS
    BY DEF BUDGETS
  <2>2. QED
    BY <1>1, <1>2, <2>1, BecomesFields
<1>4. /\ counter' = counter /\ window' = [window EXCEPT ![s][bucket] = count]
      /\ latched' = latched /\ connected' = connected /\ lost' = lost
  BY DEF Local
<1>5. /\ window' \in [Server -> [BUCKETS -> Nat]] /\ count \in Nat
      /\ window'[s][bucket] = count
      /\ \A t \in Server, b \in BUCKETS :
            t # s \/ b # bucket => window'[t][b] = window[t][b]
  BY <1>1, <1>4
<1>6. ThrottleTypeOK'
  BY <1>1, <1>3, <1>4, <1>5 DEF ThrottleTypeOK, Request, PLACES, BUDGETS
<1>7. bucket # "redis"
  BY DEF BUCKETS
<1>8. RedisInv'
  BY <1>1, <1>2, <1>3, <1>4, <1>7, RedisStays
<1>9. ASSUME NEW t \in Server, NEW b \in BUCKETS PROVE LocalInv(t, b)'
  <2>1. /\ LocalInv(t, b) /\ IsFiniteSet(HeldAt(t, b)) /\ Cardinality(HeldAt(t, b)) \in Nat
        /\ window[t][b] \in Nat /\ LimitOf(b) \in Nat
    BY <1>1, FS_CardinalityType, ThrottleAssumption DEF ThrottleInv, LocalsInv, LocalInv, LimitOf
  <2>2. CASE t = s /\ b = bucket
    <3>1. HeldAt(t, b)' \subseteq HeldAt(t, b) \cup {q}
      BY <1>3 DEF HeldAt
    <3>2. /\ IsFiniteSet(HeldAt(t, b)') /\ Cardinality(HeldAt(t, b)') \in Nat
          /\ Cardinality(HeldAt(t, b)') <= Cardinality(HeldAt(t, b)) + 1
      BY <2>1, <3>1, OneMore, FS_CardinalityType
    <3>3. Cardinality(HeldAt(t, b)') <= count
      BY <2>1, <2>2, <3>2 DEF LocalInv
    <3>4. Cardinality(HeldAt(t, b)') <= LimitOf(b)
      <4>1. CASE count <= LimitOf(b)
        BY <1>5, <2>1, <3>2, <3>3, <4>1
      <4>2. CASE more = {}
        <5>1. HeldAt(t, b)' \subseteq HeldAt(t, b)
          BY <1>3, <4>2 DEF HeldAt
        <5>2. Cardinality(HeldAt(t, b)') <= Cardinality(HeldAt(t, b))
          BY <2>1, <5>1, NoMore
        <5>3. QED
          BY <2>1, <3>2, <5>2 DEF LocalInv
      <4>3. QED
        BY <1>2, <2>2, <4>1, <4>2
    <3>5. QED
      BY <1>5, <2>2, <3>2, <3>3, <3>4 DEF LocalInv, LimitOf
  <2>3. CASE t # s \/ b # bucket
    <3>1. HeldAt(t, b)' = HeldAt(t, b)
      BY <1>3, <2>3 DEF HeldAt
    <3>2. QED
      BY <1>5, <2>1, <2>3, <3>1 DEF LocalInv, LimitOf
  <2>4. QED
    BY <2>2, <2>3
<1>10. QED
  BY <1>6, <1>8, <1>9 DEF ThrottleInv, LocalsInv

\* The end of a window gives back the places of that window and of no other.
LEMMA ForgetIs ==
    ASSUME ThrottleTypeOK, NEW members \in SUBSET Hit, NEW budget, Forget(members, budget)
    PROVE  /\ hits' \in [Hit -> Request]
           /\ \A o \in Hit : /\ hits'[o].pc = hits[o].pc /\ hits'[o].at = hits[o].at
                             /\ hits'[o].passed = IF o \in members
                                                  THEN hits[o].passed \ {budget}
                                                  ELSE hits[o].passed
<1>1. hits \in [Hit -> Request]
  BY DEF ThrottleTypeOK, Request, PLACES, BUDGETS
<1>2. ASSUME NEW o \in Hit
      PROVE  /\ hits'[o] \in Request /\ hits'[o].pc = hits[o].pc /\ hits'[o].at = hits[o].at
             /\ hits'[o].passed = IF o \in members THEN hits[o].passed \ {budget}
                                  ELSE hits[o].passed
  BY <1>1 DEF Forget, Request
<1>3. hits' = [o \in Hit |-> hits'[o]]
  BY DEF Forget
<1>4. QED
  BY <1>2, <1>3

LEMMA RedisEnds ==
    ASSUME ThrottleInv, RedisWindowEnds
    PROVE  ThrottleInv'
<1>1. ThrottleTypeOK /\ RedisInv
  BY DEF ThrottleInv
<1>2. /\ hits' \in [Hit -> Request]
      /\ \A o \in Hit : /\ hits'[o].pc = hits[o].pc /\ hits'[o].at = hits[o].at
                        /\ hits'[o].passed = hits[o].passed \ {"redis"}
  BY <1>1, ForgetIs DEF RedisWindowEnds
<1>3. /\ counter' = [count |-> 0, expires |-> FALSE] /\ window' = window
      /\ latched' = latched /\ connected' = connected /\ counter.expires
  BY DEF RedisWindowEnds
<1>4. ThrottleTypeOK'
  BY <1>1, <1>2, <1>3 DEF ThrottleTypeOK, Request, PLACES, BUDGETS
<1>5. LocalsInv'
  BY <1>2, <1>3, LocalsStay
<1>6. \A o \in Hit : hits'[o].pc # "expire" /\ "redis" \notin hits'[o].passed
  BY <1>1, <1>2, <1>3 DEF RedisInv
<1>7. Held' = {}
  BY <1>6 DEF Held
<1>8. IsFiniteSet({}) /\ Cardinality({}) = 0
  BY FS_EmptySet
<1>9. RedisInv'
  BY <1>3, <1>6, <1>7, <1>8, ThrottleAssumption DEF RedisInv
<1>10. QED
  BY <1>4, <1>5, <1>9 DEF ThrottleInv

LEMMA LocalEnds ==
    ASSUME ThrottleInv, NEW s \in Server, NEW bucket \in BUCKETS, LocalWindowEnds(s, bucket)
    PROVE  ThrottleInv'
<1>1. ThrottleTypeOK /\ window \in [Server -> [BUCKETS -> Nat]]
  BY DEF ThrottleInv, ThrottleTypeOK
<1>2. /\ hits' \in [Hit -> Request]
      /\ \A o \in Hit : /\ hits'[o].pc = hits[o].pc /\ hits'[o].at = hits[o].at
                        /\ hits'[o].passed = IF hits[o].at = s THEN hits[o].passed \ {bucket}
                                             ELSE hits[o].passed
  <2> DEFINE members == {q \in Hit : hits[q].at = s}
  <2>1. Forget(members, bucket) /\ members \in SUBSET Hit
    BY DEF LocalWindowEnds
  <2>2. \A o \in Hit : o \in members <=> hits[o].at = s
    OBVIOUS
  <2> HIDE DEF members
  <2>3. /\ hits' \in [Hit -> Request]
        /\ \A o \in Hit : /\ hits'[o].pc = hits[o].pc /\ hits'[o].at = hits[o].at
                          /\ hits'[o].passed = IF o \in members
                                               THEN hits[o].passed \ {bucket}
                                               ELSE hits[o].passed
    BY <1>1, <2>1, ForgetIs, Zenon
  <2>4. QED
    BY <2>2, <2>3
<1>3. /\ counter' = counter /\ window' = [window EXCEPT ![s][bucket] = 0]
      /\ latched' = latched /\ connected' = connected /\ lost' = lost
  BY DEF LocalWindowEnds
<1>4. /\ window' \in [Server -> [BUCKETS -> Nat]] /\ window'[s][bucket] = 0
      /\ \A t \in Server, b \in BUCKETS :
            t # s \/ b # bucket => window'[t][b] = window[t][b]
  BY <1>1, <1>3
<1>5. ThrottleTypeOK'
  BY <1>1, <1>2, <1>3, <1>4 DEF ThrottleTypeOK, Request, PLACES, BUDGETS
<1>6. bucket # "redis"
  BY DEF BUCKETS
<1>7. RedisInv'
  BY <1>2, <1>3, <1>6, RedisStays
<1>8. ASSUME NEW t \in Server, NEW b \in BUCKETS PROVE LocalInv(t, b)'
  <2>1. LocalInv(t, b) /\ LimitOf(b) \in Nat
    BY ThrottleAssumption DEF ThrottleInv, LocalsInv, LimitOf
  <2>2. CASE t = s /\ b = bucket
    <3>1. HeldAt(t, b)' = {}
      BY <1>2, <2>2 DEF HeldAt
    <3>2. IsFiniteSet({}) /\ Cardinality({}) = 0
      BY FS_EmptySet
    <3>3. QED
      BY <1>4, <2>1, <2>2, <3>1, <3>2 DEF LocalInv, LimitOf
  <2>3. CASE t # s \/ b # bucket
    <3>1. HeldAt(t, b)' = HeldAt(t, b)
      BY <1>2, <2>3 DEF HeldAt
    <3>2. QED
      BY <1>4, <2>1, <2>3, <3>1 DEF LocalInv, LimitOf
  <2>4. QED
    BY <2>2, <2>3
<1>9. QED
  BY <1>5, <1>7, <1>8 DEF ThrottleInv, LocalsInv

LEMMA NextThrottle ==
    ASSUME ThrottleInv, [ThrottleNext]_throttleVars
    PROVE  ThrottleInv'
<1>1. ASSUME NEW q \in Hit,
             Connect(q) \/ Question(q) \/ CommandFails(q) \/ AnswerFails(q)
      PROVE  ThrottleInv'
  BY <1>1, Uncounted, UnansweredPasses
<1>2. ASSUME NEW q \in Hit, CountLocally(q) \/ demo_guard(q) \/ ask(q)
      PROVE  ThrottleInv'
  <2>1. /\ Admitted(q) \in PLACES \ {"expire"}
        /\ (IF hits[q].kind = "ask" THEN "ask" ELSE "served") \in PLACES \ {"expire"}
        /\ {"local", "guard", "ask", "question"} \subseteq PLACES \ {"expire"}
        /\ {"api", "read", "ask"} \subseteq BUCKETS
    BY DEF Admitted, PLACES, BUCKETS
  <2>2. LimitOf("api") = Limit /\ LimitOf("read") = ReadLimit /\ LimitOf("ask") = AskLimit
    BY DEF LimitOf
  <2>3. CASE CountLocally(q)
    <3>1. Local(q, "local", "api", LimitOf("api"), Admitted(q))
      BY <2>2, <2>3 DEF CountLocally
    <3>2. QED
      BY <2>1, <3>1, LocalCounts
  <2>4. CASE demo_guard(q)
    <3>1. Local(q, "guard", "read", LimitOf("read"),
                IF hits[q].kind = "ask" THEN "ask" ELSE "served")
      BY <2>2, <2>4 DEF demo_guard
    <3>2. QED
      BY <2>1, <3>1, LocalCounts
  <2>5. CASE ask(q)
    <3>1. Local(q, "ask", "ask", LimitOf("ask"), "question")
      BY <2>2, <2>5 DEF ask
    <3>2. QED
      BY <2>1, <3>1, LocalCounts
  <2>6. QED
    BY <1>2, <2>3, <2>4, <2>5
<1>3. CASE RedisChanges \/ UNCHANGED throttleVars
  <2>1. UNCHANGED <<hits, counter, latched, connected, window, lost>>
    BY <1>3 DEF RedisChanges, throttleVars
  <2>2. ThrottleTypeOK' /\ LocalsInv' /\ RedisInv'
    BY <2>1, LocalsStay, RedisStays DEF ThrottleInv, ThrottleTypeOK
  <2>3. QED
    BY <2>2 DEF ThrottleInv
<1>4. QED
  BY <1>1, <1>2, <1>3, IncrCounts, ExpireCounts, RedisEnds, LocalEnds DEF ThrottleNext

LEMMA ThrottleInvHolds == ThrottleSpec => []ThrottleInv
<1>1. ThrottleInit => ThrottleInv
  BY InitThrottle
<1>2. ThrottleInv /\ [ThrottleNext]_throttleVars => ThrottleInv'
  BY NextThrottle
<1>3. QED
  BY <1>1, <1>2, PTL DEF ThrottleSpec

\* Whatever overlaps, fails and ends: the processes together admit at most
\* Limit requests per Redis window, each of them at most its limits per local
\* one, and a counter without an expiry is one whose EXPIRE is on its way, or
\* was lost with the answer to its INCR or on its own way.
THEOREM BudgetAlwaysHolds == ThrottleSpec => []ThrottleHolds
<1>1. ThrottleInv => ThrottleHolds
  <2> SUFFICES ASSUME ThrottleInv PROVE ThrottleHolds
    OBVIOUS
  <2> DEFINE through == {q \in Hit : hits[q].at \in Server /\ "redis" \in hits[q].passed}
  <2>1. Passed("redis", Server) <= Limit
    <3>1. Passed("redis", Server) = Cardinality(through)
      BY DEF Passed
    <3>2. Limit \in Nat /\ RedisInv /\ IsFiniteSet(Held) /\ Cardinality(Held) \in Nat
      BY ThrottleAssumption, FS_CardinalityType DEF ThrottleInv, RedisInv
    <3>3. CASE Limit = 0
      <4>1. through = {}
        BY <3>2, <3>3 DEF RedisInv
      <4> HIDE DEF through
      <4>2. Cardinality({}) = 0
        BY FS_EmptySet
      <4>3. QED
        BY <3>1, <3>3, <4>1, <4>2
    <3>4. CASE Limit >= 1
      <4>1. through \subseteq Held
        BY DEF Held
      <4>2. IsFiniteSet(through) /\ Cardinality(through) <= Cardinality(Held)
        BY <3>2, <4>1, NoMore
      <4>3. Cardinality(through) \in Nat
        BY <4>2, FS_CardinalityType
      <4>4. QED
        BY <3>1, <3>2, <3>4, <4>2, <4>3 DEF RedisInv
    <3>5. QED
      BY <3>2, <3>3, <3>4
  <2>2. ASSUME NEW s \in Server, NEW b \in BUCKETS PROVE Passed(b, {s}) <= LimitOf(b)
    <3>1. {q \in Hit : hits[q].at \in {s} /\ b \in hits[q].passed} = HeldAt(s, b)
      BY DEF HeldAt
    <3>2. QED
      BY <3>1 DEF Passed, ThrottleInv, LocalsInv, LocalInv
  <2>3. ASSUME NEW s \in Server
        PROVE  /\ Passed("api", {s}) <= Limit /\ Passed("read", {s}) <= ReadLimit
               /\ Passed("ask", {s}) <= AskLimit
    BY <2>2 DEF BUCKETS, LimitOf
  <2>4. QED
    BY <2>1, <2>3 DEF ThrottleInv, RedisInv, ThrottleHolds
<1>2. QED
  BY <1>1, ThrottleInvHolds, PTL
-----------------------------------------------------------------------------
(* Who a request acts as, in any deployment and for any credentials.  The  *)
(* process never opens on settings that do not validate, and what a door   *)
(* makes of a credential depends on the settings alone.                    *)

AccessInv ==
    /\ settings \in Deployments
    /\ door = "open" => Validated(settings)
    /\ minted # {} => ~settings.production

\* _role_from_claims: one of the candidates, or viewer.
LEMMA RoleFromClaims ==
    ASSUME NEW candidates \in Seq(STRING)
    PROVE  _role_from_claims(candidates) \in Range(candidates) \cup {"viewer"}
<1> DEFINE known == {i \in 1 .. Len(candidates) : candidates[i] \in ROLES}
<1>1. Len(candidates) \in Nat /\ DOMAIN candidates = 1 .. Len(candidates)
  BY LenProperties
<1>2. CASE known = {}
  BY <1>2 DEF _role_from_claims, SelectInSeq
<1>3. CASE known # {}
  <2>1. known \in SUBSET Nat
    BY <1>1
  <2>2. Min(known) \in known
    BY <1>3, <2>1, LeastIsIn
  <2>3. _role_from_claims(candidates) = candidates[Min(known)]
    <3>1. Min(known) # 0
      BY <1>1, <2>2
    <3>2. QED
      BY <1>3, <3>1 DEF _role_from_claims, SelectInSeq
  <2>4. QED
    BY <1>1, <2>2, <2>3 DEF Range
<1>4. QED
  BY <1>2, <1>3

\* What the HTTP door makes of a credential in production.
LEMMA KeyedDoor ==
    ASSUME settings \in Settings, Validated(settings), settings.production,
           NEW c \in Credential, get_context(c).source # "none"
    PROVE  /\ c.by # "headers"
           /\ \/ c.by = "key" /\ c.kind = "key"
              \/ c.by = "bearer" /\ c.kind = get_context(c).source /\ fresh
           /\ get_context(c).role \in Range(c.roles) \cup {"viewer"}
           /\ get_context(c).source \in {"jwt", "oidc"} =>
                 settings.mode \in {get_context(c).source, "hybrid"}
<1>1. /\ c.by \in {"key", "bearer", "headers"} /\ c.roles \in Seq(STRING)
      /\ settings.mode \in {"headers", "jwt", "oidc", "hybrid"}
  BY DEF Credential, Settings
<1>2. CASE c.by = "key"
  <2>1. get_context(c) = _context_from_api_key(c)
    BY <1>2 DEF get_context
  <2>2. /\ c.kind = "key" /\ get_context(c).source = "api_key"
        /\ get_context(c).role = IF c.roles = <<>> THEN "viewer" ELSE Head(c.roles)
    BY <2>1 DEF _context_from_api_key, Nobody, As
  <2>3. c.roles # <<>> => Head(c.roles) \in Range(c.roles)
    BY <1>1, RangeHeadTail
  <2>4. QED
    BY <1>2, <2>2, <2>3
<1>3. CASE c.by = "bearer"
  <2>1. get_context(c) = _context_from_claims(c)
    BY <1>3 DEF get_context
  <2>2. /\ Decoded(c) # "none" /\ get_context(c).source = Decoded(c)
        /\ get_context(c).role = _role_from_claims(c.roles)
    BY <2>1 DEF _context_from_claims, Nobody, As
  <2>3. /\ Decoded(c) \in {"oidc", "jwt"} /\ c.kind = Decoded(c) /\ fresh
        /\ settings.mode \in {Decoded(c), "hybrid"}
    BY <1>1, <2>2 DEF Decoded, OidcKey, LocalKey
  <2>4. get_context(c).role \in Range(c.roles) \cup {"viewer"}
    BY <1>1, <2>2, RoleFromClaims
  <2>5. QED
    BY <1>3, <2>2, <2>3, <2>4
<1>4. CASE c.by = "headers"
  BY <1>4 DEF get_context, Nobody
<1>5. QED
  BY <1>1, <1>2, <1>3, <1>4

\* In production the WebSocket knows nobody the HTTP door does not.
LEMMA SameDoor ==
    ASSUME Validated(settings), settings.production, NEW c,
           Socket(c).source # "none"
    PROVE  Socket(c) = get_context(c)
<1>1. ~settings.dev
  BY DEF Validated
<1>2. Socket(c) # Nobody("1008")
  BY DEF Nobody
<1>3. QED
  BY <1>1, <1>2 DEF Socket

\* The roles of machines and of the public do not approve.
LEMMA MachinesDoNotApprove ==
    ASSUME NEW role \in {"service_executor", "ai_agent", "public_demo", "viewer"}
    PROVE  ~Permits(role, "action:approve")
BY DEF Permits, ROLE_PERMISSIONS, READS

\* validate_enterprise_configuration, the credentials and the two doors: a
\* production process signs nothing for the asking, lets nobody in on the word
\* of a header and knows its callers by key or by a token of its auth mode, as
\* the same role at both doors.
THEOREM ProductionIsAlwaysKeyed == AccessSpec => []ProductionIsKeyed
<1>1. AccessInit => AccessInv
  BY DEF AccessInit, AccessInv
<1>2. AccessInv /\ [AccessNext]_accessVars => AccessInv'
  <2> SUFFICES ASSUME AccessInv, [AccessNext]_accessVars PROVE AccessInv'
    OBVIOUS
  <2>1. CASE Boot
    BY <2>1 DEF Boot, AccessInv, Validated
  <2>2. CASE TokensExpire
    BY <2>2 DEF TokensExpire, AccessInv, Validated
  <2>3. CASE \E role \in ROLES : dev_token(role)
    BY <2>3 DEF dev_token, AccessInv, Validated
  <2>4. ASSUME NEW c, Call(c) \/ OpenSocket(c) PROVE AccessInv'
    BY <2>4 DEF Call, OpenSocket, AccessInv, Validated
  <2>5. CASE UNCHANGED accessVars
    BY <2>5 DEF accessVars, AccessInv, Validated
  <2>6. QED
    BY <2>1, <2>2, <2>3, <2>4, <2>5 DEF AccessNext
<1>3. AccessInv => ProductionIsKeyed
  <2> SUFFICES ASSUME AccessInv PROVE ProductionIsKeyed
    OBVIOUS
  <2>1. ASSUME door = "open", settings.production, NEW c \in Credentials,
               NEW s \in Entered(c)
        PROVE  /\ s = get_context(c)
               /\ \/ c.by = "key" /\ c.kind = "key"
                  \/ c.by = "bearer" /\ c.kind = s.source /\ fresh
               /\ s.role \in Range(c.roles) \cup {"viewer"}
               /\ s.source \in {"jwt", "oidc"} => settings.mode \in {s.source, "hybrid"}
    <3>1. settings \in Settings /\ Validated(settings) /\ c \in Credential
      BY <2>1, AccessAssumption DEF AccessInv
    <3>2. s.source # "none" /\ s = get_context(c)
      BY <2>1, <3>1, SameDoor DEF Entered
    <3>3. QED
      BY <2>1, <3>1, <3>2, KeyedDoor
  <2>2. door = "open" /\ settings.production => minted = {}
    BY DEF AccessInv
  <2>3. session.role \in {"service_executor", "ai_agent", "public_demo", "viewer"} =>
           ~Permits(session.role, "action:approve")
    BY MachinesDoNotApprove
  <2>4. QED
    BY <2>1, <2>2, <2>3 DEF ProductionIsKeyed
<1>4. QED
  BY <1>1, <1>2, <1>3, PTL DEF AccessSpec

\* Whoever enters acts in a role there is, and a refusal is one of the codes.
LEMMA ChosenRoleIsKnown ==
    ASSUME NEW M, NEW candidates \in Seq(M)
    PROVE  _role_from_claims(candidates) \in ROLES
<1> DEFINE known == {i \in 1 .. Len(candidates) : candidates[i] \in ROLES}
<1>1. Len(candidates) \in Nat /\ "viewer" \in ROLES
  BY LenProperties DEF ROLES, ROLE_PERMISSIONS
<1>2. CASE known = {}
  BY <1>1, <1>2 DEF _role_from_claims, SelectInSeq
<1>3. CASE known # {}
  <2>1. Min(known) \in known
    <3>1. known \in SUBSET Nat
      BY <1>1
    <3>2. QED
      BY <1>3, <3>1, LeastIsIn
  <2>2. candidates[Min(known)] \in ROLES /\ Min(known) # 0
    BY <1>1, <2>1
  <2>3. _role_from_claims(candidates) = candidates[Min(known)]
    BY <1>3, <2>2 DEF _role_from_claims, SelectInSeq
  <2>4. QED
    BY <2>2, <2>3
<1>4. QED
  BY <1>2, <1>3

SessionTypes == [role : ROLES \cup {"400", "401", "403", "500", "1008"},
                 source : {"none", "headers", "api_key", "jwt", "oidc"},
                 via : {"none", "headers", "key", "token"}]

\* What either door makes of a credential whose kind and roles are those of
\* a caller.
LEMMA DoorsAreTyped ==
    ASSUME NEW M, NEW c, c.by \in {"key", "bearer", "headers"}, c.roles \in Seq(M),
           settings.mode \in {"headers", "jwt", "oidc", "hybrid"}
    PROVE  get_context(c) \in SessionTypes /\ Socket(c) \in SessionTypes
<1>1. /\ \A code \in {"400", "401", "403", "500", "1008"} : Nobody(code) \in SessionTypes
      /\ \A role \in ROLES :
            /\ \A key \in {"jwt", "oidc"} : As(role, key, "token") \in SessionTypes
            /\ As(role, "api_key", "key") \in SessionTypes
            /\ As(role, "headers", "headers") \in SessionTypes
  BY DEF SessionTypes, Nobody, As
<1>2. "viewer" \in ROLES
  BY DEF ROLES, ROLE_PERMISSIONS
<1>3. CASE c.by = "key"
  <2>1. _context_from_api_key(c) \in SessionTypes
    BY <1>1, <1>2 DEF _context_from_api_key
  <2>2. QED
    BY <1>1, <1>3, <2>1 DEF get_context, Socket
<1>4. CASE c.by = "bearer"
  <2>1. Decoded(c) \in {"none", "jwt", "oidc"}
    BY DEF Decoded, OidcKey, LocalKey
  <2>2. _role_from_claims(c.roles) \in ROLES
    BY ChosenRoleIsKnown
  <2>3. _context_from_claims(c) \in SessionTypes
    BY <1>1, <2>1, <2>2 DEF _context_from_claims
  <2>4. QED
    BY <1>1, <1>4, <2>3 DEF get_context, Socket
<1>5. CASE c.by = "headers"
  <2>1. get_context(c) \in SessionTypes
    BY <1>1, <1>5 DEF get_context
  <2> DEFINE who == IF settings.dev /\ ~settings.production
                    THEN As(HeaderRole(c), "headers", "headers") ELSE Nobody("1008")
  <2>2. Socket(c) = IF Permits(who.role, "project:read") THEN who ELSE Nobody("1008")
    BY <1>5 DEF Socket
  <2>3. Permits(who.role, "project:read") => who.role \in ROLES
    BY DEF Permits
  <2>4. who.role \in ROLES => who \in SessionTypes
    BY <1>1 DEF As
  <2>5. QED
    BY <1>1, <2>1, <2>2, <2>3, <2>4
<1>6. QED
  BY <1>3, <1>4, <1>5

LEMMA NextAccessTypes ==
    ASSUME AccessTypeOK, [AccessNext]_accessVars
    PROVE  AccessTypeOK'
<1>1. settings.mode \in {"headers", "jwt", "oidc", "hybrid"}
  BY AccessAssumption DEF AccessTypeOK, Settings
<1>2. session \in SessionTypes
  BY DEF AccessTypeOK, SessionTypes
<1>3. ASSUME NEW M, NEW c, c.by \in {"key", "bearer", "headers"}, c.roles \in Seq(M),
             Call(c) \/ OpenSocket(c)
      PROVE  AccessTypeOK'
  <2>1. session' \in SessionTypes /\ UNCHANGED <<settings, door, fresh, minted>>
    BY <1>1, <1>3, DoorsAreTyped DEF Call, OpenSocket
  <2>2. QED
    BY <2>1 DEF AccessTypeOK, SessionTypes
<1>4. ASSUME NEW c \in Credentials, Call(c) \/ OpenSocket(c) PROVE AccessTypeOK'
  <2>1. c.by \in {"key", "bearer", "headers"} /\ c.roles \in Seq(STRING)
    BY AccessAssumption DEF Credential
  <2>2. QED
    BY <1>3, <1>4, <2>1
<1>5. ASSUME NEW role \in minted,
             LET c == [by |-> "bearer", kind |-> "jwt", tenant |-> TRUE, roles |-> <<role>>]
             IN  Call(c) \/ OpenSocket(c)
      PROVE  AccessTypeOK'
  <2> DEFINE c == [by |-> "bearer", kind |-> "jwt", tenant |-> TRUE, roles |-> <<role>>]
  <2>1. c.by \in {"key", "bearer", "headers"} /\ c.roles \in Seq({role})
    OBVIOUS
  <2>2. Call(c) \/ OpenSocket(c)
    BY <1>5
  <2> HIDE DEF c
  <2>3. QED
    BY <1>3, <2>1, <2>2
<1>6. CASE Boot \/ TokensExpire \/ UNCHANGED accessVars
  BY <1>2, <1>6 DEF Boot, TokensExpire, accessVars, AccessTypeOK, SessionTypes
<1>7. ASSUME NEW role \in ROLES, dev_token(role) PROVE AccessTypeOK'
  BY <1>2, <1>7 DEF dev_token, AccessTypeOK, SessionTypes
<1>8. QED
  BY <1>4, <1>5, <1>6, <1>7 DEF AccessNext

\* A caller acts in one of the roles there are, whatever its credential says,
\* or has one of the five refusals; the development endpoint signs for none
\* but those roles.
THEOREM AccessIsAlwaysTyped == AccessSpec => []AccessTypeOK
<1>1. AccessInit => AccessTypeOK
  BY DEF AccessInit, AccessTypeOK, Nobody
<1>2. AccessTypeOK /\ [AccessNext]_accessVars => AccessTypeOK'
  BY NextAccessTypes
<1>3. QED
  BY <1>1, <1>2, PTL DEF AccessSpec
-----------------------------------------------------------------------------
(* What an answer is worth, for any evidence, any ranking of it and any    *)
(* text of the gateway.  Nothing is filed between the answer and the end,  *)
(* so the argument is what _build_claims and Scaled can be.                *)

Claims == [supported : BOOLEAN, evidence_ids : SUBSET ToSet(asked.hits)]

AskInv ==
    /\ asked = [pc |-> asked.pc, gateway |-> asked.gateway, hits |-> asked.hits,
                backing |-> asked.backing, behind |-> asked.behind, late |-> asked.late,
                answer |-> asked.answer]
    /\ asked.hits \in Seq(ToSet(asked.hits))
    /\ asked.backing \subseteq ToSet(asked.hits)
    /\ asked.pc = "awaiting" => asked.gateway
    /\ ConfidenceIsEarned

\* There is a claim, and each is supported or not, by hits or by nothing.
LEMMA ClaimsAre ==
    ASSUME AskInv
    PROVE  _build_claims \in Seq(Claims) \ {<<>>}
<1> DEFINE found == asked.hits
           best == {found[k] : k \in {1} \cap DOMAIN found}
           claims == Claim(asked.behind, TRUE, {})
                     \o Claim(asked.late, asked.backing # {}, asked.backing)
                     \o Claim(found # <<>>, TRUE, best)
<1>1. ASSUME NEW said, NEW supported \in BOOLEAN, NEW ids \in SUBSET ToSet(asked.hits)
      PROVE  Claim(said, supported, ids) \in Seq(Claims)
  <2> DEFINE claim == [supported |-> supported, evidence_ids |-> ids]
  <2>1. claim \in Claims
    BY DEF Claims
  <2> HIDE DEF claim
  <2>2. <<claim>> \in Seq(Claims) /\ <<>> \in Seq(Claims)
    BY <2>1, EmptySeq
  <2>3. QED
    BY <2>2 DEF Claim, claim
<1>2. best \subseteq ToSet(found) /\ asked.backing \subseteq ToSet(found)
  BY DEF ToSet, AskInv
<1>3. /\ Claim(asked.behind, TRUE, {}) \in Seq(Claims)
      /\ Claim(asked.late, asked.backing # {}, asked.backing) \in Seq(Claims)
      /\ Claim(found # <<>>, TRUE, best) \in Seq(Claims)
  BY <1>1, <1>2
<1>4. claims \in Seq(Claims)
  BY <1>3, ConcatProperties
<1>5. Claim(TRUE, FALSE, {}) \in Seq(Claims) /\ Claim(TRUE, FALSE, {}) # <<>>
  BY <1>1 DEF Claim
<1>6. _build_claims = IF claims = <<>> THEN Claim(TRUE, FALSE, {}) ELSE claims
  BY DEF _build_claims
<1> HIDE DEF claims
<1>7. QED
  BY <1>4, <1>5, <1>6

\* The confidence is at most the base, and less when a claim is unsupported.
LEMMA ScaledIs ==
    ASSUME NEW base \in {30, 62, 75}, NEW claims \in Seq(Claims) \ {<<>>}
    PROVE  /\ Scaled(base, claims) \in Nat /\ Scaled(base, claims) <= 100 * base
           /\ (\E k \in DOMAIN claims : ~claims[k].supported) =>
                 Scaled(base, claims) < 100 * base
<1> DEFINE whole == DOMAIN claims
           part == {k \in DOMAIN claims : claims[k].supported}
           long == Len(claims)
           backed == Cardinality(part)
           top == base * (60 * long + 40 * backed)
<1>1. long \in Nat \ {0} /\ whole = 1 .. long
  BY EmptySeq, LenProperties
<1>2. IsFiniteSet(whole) /\ Cardinality(whole) = long
  BY <1>1, FS_Interval
<1>3. IsFiniteSet(part) /\ backed \in Nat /\ backed <= long /\ (backed = long => part = whole)
  BY <1>2, FS_Subset, FS_CardinalityType
<1>4. Scaled(base, claims) = top \div long
  BY DEF Scaled
<1>5. (\E k \in whole : ~claims[k].supported) => backed < long
  BY <1>1, <1>3
<1> HIDE DEF part, long, backed, whole
<1>6. top \in Nat /\ top <= (100 * base) * long
      /\ (backed < long => top < (100 * base) * long)
  BY <1>1, <1>3
<1> HIDE DEF top
<1>7. QED
  BY <1>1, <1>4, <1>5, <1>6, QuotientIs, QuotientBelow, SMTT(20) DEF whole

\* The last part of ask_twin, from the reasoner's text on.
LEMMA AnswerIsEarned ==
    ASSUME AskInv, NEW base \in {30, 62, 75}, NEW mode, NEW cited,
           Answer(base, mode, cited),
           mode = "gateway" => base = 75 /\ asked.gateway,
           mode # "gateway" => base = LocalBase
    PROVE  /\ AskInv'
           /\ asked'.pc = "answered" /\ asked'.hits = asked.hits
           /\ asked'.answer.confidence \in Nat /\ asked'.answer.confidence <= Parts
<1> DEFINE claims == _build_claims
           unverified == verify_citations(cited)
           scaled == Scaled(base, claims)
           confidence == IF asked.hits = <<>> THEN Min({base * 100, 4000})
                         ELSE IF unverified # {} THEN Min({scaled, 4500}) ELSE scaled
           answer == [confidence |-> confidence, provisional |-> asked.hits = <<>>,
                      cited |-> cited, claims |-> claims, mode |-> mode,
                      model_backed |-> mode = "gateway"]
<1>1. asked' = [asked EXCEPT !.pc = "answered", !.answer = answer] /\ UNCHANGED evidenceVars
  BY DEF Answer
<1>2. claims \in Seq(Claims) \ {<<>>}
  BY ClaimsAre
<1>3. /\ scaled \in Nat /\ scaled <= 100 * base
      /\ (\E k \in DOMAIN claims : ~claims[k].supported) => scaled < 100 * base
  BY <1>2, ScaledIs
<1>4. \A k \in DOMAIN claims : claims[k].evidence_ids \subseteq ToSet(asked.hits)
  <2>1. ASSUME NEW k \in DOMAIN claims PROVE claims[k] \in Claims
    BY <1>2, LenProperties, ElementOfSeq
  <2>2. QED
    BY <2>1 DEF Claims
<1> HIDE DEF claims, scaled
<1>5. /\ Min({base * 100, 4000}) = IF base * 100 <= 4000 THEN base * 100 ELSE 4000
      /\ Min({scaled, 4500}) = IF scaled <= 4500 THEN scaled ELSE 4500
  BY <1>3, LesserIs
<1>6. /\ confidence \in Nat /\ confidence <= 100 * base
      /\ asked.hits = <<>> => confidence <= 4000
      /\ unverified # {} => confidence <= 4500
      /\ (\E k \in DOMAIN claims : ~claims[k].supported) =>
            confidence < 100 * base \/ asked.hits = <<>>
  BY <1>3, <1>5
<1>7. /\ asked' = [pc |-> "answered", gateway |-> asked.gateway, hits |-> asked.hits,
                   backing |-> asked.backing, behind |-> asked.behind, late |-> asked.late,
                   answer |-> answer]
  <2> HIDE DEF answer
  <2>1. QED
    BY <1>1 DEF AskInv
<1> HIDE DEF confidence
<1>8. /\ answer.confidence = confidence
      /\ answer.cited = cited /\ answer.claims = claims /\ answer.mode = mode
  OBVIOUS
<1>16. answer.model_backed <=> mode = "gateway"
  OBVIOUS
<1>17. answer.provisional <=> asked.hits = <<>>
  OBVIOUS
<1> HIDE DEF answer
<1>9. /\ asked'.pc = "answered" /\ asked'.gateway = asked.gateway
      /\ asked'.hits = asked.hits /\ asked'.backing = asked.backing /\ asked'.answer = answer
  BY <1>7
<1>10. Supplied' = Supplied
  BY <1>1, <1>9 DEF Supplied, IdOf, evidenceVars
<1>11. unverified = {} => cited \subseteq Supplied
  BY DEF verify_citations
<1>12. asked.hits = <<>> => base \in {30, 75}
  BY DEF LocalBase
<1>13. asked.hits # <<>> => base \in {62, 75}
  BY DEF LocalBase
<1> HIDE DEF unverified
<1>14. ConfidenceIsEarned'
  <2> DEFINE most == IF answer.model_backed THEN 7500 ELSE 6200
  <2>1. \/ mode = "gateway" /\ answer.model_backed /\ base = 75 /\ most = 7500
           /\ asked.gateway
        \/ mode # "gateway" /\ ~answer.model_backed /\ 100 * base <= most /\ most = 6200
           /\ (asked.hits # <<>> => base = 62)
    <3>1. CASE mode = "gateway"
      <4>1. answer.model_backed
        BY <1>16, <3>1
      <4>2. base = 75 /\ asked.gateway
        BY <3>1
      <4>3. QED
        BY <3>1, <4>1, <4>2
    <3>2. CASE mode # "gateway"
      <4>1. ~answer.model_backed
        BY <1>16, <3>2
      <4>2. 100 * base <= 6200 /\ (asked.hits # <<>> => base = 62)
        BY <3>2 DEF LocalBase
      <4>3. QED
        BY <3>2, <4>1, <4>2
    <3>3. QED
      BY <3>1, <3>2
  <2>2. (\E k \in DOMAIN answer.claims : ~answer.claims[k].supported) =>
           answer.confidence < most
    BY <1>6, <1>8, <2>1
  <2>3. answer.confidence > 6200 => answer.model_backed
    BY <1>6, <1>8, <2>1
  <2>4. /\ answer.provisional <=> asked.hits = <<>>
        /\ answer.provisional => answer.confidence <= 4000
        /\ ~(answer.cited \subseteq Supplied) => answer.confidence <= 4500
    <3>1. answer.provisional <=> asked.hits = <<>>
      BY <1>17
    <3>2. answer.provisional => answer.confidence <= 4000
      BY <1>6, <1>8, <3>1
    <3>3. ~(answer.cited \subseteq Supplied) => answer.confidence <= 4500
      BY <1>6, <1>8, <1>11
    <3>4. QED
      BY <3>1, <3>2, <3>3
  <2>5. answer.model_backed => asked.gateway /\ answer.mode = "gateway"
    BY <1>8, <2>1
  <2>6. \A k \in DOMAIN answer.claims : answer.claims[k].evidence_ids \subseteq ToSet(asked.hits)
    BY <1>4, <1>8
  <2>7. QED
    BY <1>9, <1>10, <2>2, <2>3, <2>4, <2>5, <2>6 DEF ConfidenceIsEarned
<1>15. AskInv'
  BY <1>7, <1>9, <1>14 DEF AskInv
<1>18. confidence \in Nat /\ confidence <= Parts
  BY <1>6 DEF Parts
<1>19. asked'.answer.confidence \in Nat /\ asked'.answer.confidence <= Parts
  BY <1>8, <1>9, <1>18
<1>20. QED
  BY <1>9, <1>15, <1>19

\* search_evidence: what is found is a sequence, and what backs a claim is of it.
LEMMA QuestionIsAsked ==
    ASSUME AskInv, ask_twin
    PROVE  /\ AskInv'
           /\ asked'.pc \in {"local", "awaiting"} /\ asked'.hits \in Rankings
           /\ asked'.answer = asked.answer
<1>1. PICK found \in Rankings : \E backing \in SUBSET ToSet(found) :
                                  \E behind, late \in BOOLEAN :
         asked' = [asked EXCEPT !.pc = IF asked.gateway THEN "awaiting" ELSE "local",
                                !.hits = found, !.backing = backing,
                                !.behind = behind, !.late = late]
  BY DEF ask_twin
<1>a. PICK backing \in SUBSET ToSet(found), behind \in BOOLEAN, late \in BOOLEAN :
         asked' = [asked EXCEPT !.pc = IF asked.gateway THEN "awaiting" ELSE "local",
                                !.hits = found, !.backing = backing,
                                !.behind = behind, !.late = late]
  BY <1>1
<1> DEFINE pc == IF asked.gateway THEN "awaiting" ELSE "local"
<1>2. asked' = [pc |-> pc, gateway |-> asked.gateway, hits |-> found, backing |-> backing,
                behind |-> behind, late |-> late, answer |-> asked.answer]
  <2> HIDE DEF pc
  <2>1. asked' = [asked EXCEPT !.pc = pc, !.hits = found, !.backing = backing,
                               !.behind = behind, !.late = late]
    BY <1>a DEF pc
  <2>2. QED
    BY <2>1 DEF AskInv
<1>3. /\ asked'.pc = pc /\ asked'.gateway = asked.gateway /\ asked'.hits = found
      /\ asked'.backing = backing /\ asked'.behind = behind /\ asked'.late = late
      /\ asked'.answer = asked.answer
  BY <1>2
<1>4. found \in Seq(ToSet(found))
  <2>1. PICK n \in 0 .. HitLimit : DOMAIN found = 1 .. n /\ found = [k \in 1 .. n |-> found[k]]
    BY DEF Rankings
  <2>2. found \in [1 .. n -> ToSet(found)]
    BY <2>1 DEF ToSet
  <2>3. n \in Nat
    OBVIOUS
  <2>4. QED
    BY <2>2, <2>3, SeqDef
<1>5. ConfidenceIsEarned'
  BY <1>3 DEF ConfidenceIsEarned
<1>6. AskInv'
  BY <1>2, <1>3, <1>4, <1>5 DEF AskInv
<1>7. QED
  BY <1>3, <1>6

LEMMA InitAsk == AskInit => AskInv /\ asked.pc = "idle" /\ asked.hits = <<>>
                         /\ asked.answer.confidence = 0
<1> SUFFICES ASSUME AskInit
             PROVE  AskInv /\ asked.pc = "idle" /\ asked.hits = <<>>
                    /\ asked.answer.confidence = 0
  OBVIOUS
<1>1. PICK configured \in Gateways : asked = [Unasked EXCEPT !.gateway = configured]
  BY DEF AskInit
<1>2. asked = [pc |-> "idle", gateway |-> configured, hits |-> <<>>, backing |-> {},
               behind |-> FALSE, late |-> FALSE, answer |-> NoAnswer]
  BY <1>1 DEF Unasked
<1>3. <<>> \in Seq(ToSet(<<>>))
  BY EmptySeq
<1>4. QED
  BY <1>2, <1>3 DEF AskInv, ConfidenceIsEarned, NoAnswer

LEMMA EvidenceIsAsBefore ==
    AskNext => (EvidenceNext /\ UNCHANGED asked) \/ UNCHANGED evidenceVars
<1>1. GatewayAnswers \/ FallsBack \/ AnswersLocally => UNCHANGED evidenceVars
  BY DEF GatewayAnswers, FallsBack, AnswersLocally, Answer
<1>2. ask_twin => UNCHANGED evidenceVars
  BY DEF ask_twin
<1>3. QED
  BY <1>1, <1>2 DEF AskNext

\* A step of the evidence, the question, or an answer to it.
LEMMA NextAsk ==
    ASSUME AskInv, AskNext
    PROVE  /\ AskInv'
           /\ \/ asked' = asked
              \/ /\ asked'.pc \in {"local", "awaiting"} /\ asked'.hits \in Rankings
                 /\ asked'.answer = asked.answer
              \/ /\ asked'.pc = "answered" /\ asked'.hits = asked.hits
                 /\ asked'.answer.confidence \in Nat
                 /\ asked'.answer.confidence <= Parts
<1>1. CASE EvidenceNext /\ asked.pc # "answered" /\ UNCHANGED asked
  <2>1. asked' = asked /\ asked.pc # "answered"
    BY <1>1
  <2>2. ConfidenceIsEarned'
    BY <2>1 DEF ConfidenceIsEarned
  <2>3. AskInv'
    BY <2>1, <2>2 DEF AskInv
  <2>4. QED
    BY <1>1, <2>3
<1>2. CASE GatewayAnswers
  <2>1. PICK cited : Answer(75, "gateway", cited)
    BY <1>2 DEF GatewayAnswers
  <2>2. asked.gateway
    BY <1>2 DEF GatewayAnswers, AskInv
  <2>3. QED
    BY <2>1, <2>2, AnswerIsEarned
<1>3. LocalBase \in {30, 62, 75}
  BY DEF LocalBase
<1>4. CASE FallsBack
  <2>1. PICK cited : Answer(LocalBase, "degraded-local-fallback", cited)
    BY <1>4 DEF FallsBack
  <2>2. QED
    BY <1>3, <2>1, AnswerIsEarned
<1>5. CASE AnswersLocally
  <2>1. PICK cited : Answer(LocalBase, "demonstrative-local", cited)
    BY <1>5 DEF AnswersLocally
  <2>2. QED
    BY <1>3, <2>1, AnswerIsEarned
<1>6. CASE ask_twin
  BY <1>6, QuestionIsAsked
<1>7. QED
  BY <1>1, <1>2, <1>4, <1>5, <1>6 DEF AskNext

LEMMA AskRests ==
    ASSUME AskInv, UNCHANGED <<evidenceVars, asked>>
    PROVE  AskInv'
BY DEF AskInv, ConfidenceIsEarned, Supplied, IdOf, evidenceVars

\* "An answer is worth what stands behind it", whatever is filed while the
\* gateway thinks: without records it is provisional and at most 0.4, with an
\* identifier that was not supplied at most 0.45, less than its base with a
\* claim nothing supports, and a model's only when the model spoke.
THEOREM ConfidenceIsAlwaysEarned == AskSpec => []ConfidenceIsEarned
<1>1. AskInit => AskInv
  BY InitAsk
<1>2. AskInv /\ [AskNext]_<<evidenceVars, asked>> => AskInv'
  BY NextAsk, AskRests
<1>3. AskInv => ConfidenceIsEarned
  BY DEF AskInv
<1>4. QED
  BY <1>1, <1>2, <1>3, PTL DEF AskSpec
-----------------------------------------------------------------------------
(* Evidence, for any sheets, photographs, batches and sessions.  What a    *)
(* session adds was not filed when it looked and is filed when it commits; *)
(* nothing is filed in between unless sessions overlap.  What it does not  *)
(* add has the hash of a record that is filed or that it adds, and a       *)
(* record of a sheet has the hash only of the same words in the same       *)
(* context.                                                                *)

\* The members of kept are those at the places, and keep their order.
AreKept(kept, seq, places) ==
    /\ \A k \in 1 .. Len(kept) : \E i \in places : kept[k] = seq[i]
    /\ \A i \in places : \E k \in 1 .. Len(kept) : kept[k] = seq[i]
    /\ \A j, k \in 1 .. Len(kept) : j < k =>
           \E h, i \in places : h < i /\ kept[j] = seq[h] /\ kept[k] = seq[i]

LEMMA KeptIs ==
    ASSUME NEW S, NEW seq \in Seq(S), NEW places \in SUBSET (1 .. Len(seq))
    PROVE  Kept(seq, places) \in Seq(S) /\ AreKept(Kept(seq, places), seq, places)
<1> DEFINE len == Len(seq)
           Step(f, i) == IF i = 0 THEN <<>>
                         ELSE IF i \in places THEN Append(f[i - 1], seq[i]) ELSE f[i - 1]
           Is(f, m) == f = [i \in 0 .. m |-> Step(f, i)]
           Some(m) == \E f : Is(f, m)
<1>1. len \in Nat /\ DOMAIN seq = 1 .. len /\ \A i \in 1 .. len : seq[i] \in S
  BY LenProperties, ElementOfSeq
<1> HIDE DEF len
<1>2. ASSUME NEW m \in Nat, m = 0 \/ Some(m - 1) PROVE Some(m)
  <2>1. CASE m = 0
    <3> DEFINE f == [i \in 0 .. 0 |-> <<>>]
    <3>1. Is(f, 0)
      OBVIOUS
    <3>2. QED
      BY <2>1, <3>1
  <2>2. CASE m # 0
    <3>1. PICK g : Is(g, m - 1)
      BY <1>2, <2>2
    <3> DEFINE f == [i \in 0 .. m |-> IF i = m THEN Step(g, m) ELSE g[i]]
    <3> HIDE DEF Step
    <3>2. \A i \in 0 .. m - 1 : f[i] = g[i] /\ g[i] = Step(g, i)
      BY <2>2, <3>1, SMTT(20)
    <3>3. \A i \in 0 .. m : Step(f, i) = Step(g, i)
      BY <2>2, <3>2 DEF Step
    <3>4. \A i \in 0 .. m : f[i] = Step(f, i)
      <4>1. f[m] = Step(g, m)
        BY <1>2
      <4>2. ASSUME NEW i \in 0 .. m - 1 PROVE f[i] = Step(f, i)
        <5>1. f[i] = g[i] /\ g[i] = Step(g, i)
          BY <3>2
        <5>2. Step(f, i) = Step(g, i)
          BY <1>2, <3>3
        <5>3. QED
          BY <5>1, <5>2
      <4>3. Step(f, m) = Step(g, m)
        BY <1>2, <3>3
      <4> HIDE DEF f
      <4>4. \A i \in 0 .. m : i = m \/ i \in 0 .. m - 1
        BY <1>2
      <4>5. QED
        BY <4>1, <4>2, <4>3, <4>4
    <3>5. f = [i \in 0 .. m |-> f[i]]
      OBVIOUS
    <3> HIDE DEF f
    <3>6. Is(f, m)
      BY <3>4, <3>5
    <3>7. QED
      BY <3>6
  <2>3. QED
    BY <2>1, <2>2
<1>3. Some(len)
  <2> HIDE DEF Some
  <2> DEFINE T == {m \in Nat : ~Some(m)}
  <2>1. ASSUME T # {} PROVE FALSE
    <3>1. PICK m \in T : \A k \in T : m <= k
      BY <2>1, LeastNatural
    <3>2. m = 0 \/ (m - 1 \in Nat /\ m - 1 \notin T)
      BY <3>1
    <3>3. QED
      BY <1>2, <3>1, <3>2
  <2>2. QED
    BY <1>1, <2>1
<1> DEFINE kept == CHOOSE f : Is(f, len)
<1>4. Kept(seq, places) = kept[len]
  BY Zenon DEF Kept, len
<1>5. Is(kept, len)
  <2> HIDE DEF Is
  <2>1. QED
    BY <1>3, Zenon
<1> HIDE DEF kept
<1>6. \A i \in 0 .. len : kept[i] = Step(kept, i)
  BY <1>5
<1> DEFINE Only(s, i) == \A k \in 1 .. Len(s) : \E p \in places : p <= i /\ s[k] = seq[p]
           All(s, i) == \A p \in places : p <= i => \E k \in 1 .. Len(s) : s[k] = seq[p]
           InOrder(s, i) ==
               \A j, k \in 1 .. Len(s) : j < k =>
                   \E h, p \in places : h < p /\ p <= i /\ s[j] = seq[h] /\ s[k] = seq[p]
           Keeps(s, i) == s \in Seq(S) /\ Only(s, i) /\ All(s, i) /\ InOrder(s, i)
<1>7. ASSUME NEW i \in 0 .. len, i = 0 \/ Keeps(kept[i - 1], i - 1) PROVE Keeps(kept[i], i)
  <2>1. CASE i = 0
    <3>1. kept[0] = <<>>
      BY <1>1, <1>6, <2>1
    <3>2. <<>> \in Seq(S) /\ Len(<<>>) = 0
      BY EmptySeq
    <3>3. \A p \in places : ~(p <= 0)
      BY <1>1 DEF len
    <3>4. Only(<<>>, 0) /\ All(<<>>, 0) /\ InOrder(<<>>, 0)
      BY <3>2, <3>3
    <3> HIDE DEF Only, All, InOrder
    <3>5. QED
      BY <2>1, <3>1, <3>2, <3>4
  <2>2. CASE i # 0
    <3> DEFINE old == kept[i - 1]
    <3>1. i \in 1 .. len /\ i - 1 \in 0 .. len /\ i \in Nat /\ seq[i] \in S
      BY <1>1, <2>2
    <3>2. places \subseteq Nat
      BY <1>1 DEF len
    <3> HIDE DEF old, Only, All, InOrder
    <3>3. old \in Seq(S) /\ Only(old, i - 1) /\ All(old, i - 1) /\ InOrder(old, i - 1)
      BY <1>7, <2>2 DEF old
    <3>3a. Len(old) \in Nat
      BY <3>3, LenProperties
    <3>4. CASE i \notin places
      <4>1. kept[i] = old
        BY <1>6, <2>2, <3>4 DEF old
      <4>2. \A p \in places : p <= i <=> p <= i - 1
        BY <3>1, <3>2, <3>4
      <4>3. Only(old, i) /\ All(old, i) /\ InOrder(old, i)
        <5>1. Only(old, i)
          BY <3>3, <4>2 DEF Only
        <5>2. All(old, i)
          BY <3>3, <4>2 DEF All
        <5>3. InOrder(old, i)
          BY <3>3, <4>2 DEF InOrder
        <5>4. QED
          BY <5>1, <5>2, <5>3
      <4>4. QED
        BY <3>3, <4>1, <4>3
    <3>5. CASE i \in places
      <4> DEFINE new == Append(old, seq[i])
      <4>1. kept[i] = new
        BY <1>6, <2>2, <3>5 DEF old
      <4>2. /\ new \in Seq(S) /\ Len(new) = Len(old) + 1
            /\ \A k \in 1 .. Len(old) : new[k] = old[k]
            /\ new[Len(old) + 1] = seq[i]
        BY <3>1, <3>3, AppendProperties
      <4> HIDE DEF new
      <4>3. \A k \in 1 .. Len(new) : k \in 1 .. Len(old) \/ k = Len(old) + 1
        BY <3>3a, <4>2
      <4>4. \A p \in places : p <= i <=> (p <= i - 1 \/ p = i)
        BY <3>1, <3>2
      <4>5. ASSUME NEW k \in 1 .. Len(new) PROVE \E p \in places : p <= i /\ new[k] = seq[p]
        <5>1. CASE k = Len(old) + 1
          BY <3>1, <3>5, <4>2, <5>1
        <5>2. CASE k \in 1 .. Len(old)
          <6>1. PICK p \in places : p <= i - 1 /\ old[k] = seq[p]
            BY <3>3, <5>2 DEF Only
          <6>2. QED
            BY <4>2, <4>4, <5>2, <6>1
        <5>3. QED
          BY <4>3, <5>1, <5>2
      <4>6. ASSUME NEW p \in places, p <= i PROVE \E k \in 1 .. Len(new) : new[k] = seq[p]
        <5>1. CASE p = i
          BY <3>3a, <4>2, <5>1
        <5>2. CASE p <= i - 1
          <6>1. PICK k \in 1 .. Len(old) : old[k] = seq[p]
            BY <3>3, <5>2 DEF All
          <6>2. k \in 1 .. Len(new) /\ new[k] = seq[p]
            BY <3>3a, <4>2, <6>1
          <6>3. QED
            BY <6>2
        <5>3. QED
          BY <4>4, <4>6, <5>1, <5>2
      <4>7. ASSUME NEW j \in 1 .. Len(new), NEW k \in 1 .. Len(new), j < k
            PROVE  \E h, p \in places : /\ h < p /\ p <= i
                                        /\ new[j] = seq[h] /\ new[k] = seq[p]
        <5>1. j \in 1 .. Len(old)
          BY <3>3a, <4>2, <4>7
        <5>2. CASE k \in 1 .. Len(old)
          <6>1. PICK h \in places, p \in places : /\ h < p /\ p <= i - 1
                                                  /\ old[j] = seq[h] /\ old[k] = seq[p]
            BY <3>3, <4>7, <5>1, <5>2 DEF InOrder
          <6>2. QED
            BY <4>2, <4>4, <5>1, <5>2, <6>1
        <5>3. CASE k = Len(old) + 1
          <6>1. PICK h \in places : h <= i - 1 /\ old[j] = seq[h]
            BY <3>3, <5>1 DEF Only
          <6>2. h < i /\ i <= i
            BY <3>1, <3>2, <6>1
          <6>3. QED
            BY <3>5, <4>2, <5>1, <5>3, <6>1, <6>2
        <5>4. QED
          BY <4>3, <5>2, <5>3
      <4>8. Only(new, i) /\ All(new, i) /\ InOrder(new, i)
        <5>1. Only(new, i)
          BY <4>5 DEF Only
        <5>2. All(new, i)
          BY <4>6 DEF All
        <5>3. InOrder(new, i)
          BY <4>7 DEF InOrder
        <5>4. QED
          BY <5>1, <5>2, <5>3
      <4>9. QED
        BY <4>1, <4>2, <4>8
    <3>6. QED
      BY <3>4, <3>5
  <2>3. QED
    BY <2>1, <2>2
<1>8. Keeps(kept[len], len)
  <2> HIDE DEF Keeps
  <2> DEFINE T == {m \in Nat : m <= len /\ ~Keeps(kept[m], m)}
  <2>1. ASSUME T # {} PROVE FALSE
    <3>1. PICK m \in T : \A k \in T : m <= k
      BY <2>1, LeastNatural
    <3>2. m = 0 \/ (m - 1 \in Nat /\ m - 1 \notin T)
      BY <3>1
    <3>3. m = 0 \/ Keeps(kept[m - 1], m - 1)
      BY <1>1, <3>1, <3>2
    <3>4. QED
      BY <1>1, <1>7, <3>1, <3>3
  <2>2. QED
    BY <1>1, <2>1
<1>9. \A p \in places : p <= len
  BY <1>1 DEF len
<1> DEFINE all == kept[len]
<1>10. /\ Kept(seq, places) = all /\ all \in Seq(S)
       /\ Only(all, len) /\ All(all, len) /\ InOrder(all, len)
  BY <1>4, <1>8
<1> HIDE DEF all
<1>11. /\ \A k \in 1 .. Len(all) : \E i \in places : all[k] = seq[i]
       /\ \A i \in places : \E k \in 1 .. Len(all) : all[k] = seq[i]
  BY <1>9, <1>10
<1>12. ASSUME NEW j \in 1 .. Len(all), NEW k \in 1 .. Len(all), j < k
       PROVE  \E h, i \in places : h < i /\ all[j] = seq[h] /\ all[k] = seq[i]
  <2>1. InOrder(all, len)
    BY <1>10
  <2>2. PICK h \in places, i \in places : h < i /\ all[j] = seq[h] /\ all[k] = seq[i]
    BY <1>12, <2>1
  <2>3. QED
    BY <2>2
<1>13. all \in Seq(S) /\ Kept(seq, places) = all
  BY <1>10
<1> HIDE DEF Only, All, InOrder, Keeps, Step, Is, Some, len
<1>14. AreKept(all, seq, places)
  <2>1. \A j, k \in 1 .. Len(all) : j < k =>
            \E h, i \in places : h < i /\ all[j] = seq[h] /\ all[k] = seq[i]
    BY <1>12
  <2>2. QED
    BY <1>11, <2>1, Zenon DEF AreKept
<1>15. QED
  BY <1>13, <1>14, Zenon

Title == [text : STRING \cup {Blank}, label : STRING \cup {Blank}]
Links == [ref : STRING \cup {Blank}, resolved : BOOLEAN]
RowHash(sheet, n) ==
    LET context == sheet_context(sheet.lines) IN
    content_hash(sheet.type, SourceId(sheet.type, context.label, sheet.rows[n].own, n),
                 <<Described(sheet.rows[n]), context.label>>, context.text)
PhotoHash(photo, when, named) ==
    content_hash("photo", <<"PHOTO", photo.object>>, <<photo.caption, ToString(when), named>>, Blank)
CollectedHash(record) ==
    content_hash(record.type, <<"collected", record.id>>, <<record.text>>, Blank)

Observations == UNION {Range(b.records) : b \in Batches}
Capture(photo) == IF photo.taken = 0 THEN {Today, Tomorrow} ELSE {photo.taken}

\* What can be sent, and as what.
RowFilings ==
    UNION {{[hash |-> RowHash(s, n), origin |-> [of |-> s, at |-> n], links |-> l] :
              n \in DOMAIN s.rows, l \in Links} : s \in Sheets}
PhotoFilings ==
    UNION {{[hash |-> PhotoHash(p, when, named), origin |-> [of |-> p, at |-> 0], links |-> l] :
              when \in Capture(p), named \in {Blank, p.ref}, l \in Links} : p \in Photos}
CollectedFilings ==
    {[hash |-> CollectedHash(r), origin |-> [of |-> r, at |-> 0], links |-> l] :
        r \in Observations, l \in Links}
Filing == RowFilings \cup PhotoFilings \cup CollectedFilings
Entry == {[hash |-> f.hash, origin |-> f.origin, links |-> f.links, by |-> u] :
             f \in Filing, u \in Upload}
Source == {<<>>} \cup {<<m>> : m \in Sheets \cup Photos \cup Batches}
Session == [pc : {"idle", "open", "done", "failed"}, from : Source, adds : Seq(Filing),
            duplicates : Int]

\* The words of row n of the sheet, in its context.
SaysAsRow(r, sheet, n) ==
    /\ r.origin.of \in Sheets
    /\ sheet_context(r.origin.of.lines) = sheet_context(sheet.lines)
    /\ Described(r.origin.of.rows[r.origin.at]) = Described(sheet.rows[n])

FromBatch(u) == \E b \in Batches : upload[u].from = <<b>>
NotFiledYet(u) == \A i \in DOMAIN filed : filed[i].by # u
AddsAreNew(u) == \A k \in DOMAIN upload[u].adds : upload[u].adds[k].hash \notin _existing_hashes
AddsDiffer(u) ==
    \A j, k \in DOMAIN upload[u].adds :
        j < k => upload[u].adds[j].hash # upload[u].adds[k].hash
AddsRest(u) ==
    \A sheet \in Sheets : upload[u].from = <<sheet>> =>
        \A n \in DOMAIN sheet.rows : Described(sheet.rows[n]) # Blank =>
            \/ \E i \in DOMAIN filed : SaysAsRow(filed[i], sheet, n)
            \/ \E k \in DOMAIN upload[u].adds : SaysAsRow(upload[u].adds[k], sheet, n)

SessionInv(u) ==
    /\ upload[u].pc \in {"idle", "open"} => NotFiledYet(u)
    /\ upload[u].pc = "open" => /\ ~crowded => AddsAreNew(u)
                                /\ ~FromBatch(u) => AddsDiffer(u)
                                /\ AddsRest(u)

EvidenceInv ==
    /\ upload \in [Upload -> Session] /\ filed \in Seq(Entry)
    /\ day \in {Today, Tomorrow}
    /\ ~crowded => \A u, v \in Upload : upload[u].pc = "open" /\ upload[v].pc = "open" => u = v
    /\ \A u \in Upload : SessionInv(u)
    /\ FiledOnce /\ NoItemLost

\* A sheet's context is one of its titles, or none.
LEMMA ContextIs ==
    ASSUME NEW sheet \in Sheets
    PROVE  sheet_context(sheet.lines) \in Title
<1> DEFINE lines == sheet.lines
           titled == {i \in 1 .. Len(lines) : lines[i].label # Blank}
<1>1. lines \in Seq([text : STRING, label : STRING])
  BY EvidenceAssumption DEF EvidenceAssumption
<1>2. Len(lines) \in Nat /\ \A i \in 1 .. Len(lines) : lines[i] \in Title
  <2>1. [text : STRING, label : STRING] \subseteq Title
    BY DEF Title
  <2>2. QED
    BY <1>1, <2>1, LenProperties, ElementOfSeq
<1> HIDE DEF lines
<1>3. sheet_context(lines) = IF titled # {} /\ Min(titled) # 0 THEN lines[Min(titled)]
                             ELSE IF lines # <<>> THEN Head(lines)
                             ELSE [text |-> Blank, label |-> Blank]
  BY DEF sheet_context, SelectInSeq
<1>4. titled # {} => Min(titled) \in 1 .. Len(lines)
  <2>1. titled \subseteq Nat
    BY <1>2
  <2>2. QED
    BY <2>1, LeastIsIn
<1>5. lines # <<>> => Head(lines) = lines[1] /\ 1 \in 1 .. Len(lines)
  BY <1>1
<1>6. [text |-> Blank, label |-> Blank] \in Title
  BY DEF Title
<1>7. sheet_context(lines) \in Title
  BY <1>2, <1>3, <1>4, <1>5, <1>6
<1>8. QED
  BY <1>7 DEF lines

\* What is sent again is sent as it was, but for some photographs.
LEMMA SentAgainIsAlike ==
    ASSUME NEW f \in Filing, NEW g \in Filing, f.origin = g.origin, ~Reworded(f.origin.of)
    PROVE  f.hash = g.hash
<1>1. CASE f \in RowFilings
  <2>s. PICK s \in Sheets : \E n \in DOMAIN s.rows :
               f.hash = RowHash(s, n) /\ f.origin = [of |-> s, at |-> n]
    BY <1>1 DEF RowFilings
  <2>a. PICK n \in DOMAIN s.rows : f.hash = RowHash(s, n) /\ f.origin = [of |-> s, at |-> n]
    BY <2>s
  <2>2. n \in Nat /\ n >= 1
    BY <2>a, EvidenceAssumption, LenProperties DEF EvidenceAssumption
  <2>3. g.origin.at # 0
    BY <2>a, <2>2
  <2>4. g \in RowFilings
    BY <2>3 DEF Filing, PhotoFilings, CollectedFilings
  <2>b. PICK t \in Sheets : \E m \in DOMAIN t.rows :
               g.hash = RowHash(t, m) /\ g.origin = [of |-> t, at |-> m]
    BY <2>4 DEF RowFilings
  <2>5. PICK m \in DOMAIN t.rows : g.hash = RowHash(t, m) /\ g.origin = [of |-> t, at |-> m]
    BY <2>b
  <2>6. t = s /\ m = n
    <3>1. f.origin.of = s /\ f.origin.at = n
      BY <2>a
    <3>2. g.origin.of = t /\ g.origin.at = m
      BY <2>5
    <3>3. QED
      BY <3>1, <3>2
  <2>7. QED
    BY <2>a, <2>5, <2>6
<1>2. ASSUME NEW x \in PhotoFilings, NEW y \in PhotoFilings, x.origin = y.origin,
             ~Reworded(x.origin.of)
      PROVE  x.hash = y.hash
  <2>1. ASSUME NEW z \in PhotoFilings, ~Reworded(z.origin.of)
        PROVE  z.hash = PhotoHash(z.origin.of, z.origin.of.taken, Blank)
    <3>a. PICK p \in Photos : \E when \in Capture(p), named \in {Blank, p.ref} :
                 z.hash = PhotoHash(p, when, named) /\ z.origin.of = p
      BY <2>1 DEF PhotoFilings
    <3>1. PICK when \in Capture(p), named \in {Blank, p.ref} :
                 z.hash = PhotoHash(p, when, named) /\ z.origin.of = p
      BY <3>a
    <3>2. p.taken # 0 /\ p.ref = Blank
      BY <2>1, <3>1 DEF Reworded
    <3>3. when = p.taken /\ named = Blank
      BY <3>1, <3>2 DEF Capture
    <3>4. QED
      BY <3>1, <3>3
  <2>2. QED
    BY <1>2, <2>1
<1>3. ASSUME NEW x \in PhotoFilings, NEW y \in CollectedFilings PROVE x.origin # y.origin
  <2>1. x.origin.of \in Photos
    BY <1>3 DEF PhotoFilings
  <2>2. y.origin.of \in Observations
    BY <1>3 DEF CollectedFilings
  <2>3. \A r \in Observations : r \in [type : STRING, id : STRING, text : STRING]
    <3>1. ASSUME NEW b \in Batches
          PROVE  Range(b.records) \subseteq [type : STRING, id : STRING, text : STRING]
      <4>1. b.records \in Seq([type : STRING, id : STRING, text : STRING])
        BY EvidenceAssumption DEF EvidenceAssumption
      <4>2. QED
        BY <4>1, RangeIsIn
    <3>2. QED
      BY <3>1 DEF Observations
  <2>4. \A p \in Photos : DOMAIN p = {"object", "caption", "taken", "ref"}
    BY EvidenceAssumption DEF EvidenceAssumption
  <2>5. \A r \in Observations : DOMAIN r = {"type", "id", "text"}
    BY <2>3
  <2>6. "object" \notin {"type", "id", "text"}
    OBVIOUS
  <2>7. QED
    BY <2>1, <2>2, <2>4, <2>5, <2>6
<1>4. ASSUME NEW x \in CollectedFilings, NEW y \in CollectedFilings, x.origin = y.origin
      PROVE  x.hash = y.hash
  BY <1>4 DEF CollectedFilings
<1>5. CASE f \notin RowFilings
  <2>1. g \notin RowFilings
    <3>1. f.origin.at = 0
      BY <1>5 DEF Filing, PhotoFilings, CollectedFilings
    <3>2. \A s \in Sheets : \A n \in DOMAIN s.rows : n # 0
      BY EvidenceAssumption, LenProperties DEF EvidenceAssumption
    <3>3. QED
      BY <3>1, <3>2 DEF RowFilings
  <2>2. QED
    BY <1>2, <1>3, <1>4, <1>5, <2>1 DEF Filing
<1>6. QED
  BY <1>1, <1>5

\* A record with the hash of a row has its words and its context.
LEMMA SameHashSaysTheSame ==
    ASSUME NEW f \in Filing, NEW sheet \in Sheets, NEW n \in DOMAIN sheet.rows,
           f.hash = RowHash(sheet, n)
    PROVE  SaysAsRow(f, sheet, n)
<1>1. /\ f.hash.text = <<Described(sheet.rows[n]), sheet_context(sheet.lines).label>>
      /\ f.hash.document = sheet_context(sheet.lines).text
  BY DEF RowHash, content_hash
<1>2. f \in RowFilings
  <2>1. \A p \in PhotoFilings : \E a, b, c : p.hash.text = <<a, b, c>>
    BY DEF PhotoFilings, PhotoHash, content_hash
  <2>2. \A c \in CollectedFilings : \E a : c.hash.text = <<a>>
    BY DEF CollectedFilings, CollectedHash, content_hash
  <2>3. \A a, b, c, x, y : <<a, b, c>> # <<x, y>> /\ <<a>> # <<x, y>>
    OBVIOUS
  <2>4. QED
    BY <1>1, <2>1, <2>2, <2>3 DEF Filing
<1>a. PICK s \in Sheets : \E m \in DOMAIN s.rows :
             f.hash = RowHash(s, m) /\ f.origin = [of |-> s, at |-> m]
  BY <1>2 DEF RowFilings
<1>3. PICK m \in DOMAIN s.rows : f.hash = RowHash(s, m) /\ f.origin = [of |-> s, at |-> m]
  BY <1>a
<1>4. /\ f.hash.text = <<Described(s.rows[m]), sheet_context(s.lines).label>>
      /\ f.hash.document = sheet_context(s.lines).text
  BY <1>3 DEF RowHash, content_hash
<1>5. /\ Described(s.rows[m]) = Described(sheet.rows[n])
      /\ sheet_context(s.lines).label = sheet_context(sheet.lines).label
      /\ sheet_context(s.lines).text = sheet_context(sheet.lines).text
  BY <1>1, <1>4
<1>6. sheet_context(s.lines) = sheet_context(sheet.lines)
  <2>1. /\ sheet_context(s.lines) \in Title
        /\ sheet_context(sheet.lines) \in Title
    BY ContextIs
  <2>2. QED
    BY <1>5, <2>1 DEF Title
<1>7. QED
  BY <1>3, <1>5, <1>6 DEF SaysAsRow

\* The rows of a sheet that can be used, as they are sent.
LEMMA RecordsAre ==
    ASSUME NEW sheet \in Sheets
    PROVE  /\ Records(sheet) \in Seq(Filing)
           /\ \A n \in DOMAIN sheet.rows : Described(sheet.rows[n]) # Blank =>
                  \E k \in 1 .. Len(Records(sheet)) : Records(sheet)[k].hash = RowHash(sheet, n)
<1> DEFINE items == sheet.rows
           all == [i \in DOMAIN items |-> i]
           places == {i \in DOMAIN items : Described(items[i]) # Blank}
           used == Kept(all, places)
           sent == [k \in DOMAIN used |-> build_record(sheet, used[k])]
<1>1. /\ Len(items) \in Nat /\ DOMAIN items = 1 .. Len(items)
      /\ \A i \in DOMAIN items : items[i].ref \in STRING
  <2>1. items \in Seq([own : STRING, text : STRING, free : STRING, ref : STRING])
    BY EvidenceAssumption DEF EvidenceAssumption
  <2> HIDE DEF items
  <2>2. Len(items) \in Nat /\ DOMAIN items = 1 .. Len(items)
    BY <2>1, LenProperties
  <2>3. \A i \in 1 .. Len(items) : items[i] \in [own : STRING, text : STRING, free : STRING, ref : STRING]
    BY <2>1, ElementOfSeq
  <2>4. QED
    BY <2>2, <2>3
<1>2. all \in Seq(Nat) /\ Len(all) = Len(items) /\ \A i \in DOMAIN items : all[i] = i
  <2>1. all \in [1 .. Len(items) -> Nat]
    BY <1>1
  <2>2. all \in Seq(Nat)
    BY <1>1, <2>1, SeqDef
  <2>3. QED
    BY <1>1, <2>2, LenProperties
<1>3. places \in SUBSET (1 .. Len(all))
  BY <1>1, <1>2
<1>4. Records(sheet) = sent
  BY DEF Records, Usable
<1> HIDE DEF all, places
<1>5. /\ used \in Seq(Nat)
      /\ \A k \in 1 .. Len(used) : \E i \in places : used[k] = all[i]
      /\ \A i \in places : \E k \in 1 .. Len(used) : used[k] = all[i]
  <2>1. Kept(all, places) \in Seq(Nat) /\ AreKept(Kept(all, places), all, places)
    BY <1>2, <1>3, KeptIs
  <2>2. QED
    BY <2>1, Zenon DEF AreKept
<1> HIDE DEF used
<1>6. Len(used) \in Nat /\ DOMAIN used = 1 .. Len(used)
  BY <1>5, LenProperties
<1>7. ASSUME NEW n \in DOMAIN items
      PROVE  build_record(sheet, n) \in Filing /\ build_record(sheet, n).hash = RowHash(sheet, n)
  <2>1. /\ build_record(sheet, n).hash = RowHash(sheet, n)
        /\ build_record(sheet, n) = [hash |-> RowHash(sheet, n), origin |-> [of |-> sheet, at |-> n],
                                     links |-> _resolve_links(items[n].ref)]
    BY DEF build_record, RowHash
  <2>2. _resolve_links(items[n].ref) \in Links
    BY <1>1 DEF _resolve_links, Links
  <2>3. QED
    BY <2>1, <2>2 DEF Filing, RowFilings
<1>8. \A i \in places : i \in DOMAIN items /\ all[i] = i
  BY <1>2 DEF places
<1>9. sent \in [1 .. Len(used) -> Filing]
  BY <1>5, <1>6, <1>7, <1>8
<1>10. sent \in Seq(Filing) /\ Len(sent) = Len(used)
  <2>1. sent \in Seq(Filing)
    BY <1>6, <1>9, SeqDef
  <2>2. QED
    BY <1>6, <2>1, LenProperties
<1>11. ASSUME NEW n \in DOMAIN items, Described(items[n]) # Blank
       PROVE  \E k \in 1 .. Len(sent) : sent[k].hash = RowHash(sheet, n)
  <2>1. n \in places
    BY <1>11 DEF places
  <2>2. PICK k \in 1 .. Len(used) : used[k] = n
    BY <1>5, <1>8, <2>1
  <2>3. sent[k] = build_record(sheet, n)
    BY <1>6, <2>2
  <2>4. QED
    BY <1>7, <1>10, <2>2, <2>3
<1>12. QED
  BY <1>4, <1>10, <1>11

LEMMA PhotographIs ==
    ASSUME NEW photo \in Photos, day \in {Today, Tomorrow}
    PROVE  <<Photograph(photo)>> \in Seq(Filing)
<1> DEFINE when == IF photo.taken = 0 THEN day ELSE photo.taken
           links == _resolve_links(photo.ref)
           named == IF links.resolved THEN photo.ref ELSE Blank
<1>1. Photograph(photo) = [hash |-> PhotoHash(photo, when, named),
                           origin |-> [of |-> photo, at |-> 0], links |-> links]
  BY DEF Photograph, PhotoHash
<1>2. photo.ref \in STRING
  BY EvidenceAssumption DEF EvidenceAssumption
<1>3. when \in Capture(photo) /\ named \in {Blank, photo.ref} /\ links \in Links
  BY <1>2 DEF Capture, _resolve_links, Links
<1> HIDE DEF when, named, links
<1>4. Photograph(photo) \in Filing
  BY <1>1, <1>3 DEF Filing, PhotoFilings
<1>5. QED
  BY <1>4

LEMMA CollectedAre ==
    ASSUME NEW batch \in Batches
    PROVE  [k \in DOMAIN batch.records |-> Collected(batch.records[k])] \in Seq(Filing)
<1> DEFINE records == batch.records
           sent == [k \in DOMAIN records |-> Collected(records[k])]
<1>1. records \in Seq([type : STRING, id : STRING, text : STRING])
  BY EvidenceAssumption DEF EvidenceAssumption
<1>2. Len(records) \in Nat /\ DOMAIN records = 1 .. Len(records)
  BY <1>1, LenProperties
<1>3. ASSUME NEW k \in DOMAIN records PROVE Collected(records[k]) \in Filing
  <2>1. records[k] \in Observations
    BY DEF Observations, Range
  <2>2. _resolve_links(Blank) \in Links
    BY DEF _resolve_links, Links
  <2>3. Collected(records[k]) = [hash |-> CollectedHash(records[k]),
                                 origin |-> [of |-> records[k], at |-> 0],
                                 links |-> _resolve_links(Blank)]
    BY DEF Collected, CollectedHash
  <2>4. QED
    BY <2>1, <2>2, <2>3 DEF Filing, CollectedFilings
<1> HIDE DEF records
<1>4. sent \in [1 .. Len(records) -> Filing]
  BY <1>2, <1>3
<1>5. sent \in Seq(Filing)
  BY <1>2, <1>4, SeqDef
<1>6. QED
  BY <1>5 DEF records

\* What a session adds is not filed; what it leaves out is, or is added.
LEMMA AddUnfiledIs ==
    ASSUME NEW S, NEW records \in Seq(S)
    PROVE  /\ AddUnfiled(records) \in Seq(S)
           /\ \A k \in 1 .. Len(AddUnfiled(records)) :
                  AddUnfiled(records)[k].hash \notin _existing_hashes
<1> DEFINE places == {i \in DOMAIN records : records[i].hash \notin _existing_hashes}
<1>1. places \in SUBSET (1 .. Len(records))
  BY LenProperties
<1>2. AddUnfiled(records) = Kept(records, places)
  BY DEF AddUnfiled
<1>3. \A i \in places : records[i].hash \notin _existing_hashes
  OBVIOUS
<1> HIDE DEF places
<1>4. /\ Kept(records, places) \in Seq(S)
      /\ \A k \in 1 .. Len(Kept(records, places)) :
             \E i \in places : Kept(records, places)[k] = records[i]
  <2>1. Kept(records, places) \in Seq(S) /\ AreKept(Kept(records, places), records, places)
    BY <1>1, KeptIs
  <2>2. QED
    BY <2>1, Zenon DEF AreKept
<1>5. QED
  BY <1>2, <1>3, <1>4

LEMMA AddUnseenIs ==
    ASSUME NEW S, NEW records \in Seq(S)
    PROVE  /\ AddUnseen(records) \in Seq(S)
           /\ \A k \in 1 .. Len(AddUnseen(records)) :
                  AddUnseen(records)[k].hash \notin _existing_hashes
           /\ \A j, k \in 1 .. Len(AddUnseen(records)) : j < k =>
                  AddUnseen(records)[j].hash # AddUnseen(records)[k].hash
           /\ \A i \in 1 .. Len(records) :
                  \/ records[i].hash \in _existing_hashes
                  \/ \E k \in 1 .. Len(AddUnseen(records)) :
                        AddUnseen(records)[k].hash = records[i].hash
<1> DEFINE Seen(i) == {records[k].hash : k \in 1 .. i - 1}
           places == {i \in DOMAIN records : records[i].hash \notin _existing_hashes \cup Seen(i)}
           adds == Kept(records, places)
<1>1. Len(records) \in Nat /\ DOMAIN records = 1 .. Len(records)
  BY LenProperties
<1>2. places \in SUBSET (1 .. Len(records))
  BY <1>1
<1>3. AddUnseen(records) = adds
  BY DEF AddUnseen
<1>4. \A i \in places : records[i].hash \notin _existing_hashes
  OBVIOUS
<1>5. ASSUME NEW h \in places, NEW i \in places, h < i PROVE records[h].hash # records[i].hash
  <2>1. h \in 1 .. i - 1
    BY <1>2, <1>5
  <2>2. QED
    BY <2>1
<1>6. ASSUME NEW i \in 1 .. Len(records), records[i].hash \notin _existing_hashes
      PROVE  \E h \in places : records[h].hash = records[i].hash
  <2> DEFINE T == {h \in 1 .. Len(records) : records[h].hash = records[i].hash}
  <2>1. T \in SUBSET Nat /\ T # {}
    BY <1>1
  <2>2. PICK h \in T : \A m \in T : h <= m
    BY <2>1, LeastNatural
  <2>3. records[h].hash \notin Seen(h)
    BY <1>1, <2>2
  <2>4. QED
    BY <1>1, <1>6, <2>2, <2>3
<1> HIDE DEF places
<1>7. /\ adds \in Seq(S)
      /\ \A k \in 1 .. Len(adds) : \E i \in places : adds[k] = records[i]
      /\ \A i \in places : \E k \in 1 .. Len(adds) : adds[k] = records[i]
      /\ \A j, k \in 1 .. Len(adds) : j < k =>
            \E h, i \in places : h < i /\ adds[j] = records[h] /\ adds[k] = records[i]
  <2>1. Kept(records, places) \in Seq(S) /\ AreKept(Kept(records, places), records, places)
    BY <1>2, KeptIs
  <2>2. QED
    BY <2>1, Zenon DEF AreKept
<1> HIDE DEF adds
<1> HIDE DEF Seen
<1>8. ASSUME NEW j \in 1 .. Len(adds), NEW k \in 1 .. Len(adds), j < k
      PROVE  adds[j].hash # adds[k].hash
  <2>1. PICK h \in places, i \in places :
               h < i /\ adds[j] = records[h] /\ adds[k] = records[i]
    BY <1>7, <1>8
  <2>2. QED
    BY <1>5, <2>1
<1>9. ASSUME NEW i \in 1 .. Len(records), records[i].hash \notin _existing_hashes
      PROVE  \E k \in 1 .. Len(adds) : adds[k].hash = records[i].hash
  <2>1. PICK h \in places : records[h].hash = records[i].hash
    BY <1>6, <1>9
  <2>2. PICK k \in 1 .. Len(adds) : adds[k] = records[h]
    BY <1>7
  <2>3. QED
    BY <2>1, <2>2
<1>10. \A k \in 1 .. Len(adds) : adds[k].hash \notin _existing_hashes
  BY <1>4, <1>7
<1>11. QED
  BY <1>3, <1>7, <1>8, <1>9, <1>10

LEMMA RecordsRest ==
    ASSUME NEW sheet \in Sheets, filed \in Seq(Entry),
           NEW adds \in Seq(Filing),
           \A i \in 1 .. Len(Records(sheet)) :
               \/ Records(sheet)[i].hash \in _existing_hashes
               \/ \E k \in 1 .. Len(adds) : adds[k].hash = Records(sheet)[i].hash,
           NEW n \in DOMAIN sheet.rows, Described(sheet.rows[n]) # Blank
    PROVE  \/ \E i \in DOMAIN filed : SaysAsRow(filed[i], sheet, n)
           \/ \E k \in 1 .. Len(adds) : SaysAsRow(adds[k], sheet, n)
<1>1. PICK i \in 1 .. Len(Records(sheet)) : Records(sheet)[i].hash = RowHash(sheet, n)
  BY RecordsAre
<1>2. CASE \E k \in 1 .. Len(adds) : adds[k].hash = RowHash(sheet, n)
  <2>1. PICK k \in 1 .. Len(adds) : adds[k].hash = RowHash(sheet, n)
    BY <1>2
  <2>2. adds[k] \in Filing
    BY ElementOfSeq
  <2>3. SaysAsRow(adds[k], sheet, n)
    BY <2>1, <2>2, SameHashSaysTheSame
  <2>4. QED
    BY <2>3
<1>3. CASE RowHash(sheet, n) \in _existing_hashes
  <2>1. PICK h \in DOMAIN filed : filed[h].hash = RowHash(sheet, n)
    BY <1>3 DEF _existing_hashes
  <2>2. filed[h] \in Entry
    BY <2>1, LenProperties, ElementOfSeq
  <2>3. PICK f \in Filing : f.hash = filed[h].hash /\ f.origin = filed[h].origin
    BY <2>2 DEF Entry
  <2>4. SaysAsRow(f, sheet, n)
    BY <2>1, <2>3, SameHashSaysTheSame
  <2>5. SaysAsRow(filed[h], sheet, n)
    BY <2>3, <2>4 DEF SaysAsRow
  <2>6. QED
    BY <2>5
<1>4. QED
  BY <1>1, <1>2, <1>3

\* A session that opens.
LEMMA Opens ==
    ASSUME EvidenceInv, NEW u \in Upload, NEW m \in Sheets \cup Photos \cup Batches,
           NEW records \in Seq(Filing), NEW adds \in Seq(Filing),
           Begins(u), Opened(u, <<m>>, records, adds),
           \A k \in 1 .. Len(adds) : adds[k].hash \notin _existing_hashes,
           m \notin Batches =>
               \A j, k \in 1 .. Len(adds) : j < k => adds[j].hash # adds[k].hash,
           \A sheet \in Sheets : m = sheet =>
               \A n \in DOMAIN sheet.rows : Described(sheet.rows[n]) # Blank =>
                   \/ \E i \in DOMAIN filed : SaysAsRow(filed[i], sheet, n)
                   \/ \E k \in 1 .. Len(adds) : SaysAsRow(adds[k], sheet, n)
    PROVE  EvidenceInv'
<1> DEFINE new == [pc |-> "open", from |-> <<m>>, adds |-> adds,
                   duplicates |-> Len(records) - Len(adds)]
<1>1. new \in Session
  <2>1. Len(records) \in Nat /\ Len(adds) \in Nat
    BY LenProperties
  <2>2. <<m>> \in Source
    BY DEF Source
  <2>3. QED
    BY <2>1, <2>2 DEF Session
<1>2. /\ upload' = [upload EXCEPT ![u] = new]
      /\ upload[u].pc = "idle" /\ filed' = filed /\ day' = day /\ crowded' = crowded
      /\ crowded \/ \A v \in Upload : upload[v].pc # "open"
  BY DEF Begins, Opened
<1>3. new.pc = "open" /\ new.from = <<m>> /\ new.adds = adds
  OBVIOUS
<1> HIDE DEF new
<1>4. /\ upload' \in [Upload -> Session] /\ upload'[u] = new
      /\ \A v \in Upload : v # u => upload'[v] = upload[v]
  BY <1>1, <1>2 DEF EvidenceInv
<1>5. NotFiledYet(u) /\ DOMAIN adds = 1 .. Len(adds)
  BY <1>2, LenProperties DEF EvidenceInv, SessionInv
<1>6. ASSUME NEW v \in Upload, v # u PROVE SessionInv(v)'
  <2>1. SessionInv(v) /\ upload'[v] = upload[v]
    BY <1>4, <1>6 DEF EvidenceInv
  <2>2. NotFiledYet(v)' <=> NotFiledYet(v)
    BY <1>2 DEF NotFiledYet
  <2>3. AddsAreNew(v)' <=> AddsAreNew(v)
    BY <1>2, <2>1 DEF AddsAreNew, _existing_hashes
  <2>4. (AddsDiffer(v)' <=> AddsDiffer(v)) /\ (FromBatch(v)' <=> FromBatch(v))
    BY <2>1 DEF AddsDiffer, FromBatch
  <2>5. AddsRest(v)' <=> AddsRest(v)
    BY <1>2, <2>1 DEF AddsRest
  <2>6. QED
    BY <1>2, <2>1, <2>2, <2>3, <2>4, <2>5 DEF SessionInv
<1>7. SessionInv(u)'
  <2>1. NotFiledYet(u)'
    BY <1>2, <1>5 DEF NotFiledYet
  <2>2. AddsAreNew(u)'
    BY <1>2, <1>3, <1>4, <1>5 DEF AddsAreNew, _existing_hashes
  <2>3. ~FromBatch(u)' => AddsDiffer(u)'
    <3>1. ~FromBatch(u)' => m \notin Batches
      BY <1>3, <1>4 DEF FromBatch
    <3>2. upload'[u].adds = adds
      BY <1>3, <1>4
    <3>3. QED
      BY <1>5, <3>1, <3>2 DEF AddsDiffer
  <2>4. AddsRest(u)'
    <3>1. \A sheet : <<m>> = <<sheet>> => m = sheet
      OBVIOUS
    <3>2. QED
      BY <1>2, <1>3, <1>4, <1>5, <3>1 DEF AddsRest
  <2>5. QED
    BY <2>1, <2>2, <2>3, <2>4 DEF SessionInv
<1>8. FiledOnce'
  <2>1. \A i \in DOMAIN filed : filed[i].by \in Upload \ {u}
    <3>1. \A i \in DOMAIN filed : filed[i] \in Entry
      BY LenProperties, ElementOfSeq DEF EvidenceInv
    <3>2. QED
      BY <1>5, <3>1 DEF Entry, NotFiledYet
  <2>2. \A i, j \in DOMAIN filed : RepeatedInBatch(i, j)' <=> RepeatedInBatch(i, j)
    BY <1>2, <1>4, <2>1 DEF RepeatedInBatch
  <2>3. QED
    BY <1>2, <2>2 DEF EvidenceInv, FiledOnce
<1>9. NoItemLost'
  <2>1. \A v \in Upload : upload'[v].pc = "done" => upload'[v] = upload[v]
    BY <1>3, <1>4
  <2>2. NoItemLost
    BY DEF EvidenceInv
  <2>3. ASSUME NEW v \in Upload, NEW sheet \in Sheets, upload'[v].pc = "done",
               upload'[v].from = <<sheet>>, NEW n \in DOMAIN sheet.rows,
               Described(sheet.rows[n]) # Blank
        PROVE  \E i \in DOMAIN filed : SaysAsRow(filed[i], sheet, n)
    <3>1. upload[v].pc = "done" /\ upload[v].from = <<sheet>>
      BY <2>1, <2>3
    <3>2. QED
      BY <2>2, <2>3, <3>1, Zenon DEF NoItemLost, SaysAsRow
  <2>4. QED
    BY <1>2, <2>3 DEF NoItemLost, SaysAsRow
<1>10. ~crowded' => \A v, w \in Upload : upload'[v].pc = "open" /\ upload'[w].pc = "open" => v = w
  BY <1>2, <1>4
<1>11. QED
  BY <1>2, <1>4, <1>6, <1>7, <1>8, <1>9, <1>10 DEF EvidenceInv

\* A session that commits.
LEMMA Commits ==
    ASSUME EvidenceInv, NEW u \in Upload, CommitUpload(u)
    PROVE  EvidenceInv'
<1> DEFINE adds == upload[u].adds
           AsFiled(a) == [hash |-> a.hash, origin |-> a.origin, links |-> a.links, by |-> u]
           more == [k \in DOMAIN adds |-> AsFiled(adds[k])]
           old == Len(filed)
           done == [upload[u] EXCEPT !.pc = "done", !.adds = <<>>]
<1>1. /\ upload[u].pc = "open" /\ filed' = filed \o more
      /\ crowded' = crowded /\ day' = day
  BY DEF CommitUpload
<1>2. upload' = [upload EXCEPT ![u] = done]
  BY DEF CommitUpload, EvidenceInv
<1>3. upload[u] \in Session /\ adds \in Seq(Filing) /\ filed \in Seq(Entry) /\ SessionInv(u)
  BY DEF EvidenceInv, Session
<1>4. done \in Session /\ done.pc = "done" /\ done.from = upload[u].from
  <2>1. <<>> \in Seq(Filing)
    OBVIOUS
  <2> DEFINE closed == [upload[u] EXCEPT !.pc = "done"]
  <2>2. closed \in Session /\ closed.pc = "done" /\ closed.from = upload[u].from
    BY <1>3 DEF Session
  <2>3. done = [closed EXCEPT !.adds = <<>>]
    BY <1>3 DEF Session
  <2> HIDE DEF closed, done
  <2>4. QED
    BY <2>1, <2>2, <2>3 DEF Session
<1> HIDE DEF done
<1>5. /\ upload' \in [Upload -> Session] /\ upload'[u] = done
      /\ \A v \in Upload : v # u => upload'[v] = upload[v]
      /\ \A v \in Upload : upload'[v].from = upload[v].from
  BY <1>2, <1>4 DEF EvidenceInv
<1>6. Len(adds) \in Nat /\ DOMAIN adds = 1 .. Len(adds) /\ old \in Nat /\ DOMAIN filed = 1 .. old
  BY <1>3, LenProperties
<1>7. ASSUME NEW k \in DOMAIN adds PROVE adds[k] \in Filing /\ AsFiled(adds[k]) \in Entry
  BY <1>3, <1>6, ElementOfSeq DEF Entry
<1>8. more \in Seq(Entry) /\ Len(more) = Len(adds)
  <2>1. more \in [1 .. Len(adds) -> Entry]
    BY <1>6, <1>7
  <2>2. more \in Seq(Entry)
    BY <1>6, <2>1, SeqDef
  <2>3. QED
    BY <1>6, <2>2, LenProperties
<1>9. \A k \in DOMAIN adds : /\ more[k].hash = adds[k].hash /\ more[k].origin = adds[k].origin
                             /\ more[k].by = u
  OBVIOUS
<1> HIDE DEF adds, more, old
<1>10. /\ filed' \in Seq(Entry) /\ DOMAIN filed' = 1 .. old + Len(adds)
       /\ \A i \in 1 .. old : filed'[i] = filed[i]
       /\ \A k \in DOMAIN adds : filed'[old + k] = more[k]
  <2>1. /\ filed \o more \in Seq(Entry) /\ Len(filed \o more) = old + Len(adds)
        /\ \A i \in 1 .. old + Len(adds) :
               (filed \o more)[i] = IF i <= old THEN filed[i] ELSE more[i - old]
    <3>1. /\ filed \o more \in Seq(Entry) /\ Len(filed \o more) = Len(filed) + Len(more)
          /\ \A i \in 1 .. Len(filed) + Len(more) :
                 (filed \o more)[i] = IF i <= Len(filed) THEN filed[i] ELSE more[i - Len(filed)]
      BY <1>3, <1>8, ConcatProperties
    <3>2. Len(filed) = old /\ Len(more) = Len(adds)
      BY <1>8 DEF old
    <3>3. QED
      BY <3>1, <3>2
  <2>2. QED
    BY <1>1, <1>6, <2>1, LenProperties
<1>11. \A i \in DOMAIN filed' : i \in 1 .. old \/ (i - old \in DOMAIN adds /\ i = old + (i - old))
  BY <1>6, <1>10
<1>12. ASSUME NEW k \in DOMAIN adds PROVE old + k \in DOMAIN filed'
  BY <1>6, <1>10
<1>13. \A i \in DOMAIN filed : i \in DOMAIN filed' /\ filed'[i] = filed[i]
  BY <1>6, <1>10
<1>14. ASSUME NEW v \in Upload, v # u PROVE SessionInv(v)'
  <2>1. SessionInv(v) /\ upload'[v] = upload[v]
    BY <1>5, <1>14 DEF EvidenceInv
  <2>2. NotFiledYet(v) => NotFiledYet(v)'
    <3>1. ASSUME NotFiledYet(v), NEW i \in DOMAIN filed' PROVE filed'[i].by # v
      <4>1. CASE i \in 1 .. old
        BY <1>6, <1>10, <3>1, <4>1 DEF NotFiledYet
      <4>2. CASE i - old \in DOMAIN adds /\ i = old + (i - old)
        <5>1. filed'[i] = more[i - old] /\ more[i - old].by = u
          BY <1>9, <1>10, <4>2
        <5>2. QED
          BY <1>14, <5>1
      <4>3. QED
        BY <1>11, <4>1, <4>2
    <3>2. QED
      BY <3>1 DEF NotFiledYet
  <2>3. ~crowded => upload[v].pc # "open"
    BY <1>1, <1>14 DEF EvidenceInv
  <2>4. AddsDiffer(v)' <=> AddsDiffer(v)
    BY <2>1, Zenon DEF AddsDiffer
  <2>5. FromBatch(v)' <=> FromBatch(v)
    BY <2>1 DEF FromBatch
  <2>6. AddsRest(v) => AddsRest(v)'
    BY <1>13, <2>1 DEF AddsRest
  <2>7. QED
    BY <1>1, <2>1, <2>2, <2>3, <2>4, <2>5, <2>6 DEF SessionInv
<1>15. SessionInv(u)'
  BY <1>4, <1>5 DEF SessionInv
<1>16. FiledOnce'
  <2> SUFFICES ASSUME ~crowded, NEW i \in DOMAIN filed', NEW j \in DOMAIN filed', i < j,
                      ~RepeatedInBatch(i, j)'
               PROVE  /\ filed'[i].hash # filed'[j].hash
                      /\ filed'[i].origin = filed'[j].origin => Reworded(filed'[i].origin.of)
    BY <1>1 DEF FiledOnce
  <2>1. filed'[i].hash # filed'[j].hash
    <3>1. CASE i \in 1 .. old /\ j \in 1 .. old
      <4>1. i \in DOMAIN filed /\ j \in DOMAIN filed /\ filed'[i] = filed[i] /\ filed'[j] = filed[j]
        BY <1>6, <1>10, <3>1
      <4>2. filed[i].by \in Upload
        BY <1>3, <3>1, ElementOfSeq DEF Entry, old
      <4>3. ~RepeatedInBatch(i, j)
        BY <1>5, <4>1, <4>2 DEF RepeatedInBatch
      <4>4. QED
        BY <4>1, <4>3 DEF EvidenceInv, FiledOnce
    <3>2. CASE i \in 1 .. old /\ j - old \in DOMAIN adds
      <4>1. filed'[j].hash = adds[j - old].hash
        BY <1>9, <1>10, <1>11, <3>2, <1>6
      <4>2. adds[j - old].hash \notin _existing_hashes
        BY <1>1, <1>3, <3>2 DEF SessionInv, AddsAreNew, adds
      <4>3. filed'[i].hash \in _existing_hashes
        BY <1>6, <1>10, <3>2 DEF _existing_hashes
      <4>4. QED
        BY <4>1, <4>2, <4>3
    <3>3. CASE i - old \in DOMAIN adds /\ j - old \in DOMAIN adds
      <4>1. /\ filed'[i].hash = adds[i - old].hash /\ filed'[i].by = u
            /\ filed'[j].hash = adds[j - old].hash /\ filed'[j].by = u
        <5>1. filed'[old + (i - old)] = more[i - old] /\ filed'[old + (j - old)] = more[j - old]
          BY <1>10, <3>3
        <5>2. old + (i - old) = i /\ old + (j - old) = j
          BY <1>6, <1>10
        <5>3. QED
          BY <1>9, <3>3, <5>1, <5>2
      <4>2. ~FromBatch(u)
        BY <1>5, <4>1 DEF RepeatedInBatch, FromBatch
      <4>3. i - old < j - old
        BY <1>6, <1>10
      <4>4. QED
        BY <1>1, <1>3, <3>3, <4>1, <4>2, <4>3 DEF SessionInv, AddsDiffer, adds
    <3>4. QED
      BY <1>6, <1>10, <1>11, <3>1, <3>2, <3>3
  <2>2. ASSUME filed'[i].origin = filed'[j].origin, ~Reworded(filed'[i].origin.of) PROVE FALSE
    <3>1. filed'[i] \in Entry /\ filed'[j] \in Entry
      BY <1>10, LenProperties, ElementOfSeq
    <3>2. PICK f \in Filing : f.hash = filed'[i].hash /\ f.origin = filed'[i].origin
      BY <3>1 DEF Entry
    <3>3. PICK g \in Filing : g.hash = filed'[j].hash /\ g.origin = filed'[j].origin
      BY <3>1 DEF Entry
    <3>4. f.hash = g.hash
      BY <2>2, <3>2, <3>3, SentAgainIsAlike
    <3>5. QED
      BY <2>1, <3>2, <3>3, <3>4
  <2>3. QED
    BY <2>1, <2>2
<1>17. ASSUME NEW v \in Upload, NEW sheet \in Sheets, upload'[v].pc = "done",
              upload'[v].from = <<sheet>>, NEW n \in DOMAIN sheet.rows,
              Described(sheet.rows[n]) # Blank
       PROVE  \E i \in DOMAIN filed' : SaysAsRow(filed'[i], sheet, n)
  <2>1. CASE v # u
    <3>1. \E i \in DOMAIN filed : SaysAsRow(filed[i], sheet, n)
      <4>1. upload[v].pc = "done" /\ upload[v].from = <<sheet>>
        BY <1>5, <1>17, <2>1
      <4>2. NoItemLost
        BY DEF EvidenceInv
      <4>3. QED
        BY <1>17, <4>1, <4>2 DEF NoItemLost, SaysAsRow
    <3>2. QED
      BY <1>13, <3>1
  <2>2. CASE v = u
    <3>1. AddsRest(u) /\ upload[u].from = <<sheet>>
      BY <1>1, <1>3, <1>5, <1>17, <2>2 DEF SessionInv
    <3>2. CASE \E i \in DOMAIN filed : SaysAsRow(filed[i], sheet, n)
      BY <1>13, <3>2
    <3>3. CASE \E k \in DOMAIN adds : SaysAsRow(adds[k], sheet, n)
      <4>1. PICK k \in DOMAIN adds : SaysAsRow(adds[k], sheet, n)
        BY <3>3
      <4>2. filed'[old + k].origin = adds[k].origin /\ old + k \in DOMAIN filed'
        BY <1>9, <1>10, <1>12
      <4>3. SaysAsRow(filed'[old + k], sheet, n)
        BY <4>1, <4>2 DEF SaysAsRow
      <4>4. QED
        BY <4>2, <4>3
    <3>4. QED
      BY <1>17, <3>1, <3>2, <3>3 DEF AddsRest, adds
  <2>3. QED
    BY <2>1, <2>2
<1>18. NoItemLost'
  BY <1>17 DEF NoItemLost, SaysAsRow
<1>19. ~crowded' => \A v, w \in Upload : upload'[v].pc = "open" /\ upload'[w].pc = "open" => v = w
  BY <1>1, <1>4, <1>5 DEF EvidenceInv
<1>20. QED
  BY <1>1, <1>5, <1>10, <1>14, <1>15, <1>16, <1>18, <1>19 DEF EvidenceInv

\* A session that fails leaves nothing.
LEMMA RollsBack ==
    ASSUME EvidenceInv, NEW u \in Upload, RollBackUpload(u)
    PROVE  EvidenceInv'
<1> DEFINE closed == [upload[u] EXCEPT !.pc = "failed"]
           failed == [closed EXCEPT !.adds = <<>>]
<1>1. /\ upload' = [upload EXCEPT ![u] = failed]
      /\ crowded' = crowded /\ filed' = filed /\ day' = day
  BY DEF RollBackUpload, EvidenceInv
<1>2. closed \in Session /\ closed.pc = "failed" /\ closed.from = upload[u].from
  BY DEF EvidenceInv, Session
<1> HIDE DEF closed
<1>3. failed \in Session /\ failed.pc = "failed" /\ failed.from = upload[u].from
  <2>1. <<>> \in Seq(Filing)
    OBVIOUS
  <2>2. QED
    BY <1>2, <2>1 DEF Session
<1> HIDE DEF failed
<1>4. /\ upload' \in [Upload -> Session] /\ upload'[u] = failed
      /\ \A v \in Upload : v # u => upload'[v] = upload[v]
      /\ \A v \in Upload : upload'[v].from = upload[v].from
  BY <1>1, <1>3 DEF EvidenceInv
<1>5. ASSUME NEW v \in Upload PROVE SessionInv(v)'
  <2>1. CASE v = u
    BY <1>3, <1>4, <2>1 DEF SessionInv
  <2>2. CASE v # u
    <3>1. SessionInv(v) /\ upload'[v] = upload[v]
      BY <1>4, <2>2 DEF EvidenceInv
    <3>2. /\ NotFiledYet(v)' <=> NotFiledYet(v)
          /\ AddsAreNew(v)' <=> AddsAreNew(v)
          /\ AddsDiffer(v)' <=> AddsDiffer(v)
          /\ FromBatch(v)' <=> FromBatch(v)
          /\ AddsRest(v)' <=> AddsRest(v)
      BY <1>1, <3>1 DEF NotFiledYet, AddsAreNew, _existing_hashes, AddsDiffer, FromBatch, AddsRest
    <3>3. QED
      BY <1>1, <3>1, <3>2 DEF SessionInv
  <2>3. QED
    BY <2>1, <2>2
<1>6. FiledOnce'
  <2>1. \A i \in DOMAIN filed : filed[i].by \in Upload
    <3>1. \A i \in DOMAIN filed : filed[i] \in Entry
      BY LenProperties, ElementOfSeq DEF EvidenceInv
    <3>2. QED
      BY <3>1 DEF Entry
  <2>2. \A i, j \in DOMAIN filed : RepeatedInBatch(i, j)' <=> RepeatedInBatch(i, j)
    BY <1>1, <1>4, <2>1 DEF RepeatedInBatch
  <2>3. QED
    BY <1>1, <2>2 DEF EvidenceInv, FiledOnce
<1>7. NoItemLost'
  <2>1. ASSUME NEW v \in Upload, NEW sheet \in Sheets, upload'[v].pc = "done",
               upload'[v].from = <<sheet>>, NEW n \in DOMAIN sheet.rows,
               Described(sheet.rows[n]) # Blank
        PROVE  \E i \in DOMAIN filed : SaysAsRow(filed[i], sheet, n)
    <3>1. upload[v].pc = "done" /\ upload[v].from = <<sheet>>
      BY <1>3, <1>4, <2>1
    <3>2. NoItemLost
      BY DEF EvidenceInv
    <3>3. QED
      BY <2>1, <3>1, <3>2, Zenon DEF NoItemLost, SaysAsRow
  <2>2. QED
    BY <1>1, <2>1 DEF NoItemLost, SaysAsRow
<1>8. ~crowded' => \A v, w \in Upload : upload'[v].pc = "open" /\ upload'[w].pc = "open" => v = w
  BY <1>1, <1>3, <1>4 DEF EvidenceInv
<1>9. QED
  BY <1>1, <1>4, <1>5, <1>6, <1>7, <1>8 DEF EvidenceInv

\* What looks at the table only sees the same.
LEMMA NothingFiled ==
    ASSUME EvidenceInv, UNCHANGED <<crowded, upload, filed>>, day' \in {Today, Tomorrow}
    PROVE  EvidenceInv'
<1>1. ASSUME NEW u \in Upload PROVE SessionInv(u)'
  <2>1. /\ NotFiledYet(u)' <=> NotFiledYet(u)
        /\ AddsAreNew(u)' <=> AddsAreNew(u)
        /\ AddsDiffer(u)' <=> AddsDiffer(u)
        /\ FromBatch(u)' <=> FromBatch(u)
        /\ AddsRest(u)' <=> AddsRest(u)
    BY DEF NotFiledYet, AddsAreNew, _existing_hashes, AddsDiffer, FromBatch, AddsRest
  <2>2. QED
    BY <2>1 DEF EvidenceInv, SessionInv
<1>2. FiledOnce'
  BY DEF EvidenceInv, FiledOnce, RepeatedInBatch
<1>3. NoItemLost'
  BY DEF EvidenceInv, NoItemLost
<1>4. QED
  BY <1>1, <1>2, <1>3 DEF EvidenceInv

LEMMA EvidenceSteps ==
    ASSUME EvidenceInv, EvidenceNext
    PROVE  EvidenceInv'
<1>1. ASSUME NEW u \in Upload, NEW sheet \in Sheets, import_evidence_table(u, sheet)
      PROVE  EvidenceInv'
  <2> DEFINE records == Records(sheet)
             adds == AddUnseen(records)
  <2>1. records \in Seq(Filing) /\ filed \in Seq(Entry)
    BY RecordsAre DEF EvidenceInv
  <2>2. Begins(u) /\ Opened(u, <<sheet>>, records, adds)
    BY <1>1 DEF import_evidence_table
  <2>3. /\ adds \in Seq(Filing)
        /\ \A k \in 1 .. Len(adds) : adds[k].hash \notin _existing_hashes
        /\ \A j, k \in 1 .. Len(adds) : j < k => adds[j].hash # adds[k].hash
        /\ \A i \in 1 .. Len(records) :
               \/ records[i].hash \in _existing_hashes
               \/ \E k \in 1 .. Len(adds) : adds[k].hash = records[i].hash
    BY <2>1, AddUnseenIs
  <2> HIDE DEF adds
  <2>4. ASSUME NEW n \in DOMAIN sheet.rows, Described(sheet.rows[n]) # Blank
        PROVE  \/ \E i \in DOMAIN filed : SaysAsRow(filed[i], sheet, n)
               \/ \E k \in 1 .. Len(adds) : SaysAsRow(adds[k], sheet, n)
    BY <2>1, <2>3, <2>4, RecordsRest
  <2> HIDE DEF records
  <2>5. \A s \in Sheets : sheet = s =>
            \A n \in DOMAIN s.rows : Described(s.rows[n]) # Blank =>
                \/ \E i \in DOMAIN filed : SaysAsRow(filed[i], s, n)
                \/ \E k \in 1 .. Len(adds) : SaysAsRow(adds[k], s, n)
    BY <2>4
  <2>6. QED
    BY <2>1, <2>2, <2>3, <2>5, Opens
<1>2. ASSUME NEW u \in Upload, NEW photo \in Photos, store_photo_evidence(u, photo)
      PROVE  EvidenceInv'
  <2> DEFINE records == <<Photograph(photo)>>
             adds == AddUnseen(records)
  <2>1. records \in Seq(Filing)
    BY PhotographIs DEF EvidenceInv
  <2>2. Begins(u) /\ Opened(u, <<photo>>, records, adds)
    BY <1>2 DEF store_photo_evidence
  <2> HIDE DEF records
  <2>3. /\ adds \in Seq(Filing)
        /\ \A k \in 1 .. Len(adds) : adds[k].hash \notin _existing_hashes
        /\ \A j, k \in 1 .. Len(adds) : j < k => adds[j].hash # adds[k].hash
    BY <2>1, AddUnseenIs
  <2> HIDE DEF adds
  <2>4. photo \notin Sheets
    <3>1. DOMAIN photo = {"object", "caption", "taken", "ref"}
      BY EvidenceAssumption DEF EvidenceAssumption
    <3>2. \A sheet \in Sheets : DOMAIN sheet = {"lines", "type", "rows"}
      BY EvidenceAssumption DEF EvidenceAssumption
    <3>3. "object" \notin {"lines", "type", "rows"}
      OBVIOUS
    <3>4. QED
      BY <3>1, <3>2, <3>3
  <2>5. QED
    BY <2>1, <2>2, <2>3, <2>4, Opens
<1>3. ASSUME NEW u \in Upload, NEW batch \in Batches, ingest_evidence(u, batch)
      PROVE  EvidenceInv'
  <2> DEFINE records == [k \in DOMAIN batch.records |-> Collected(batch.records[k])]
             adds == AddUnfiled(records)
  <2>1. records \in Seq(Filing)
    BY CollectedAre
  <2>2. Begins(u) /\ Opened(u, <<batch>>, records, adds)
    BY <1>3 DEF ingest_evidence
  <2> HIDE DEF records
  <2>3. /\ adds \in Seq(Filing)
        /\ \A k \in 1 .. Len(adds) : adds[k].hash \notin _existing_hashes
    BY <2>1, AddUnfiledIs
  <2> HIDE DEF adds
  <2>4. batch \notin Sheets
    <3>1. DOMAIN batch = {"records"}
      BY EvidenceAssumption DEF EvidenceAssumption
    <3>2. \A sheet \in Sheets : DOMAIN sheet = {"lines", "type", "rows"}
      BY EvidenceAssumption DEF EvidenceAssumption
    <3>3. "type" \notin {"records"}
      OBVIOUS
    <3>4. QED
      BY <3>1, <3>2, <3>3
  <2>5. QED
    BY <2>1, <2>2, <2>3, <2>4, Opens
<1>4. CASE ScheduleArrives
  BY <1>4, NothingFiled DEF ScheduleArrives, EvidenceInv
<1>5. CASE DayPasses
  BY <1>5, NothingFiled DEF DayPasses
<1>6. QED
  BY <1>1, <1>2, <1>3, <1>4, <1>5, Commits, RollsBack DEF EvidenceNext

LEMMA InitEvidence == EvidenceInit => EvidenceInv
<1> SUFFICES ASSUME EvidenceInit PROVE EvidenceInv
  OBVIOUS
<1>1. Idle \in Session /\ Idle.pc = "idle"
  <2>1. <<>> \in Seq(Filing) /\ <<>> \in Source
    BY DEF Source
  <2>2. QED
    BY <2>1 DEF Idle, Session
<1>2. upload \in [Upload -> Session] /\ \A u \in Upload : upload[u].pc = "idle"
  BY <1>1 DEF EvidenceInit
<1>3. filed \in Seq(Entry) /\ DOMAIN filed = {} /\ day \in {Today, Tomorrow}
  <2>1. filed = <<>> /\ day = Today
    BY DEF EvidenceInit
  <2>2. QED
    BY <2>1
<1>4. \A u \in Upload : SessionInv(u)
  BY <1>2, <1>3 DEF SessionInv, NotFiledYet
<1>5. FiledOnce /\ NoItemLost
  BY <1>2, <1>3 DEF FiledOnce, NoItemLost
<1>6. QED
  BY <1>2, <1>3, <1>4, <1>5 DEF EvidenceInv

LEMMA NextEvidence == EvidenceInv /\ [EvidenceNext]_evidenceVars => EvidenceInv'
<1> SUFFICES ASSUME EvidenceInv, [EvidenceNext]_evidenceVars PROVE EvidenceInv'
  OBVIOUS
<1>1. CASE UNCHANGED evidenceVars
  BY <1>1, NothingFiled DEF evidenceVars, EvidenceInv
<1>2. QED
  BY <1>1, EvidenceSteps

\* "Re-importing a file is safe" and no station's work is lost, for any files,
\* pictures and batches and any sessions: what is sent to the twin is in its
\* evidence once, unless sessions overlap, a batch repeats itself or the text
\* of a picture depends on when it is sent.
THEOREM SentIsFiledExactlyOnce == EvidenceSpec => []FiledExactlyOnce
<1>1. EvidenceInv => FiledExactlyOnce
  BY DEF EvidenceInv, FiledExactlyOnce
<1>2. QED
  BY <1>1, InitEvidence, NextEvidence, PTL DEF EvidenceSpec

\* The rest of the state: a session holds records only while it is open.
SessionsRest == crowded \in BOOLEAN /\ \A u \in Upload : upload[u].pc = "open" \/ upload[u].adds = <<>>

LEMMA NextSessionsRest ==
    ASSUME EvidenceInv, SessionsRest, EvidenceNext
    PROVE  SessionsRest' /\ DOMAIN filed \subseteq DOMAIN filed'
<1>1. ASSUME NEW u \in Upload, NEW w, upload' = [upload EXCEPT ![u] = w], crowded' = crowded,
             w.pc = "open" \/ w.adds = <<>>
      PROVE  SessionsRest'
  BY <1>1 DEF SessionsRest, EvidenceInv
<1>2. ASSUME NEW u \in Upload, NEW m, NEW records, NEW adds,
             Begins(u), Opened(u, m, records, adds)
      PROVE  SessionsRest' /\ filed' = filed
  <2> DEFINE w == [pc |-> "open", from |-> m, adds |-> adds,
                   duplicates |-> Len(records) - Len(adds)]
  <2>1. upload' = [upload EXCEPT ![u] = w] /\ w.pc = "open"
    BY <1>2 DEF Opened
  <2>2. crowded' = crowded /\ filed' = filed
    BY <1>2 DEF Begins
  <2> HIDE DEF w
  <2>3. QED
    BY <1>1, <2>1, <2>2
<1>3. ASSUME NEW u \in Upload, NEW pc,
             upload' = [upload EXCEPT ![u] = [[upload[u] EXCEPT !.pc = pc] EXCEPT !.adds = <<>>]],
             crowded' = crowded
      PROVE  SessionsRest'
  <2> DEFINE closed == [upload[u] EXCEPT !.pc = pc]
             w == [closed EXCEPT !.adds = <<>>]
  <2>1. upload[u] \in Session
    BY DEF EvidenceInv
  <2>2. w.adds = <<>>
    BY <2>1 DEF Session
  <2>3. upload' = [upload EXCEPT ![u] = w]
    BY <1>3
  <2> HIDE DEF w
  <2>4. QED
    BY <1>1, <1>3, <2>2, <2>3
<1>4. ASSUME NEW u \in Upload, CommitUpload(u)
      PROVE  SessionsRest' /\ DOMAIN filed \subseteq DOMAIN filed'
  <2>1. /\ crowded' = crowded
        /\ upload' = [upload EXCEPT ![u] = [[upload[u] EXCEPT !.pc = "done"] EXCEPT !.adds = <<>>]]
    BY <1>4 DEF CommitUpload, EvidenceInv
  <2>2. SessionsRest'
    BY <1>3, <2>1
  <2> DEFINE adds == upload[u].adds
             more == [k \in DOMAIN adds |-> [hash |-> adds[k].hash, origin |-> adds[k].origin,
                                              links |-> adds[k].links, by |-> u]]
  <2>3. adds \in Seq(Filing) /\ filed \in Seq(Entry)
    BY DEF EvidenceInv, Session
  <2>4. DOMAIN adds = 1 .. Len(adds) /\ Len(adds) \in Nat
    BY <2>3, LenProperties
  <2>5. more \in Seq(Range(more))
    <3>1. more \in [1 .. Len(adds) -> Range(more)]
      BY <2>4 DEF Range
    <3>2. QED
      BY <2>4, <3>1, SeqDef
  <2>6. filed' = filed \o more
    BY <1>4 DEF CommitUpload
  <2> HIDE DEF more
  <2>7. DOMAIN (filed \o more) = 1 .. (Len(filed) + Len(more))
    <3> DEFINE All == Entry \cup Range(more)
    <3>1. filed \in Seq(All) /\ more \in Seq(All)
      BY <2>3, <2>5, LenProperties, SeqDef
    <3>2. QED
      BY <3>1, ConcatProperties, LenProperties
  <2>8. DOMAIN filed = 1 .. Len(filed) /\ Len(filed) \in Nat /\ Len(more) \in Nat
    BY <2>3, <2>5, LenProperties
  <2>9. QED
    BY <2>2, <2>6, <2>7, <2>8
<1>5. ASSUME NEW u \in Upload, RollBackUpload(u)
      PROVE  SessionsRest' /\ filed' = filed
  <2>1. /\ crowded' = crowded /\ filed' = filed
        /\ upload' = [upload EXCEPT ![u] =
                        [[upload[u] EXCEPT !.pc = "failed"] EXCEPT !.adds = <<>>]]
    BY <1>5 DEF RollBackUpload, EvidenceInv
  <2>2. QED
    BY <1>3, <2>1
<1>6. CASE ScheduleArrives \/ DayPasses
  BY <1>6 DEF ScheduleArrives, DayPasses, SessionsRest
<1>7. ASSUME NEW u \in Upload, NEW sheet \in Sheets, import_evidence_table(u, sheet)
      PROVE  SessionsRest' /\ filed' = filed
  BY <1>2, <1>7 DEF import_evidence_table
<1>8. ASSUME NEW u \in Upload, NEW photo \in Photos, store_photo_evidence(u, photo)
      PROVE  SessionsRest' /\ filed' = filed
  BY <1>2, <1>8 DEF store_photo_evidence
<1>9. ASSUME NEW u \in Upload, NEW batch \in Batches, ingest_evidence(u, batch)
      PROVE  SessionsRest' /\ filed' = filed
  BY <1>2, <1>9 DEF ingest_evidence
<1>10. QED
  BY <1>4, <1>5, <1>6, <1>7, <1>8, <1>9 DEF EvidenceNext

LEMMA EvidenceTypes == EvidenceInv /\ SessionsRest => EvidenceTypeOK
<1> SUFFICES ASSUME EvidenceInv, SessionsRest PROVE EvidenceTypeOK
  OBVIOUS
<1>1. \A u \in Upload : upload[u] \in Session
  BY DEF EvidenceInv
<1>2. \A u \in Upload : upload[u].pc \in {"idle", "open", "done", "failed"}
  BY <1>1 DEF Session
<1>3. \A i \in DOMAIN filed : filed[i] \in Entry
  BY LenProperties, ElementOfSeq DEF EvidenceInv
<1>4. \A i \in DOMAIN filed : filed[i].by \in Upload
  BY <1>3 DEF Entry
<1>5. QED
  BY <1>2, <1>4 DEF EvidenceTypeOK, EvidenceInv, SessionsRest

\* What the question holds: places of the table, which only grows.
QuestionRest ==
    /\ asked.pc \in {"idle", "local", "awaiting", "answered"}
    /\ asked.answer.confidence \in Nat /\ asked.answer.confidence <= Parts
    /\ ToSet(asked.hits) \subseteq DOMAIN filed

LEMMA NextQuestionRest ==
    ASSUME AskInv, EvidenceInv, SessionsRest, QuestionRest, [AskNext]_<<evidenceVars, asked>>
    PROVE  AskInv' /\ EvidenceInv' /\ SessionsRest' /\ QuestionRest'
<1>1. CASE UNCHANGED evidenceVars
  <2>1. EvidenceInv' /\ SessionsRest' /\ filed' = filed
    BY <1>1, NextEvidence DEF SessionsRest, evidenceVars
  <2>2. ASSUME asked'.hits \in Rankings PROVE ToSet(asked'.hits) \subseteq DOMAIN filed
    BY <2>2 DEF Rankings, ToSet
  <2>3. CASE asked' = asked
    BY <1>1, <2>1, <2>3, AskRests DEF QuestionRest
  <2>4. CASE AskNext
    <3>1. AskInv'
      BY <2>4, NextAsk
    <3>2. \/ asked' = asked
          \/ /\ asked'.pc \in {"local", "awaiting"} /\ asked'.hits \in Rankings
             /\ asked'.answer = asked.answer
          \/ /\ asked'.pc = "answered" /\ asked'.hits = asked.hits
             /\ asked'.answer.confidence \in Nat
                 /\ asked'.answer.confidence <= Parts
      BY <2>4, NextAsk
    <3>3. QuestionRest'
      BY <2>1, <2>2, <3>2 DEF QuestionRest
    <3>4. QED
      BY <2>1, <3>1, <3>3
  <2>5. QED
    BY <2>3, <2>4
<1>2. CASE EvidenceNext /\ asked' = asked /\ AskInv'
  <2>1. EvidenceInv' /\ SessionsRest' /\ DOMAIN filed \subseteq DOMAIN filed'
    BY <1>2, EvidenceSteps, NextSessionsRest
  <2>2. QED
    BY <1>2, <2>1 DEF QuestionRest
<1>3. QED
  BY <1>1, <1>2, NextAsk, EvidenceIsAsBefore

\* The evidence and the question keep their state within their types: a
\* session holds nothing once it is closed, every record is some session's,
\* and what a question found stays in the table while the gateway is awaited.
THEOREM AnswersAreAlwaysTyped == AskSpec => [](EvidenceTypeOK /\ AskTypeOK)
<1> DEFINE Inv == AskInv /\ EvidenceInv /\ SessionsRest /\ QuestionRest
<1>1. AskInit => Inv
  <2> SUFFICES ASSUME AskInit PROVE Inv
    OBVIOUS
  <2>1. EvidenceInit
    BY DEF AskInit
  <2>2. SessionsRest
    BY <2>1 DEF EvidenceInit, SessionsRest, Idle
  <2>3. ToSet(<<>>) = {}
    BY DEF ToSet
  <2>4. QuestionRest
    BY <2>3, InitAsk DEF QuestionRest, Parts
  <2>5. QED
    BY <2>1, <2>2, <2>4, InitAsk, InitEvidence
<1>2. Inv /\ [AskNext]_<<evidenceVars, asked>> => Inv'
  BY NextQuestionRest
<1>3. Parts \in Nat
  BY DEF Parts
<1>4. QuestionRest => asked.answer.confidence \in 0 .. Parts
  BY <1>3 DEF QuestionRest
<1>5. Inv => EvidenceTypeOK /\ AskTypeOK
  BY <1>4, EvidenceTypes DEF QuestionRest, AskTypeOK
<1>6. QED
  BY <1>1, <1>2, <1>5, PTL DEF AskSpec
=============================================================================
