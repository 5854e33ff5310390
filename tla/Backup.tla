------------------------------- MODULE Backup -------------------------------
(***************************************************************************)
(* services/backup.py over the two stores: the database, whose rows point  *)
(* at objects, and the object store.  A backup is taken while requests and *)
(* workers write; a restore replaces one store after the other, with the   *)
(* service stopped (docs/BACKUP_RESTORE.md) or not.  A key is written once *)
(* or written again with the same content; nothing deletes objects but a   *)
(* restore.                                                                *)
(***************************************************************************)
EXTENDS Naturals, FiniteSets

CONSTANTS
    Key,            \* objects, each with the row that points at it
    Backends,       \* which of "local" and "s3" may be configured
    MaxRestores     \* bounds the runs

ASSUME BackupAssumption == Backends \subseteq {"local", "s3"} /\ MaxRestores \in Nat

VARIABLES
    backend,
    disturbed,      \* did anything write while a restore was under way?
    rows,           \* keys of the committed rows
    objects,        \* keys in object storage
    writing,        \* keys that are put and not yet committed
    archive,        \* the backup directory
    restore         \* the restore under way

backupVars == <<backend, disturbed, rows, objects, writing, archive, restore>>

NoArchive == [pc |-> "none", dump |-> {}, listed |-> {}, objects |-> {},
              manifest |-> FALSE, damaged |-> FALSE]
NoRestore == [pc |-> "idle", times |-> 0, half |-> FALSE, objects |-> {}]

BackupInit ==
    /\ backend \in Backends
    /\ disturbed = FALSE
    /\ rows = {}
    /\ objects = {}
    /\ writing = {}
    /\ archive = NoArchive
    /\ restore = NoRestore

\* A writer puts its objects and commits its rows afterwards (an upload, a
\* photograph, a finished build), or fails in between.
Put(k) ==
    /\ k \notin writing /\ k \notin rows
    /\ objects' = objects \cup {k}
    /\ writing' = writing \cup {k}
    /\ disturbed' = (disturbed \/ restore.pc # "idle")
    /\ UNCHANGED <<backend, rows, archive, restore>>

EndWrite(k) ==
    /\ k \in writing
    /\ writing' = writing \ {k}
    /\ rows' \in {rows, rows \cup {k}}
    /\ disturbed' = (disturbed \/ restore.pc # "idle")
    /\ UNCHANGED <<backend, objects, archive, restore>>
-----------------------------------------------------------------------------
At(step) ==
    archive.pc = step /\ UNCHANGED <<backend, disturbed, rows, objects, writing, restore>>

\* create_backup: first the database ...
_backup_database ==
    /\ At("none") /\ restore.pc = "idle"
    /\ archive' = [NoArchive EXCEPT !.pc = "dumped", !.dump = rows]

\* ... then the objects: what is there when the walk begins is archived, what
\* is put during the walk may or may not be.
ListObjects ==
    /\ At("dumped")
    /\ archive' = [archive EXCEPT !.pc = "walking", !.listed = objects]

_backup_objects ==
    /\ At("walking")
    /\ \E late \in SUBSET (objects \ archive.listed) :
          archive' = [archive EXCEPT !.pc = "archived",
                                     !.objects = (archive.listed \cap objects) \cup late]

\* Had the rows been read after the objects.
WriteManifestDumpLast ==
    /\ At("archived")
    /\ archive' = [archive EXCEPT !.pc = "complete", !.manifest = TRUE, !.dump = rows]

WriteManifest ==
    /\ At("archived")
    /\ archive' = [archive EXCEPT !.pc = "complete", !.manifest = TRUE]

\* The process may die and leave a directory without manifest, the files may
\* go bad (not during a restore), retention removes the backup.
BackupDies ==
    /\ archive.pc \in {"dumped", "walking", "archived"}
    /\ At(archive.pc)
    /\ archive' = [archive EXCEPT !.pc = "complete"]

Damage ==
    /\ At("complete") /\ ~archive.damaged /\ restore.pc = "idle"
    /\ \E rest \in SUBSET archive.objects :
          archive' = [archive EXCEPT !.damaged = TRUE, !.objects = rest]

prune_old_backups ==
    /\ At("complete")
    /\ archive' = NoArchive
-----------------------------------------------------------------------------
Restoring(step) == restore.pc = step /\ UNCHANGED <<backend, disturbed, writing>>

\* verify_backup: a backup without manifest raises, one that changed since it
\* was made is refused.
verify_backup == archive.manifest /\ ~archive.damaged

BeginRestore ==
    /\ restore.pc = "idle" /\ restore.times < MaxRestores
    /\ archive.pc = "complete" /\ verify_backup
    /\ restore' = [restore EXCEPT !.pc = "verified", !.times = @ + 1]
    /\ disturbed' = (disturbed \/ writing # {})
    /\ UNCHANGED <<backend, rows, objects, writing, archive>>

RestoreDatabase ==
    /\ Restoring("verified") /\ archive.pc = "complete"
    /\ rows' = archive.dump
    /\ restore' = [restore EXCEPT !.pc = "rows", !.half = TRUE]
    /\ UNCHANGED <<objects, archive>>

\* The archive is unpacked beside the store; the local tree is removed before
\* the unpacked one is copied, a bucket is only added to.
RemoveObjects ==
    /\ Restoring("rows") /\ archive.pc = "complete"
    /\ objects' = IF backend = "local" THEN {} ELSE objects
    /\ restore' = [restore EXCEPT !.pc = "removed", !.objects = archive.objects]
    /\ UNCHANGED <<rows, archive>>

CopyObjects ==
    /\ Restoring("removed")
    /\ objects' = objects \cup restore.objects
    /\ restore' = [restore EXCEPT !.pc = "idle", !.half = FALSE, !.objects = {}]
    /\ UNCHANGED <<rows, archive>>

\* A step fails: what was done stays done, and the restore may be run again.
RestoreFails ==
    /\ restore.pc # "idle" /\ Restoring(restore.pc)
    /\ restore' = [restore EXCEPT !.pc = IF restore.half THEN "failed" ELSE "idle",
                               !.objects = {}]
    /\ UNCHANGED <<rows, objects, archive>>

RestoreAgain ==
    /\ Restoring("failed") /\ restore.times < MaxRestores
    /\ archive.pc = "complete" /\ verify_backup
    /\ restore' = [restore EXCEPT !.pc = "verified", !.times = @ + 1]
    /\ UNCHANGED <<rows, objects, archive>>

BackupNext ==
    \/ \E k \in Key : Put(k) \/ EndWrite(k)
    \/ _backup_database \/ ListObjects \/ _backup_objects \/ WriteManifest
    \/ BackupDies \/ Damage \/ prune_old_backups
    \/ BeginRestore \/ RestoreDatabase \/ RemoveObjects \/ CopyObjects
    \/ RestoreFails \/ RestoreAgain

BackupSpec == BackupInit /\ [][BackupNext]_backupVars
-----------------------------------------------------------------------------
BackupTypeOK ==
    /\ backend \in {"local", "s3"} /\ disturbed \in BOOLEAN
    /\ rows \cup objects \cup writing \subseteq Key
    /\ archive \in [pc : {"none", "dumped", "walking", "archived", "complete"},
                    dump : SUBSET Key, listed : SUBSET Key, objects : SUBSET Key,
                    manifest : BOOLEAN, damaged : BOOLEAN]
    /\ restore \in [pc : {"idle", "verified", "rows", "removed", "failed"},
                    times : 0 .. MaxRestores, half : BOOLEAN,
                    objects : SUBSET Key]

\* "Backup validity is established by checksum verification and restore
\* testing" (ENTERPRISE_PILOT_V07.md:36): a backup that verifies has the object
\* of every row it has, although requests wrote while it was taken; and with
\* the service stopped for the restore, as BACKUP_RESTORE.md asks, every row
\* has its object whenever no restore is under way or left half done - also
\* when an earlier attempt failed between the stores.
RestoreIsWhole ==
    ~disturbed =>
        /\ archive.pc = "complete" /\ verify_backup => archive.dump \subseteq archive.objects
        /\ restore.pc = "idle" => rows \subseteq objects
=============================================================================
