------------------------------ MODULE Readiness ------------------------------
(***************************************************************************)
(* The loop of an asset worker process, its heartbeat row, the wake-up     *)
(* list in Redis, and the count of workers in the readiness report.  A     *)
(* unit of work may take any number of ticks, a wait as many as its        *)
(* timeouts allow, and everything else of the loop none.  A tick is a      *)
(* second; ages are counted up to the point from which on the code's       *)
(* comparisons no longer tell them apart.                                  *)
(***************************************************************************)
EXTENDS Naturals, FiniteSets, FiniteSetsExt

CONSTANTS
    Process,        \* worker processes, each with a configured identity
    HeartbeatEvery, \* worker_heartbeat_seconds
    StaleAfter,     \* worker_stale_after_seconds
    Poll,           \* asset_worker_poll_seconds
    SocketTimeout,  \* the longest a BRPOP lasts: connecting to Redis, and the
                    \* max(1, poll + 0.5) seconds its socket waits
    MaxWakes        \* bounds the wake-up list

VARIABLES
    process,        \* Process -> where its loop is, for how long, and the
                    \* age of the loop's last beat
    row,            \* Process -> its heartbeat row and the row's age
    database,       \* does the database answer?
    wakes           \* tokens in the wake-up list

readinessVars == <<process, row, database, wakes>>

ReadinessInit ==
    /\ process = [p \in Process |-> [pc |-> "off", for |-> 0, beat |-> HeartbeatEvery]]
    /\ row = [p \in Process |-> [status |-> "none", age |-> 0]]
    /\ database = TRUE
    /\ wakes = 0

record_worker_heartbeat(p) == row' = [row EXCEPT ![p] = [status |-> "online", age |-> 0]]

Goes(p, pc) == process' = [process EXCEPT ![p].pc = pc, ![p].for = 0]

\* main, up to the loop: a process whose database is away or not at its
\* migration head does not start.  The first turn of the loop always beats.
StartWorker(p) ==
    /\ process[p].pc = "off" /\ database
    /\ record_worker_heartbeat(p)
    /\ process' = [process EXCEPT ![p] = [pc |-> "top", for |-> 0, beat |-> HeartbeatEvery]]
    /\ UNCHANGED <<database, wakes>>

BeatsOnceStale(p) == process[p].beat >= HeartbeatEvery /\ row[p].age > StaleAfter
Beats(p) == process[p].beat >= HeartbeatEvery

\* The top of the loop, and the cycle that finds work or does not.
Turn(p) ==
    /\ process[p].pc = "top" /\ database
    /\ IF Beats(p) THEN record_worker_heartbeat(p) ELSE UNCHANGED row
    /\ \E pc \in {"working", "waiting"} :
          process' = [process EXCEPT ![p] =
             [pc |-> pc, for |-> 0, beat |-> IF Beats(p) THEN 0 ELSE @.beat]]
    /\ UNCHANGED <<database, wakes>>

\* A unit of work ends: the row is beaten, the time of the loop's own last beat
\* is not touched.
WorkEnds(p) ==
    /\ process[p].pc = "working" /\ database
    /\ record_worker_heartbeat(p)
    /\ Goes(p, "top")
    /\ UNCHANGED <<database, wakes>>

\* An error that is not the database's: the row is beaten, and the loop sleeps.
CycleFails(p) ==
    /\ process[p].pc = "working" /\ database
    /\ record_worker_heartbeat(p)
    /\ Goes(p, "sleeping")
    /\ UNCHANGED <<database, wakes>>

\* wait_for_signal: BRPOP has a token, or blocked for max(1, poll) seconds.
BlockFor == IF Poll < 1 THEN 1 ELSE Poll

Woken(p) ==
    /\ process[p].pc = "waiting"
    /\ \/ wakes > 0 /\ wakes' = wakes - 1
       \/ process[p].for >= BlockFor /\ UNCHANGED wakes
    /\ Goes(p, "top")
    /\ UNCHANGED <<row, database>>

\* Redis is away, or does not answer before the socket gives up, perhaps with
\* the token that it took: the whole timeout is slept on top.
WaitFails(p) ==
    /\ process[p].pc = "waiting"
    /\ \/ wakes > 0 /\ wakes' = wakes - 1
       \/ UNCHANGED wakes
    /\ Goes(p, "sleeping")
    /\ UNCHANGED <<row, database>>

SleptOut(p) ==
    /\ process[p].pc = "sleeping" /\ process[p].for >= Poll
    /\ Goes(p, "top")
    /\ UNCHANGED <<row, database, wakes>>

\* With the database away the beat of the error handler raises too, and so
\* does mark_worker_offline: the process ends and its row stays online.
Collapse(p) ==
    /\ process[p].pc \in {"top", "working"} /\ ~database
    /\ Goes(p, "off")
    /\ UNCHANGED <<row, database, wakes>>

\* A killed process leaves its row, an interrupted one marks it offline.
Killed(p) ==
    /\ process[p].pc # "off"
    /\ Goes(p, "off")
    /\ UNCHANGED <<row, database, wakes>>

mark_worker_offline(p) ==
    /\ process[p].pc # "off" /\ database
    /\ Goes(p, "off")
    /\ row' = [row EXCEPT ![p] = [status |-> "offline", age |-> 0]]
    /\ UNCHANGED <<database, wakes>>

notify_workers ==
    /\ wakes < MaxWakes
    /\ wakes' = wakes + 1
    /\ UNCHANGED <<process, row, database>>

DatabaseChanges ==
    /\ database' = ~database
    /\ UNCHANGED <<process, row, wakes>>

\* Time passes while every process works, waits, sleeps or is off, and no
\* timeout is over.
Older(age, limit) == Min({age + 1, limit})

Tick ==
    /\ \A p \in Process :
          /\ process[p].pc # "top"
          /\ process[p].pc = "waiting" => process[p].for < SocketTimeout
          /\ process[p].pc = "sleeping" => process[p].for < Poll
    /\ process' = [p \in Process |->
          [process[p] EXCEPT !.for = Older(@, StaleAfter + 1),
                             !.beat = Older(@, HeartbeatEvery)]]
    /\ row' = [p \in Process |-> [row[p] EXCEPT !.age = Older(@, StaleAfter + 1)]]
    /\ UNCHANGED <<database, wakes>>

ReadinessNext ==
    \/ \E p \in Process :
          \/ StartWorker(p) \/ Turn(p) \/ WorkEnds(p) \/ CycleFails(p)
          \/ Woken(p) \/ WaitFails(p) \/ SleptOut(p)
          \/ Collapse(p) \/ Killed(p) \/ mark_worker_offline(p)
    \/ notify_workers \/ DatabaseChanges \/ Tick

ReadinessSpec == ReadinessInit /\ [][ReadinessNext]_readinessVars

active_workers == {p \in Process : row[p].status = "online" /\ row[p].age <= StaleAfter}

\* The asset_worker check of readiness_report, where a worker is required.
_workers == database /\ active_workers # {}
-----------------------------------------------------------------------------
ReadinessTypeOK ==
    /\ wakes \in 0 .. MaxWakes /\ database \in BOOLEAN
    /\ process \in [Process -> [pc : {"off", "top", "working", "waiting", "sleeping"},
                                for : 0 .. StaleAfter + 1, beat : 0 .. HeartbeatEvery]]
    /\ row \in [Process -> [status : {"none", "online", "offline"}, age : 0 .. StaleAfter + 1]]

\* The readiness page counts who is there: a worker that waits for work, or
\* sleeps after an error or a failed wait, is on the list - it is back at the
\* database and at its heartbeat in time, were all wake-ups lost ("the database
\* remains the durable queue") and every BRPOP answered too late; one that is
\* gone for longer than StaleAfter, or was stopped by hand, is not, and a
\* service is not ready on the strength of workers that are all gone that long.
WorkersAreCounted ==
    /\ \A p \in Process :
          /\ process[p].pc \in {"waiting", "sleeping"} => p \in active_workers
          /\ row[p].status = "offline" => process[p].pc = "off"
    /\ _workers => \E p \in Process : process[p].pc # "off" \/ process[p].for <= StaleAfter
=============================================================================
