----------------------------- MODULE AssetCache -----------------------------
(***************************************************************************)
(* The jobs of one cache key and its AssetCacheEntry: create_job, what a   *)
(* build does to the entry when it is published, and resume_job.           *)
(* Objects are named after the key, so every build of it writes the same   *)
(* manifest.  Sessions do not autoflush and write only the columns that    *)
(* changed since they were read: a request and a publication each read in  *)
(* one step and commit in a later one.  The build itself (AssetPipeline)   *)
(* is "queued", then "finalizing"; its finalizer goes on whatever others   *)
(* write to the job meanwhile.                                             *)
(***************************************************************************)
EXTENDS Naturals, FiniteSets

CONSTANTS
    Ticket          \* one POST of a build request each

ASSUME TicketAssumption == IsFiniteSet(Ticket)

VARIABLES
    overlap,        \* do requests overlap in this behaviour?
    ticket,         \* Ticket -> the request and the job it created
    entry,          \* the cache row
    stored          \* is manifest.json in object storage?

cacheVars == <<overlap, ticket, entry, stored>>

ACTIVE == {"queued", "finalizing"}
NoEntry == [row |-> FALSE, status |-> "building", manifest |-> FALSE]

Fresh == [status |-> "none", forced |-> FALSE, hit |-> FALSE, resumed |-> 0,
          reopened |-> FALSE, step |-> "none", manifest |-> FALSE, seen |-> NoEntry]

CacheInit ==
    /\ overlap \in BOOLEAN
    /\ ticket = [t \in Ticket |-> Fresh]
    /\ entry = NoEntry
    /\ stored = FALSE

Active == {t \in Ticket : ticket[t].status \in ACTIVE}
Requesting == {t \in Ticket : ticket[t].status \in {"create", "reuse"}}

SetTicket(t, row) == ticket' = [ticket EXCEPT ![t] = row]

Reusable == entry.row /\ entry.status = "ready" /\ entry.manifest /\ stored

FindsActive == Active # {}

\* create_job up to its first write.  A forced request looks at neither the
\* active jobs nor the cached result.
Ask(t, force) ==
    /\ ticket[t].status = "none"
    /\ overlap \/ Requesting = {}
    /\ SetTicket(t, [ticket[t] EXCEPT
           !.forced = force, !.seen = entry,
           !.status = IF ~force /\ FindsActive THEN "deduplicated"
                      ELSE IF ~force /\ Reusable THEN "reuse" ELSE "create"])
    /\ UNCHANGED <<overlap, entry, stored>>

Reuse(t) ==
    /\ ticket[t].status = "reuse"
    /\ SetTicket(t, [ticket[t] EXCEPT !.status = "completed", !.hit = TRUE,
                                      !.manifest = ticket[t].seen.manifest])
    /\ UNCHANGED <<overlap, entry, stored>>

\* A column is written when the session changed it.
Written(old, new, now) == IF old = new THEN now ELSE new

Create(t) ==
    LET seen == ticket[t].seen IN
    /\ ticket[t].status = "create"
    /\ SetTicket(t, [ticket[t] EXCEPT !.status = "queued"])
    /\ entry' = IF ticket[t].forced /\ seen.row
                THEN [entry EXCEPT
                        !.status = Written(seen.status, "building", @),
                        !.manifest = Written(seen.manifest, FALSE, @)]
                ELSE entry
    /\ UNCHANGED <<overlap, stored>>

\* The finalizer's claim.  A job has one finalizer at a time.
ClaimFinal(t) ==
    /\ ticket[t].status = "queued" /\ ticket[t].step = "none"
    /\ SetTicket(t, [ticket[t] EXCEPT !.status = "finalizing", !.step = "put"])
    /\ UNCHANGED <<overlap, entry, stored>>

\* finalize_job: the manifest is put, then the entry is read ...
PutManifest(t) ==
    /\ ticket[t].step = "put"
    /\ stored' = TRUE
    /\ SetTicket(t, [ticket[t] EXCEPT !.step = "commit", !.seen = entry])
    /\ UNCHANGED <<overlap, entry>>

\* Somebody else inserted the entry after t's finalizer had looked for it.
Stuck(t) == ticket[t].step = "commit" /\ entry.row /\ ~ticket[t].seen.row

Completed(t) ==
    SetTicket(t, [ticket[t] EXCEPT !.status = "completed", !.step = "none",
                                   !.manifest = TRUE])

PublishNewOnly(t) ==
    /\ ticket[t].step = "commit" /\ ~Stuck(t)
    /\ entry' = IF entry.row THEN entry
                ELSE [row |-> TRUE, status |-> "ready", manifest |-> TRUE]
    /\ Completed(t)
    /\ UNCHANGED <<overlap, stored>>

\* ... and committed with the job, which others may have cancelled meanwhile.
Publish(t) ==
    LET seen == ticket[t].seen IN
    /\ ticket[t].step = "commit" /\ ~Stuck(t)
    /\ entry' = [row |-> TRUE,
                 status |-> Written(seen.status, "ready",
                                    IF seen.row THEN entry.status ELSE "ready"),
                 manifest |-> Written(seen.manifest, TRUE,
                                      IF seen.row THEN entry.manifest ELSE TRUE)]
    /\ Completed(t)
    /\ UNCHANGED <<overlap, stored>>

\* The finalizer fails and says so.
FinalizerFails(t) ==
    /\ ticket[t].step # "none" /\ ~Stuck(t)
    /\ SetTicket(t, [ticket[t] EXCEPT !.status = "failed", !.step = "none"])
    /\ UNCHANGED <<overlap, entry, stored>>

\* Or it ends without a word: its process dies, or an entry inserted in between
\* breaks its commit, and the handler's own query on the broken session raises
\* again.
FinalizerStops(t) ==
    /\ ticket[t].step # "none"
    /\ SetTicket(t, [ticket[t] EXCEPT !.step = "none"])
    /\ UNCHANGED <<overlap, entry, stored>>

\* A build fails or is cancelled; a transaction that read the job earlier may
\* say so of a job that was completed meanwhile.
GiveUp(t) ==
    /\ ticket[t].status \in ACTIVE \cup {"completed"} /\ ~ticket[t].hit
    /\ \E status \in {"cancelled", "failed"} :
          SetTicket(t, [ticket[t] EXCEPT !.status = status])
    /\ UNCHANGED <<overlap, entry, stored>>

\* A planner, a recovery or a resume that read the job before it ended commits
\* "running" or "queued" over the end: once for each job, to bound the runs.
Reopen(t) ==
    /\ ticket[t].status \in {"finalizing", "completed", "failed", "cancelled"}
    /\ ~ticket[t].hit /\ ~ticket[t].reopened
    /\ SetTicket(t, [ticket[t] EXCEPT !.status = "queued", !.reopened = TRUE])
    /\ UNCHANGED <<overlap, entry, stored>>

\* resume_job looks at nothing but its own job.  MaxResumed bounds the runs.
MaxResumed == 1

Resume(t) ==
    /\ ticket[t].status \in {"failed", "cancelled"}
    /\ ticket[t].resumed < MaxResumed
    /\ SetTicket(t, [ticket[t] EXCEPT !.status = "queued", !.resumed = @ + 1])
    /\ UNCHANGED <<overlap, entry, stored>>

CacheNext ==
    \E t \in Ticket :
       \/ \E force \in BOOLEAN : Ask(t, force)
       \/ Reuse(t) \/ Create(t) \/ ClaimFinal(t) \/ PutManifest(t) \/ Publish(t)
       \/ FinalizerFails(t) \/ FinalizerStops(t)
       \/ GiveUp(t) \/ Reopen(t) \/ Resume(t)

CacheSpec == CacheInit /\ [][CacheNext]_cacheVars
-----------------------------------------------------------------------------
CacheTypeOK ==
    /\ overlap \in BOOLEAN
    /\ entry \in [row : BOOLEAN, status : {"building", "ready"}, manifest : BOOLEAN]
    /\ stored \in BOOLEAN
    /\ ticket \in [Ticket ->
          [status : {"none", "deduplicated", "reuse", "create", "queued",
                     "finalizing", "completed", "failed", "cancelled"},
           forced : BOOLEAN, hit : BOOLEAN, resumed : 0 .. MaxResumed,
           reopened : BOOLEAN, step : {"none", "put", "commit"}, manifest : BOOLEAN,
           seen : [row : BOOLEAN, status : {"building", "ready"}, manifest : BOOLEAN]]]

\* Identical active requests are de-duplicated (ALPHA_V06.md:40): when they do
\* not overlap, there is one active build of a key, and one more for every
\* request that was forced and every job that came back after it had ended.
ActiveOnce ==
    ~overlap =>
        Cardinality(Active) <=
            1 + Cardinality({t \in Active : \/ ticket[t].forced \/ ticket[t].reopened
                                             \/ ticket[t].resumed > 0})

\* And what the cache says is true, whoever builds, forces, cancels and reopens:
\* a ready entry and a completed job, built or reused, have their manifest in
\* storage, and an entry shows no result only while a forced rebuild has not
\* succeeded.
CacheIsSound ==
    /\ ActiveOnce
    /\ entry.status = "ready" => entry.manifest /\ stored
    /\ \A t \in Ticket :
          ticket[t].status = "completed" => ticket[t].manifest /\ stored
    /\ entry.row /\ entry.status = "building" =>
          \E t \in Ticket : ticket[t].forced /\ ticket[t].status # "completed"
=============================================================================
