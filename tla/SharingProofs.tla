---------------------------- MODULE SharingProofs ----------------------------
(***************************************************************************)
(* Theorems about what people see of each other's work: the cache entry    *)
(* that several requests for one partition share (AssetCache), the events  *)
(* of a job (JobEvents), the messages of the hub (RealtimeHub), and the    *)
(* comments a page queues while it is offline (OfflineComments); each for  *)
(* any number of requests, streams, sockets and tabs.                      *)
(***************************************************************************)
EXTENDS AssetCache, JobEvents, RealtimeHub, OfflineComments, DataLemmas

-----------------------------------------------------------------------------
(* The cache.  The entry's two columns always agree, in the row and in     *)
(* every copy that was read, so that a write of the columns that changed   *)
(* writes both or none.                                                    *)

Agrees(row) == (row.status = "ready" <=> row.manifest) /\ (row.manifest => row.row)

RowInv ==
    /\ Agrees(entry)
    /\ entry.manifest => stored
    /\ \A t \in Ticket :
          /\ Agrees(ticket[t].seen)
          /\ ticket[t].seen.row => entry.row
          /\ ticket[t].status \in {"reuse", "completed"} => stored
          /\ ticket[t].step = "commit" => stored
          /\ ticket[t].status = "reuse" => ticket[t].seen.manifest
          /\ ticket[t].status = "completed" => ticket[t].manifest

Built == {"queued", "finalizing", "completed", "failed", "cancelled"}

\* Only a job that was created has a finalizer.
StepInv == \A t \in Ticket : ticket[t].step # "none" => ticket[t].status \in Built

\* The forced rebuild an entry without a result waits for: it will not publish
\* on the strength of a result it saw.
Rebuilds(t) ==
    /\ ticket[t].forced
    /\ ticket[t].status \in {"queued", "finalizing", "failed", "cancelled"}
    /\ ticket[t].step = "commit" => ticket[t].seen.status = "building"

WaitInv == entry.row /\ entry.status = "building" => \E t \in Ticket : Rebuilds(t)

\* An active build that nobody forced, and that never ended.
Unforced(t) ==
    /\ ticket[t].status \in ACTIVE
    /\ ~ticket[t].forced /\ ~ticket[t].reopened /\ ticket[t].resumed = 0

OnceInv ==
    ~overlap =>
        /\ \A t, u \in Requesting : t = u
        /\ \A t \in Ticket : ticket[t].status = "create" /\ ~ticket[t].forced =>
              \A u \in Ticket : ~Unforced(u)
        /\ \A t, u \in Ticket : Unforced(t) /\ Unforced(u) => t = u

CacheInv == CacheTypeOK /\ RowInv /\ StepInv /\ WaitInv /\ OnceInv

Rows == [row : BOOLEAN, status : {"building", "ready"}, manifest : BOOLEAN]
Tickets == [status : {"none", "deduplicated", "reuse", "create", "queued",
                      "finalizing", "completed", "failed", "cancelled"},
            forced : BOOLEAN, hit : BOOLEAN, resumed : 0 .. MaxResumed,
            reopened : BOOLEAN, step : {"none", "put", "commit"},
            manifest : BOOLEAN, seen : Rows]

LEMMA CacheTypes ==
    CacheTypeOK <=> /\ overlap \in BOOLEAN /\ stored \in BOOLEAN
                    /\ entry \in Rows /\ ticket \in [Ticket -> Tickets]
BY DEF CacheTypeOK, Rows, Tickets

LEMMA InitCache == CacheInit => CacheInv
<1> SUFFICES ASSUME CacheInit PROVE CacheInv
  OBVIOUS
<1>1. NoEntry \in Rows /\ Agrees(NoEntry)
  BY DEF NoEntry, Rows, Agrees
<1>2. Fresh \in Tickets /\ Fresh.seen = NoEntry /\ Fresh.status = "none" /\ Fresh.step = "none"
  BY <1>1 DEF Fresh, Tickets, MaxResumed
<1>3. CacheTypeOK
  BY <1>1, <1>2, CacheTypes DEF CacheInit
<1>4. \A t \in Ticket : ticket[t] = Fresh
  BY DEF CacheInit
<1>5. RowInv
  BY <1>1, <1>2, <1>4 DEF CacheInit, RowInv, NoEntry
<1>6. StepInv /\ WaitInv /\ OnceInv
  BY <1>2, <1>4 DEF CacheInit, StepInv, WaitInv, OnceInv, NoEntry, Requesting, Unforced, ACTIVE
<1> QED BY <1>3, <1>5, <1>6 DEF CacheInv

\* What every step does: one ticket changes.
LEMMA OneTicket ==
    ASSUME CacheTypeOK, NEW t \in Ticket, NEW row \in Tickets, SetTicket(t, row)
    PROVE  /\ ticket' \in [Ticket -> Tickets]
           /\ ticket'[t] = row
           /\ \A u \in Ticket \ {t} : ticket'[u] = ticket[u]
BY CacheTypes DEF SetTicket

\* A step that writes neither the entry nor storage and takes no ticket away
\* from those that rebuild.
LEMMA QuietStep ==
    ASSUME CacheInv, NEW t \in Ticket, NEW row \in Tickets, SetTicket(t, row),
           UNCHANGED <<overlap, entry, stored>>,
           Agrees(row.seen), row.seen.row => entry.row,
           row.status \in {"reuse", "completed"} \/ row.step = "commit" => stored,
           row.status = "reuse" => row.seen.manifest,
           row.status = "completed" => row.manifest,
           row.step # "none" => row.status \in Built,
           Rebuilds(t) => Rebuilds(t)'
    PROVE  CacheTypeOK' /\ RowInv' /\ StepInv' /\ WaitInv'
<1>1. /\ ticket' \in [Ticket -> Tickets] /\ ticket'[t] = row
      /\ \A u \in Ticket \ {t} : ticket'[u] = ticket[u]
  BY OneTicket DEF CacheInv
<1>2. CacheTypeOK'
  BY <1>1, CacheTypes DEF CacheInv, CacheTypeOK, Rows, Tickets
<1>3. RowInv'
  BY <1>1 DEF CacheInv, RowInv, Agrees
<1>4. WaitInv'
  BY <1>1 DEF CacheInv, WaitInv, Rebuilds
<1>5. StepInv'
  BY <1>1 DEF CacheInv, StepInv
<1> QED BY <1>2, <1>3, <1>4, <1>5

\* A step that makes no plain build and asks for none.
LEMMA NoMorePlain ==
    ASSUME CacheInv, NEW t \in Ticket, NEW row \in Tickets, SetTicket(t, row),
           UNCHANGED overlap,
           row.status \notin {"create", "reuse"},
           row.status \in ACTIVE /\ ~row.forced /\ ~row.reopened /\ row.resumed = 0
              => Unforced(t)
    PROVE  OnceInv'
<1>1. /\ ticket'[t] = row
      /\ \A u \in Ticket \ {t} : ticket'[u] = ticket[u]
  BY OneTicket DEF CacheInv
<1>2. \A u \in Ticket : Unforced(u)' => Unforced(u)
  BY <1>1 DEF Unforced
<1>3. \A u \in Requesting' : u \in Requesting
  BY <1>1 DEF Requesting
<1>4. \A u \in Ticket : ticket'[u].status = "create" => u # t /\ ticket'[u] = ticket[u]
  BY <1>1
<1> QED
  BY <1>2, <1>3, <1>4 DEF CacheInv, OnceInv

LEMMA AskStep ==
    ASSUME CacheInv, NEW t \in Ticket, NEW force \in BOOLEAN, Ask(t, force)
    PROVE  CacheInv'
<1> DEFINE status == IF ~force /\ FindsActive THEN "deduplicated"
                     ELSE IF ~force /\ Reusable THEN "reuse" ELSE "create"
           row == [ticket[t] EXCEPT !.forced = force, !.seen = entry, !.status = status]
<1>1. /\ ticket[t].status = "none" /\ SetTicket(t, row)
      /\ overlap \/ Requesting = {}
  BY DEF Ask
<1>2. UNCHANGED <<overlap, entry, stored>>
  BY DEF Ask
<1>3. ticket[t] \in Tickets /\ entry \in Rows
  BY CacheTypes DEF CacheInv
<1>4. /\ row \in Tickets /\ row.status = status /\ row.forced = force /\ row.seen = entry
      /\ row.resumed = ticket[t].resumed /\ row.step = ticket[t].step
  BY <1>3 DEF Tickets
<1>5. status \in {"deduplicated", "reuse", "create"}
      /\ (status = "reuse" => entry.manifest /\ stored)
      /\ (status = "create" /\ ~force => ~FindsActive)
  BY DEF Reusable
<1> HIDE DEF row, status
<1>6. CacheTypeOK' /\ RowInv' /\ StepInv' /\ WaitInv'
  <2>1. ~Rebuilds(t)
    BY <1>1 DEF Rebuilds
  <2>2. Agrees(row.seen) /\ row.step = "none"
    BY <1>1, <1>4 DEF CacheInv, RowInv, StepInv, Built
  <2> QED BY <1>1, <1>2, <1>4, <1>5, <2>1, <2>2, QuietStep
<1>7. OnceInv'
  <2>1. /\ ticket'[t] = row /\ \A u \in Ticket \ {t} : ticket'[u] = ticket[u]
    BY <1>1, <1>4, OneTicket DEF CacheInv
  <2>2. \A u \in Ticket : Unforced(u)' => Unforced(u) /\ u # t
    BY <2>1, <1>4, <1>5 DEF Unforced, ACTIVE
  <2> SUFFICES ASSUME ~overlap PROVE OnceInv'
    BY <1>2 DEF OnceInv
  <2>3. Requesting = {}
    BY <1>1
  <2>4. \A u \in Requesting' : u = t
    BY <2>1, <2>3 DEF Requesting
  <2>5. ASSUME NEW u \in Ticket, ticket'[u].status = "create", ~ticket'[u].forced
        PROVE  \A v \in Ticket : ~Unforced(v)'
    <3>1. u = t
      BY <2>4, <2>5 DEF Requesting
    <3>2. ~FindsActive
      BY <3>1, <2>1, <2>5, <1>4, <1>5
    <3> QED BY <3>2, <2>2 DEF FindsActive, Active, Unforced
  <2>6. \A u, v \in Ticket : Unforced(u)' /\ Unforced(v)' => u = v
    BY <2>2 DEF CacheInv, OnceInv
  <2> QED BY <2>4, <2>5, <2>6 DEF OnceInv
<1> QED BY <1>6, <1>7 DEF CacheInv

LEMMA ReuseStep ==
    ASSUME CacheInv, NEW t \in Ticket, Reuse(t)
    PROVE  CacheInv'
<1> DEFINE row == [ticket[t] EXCEPT !.status = "completed", !.hit = TRUE,
                                    !.manifest = ticket[t].seen.manifest]
<1>1. ticket[t].status = "reuse" /\ SetTicket(t, row) /\ UNCHANGED <<overlap, entry, stored>>
  BY DEF Reuse
<1>2. ticket[t] \in Tickets
  BY CacheTypes DEF CacheInv
<1>3. /\ row \in Tickets /\ row.status = "completed" /\ row.seen = ticket[t].seen
      /\ row.manifest = ticket[t].seen.manifest /\ row.step = ticket[t].step
  BY <1>2 DEF Tickets, Rows
<1> HIDE DEF row
<1>4. /\ Agrees(row.seen) /\ (row.seen.row => entry.row) /\ stored /\ row.manifest
      /\ row.step = "none"
  BY <1>1, <1>3 DEF CacheInv, RowInv, StepInv, Built
<1>5. ~Rebuilds(t)
  BY <1>1 DEF Rebuilds
<1>6. CacheTypeOK' /\ RowInv' /\ StepInv' /\ WaitInv'
  BY <1>1, <1>3, <1>4, <1>5, QuietStep
<1>7. OnceInv'
  BY <1>1, <1>3, NoMorePlain DEF ACTIVE
<1> QED BY <1>6, <1>7 DEF CacheInv

LEMMA CreateStep ==
    ASSUME CacheInv, NEW t \in Ticket, Create(t)
    PROVE  CacheInv'
<1> DEFINE row == [ticket[t] EXCEPT !.status = "queued"]
           seen == ticket[t].seen
<1>1. /\ ticket[t].status = "create" /\ SetTicket(t, row) /\ UNCHANGED <<overlap, stored>>
      /\ entry' = IF ticket[t].forced /\ seen.row
                  THEN [entry EXCEPT !.status = Written(seen.status, "building", @),
                                     !.manifest = Written(seen.manifest, FALSE, @)]
                  ELSE entry
  BY DEF Create
<1>2. ticket[t] \in Tickets /\ entry \in Rows
  BY CacheTypes DEF CacheInv
<1>3. /\ row \in Tickets /\ row.status = "queued" /\ row.seen = seen
      /\ row.forced = ticket[t].forced /\ row.resumed = ticket[t].resumed
      /\ row.reopened = ticket[t].reopened /\ row.step = ticket[t].step
  BY <1>2 DEF Tickets
<1> HIDE DEF row
<1>4. /\ ticket' \in [Ticket -> Tickets] /\ ticket'[t] = row
      /\ \A u \in Ticket \ {t} : ticket'[u] = ticket[u]
  BY <1>1, <1>3, OneTicket DEF CacheInv
<1>5. seen \in Rows /\ Agrees(seen) /\ Agrees(entry) /\ (seen.row => entry.row)
  BY <1>2 DEF CacheInv, RowInv, Tickets
<1>6. \/ entry' = entry
      \/ /\ ticket[t].forced
         /\ entry' = [entry EXCEPT !.status = "building", !.manifest = FALSE]
  BY <1>1, <1>2, <1>5 DEF Written, Agrees, Rows
<1>7. /\ entry' \in Rows /\ Agrees(entry') /\ entry'.row = entry.row
      /\ (entry'.manifest => entry.manifest)
      /\ (entry' # entry => ticket[t].forced)
  <2>1. CASE entry' = entry
    BY <2>1, <1>2, <1>5
  <2>2. CASE /\ ticket[t].forced
             /\ entry' = [entry EXCEPT !.status = "building", !.manifest = FALSE]
    <3>1. entry'.row = entry.row /\ entry'.status = "building" /\ entry'.manifest = FALSE
      BY <2>2, <1>2 DEF Rows
    <3>2. entry' \in Rows
      BY <2>2, <1>2 DEF Rows
    <3>3. Agrees(entry')
      BY <3>1 DEF Agrees
    <3> QED BY <2>2, <3>1, <3>2, <3>3
  <2> QED BY <1>6, <2>1, <2>2
<1>8. CacheTypeOK'
  BY <1>1, <1>4, <1>7, CacheTypes DEF CacheInv, CacheTypeOK, Rows, Tickets
<1>s. StepInv' /\ row.step = "none"
  BY <1>1, <1>3, <1>4 DEF CacheInv, StepInv, Built
<1>9. RowInv'
  BY <1>1, <1>3, <1>4, <1>7, <1>s DEF CacheInv, RowInv
<1>10. WaitInv'
  <2>1. CASE ticket[t].forced
    <3>1. Rebuilds(t)'
      BY <2>1, <1>3, <1>4, <1>s DEF Rebuilds
    <3> QED BY <3>1 DEF WaitInv
  <2>2. CASE ~ticket[t].forced
    <3>1. \A u \in Ticket : Rebuilds(u) => Rebuilds(u)'
      BY <2>2, <1>4 DEF Rebuilds
    <3> QED BY <2>2, <3>1, <1>7 DEF WaitInv, CacheInv
  <2> QED BY <2>1, <2>2
<1>11. OnceInv'
  <2> SUFFICES ASSUME ~overlap PROVE OnceInv'
    BY <1>1 DEF OnceInv
  <2>1. t \in Requesting /\ \A u \in Requesting : u = t
    BY <1>1 DEF Requesting, CacheInv, OnceInv
  <2>2. Requesting' = {}
    BY <2>1, <1>3, <1>4 DEF Requesting
  <2>3. \A u \in Ticket \ {t} : Unforced(u)' <=> Unforced(u)
    BY <1>4 DEF Unforced
  <2>4. \A u, v \in Ticket : Unforced(u)' /\ Unforced(v)' => u = v
    <3>1. CASE ticket[t].forced
      BY <3>1, <2>3, <1>3, <1>4 DEF Unforced, CacheInv, OnceInv
    <3>2. CASE ~ticket[t].forced
      BY <3>2, <2>3, <1>1 DEF CacheInv, OnceInv
    <3> QED BY <3>1, <3>2
  <2>5. \A u \in Ticket : ticket'[u].status # "create"
    BY <2>2 DEF Requesting
  <2> QED BY <2>2, <2>4, <2>5 DEF OnceInv
<1> QED BY <1>8, <1>s, <1>9, <1>10, <1>11 DEF CacheInv

LEMMA PutManifestStep ==
    ASSUME CacheInv, NEW t \in Ticket, PutManifest(t)
    PROVE  CacheInv'
<1> DEFINE row == [ticket[t] EXCEPT !.step = "commit", !.seen = entry]
<1>1. ticket[t].step = "put" /\ SetTicket(t, row) /\ stored' = TRUE
      /\ UNCHANGED <<overlap, entry>>
  BY DEF PutManifest
<1>2. ticket[t] \in Tickets /\ entry \in Rows
  BY CacheTypes DEF CacheInv
<1>3. /\ row \in Tickets /\ row.step = "commit" /\ row.seen = entry
      /\ row.status = ticket[t].status /\ row.manifest = ticket[t].manifest
      /\ row.forced = ticket[t].forced /\ row.resumed = ticket[t].resumed
      /\ row.reopened = ticket[t].reopened
  BY <1>2 DEF Tickets
<1> HIDE DEF row
<1>4. /\ ticket' \in [Ticket -> Tickets] /\ ticket'[t] = row
      /\ \A u \in Ticket \ {t} : ticket'[u] = ticket[u]
  BY <1>1, <1>3, OneTicket DEF CacheInv
<1>5. CacheTypeOK'
  BY <1>1, <1>4, CacheTypes DEF CacheInv, CacheTypeOK, Rows, Tickets
<1>6. StepInv' /\ row.status \in Built
  BY <1>1, <1>3, <1>4 DEF CacheInv, StepInv
<1>7. RowInv'
  BY <1>1, <1>3, <1>4, <1>6 DEF CacheInv, RowInv, Built
<1>8. WaitInv'
  <2> SUFFICES ASSUME entry.row, entry.status = "building"
               PROVE  \E u \in Ticket : Rebuilds(u)'
    BY <1>1 DEF WaitInv
  <2>1. PICK u \in Ticket : Rebuilds(u)
    BY DEF CacheInv, WaitInv
  <2>2. Rebuilds(u)'
    BY <2>1, <1>3, <1>4 DEF Rebuilds
  <2> QED BY <2>2
<1>9. OnceInv'
  <2>1. row.status \notin {"create", "reuse"}
    BY <1>6 DEF Built
  <2> QED BY <2>1, <1>1, <1>3, NoMorePlain DEF Unforced
<1> QED BY <1>5, <1>6, <1>7, <1>8, <1>9 DEF CacheInv

\* A publication writes a result, or finds in the entry what it saw there.
LEMMA PublishStep ==
    ASSUME CacheInv, NEW t \in Ticket, Publish(t)
    PROVE  CacheInv'
<1> DEFINE row == [ticket[t] EXCEPT !.status = "completed", !.step = "none",
                                    !.manifest = TRUE]
           seen == ticket[t].seen
<1>1. /\ ticket[t].step = "commit" /\ ~Stuck(t) /\ SetTicket(t, row)
      /\ UNCHANGED <<overlap, stored>>
      /\ entry' = [row |-> TRUE,
                   status |-> Written(seen.status, "ready",
                                      IF seen.row THEN entry.status ELSE "ready"),
                   manifest |-> Written(seen.manifest, TRUE,
                                        IF seen.row THEN entry.manifest ELSE TRUE)]
  BY DEF Publish, Completed
<1>2. ticket[t] \in Tickets /\ entry \in Rows
  BY CacheTypes DEF CacheInv
<1>3. /\ row \in Tickets /\ row.status = "completed" /\ row.seen = seen /\ row.manifest
      /\ row.step = "none"
  BY <1>2 DEF Tickets
<1> HIDE DEF row
<1>4. /\ ticket' \in [Ticket -> Tickets] /\ ticket'[t] = row
      /\ \A u \in Ticket \ {t} : ticket'[u] = ticket[u]
  BY <1>1, <1>3, OneTicket DEF CacheInv
<1>5. seen \in Rows /\ Agrees(seen) /\ Agrees(entry) /\ (seen.row => entry.row) /\ stored
  BY <1>1, <1>2 DEF CacheInv, RowInv, Tickets
<1>6. \/ entry' = [row |-> TRUE, status |-> "ready", manifest |-> TRUE]
      \/ /\ seen.status = "ready"
         /\ entry' = [row |-> TRUE, status |-> entry.status, manifest |-> entry.manifest]
         /\ entry.row
  BY <1>1, <1>2, <1>5 DEF Written, Agrees, Rows
<1>7. entry' \in Rows /\ Agrees(entry') /\ entry'.row
  <2>1. CASE entry' = [row |-> TRUE, status |-> "ready", manifest |-> TRUE]
    BY <2>1 DEF Rows, Agrees
  <2>2. CASE entry' = [row |-> TRUE, status |-> entry.status, manifest |-> entry.manifest]
    <3>1. entry'.row /\ entry'.status = entry.status /\ entry'.manifest = entry.manifest
      BY <2>2
    <3>2. entry' \in Rows
      BY <2>2, <1>2 DEF Rows
    <3>3. Agrees(entry')
      BY <3>1, <1>5, Zenon DEF Agrees
    <3> QED BY <3>1, <3>2, <3>3
  <2> QED BY <1>6, <2>1, <2>2
<1>8. CacheTypeOK'
  BY <1>1, <1>4, <1>7, CacheTypes DEF CacheInv, CacheTypeOK, Rows, Tickets
<1>s. StepInv'
  BY <1>3, <1>4 DEF CacheInv, StepInv
<1>9. RowInv'
  BY <1>1, <1>3, <1>4, <1>5, <1>7 DEF CacheInv, RowInv
<1>10. WaitInv'
  <2> SUFFICES ASSUME entry'.status = "building"
               PROVE  \E u \in Ticket : Rebuilds(u)'
    BY DEF WaitInv
  <2>1. entry.row /\ entry.status = "building" /\ seen.status = "ready"
    BY <1>6
  <2>2. PICK u \in Ticket : Rebuilds(u)
    BY <2>1 DEF CacheInv, WaitInv
  <2>3. u # t
    BY <2>1, <2>2, <1>1 DEF Rebuilds
  <2>4. Rebuilds(u)'
    BY <2>2, <2>3, <1>4 DEF Rebuilds
  <2> QED BY <2>4
<1>11. OnceInv'
  BY <1>1, <1>3, NoMorePlain DEF ACTIVE
<1> QED BY <1>8, <1>s, <1>9, <1>10, <1>11 DEF CacheInv

\* Whatever ends a job, or its finalizer, and whatever starts either again but
\* for resume_job, leaves what the finalizer saw.
LEMMA StatusStep ==
    ASSUME CacheInv, NEW t \in Ticket, UNCHANGED <<overlap, entry, stored>>,
           NEW status \in {"queued", "finalizing", "failed", "cancelled", ticket[t].status},
           NEW step \in {"none", "put", ticket[t].step}, NEW reopened \in BOOLEAN,
           ticket[t].status \in Built \/ ticket[t].step # "none",
           SetTicket(t, [ticket[t] EXCEPT !.status = status, !.step = step,
                                          !.reopened = reopened]),
           status \in ACTIVE /\ ~reopened =>
              ticket[t].status \in ACTIVE /\ ~ticket[t].reopened
    PROVE  CacheInv'
<1> DEFINE row == [ticket[t] EXCEPT !.status = status, !.step = step, !.reopened = reopened]
<1>1. ticket[t] \in Tickets /\ ticket[t].status \in Built
  BY CacheTypes DEF CacheInv, StepInv
<1>2. /\ row \in Tickets /\ row.status = status /\ row.seen = ticket[t].seen
      /\ row.forced = ticket[t].forced /\ row.resumed = ticket[t].resumed
      /\ row.reopened = reopened /\ row.step = step /\ row.manifest = ticket[t].manifest
  <2>1. /\ status \in Built /\ step \in {"none", "put", "commit"}
    BY <1>1 DEF Built, Tickets
  <2> QED BY <1>1, <2>1 DEF Tickets, Built
<1>3. SetTicket(t, row)
  OBVIOUS
<1> HIDE DEF row
<1>4. ticket'[t] = row
  BY <1>2, <1>3, OneTicket DEF CacheInv
<1>5. /\ Agrees(row.seen) /\ (row.seen.row => entry.row)
      /\ (row.step = "commit" => stored)
      /\ (row.status = "completed" => stored /\ row.manifest)
      /\ row.status \in Built /\ row.status \notin {"create", "reuse"}
  BY <1>1, <1>2 DEF CacheInv, RowInv, Built
<1>6. Rebuilds(t) => Rebuilds(t)'
  BY <1>2, <1>4 DEF Rebuilds
<1>7. CacheTypeOK' /\ RowInv' /\ StepInv' /\ WaitInv'
  BY <1>2, <1>3, <1>5, <1>6, QuietStep
<1>8. OnceInv'
  BY <1>2, <1>3, <1>5, NoMorePlain DEF Unforced
<1> QED BY <1>7, <1>8 DEF CacheInv

LEMMA ClaimFinalStep ==
    ASSUME CacheInv, NEW t \in Ticket, ClaimFinal(t)
    PROVE  CacheInv'
<1>1. ticket[t] \in Tickets
  BY CacheTypes DEF CacheInv
<1>2. SetTicket(t, [ticket[t] EXCEPT !.status = "finalizing", !.step = "put",
                                     !.reopened = ticket[t].reopened])
  BY <1>1 DEF ClaimFinal, SetTicket, Tickets
<1>3. ticket[t].reopened \in BOOLEAN
  BY <1>1 DEF Tickets
<1> QED BY <1>2, <1>3, StatusStep DEF ClaimFinal, ACTIVE, Built

LEMMA FinalizerEnds ==
    ASSUME CacheInv, NEW t \in Ticket, FinalizerFails(t) \/ FinalizerStops(t)
    PROVE  CacheInv'
<1>1. ticket[t] \in Tickets
  BY CacheTypes DEF CacheInv
<1>2. \E status \in {"failed", ticket[t].status} :
         SetTicket(t, [ticket[t] EXCEPT !.status = status, !.step = "none",
                                        !.reopened = ticket[t].reopened])
  BY <1>1 DEF FinalizerFails, FinalizerStops, SetTicket, Tickets
<1>3. ticket[t].reopened \in BOOLEAN
  BY <1>1 DEF Tickets
<1> QED BY <1>2, <1>3, StatusStep DEF FinalizerFails, FinalizerStops, ACTIVE

LEMMA GiveUpStep ==
    ASSUME CacheInv, NEW t \in Ticket, GiveUp(t)
    PROVE  CacheInv'
<1>1. ticket[t] \in Tickets
  BY CacheTypes DEF CacheInv
<1>2. \E status \in {"failed", "cancelled"} :
         SetTicket(t, [ticket[t] EXCEPT !.status = status, !.step = ticket[t].step,
                                        !.reopened = ticket[t].reopened])
  BY <1>1 DEF GiveUp, SetTicket, Tickets
<1>3. ticket[t].reopened \in BOOLEAN
  BY <1>1 DEF Tickets
<1> QED BY <1>2, <1>3, StatusStep DEF GiveUp, ACTIVE, Built

LEMMA ReopenStep ==
    ASSUME CacheInv, NEW t \in Ticket, Reopen(t)
    PROVE  CacheInv'
<1>1. ticket[t] \in Tickets
  BY CacheTypes DEF CacheInv
<1>2. SetTicket(t, [ticket[t] EXCEPT !.status = "queued", !.step = ticket[t].step,
                                     !.reopened = TRUE])
  BY <1>1 DEF Reopen, SetTicket, Tickets
<1> QED BY <1>2, StatusStep DEF Reopen, Built

LEMMA ResumeStep ==
    ASSUME CacheInv, NEW t \in Ticket, Resume(t)
    PROVE  CacheInv'
<1> DEFINE row == [ticket[t] EXCEPT !.status = "queued", !.resumed = @ + 1]
<1>1. /\ ticket[t].status \in {"failed", "cancelled"} /\ ticket[t].resumed < MaxResumed
      /\ SetTicket(t, row) /\ UNCHANGED <<overlap, entry, stored>>
  BY DEF Resume
<1>2. ticket[t] \in Tickets
  BY CacheTypes DEF CacheInv
<1>3. ticket[t].resumed + 1 \in 1 .. MaxResumed
  BY <1>1, <1>2 DEF Tickets, MaxResumed
<1>4. /\ row \in Tickets /\ row.status = "queued" /\ row.seen = ticket[t].seen
      /\ row.forced = ticket[t].forced /\ row.step = ticket[t].step /\ row.resumed # 0
  <2>1. row.resumed = ticket[t].resumed + 1 /\ row.resumed \in 0 .. MaxResumed
    BY <1>2, <1>3 DEF Tickets, MaxResumed
  <2>2. row.resumed # 0
    <3> HIDE DEF row
    <3> QED BY <1>3, <2>1 DEF MaxResumed
  <2>3. row \in Tickets
    <3>1. ticket[t].resumed + 1 \in 0 .. MaxResumed
      BY <1>3 DEF MaxResumed
    <3> QED BY <1>2, <3>1 DEF Tickets
  <2>4. /\ row.status = "queued" /\ row.seen = ticket[t].seen
        /\ row.forced = ticket[t].forced /\ row.step = ticket[t].step
    BY <1>2 DEF Tickets
  <2> QED BY <2>2, <2>3, <2>4
<1> HIDE DEF row
<1>5. ticket'[t] = row
  BY <1>1, <1>4, OneTicket DEF CacheInv
<1>6. /\ Agrees(row.seen) /\ (row.seen.row => entry.row)
      /\ (row.step = "commit" => stored) /\ row.status \in Built
  BY <1>4 DEF CacheInv, RowInv, Built
<1>7. Rebuilds(t) => Rebuilds(t)'
  BY <1>4, <1>5 DEF Rebuilds
<1>8. CacheTypeOK' /\ RowInv' /\ StepInv' /\ WaitInv'
  BY <1>1, <1>4, <1>6, <1>7, QuietStep
<1>9. OnceInv'
  BY <1>1, <1>4, NoMorePlain DEF ACTIVE
<1> QED BY <1>8, <1>9 DEF CacheInv

\* Counting: but for the forced and the resumed, at most one build is active.
LEMMA AtMostOne ==
    ASSUME CacheInv
    PROVE  ActiveOnce
<1> SUFFICES ASSUME ~overlap PROVE ActiveOnce
  BY DEF ActiveOnce
<1> DEFINE exempt == {t \in Active : \/ ticket[t].forced \/ ticket[t].reopened
                                     \/ ticket[t].resumed > 0}
           plain == Active \ exempt
<1>1. IsFiniteSet(Active) /\ IsFiniteSet(exempt)
  BY TicketAssumption, FS_Subset DEF Active
<1>2. \A t \in plain : t \in Ticket /\ Unforced(t)
  BY CacheTypes DEF Active, Unforced, CacheInv, Tickets
<1>3. \A t, u \in plain : t = u
  BY <1>2 DEF CacheInv, OnceInv
<1>4. Cardinality(plain) <= 1
  <2>1. CASE plain = {}
    BY <2>1, FS_EmptySet
  <2>2. CASE plain # {}
    <3>1. PICK t : plain = {t}
      BY <2>2, <1>3
    <3>2. Cardinality({t}) = 1
      BY FS_Singleton
    <3> QED BY <3>1, <3>2
  <2> QED BY <2>1, <2>2
<1>5. Active \cap exempt = exempt
  OBVIOUS
<1>6. Cardinality(plain) = Cardinality(Active) - Cardinality(exempt)
  BY <1>1, <1>5, FS_Difference, ZenonT(30)
<1>7. Cardinality(Active) \in Nat /\ Cardinality(exempt) \in Nat
  BY <1>1, FS_CardinalityType
<1>8. Cardinality(Active) <= 1 + Cardinality(exempt)
  <2> HIDE DEF plain, exempt
  <2> QED BY <1>4, <1>6, <1>7
<1> QED BY <1>8 DEF ActiveOnce

LEMMA CacheInvHolds == CacheSpec => []CacheInv
<1>1. CacheInit => CacheInv
  BY InitCache
<1>2. CacheInv /\ [CacheNext]_cacheVars => CacheInv'
  <2> SUFFICES ASSUME CacheInv, [CacheNext]_cacheVars PROVE CacheInv'
    OBVIOUS
  <2>1. ASSUME NEW t \in Ticket, NEW force \in BOOLEAN, Ask(t, force) PROVE CacheInv'
    BY <2>1, AskStep
  <2>2. ASSUME NEW t \in Ticket,
               \/ Reuse(t) \/ Create(t) \/ ClaimFinal(t) \/ PutManifest(t) \/ Publish(t)
               \/ FinalizerFails(t) \/ FinalizerStops(t)
               \/ GiveUp(t) \/ Reopen(t) \/ Resume(t)
        PROVE  CacheInv'
    BY <2>2, ReuseStep, CreateStep, ClaimFinalStep, PutManifestStep, PublishStep,
       FinalizerEnds, GiveUpStep, ReopenStep, ResumeStep
  <2>3. CASE UNCHANGED cacheVars
    BY <2>3 DEF cacheVars, CacheInv, CacheTypeOK, RowInv, StepInv, WaitInv, OnceInv, Agrees,
                Rebuilds, Unforced, Requesting
  <2> QED BY <2>1, <2>2, <2>3 DEF CacheNext
<1>3. QED
  BY <1>1, <1>2, PTL DEF CacheSpec

\* create_job, publication, failure, cancellation, resume_job and reopening of
\* any number of requests for one key: what the cache and the jobs say is in storage, an
\* entry without a result has a forced rebuild to wait for, and requests that
\* do not overlap share one build.
THEOREM CacheIsAlwaysSound == CacheSpec => []CacheIsSound
<1>1. CacheInv => CacheIsSound
  <2> SUFFICES ASSUME CacheInv PROVE CacheIsSound
    OBVIOUS
  <2>1. entry.status = "ready" => entry.manifest /\ stored
    BY DEF CacheInv, RowInv, Agrees
  <2>2. \A t \in Ticket : ticket[t].status = "completed" => ticket[t].manifest /\ stored
    BY DEF CacheInv, RowInv
  <2>3. entry.row /\ entry.status = "building" =>
          \E t \in Ticket : ticket[t].forced /\ ticket[t].status # "completed"
    BY DEF CacheInv, WaitInv, Rebuilds
  <2> QED BY <2>1, <2>2, <2>3, AtMostOne DEF CacheIsSound
<1>2. QED
  BY <1>1, CacheInvHolds, PTL

-----------------------------------------------------------------------------
(* The events.  Sequences are handed out without gaps, because an open     *)
(* transaction only holds the number after one that was committed, so a    *)
(* stream that has sent up to `last` has sent every number below it.       *)

Numbers(events) == {ev.seq : ev \in events}

\* Every number from 1 to n is that of an event of the set.
Covers(events, n) == \A k \in 1 .. n : k \in Numbers(events)

\* The set has a greatest number.  A library fact about finite sets would
\* need induction; the log keeps its greatest number as it grows.
HasTop(events) == \E top \in {0} \cup Numbers(events) :
                     \A n \in {0} \cup Numbers(events) : n <= top

LogInv ==
    /\ HasTop(log)
    /\ \A ev \in log : ev.seq >= 1 /\ Covers(log, ev.seq)
    /\ \A e \in Emitter : emit[e].pc = "open" =>
          emit[e].seq >= 1 /\ Covers(log, emit[e].seq - 1)

StreamInv ==
    /\ Covers(stream.sent, stream.last)
    /\ stream.pc = "terminal" => \A ev \in stream.due : ev.seq <= stream.last

EventsInv == EventsTypeOK /\ LogInv /\ StreamInv

LEMMA LastSequenceIsGreatest ==
    ASSUME log \subseteq [by : Emitter, seq : Nat], HasTop(log)
    PROVE  /\ LastSequence \in {0} \cup Numbers(log)
           /\ LastSequence \in Nat
           /\ \A ev \in log : ev.seq <= LastSequence
<1> DEFINE S == {0} \cup Numbers(log)
<1>1. S \subseteq Nat
  BY DEF Numbers
<1>2. PICK top \in S : \A n \in S : n <= top
  BY DEF HasTop
<1>3. Max(S) = top
  <2> HIDE DEF S
  <2> QED BY <1>1, <1>2, GreatestIs
<1>4. LastSequence = top
  BY <1>3 DEF LastSequence, Numbers
<1> QED
  BY <1>1, <1>2, <1>4 DEF Numbers

\* A number that continues a gapless log keeps it gapless.
LEMMA NextIsCovered ==
    ASSUME NEW e \in Emitter, EventsTypeOK, LogInv, emit[e].pc = "open",
           NEW more, more = log \cup {[by |-> e, seq |-> emit[e].seq]}
    PROVE  /\ HasTop(more)
           /\ \A ev \in more : ev.seq >= 1 /\ Covers(more, ev.seq)
           /\ Numbers(log) \subseteq Numbers(more)
<1> DEFINE n == emit[e].seq
<1>1. n \in Nat /\ n >= 1 /\ Covers(log, n - 1)
  BY DEF EventsTypeOK, LogInv
<1> DEFINE new == [by |-> e, seq |-> n]
<1>2. Numbers(more) = Numbers(log) \cup {n}
  <2>1. more = log \cup {new} /\ new.seq = n
    OBVIOUS
  <2>2. n \in Numbers(more) /\ Numbers(log) \subseteq Numbers(more)
    BY <2>1 DEF Numbers
  <2>3. ASSUME NEW k \in Numbers(more) PROVE k \in Numbers(log) \cup {n}
    <3>1. PICK ev \in more : ev.seq = k
      BY DEF Numbers
    <3> HIDE DEF new
    <3>2. CASE ev = new
      BY <3>1, <3>2, <2>1
    <3>3. CASE ev \in log
      BY <3>1, <3>3 DEF Numbers
    <3> QED BY <3>2, <3>3, <2>1
  <2> QED BY <2>2, <2>3
<1>3. Numbers(log) \subseteq Nat
  BY DEF Numbers, EventsTypeOK
<1>4. HasTop(more)
  <2>1. PICK top \in {0} \cup Numbers(log) : \A k \in {0} \cup Numbers(log) : k <= top
    BY DEF LogInv, HasTop
  <2>2. CASE n <= top
    BY <2>1, <2>2, <1>2, <1>3 DEF HasTop
  <2>3. CASE ~(n <= top)
    <3>1. \A k \in {0} \cup Numbers(more) : k <= n
      BY <2>1, <2>3, <1>1, <1>2, <1>3
    <3> QED BY <3>1, <1>2 DEF HasTop
  <2> QED BY <2>2, <2>3
<1>5. ASSUME NEW ev \in more
      PROVE  ev.seq >= 1 /\ Covers(more, ev.seq)
  <2>1. CASE ev \in log
    BY <2>1, <1>2 DEF LogInv, Covers
  <2>2. CASE ev = new
    <3>1. ev.seq = n
      BY <2>2
    <3> HIDE DEF n, new
    <3>2. Covers(more, n)
      BY <1>1, <1>2 DEF Covers
    <3> QED BY <3>1, <3>2, <1>1
  <2> QED BY <2>1, <2>2
<1> QED
  BY <1>2, <1>4, <1>5

LEMMA InitEvents == EventsInit => EventsInv
<1> SUFFICES ASSUME EventsInit PROVE EventsInv
  OBVIOUS
<1>1. EventsTypeOK
  <2>1. stream = [pc |-> "closed", last |-> 0, ended |-> FALSE, due |-> {}, sent |-> {},
                  opened |-> 0]
    BY DEF EventsInit, Closed
  <2>2. stream \in [pc : {"closed", "poll", "rows", "terminal"}, last : Nat,
                    ended : BOOLEAN, due : SUBSET log, sent : SUBSET log,
                    opened : 0 .. MaxStreams]
    BY <2>1, MaxStreamsAssumption
  <2>3. log \subseteq [by : Emitter, seq : Nat] /\ ended \in BOOLEAN
        /\ emit \in [Emitter -> [pc : {"idle", "open", "done"}, seq : Nat]]
    BY DEF EventsInit
  <2> QED BY <2>2, <2>3 DEF EventsTypeOK
<1>2. LogInv
  BY DEF EventsInit, LogInv, HasTop, Numbers, Covers
<1>3. StreamInv
  BY DEF EventsInit, StreamInv, Covers, Closed
<1> QED BY <1>1, <1>2, <1>3 DEF EventsInv

\* What an emitter's transaction does to the log and to what was handed out.
LEMMA EmitterSteps ==
    ASSUME EventsInv, NEW e \in Emitter,
           emit_event(e) \/ Commit(e) \/ Rollback(e)
    PROVE  EventsInv'
<1> USE DEF EventsInv
<1>1. CASE emit_event(e)
  <2>1. /\ LastSequence \in {0} \cup Numbers(log) /\ LastSequence \in Nat
    BY LastSequenceIsGreatest DEF EventsTypeOK, LogInv
  <2>2. EventsTypeOK'
    BY <1>1, <2>1 DEF emit_event, EventsTypeOK
  <2>3. Covers(log, LastSequence)
    BY <2>1 DEF LogInv, Numbers, Covers
  <2>4. LogInv'
    <3>1. log' = log /\ emit' = [emit EXCEPT ![e] = [pc |-> "open", seq |-> LastSequence + 1]]
      BY <1>1 DEF emit_event
    <3>2. emit'[e].seq = LastSequence + 1 /\ \A f \in Emitter \ {e} : emit'[f] = emit[f]
      BY <3>1 DEF EventsTypeOK
    <3>3. ASSUME NEW f \in Emitter, emit'[f].pc = "open"
          PROVE  emit'[f].seq >= 1 /\ Covers(log', emit'[f].seq - 1)
      <4>1. CASE f = e
        <5>1. emit'[f].seq - 1 = LastSequence /\ emit'[f].seq >= 1
          BY <4>1, <3>2, <2>1
        <5> QED BY <5>1, <2>3, <3>1
      <4>2. CASE f # e
        BY <4>2, <3>1, <3>2, <3>3 DEF LogInv
      <4> QED BY <4>1, <4>2
    <3>4. HasTop(log') /\ \A ev \in log' : ev.seq >= 1 /\ Covers(log', ev.seq)
      BY <3>1 DEF LogInv
    <3> QED BY <3>3, <3>4 DEF LogInv, HasTop, Covers, Numbers
  <2>5. StreamInv'
    BY <1>1 DEF emit_event, StreamInv, Covers, Numbers
  <2> QED BY <2>2, <2>4, <2>5
<1>2. CASE Commit(e)
  <2>1. EventsTypeOK'
    BY <1>2 DEF Commit, EventsTypeOK
  <2>2. /\ HasTop(log') /\ \A ev \in log' : ev.seq >= 1 /\ Covers(log', ev.seq)
        /\ Numbers(log) \subseteq Numbers(log')
    BY <1>2, NextIsCovered DEF Commit
  <2>3. LogInv'
    <3>1. ASSUME NEW f \in Emitter, emit'[f].pc = "open"
          PROVE  emit'[f].seq >= 1 /\ Covers(log', emit'[f].seq - 1)
      <4>1. f # e /\ emit'[f] = emit[f]
        BY <1>2, <3>1 DEF Commit, EventsTypeOK
      <4> QED BY <4>1, <3>1, <2>2 DEF LogInv, Covers
    <3> QED BY <2>2, <3>1 DEF LogInv, HasTop, Covers, Numbers
  <2>4. StreamInv'
    BY <1>2 DEF Commit, StreamInv, Covers, Numbers
  <2> QED BY <2>1, <2>3, <2>4
<1>3. CASE Rollback(e)
  <2>1. EventsTypeOK'
    BY <1>3 DEF Rollback, EventsTypeOK
  <2>2. LogInv'
    <3>1. log' = log /\ \A f \in Emitter : emit'[f].pc = "open" => emit'[f] = emit[f]
      BY <1>3 DEF Rollback, EventsTypeOK
    <3> QED BY <3>1 DEF LogInv, HasTop, Covers, Numbers
  <2>3. StreamInv'
    BY <1>3 DEF Rollback, StreamInv, Covers, Numbers
  <2> QED BY <2>1, <2>2, <2>3
<1> QED BY <1>1, <1>2, <1>3

\* A poll: up to its new last number, the stream has sent every number.
LEMMA SendRowsStep ==
    ASSUME EventsInv, SendRows
    PROVE  EventsInv'
<1> DEFINE rows == list_events(stream.last)
           last == Max({stream.last} \cup Numbers(rows))
<1> USE DEF EventsInv
<1>1. rows \subseteq log /\ \A ev \in log : ev.seq > stream.last <=> ev \in rows
  BY DEF list_events
<1>2. stream.last \in Nat /\ stream.sent \subseteq log /\ stream.due \subseteq log
      /\ \A ev \in log : ev.seq \in Nat
  BY DEF EventsTypeOK
<1>3. stream' = [stream EXCEPT !.pc = IF stream.ended THEN "terminal" ELSE "poll",
                               !.sent = @ \cup rows, !.last = last]
      /\ UNCHANGED <<log, ended, emit>> /\ stream.pc = "rows"
  BY DEF SendRows, Numbers
<1>4. /\ last \in {stream.last} \cup Numbers(rows) /\ last \in Nat /\ last >= stream.last
      /\ \A ev \in rows : ev.seq <= last
  <2> DEFINE S == {stream.last} \cup Numbers(rows)
  <2>1. S \subseteq Nat
    BY <1>1, <1>2 DEF Numbers
  <2>2. \E top \in S : \A n \in S : n <= top
    <3>1. PICK top \in {0} \cup Numbers(log) : \A n \in {0} \cup Numbers(log) : n <= top
      BY DEF LogInv, HasTop
    <3>2. CASE rows = {}
      BY <3>2, <1>2 DEF Numbers
    <3>3. CASE rows # {}
      <4>1. PICK ev \in rows : TRUE
        BY <3>3
      <4>2. top \in Numbers(log) /\ top > stream.last
        BY <4>1, <3>1, <1>1, <1>2 DEF Numbers
      <4>3. top \in Numbers(rows)
        BY <4>2, <1>1 DEF Numbers
      <4>4. \A n \in S : n <= top
        BY <3>1, <4>2, <1>1, <1>2 DEF Numbers
      <4> QED BY <4>3, <4>4
    <3> QED BY <3>2, <3>3
  <2>3. PICK top \in S : \A n \in S : n <= top
    BY <2>2
  <2>4. Max(S) = top
    <3> HIDE DEF S
    <3> QED BY <2>1, <2>3, GreatestIs
  <2>5. last = top
    BY <2>4
  <2> QED BY <2>1, <2>3, <2>5 DEF Numbers
<1> HIDE DEF last
<1>5. EventsTypeOK'
  BY <1>1, <1>2, <1>3, <1>4 DEF EventsTypeOK
<1>6. LogInv'
  BY <1>3 DEF LogInv, HasTop, Covers, Numbers
<1>7. Covers(stream.sent \cup rows, last)
  <2> SUFFICES ASSUME NEW k \in 1 .. last
               PROVE  k \in Numbers(stream.sent \cup rows)
    BY DEF Covers
  <2>1. CASE k <= stream.last
    BY <2>1, <1>2, <1>4 DEF StreamInv, Covers, Numbers
  <2>2. CASE k > stream.last
    <3>1. last \in Numbers(rows)
      BY <2>2, <1>2, <1>4
    <3>2. Covers(log, last)
      BY <3>1, <1>1 DEF LogInv, Numbers
    <3>3. PICK ev \in log : ev.seq = k
      BY <3>2, <1>4 DEF Covers, Numbers
    <3> QED BY <3>3, <2>2, <1>1 DEF Numbers
  <2> QED BY <2>1, <2>2, <1>2, <1>4
<1>8. \A ev \in stream.due : ev.seq <= last
  BY <1>1, <1>2, <1>4
<1>9. stream'.sent = stream.sent \cup rows /\ stream'.last = last /\ stream'.due = stream.due
  BY <1>3 DEF EventsTypeOK
<1>10. StreamInv'
  BY <1>7, <1>8, <1>9 DEF StreamInv
<1> QED BY <1>5, <1>6, <1>10

LEMMA NextEvents == EventsInv /\ [EventsNext]_eventVars => EventsInv'
<1> SUFFICES ASSUME EventsInv, [EventsNext]_eventVars PROVE EventsInv'
  OBVIOUS
<1> USE DEF EventsInv
<1>1. CASE \E e \in Emitter : emit_event(e) \/ Commit(e) \/ Rollback(e)
  BY <1>1, EmitterSteps
<1>2. CASE Open
  <2>1. /\ stream' = [pc |-> "poll", last |-> 0, ended |-> FALSE, due |-> {}, sent |-> {},
                      opened |-> stream.opened + 1]
        /\ stream.opened < MaxStreams /\ UNCHANGED <<log, ended, emit>>
    BY <1>2 DEF Open, Closed
  <2>2. stream.opened + 1 \in 0 .. MaxStreams
    BY <2>1, MaxStreamsAssumption DEF EventsTypeOK
  <2>3. EventsTypeOK'
    BY <2>1, <2>2 DEF EventsTypeOK
  <2>4. LogInv'
    BY <2>1 DEF LogInv, HasTop, Covers, Numbers
  <2>5. StreamInv'
    <3>1. stream'.pc = "poll" /\ stream'.last = 0
      BY <2>1
    <3> QED BY <3>1 DEF StreamInv, Covers
  <2> QED BY <2>3, <2>4, <2>5
<1>3. CASE ReadJob
  <2>1. /\ stream'.pc = "rows" /\ stream'.last = stream.last /\ stream'.sent = stream.sent
        /\ UNCHANGED <<log, ended, emit>>
    BY <1>3 DEF ReadJob, EventsTypeOK
  <2>2. EventsTypeOK'
    BY <1>3 DEF ReadJob, EventsTypeOK
  <2> QED BY <2>1, <2>2 DEF LogInv, StreamInv, HasTop, Covers, Numbers
<1>4. CASE SendRows
  BY <1>4, SendRowsStep
<1>5. CASE Disconnect
  <2>1. /\ stream'.pc = "closed" /\ stream'.last = stream.last /\ stream'.sent = stream.sent
        /\ UNCHANGED <<log, ended, emit>>
    BY <1>5 DEF Disconnect, EventsTypeOK
  <2>2. EventsTypeOK'
    BY <1>5 DEF Disconnect, EventsTypeOK
  <2> QED BY <2>1, <2>2 DEF LogInv, StreamInv, HasTop, Covers, Numbers
<1>6. CASE UNCHANGED eventVars
  BY <1>6 DEF eventVars, EventsTypeOK, LogInv, StreamInv, HasTop, Covers, Numbers
<1> QED
  BY <1>1, <1>2, <1>3, <1>4, <1>5, <1>6 DEF EventsNext

\* What is due and below the last number sent has its number sent.
LEMMA EndFollows == EventsInv => EndIsTold
<1> SUFFICES ASSUME EventsInv, stream.pc = "terminal", NEW ev \in stream.due
             PROVE  \E other \in stream.sent : other.seq = ev.seq
  BY DEF EndIsTold
<1>1. ev \in log /\ ev.seq \in Nat /\ ev.seq >= 1
  BY DEF EventsInv, EventsTypeOK, LogInv
<1>2. ev.seq \in 1 .. stream.last
  BY <1>1 DEF EventsInv, StreamInv, EventsTypeOK
<1> QED BY <1>2 DEF EventsInv, StreamInv, Covers, Numbers

LEMMA EventsInvHolds == EventsSpec => []EventsInv
<1>1. EventsInit => EventsInv
  BY InitEvents
<1>2. EventsInv /\ [EventsNext]_eventVars => EventsInv'
  BY NextEvents
<1>3. QED
  BY <1>1, <1>2, PTL DEF EventsSpec

\* The stream of asset_job_event_stream, polled over any number of emitting
\* transactions: a page that got the terminal event got what was committed
\* before the job row said so, but for events that share a sequence.
THEOREM EndIsAlwaysTold == EventsSpec => []EndIsTold
<1>1. EventsInv => EndIsTold
  BY EndFollows
<1>2. QED
  BY <1>1, EventsInvHolds, PTL

-----------------------------------------------------------------------------
(* The hub, for any number of processes, sockets and messages.  A message  *)
(* a client has coming is on the wire of its process at most once, and on  *)
(* the wire only after its own process has delivered it directly.          *)

Connection == [on : BOOLEAN, queue : Seq(Message), got : Seq(Message),
           before : SUBSET Message, missed : SUBSET Message]

HubShape ==
    /\ socket \in [Client -> Connection]
    /\ wire \in [Replica -> Seq(Message)]
    /\ news \in [Message -> [pc : {"new", "local", "done"}, at : Replica]]

\* The copies of m that the client has, and those on their way to it.
Had(c, m) == Times(socket[c].queue, m) + Times(socket[c].got, m)
Coming(c, m) == Times(wire[Home[c]], m)
Near(c, m) == IF news[m].at = Home[c] THEN 1 ELSE 0

Counted(c, m) ==
    /\ news[m].pc = "new" => Had(c, m) = 0 /\ Coming(c, m) = 0
    /\ news[m].pc = "local" => Had(c, m) <= Near(c, m) /\ Coming(c, m) = 0
    /\ news[m].pc = "done" => Had(c, m) + Coming(c, m) <= Near(c, m) + 1

Delivers(c, m) ==
    socket[c].on /\ m \notin socket[c].before /\ news[m].pc = "done" =>
        m \in Holds(c) \cup Range(wire[Home[c]]) \cup socket[c].missed

HubInv == HubShape /\ \A c \in Client, m \in Message : Counted(c, m) /\ Delivers(c, m)

\* What the invariant says of the parts of the state.
LEMMA HubTypes ==
    ASSUME HubShape, NEW c \in Client, NEW m \in Message
    PROVE  /\ socket[c] \in Connection /\ Home[c] \in Replica
           /\ socket[c].queue \in Seq(Message) /\ socket[c].got \in Seq(Message)
           /\ socket[c].before \subseteq Message /\ socket[c].missed \subseteq Message
           /\ socket[c].on \in BOOLEAN /\ wire[Home[c]] \in Seq(Message)
           /\ Times(socket[c].queue, m) \in Nat /\ Times(socket[c].got, m) \in Nat
           /\ Had(c, m) \in Nat /\ Coming(c, m) \in Nat /\ Near(c, m) \in {0, 1}
           /\ Holds(c) \subseteq Message /\ news[m].pc \in {"new", "local", "done"}
<1>1. /\ socket[c] \in Connection /\ Home[c] \in Replica
      /\ news[m] \in [pc : {"new", "local", "done"}, at : Replica]
  BY HubAssumption DEF HubShape
<1>2. /\ socket[c].queue \in Seq(Message) /\ socket[c].got \in Seq(Message)
      /\ socket[c].before \subseteq Message /\ socket[c].missed \subseteq Message
      /\ socket[c].on \in BOOLEAN /\ news[m].pc \in {"new", "local", "done"}
  BY <1>1 DEF Connection
<1>3. wire[Home[c]] \in Seq(Message)
  BY <1>1 DEF HubShape
<1>4. /\ Times(socket[c].queue, m) \in Nat /\ Times(socket[c].got, m) \in Nat
      /\ Times(wire[Home[c]], m) \in Nat
  BY <1>2, <1>3, PlacesAreFinite
<1>5. Holds(c) \subseteq Message
  BY <1>2, RangeIsIn DEF Holds
<1>6. QED
  BY <1>1, <1>2, <1>3, <1>4, <1>5 DEF Had, Coming, Near

\* _deliver_local: the queue has the message at its end, or was full.
LEMMA DeliveredIs ==
    ASSUME HubShape, NEW c \in Client, NEW m \in Message
    PROVE  /\ Delivered(c, m) \in Connection
           /\ Delivered(c, m).on = socket[c].on
           /\ Delivered(c, m).before = socket[c].before
           /\ Delivered(c, m).got = socket[c].got
           /\ socket[c].missed \subseteq Delivered(c, m).missed
           /\ Range(socket[c].queue) \subseteq Range(Delivered(c, m).queue)
           /\ socket[c].on => m \in Range(Delivered(c, m).queue) \cup Holds(c)
                                    \cup Delivered(c, m).missed
           /\ \A n \in Message :
                 Times(Delivered(c, m).queue, n) \in
                    {Times(socket[c].queue, n),
                     Times(socket[c].queue, n) + IF m = n THEN 1 ELSE 0}
<1> DEFINE w == socket[c]
           refused == [w EXCEPT !.missed = w.missed \cup ({m} \ Holds(c))]
           taken == [w EXCEPT !.queue = Append(w.queue, m)]
<1>1. /\ w \in Connection /\ w.queue \in Seq(Message) /\ w.missed \subseteq Message
  BY HubTypes
<1>2. CASE ~w.on
  BY <1>1, <1>2 DEF Delivered
<1>3. CASE w.on /\ Full(c)
  <2>1. Delivered(c, m) = refused
    BY <1>3 DEF Delivered
  <2>2. /\ refused \in Connection /\ refused.on = w.on /\ refused.before = w.before
        /\ refused.got = w.got /\ refused.queue = w.queue
        /\ refused.missed = w.missed \cup ({m} \ Holds(c))
    BY <1>1 DEF Connection
  <2> HIDE DEF refused
  <2>3. QED
    BY <2>1, <2>2
<1>4. CASE w.on /\ ~Full(c)
  <2>1. Delivered(c, m) = taken
    BY <1>4 DEF Delivered
  <2>2. Append(w.queue, m) \in Seq(Message)
    BY <1>1, AppendProperties
  <2>3. /\ taken \in Connection /\ taken.on = w.on /\ taken.before = w.before
        /\ taken.got = w.got /\ taken.missed = w.missed
        /\ taken.queue = Append(w.queue, m)
    BY <1>1, <2>2 DEF Connection
  <2>4. /\ Range(taken.queue) = Range(w.queue) \cup {m}
        /\ \A n \in Message : Times(taken.queue, n)
                                 = Times(w.queue, n) + IF m = n THEN 1 ELSE 0
    BY <1>1, <2>3, RangeAppend, TimesAppend
  <2> HIDE DEF taken
  <2>5. QED
    BY <2>1, <2>3, <2>4
<1>5. QED
  BY <1>2, <1>3, <1>4

LEMMA InitHub ==
    ASSUME HubInit
    PROVE  HubInv
<1>1. <<>> \in Seq(Message) /\ FirstAt \in Replica
  BY HubAssumption, EmptySeq DEF FirstAt
<1>2. HubShape
  BY <1>1 DEF HubInit, HubShape, Connection, Unsubscribed
<1>3. ASSUME NEW c \in Client, NEW m \in Message PROVE Counted(c, m) /\ Delivers(c, m)
  <2>1. /\ socket[c].queue = <<>> /\ socket[c].got = <<>> /\ ~socket[c].on
        /\ wire[Home[c]] = <<>> /\ news[m].pc = "new"
    BY HubAssumption DEF HubInit, Unsubscribed
  <2>2. Had(c, m) = 0 /\ Coming(c, m) = 0
    BY <2>1, TimesInNone DEF Had, Coming
  <2>3. QED
    BY <2>1, <2>2 DEF Counted, Delivers
<1>4. QED
  BY <1>2, <1>3 DEF HubInv

\* What DeliverLocal does to every socket.
LEMMA DeliverIs ==
    ASSUME HubShape, NEW r \in Replica, NEW m \in Message, DeliverLocal(r, m)
    PROVE  /\ socket' \in [Client -> Connection]
           /\ \A c \in Client :
                 socket'[c] = IF Home[c] = r THEN Delivered(c, m) ELSE socket[c]
<1>1. \A c \in Client : Delivered(c, m) \in Connection /\ socket[c] \in Connection
  BY DeliveredIs, HubTypes
<1>2. QED
  BY <1>1 DEF DeliverLocal

\* The direct half of a publication: at most one copy, where it is published.
LEMMA LocalPublishes ==
    ASSUME HubInv, NEW m \in Message, NEW at \in Replica, PublishLocal(m, at)
    PROVE  HubInv'
<1>1. HubShape
  BY DEF HubInv
<1>2. /\ DeliverLocal(at, m) /\ wire' = wire /\ news[m].pc = "new"
      /\ news' = [news EXCEPT ![m] = [pc |-> "local", at |-> at]]
  BY DEF PublishLocal
<1>3. /\ socket' \in [Client -> Connection]
      /\ \A c \in Client : socket'[c] = IF Home[c] = at THEN Delivered(c, m) ELSE socket[c]
  BY <1>1, <1>2, DeliverIs
<1>4. /\ news' \in [Message -> [pc : {"new", "local", "done"}, at : Replica]]
      /\ news'[m].pc = "local" /\ news'[m].at = at
      /\ \A n \in Message \ {m} : news'[n] = news[n]
  BY <1>1, <1>2 DEF HubShape
<1>5. HubShape'
  BY <1>1, <1>2, <1>3, <1>4 DEF HubShape
<1>6. ASSUME NEW c \in Client, NEW n \in Message PROVE Counted(c, n)' /\ Delivers(c, n)'
  <2> DEFINE now == socket'[c]
  <2>0. /\ Had(c, n) \in Nat /\ Coming(c, n) \in Nat /\ Near(c, n) \in {0, 1}
        /\ Times(socket[c].queue, n) \in Nat /\ Times(socket[c].got, n) \in Nat
        /\ Counted(c, n) /\ Delivers(c, n)
    BY <1>1, HubTypes DEF HubInv
  <2>1. /\ now.on = socket[c].on /\ now.before = socket[c].before /\ now.got = socket[c].got
        /\ socket[c].missed \subseteq now.missed
        /\ Range(socket[c].queue) \subseteq Range(now.queue)
        /\ Times(now.queue, n) \in
              {Times(socket[c].queue, n),
               Times(socket[c].queue, n) + IF m = n /\ Home[c] = at THEN 1 ELSE 0}
    <3>1. CASE Home[c] = at
      <4>1. now = Delivered(c, m)
        BY <1>3, <3>1
      <4> HIDE DEF now
      <4>2. QED
        BY <1>1, <3>1, <4>1, DeliveredIs
    <3>2. CASE Home[c] # at
      BY <1>3, <3>2
    <3>3. QED
      BY <3>1, <3>2
  <2>2. Coming(c, n)' = Coming(c, n)
    BY <1>2 DEF Coming
  <2>3. Had(c, n)' \in {Had(c, n), Had(c, n) + IF m = n /\ Home[c] = at THEN 1 ELSE 0}
    BY <2>0, <2>1 DEF Had
  <2>4. Counted(c, n)'
    <3>1. CASE n = m
      <4>1. Near(c, n)' = IF Home[c] = at THEN 1 ELSE 0
        BY <1>4, <3>1 DEF Near
      <4>2. Had(c, n) = 0 /\ Coming(c, n) = 0
        BY <1>2, <2>0, <3>1 DEF Counted
      <4>3. QED
        BY <1>4, <2>2, <2>3, <3>1, <4>1, <4>2 DEF Counted
    <3>2. CASE n # m
      <4>1. Had(c, n)' = Had(c, n) /\ Near(c, n)' = Near(c, n)
        BY <1>4, <2>0, <2>3, <3>2 DEF Near
      <4>2. QED
        BY <1>4, <2>0, <2>2, <3>2, <4>1 DEF Counted
    <3>3. QED
      BY <3>1, <3>2
  <2>5. Delivers(c, n)'
    BY <1>2, <1>4, <2>0, <2>1 DEF Delivers, Holds
  <2>6. QED
    BY <2>4, <2>5
<1>7. QED
  BY <1>5, <1>6 DEF HubInv

\* The half through Redis: one copy on the wire of every process that listens,
\* and what the others miss is what their clients do not have.
LEMMA RedisPublishes ==
    ASSUME HubInv, NEW m \in Message, NEW listeners \in SUBSET Replica,
           Handed(m, listeners)
    PROVE  HubInv'
<1>1. HubShape
  BY DEF HubInv
<1>2. /\ news[m].pc = "local" /\ news' = [news EXCEPT ![m].pc = "done"]
      /\ wire' = [r \in Replica |-> IF r \in listeners THEN Append(wire[r], m) ELSE wire[r]]
  BY DEF Handed
<1>3. /\ news' \in [Message -> [pc : {"new", "local", "done"}, at : Replica]]
      /\ news'[m].pc = "done" /\ news'[m].at = news[m].at
      /\ \A n \in Message \ {m} : news'[n] = news[n]
  BY <1>1, <1>2 DEF HubShape
<1>4. wire' \in [Replica -> Seq(Message)]
  <2>1. \A r \in Replica : wire[r] \in Seq(Message) /\ Append(wire[r], m) \in Seq(Message)
    BY <1>1, AppendProperties DEF HubShape
  <2>2. QED
    BY <1>2, <2>1
<1>5. ASSUME NEW c \in Client
      PROVE  /\ socket'[c] \in Connection
             /\ socket'[c].on = socket[c].on /\ socket'[c].before = socket[c].before
             /\ socket'[c].got = socket[c].got /\ socket'[c].queue = socket[c].queue
             /\ socket[c].missed \subseteq socket'[c].missed
             /\ socket[c].on /\ Home[c] \notin listeners => m \in Holds(c) \cup socket'[c].missed
  <2> DEFINE w == socket[c]
             left == [w EXCEPT !.missed = w.missed \cup ({m} \ Holds(c))]
  <2>1. socket'[c] = IF w.on /\ Home[c] \notin listeners THEN left ELSE w
    BY DEF Handed
  <2>2. w \in Connection /\ w.missed \subseteq Message
    BY <1>1, HubTypes
  <2>3. /\ left \in Connection /\ left.on = w.on /\ left.before = w.before
        /\ left.got = w.got /\ left.queue = w.queue
        /\ left.missed = w.missed \cup ({m} \ Holds(c))
    BY <2>2 DEF Connection
  <2> HIDE DEF left
  <2>4. QED
    BY <2>1, <2>2, <2>3
<1>6. HubShape'
  <2>1. socket' \in [Client -> Connection]
    <3>1. socket' = [c \in Client |-> socket'[c]]
      BY DEF Handed
    <3>2. QED
      BY <1>5, <3>1
  <2>2. QED
    BY <1>3, <1>4, <2>1 DEF HubShape
<1>7. ASSUME NEW c \in Client, NEW n \in Message PROVE Counted(c, n)' /\ Delivers(c, n)'
  <2>0. /\ Had(c, n) \in Nat /\ Coming(c, n) \in Nat /\ Near(c, n) \in {0, 1}
        /\ Home[c] \in Replica /\ wire[Home[c]] \in Seq(Message)
        /\ Counted(c, n) /\ Delivers(c, n)
    BY <1>1, HubTypes DEF HubInv
  <2>1. wire'[Home[c]] = IF Home[c] \in listeners THEN Append(wire[Home[c]], m)
                         ELSE wire[Home[c]]
    BY <1>2, <2>0
  <2>2. Coming(c, n)' = Coming(c, n) + IF Home[c] \in listeners /\ n = m THEN 1 ELSE 0
    BY <2>0, <2>1, TimesAppend DEF Coming
  <2>3. /\ Range(wire[Home[c]]) \subseteq Range(wire'[Home[c]])
        /\ Home[c] \in listeners => m \in Range(wire'[Home[c]])
    BY <2>0, <2>1, RangeAppend
  <2>4. Had(c, n)' = Had(c, n) /\ Near(c, n)' = Near(c, n) /\ Holds(c)' = Holds(c)
    BY <1>3, <1>5 DEF Had, Near, Holds
  <2>5. Counted(c, n)'
    <3>1. CASE n = m
      BY <1>2, <1>3, <2>0, <2>2, <2>4, <3>1 DEF Counted
    <3>2. CASE n # m
      BY <1>3, <2>0, <2>2, <2>4, <3>2 DEF Counted
    <3>3. QED
      BY <3>1, <3>2
  <2>6. Delivers(c, n)'
    <3>1. CASE n = m
      BY <1>5, <2>3, <2>4, <3>1 DEF Delivers
    <3>2. CASE n # m
      BY <1>3, <1>5, <2>0, <2>3, <2>4, <3>2 DEF Delivers
    <3>3. QED
      BY <3>1, <3>2
  <2>7. QED
    BY <2>5, <2>6
<1>8. QED
  BY <1>6, <1>7 DEF HubInv
\* The sockets of one client change, nothing that is published does.
LEMMA OneSocket ==
    ASSUME HubInv, NEW c \in Client, NEW w \in Connection,
           socket' = [socket EXCEPT ![c] = w], wire' = wire, news' = news,
           \A n \in Message :
              /\ Times(w.queue, n) + Times(w.got, n) <= Had(c, n)
              /\ w.on /\ n \notin w.before /\ news[n].pc = "done" =>
                    n \in Range(w.queue) \cup Range(w.got) \cup Range(wire[Home[c]])
                          \cup w.missed
    PROVE  HubInv'
<1>1. HubShape
  BY DEF HubInv
<1>2. HubShape'
  BY <1>1 DEF HubShape
<1>3. ASSUME NEW d \in Client, NEW n \in Message PROVE Counted(d, n)' /\ Delivers(d, n)'
  <2>1. /\ Had(d, n) \in Nat /\ Coming(d, n) \in Nat /\ Near(d, n) \in {0, 1}
        /\ Counted(d, n) /\ Delivers(d, n)
    BY <1>1, HubTypes DEF HubInv
  <2>2. Coming(d, n)' = Coming(d, n) /\ Near(d, n)' = Near(d, n)
    BY DEF Coming, Near
  <2>3. CASE d = c
    <3>1. socket'[d] = w
      BY <1>1, <2>3 DEF HubShape
    <3>2. w.queue \in Seq(Message) /\ w.got \in Seq(Message)
      BY DEF Connection
    <3>3. Had(d, n)' = Times(w.queue, n) + Times(w.got, n)
      BY <3>1 DEF Had
    <3>4. Had(d, n)' \in Nat /\ Had(d, n)' <= Had(d, n)
      BY <2>3, <3>2, <3>3, PlacesAreFinite
    <3>5. Counted(d, n)'
      BY <2>1, <2>2, <3>4 DEF Counted
    <3>6. Delivers(d, n)'
      BY <2>3, <3>1 DEF Delivers, Holds
    <3>7. QED
      BY <3>5, <3>6
  <2>4. CASE d # c
    <3>1. socket'[d] = socket[d]
      BY <1>1, <2>4 DEF HubShape
    <3>2. Had(d, n)' = Had(d, n) /\ Holds(d)' = Holds(d)
      BY <3>1 DEF Had, Holds
    <3>3. QED
      BY <2>1, <2>2, <3>1, <3>2 DEF Counted, Delivers
  <2>5. QED
    BY <2>3, <2>4
<1>4. QED
  BY <1>2, <1>3 DEF HubInv

\* A page subscribes, reads its queue and leaves.
LEMMA PageSteps ==
    ASSUME HubInv, NEW c \in Client, Subscribe(c) \/ Send(c) \/ Leave(c)
    PROVE  HubInv'
<1>1. HubShape
  BY DEF HubInv
<1>2. wire' = wire /\ news' = news
  BY DEF Subscribe, Send, Leave
<1>3. \A n \in Message : /\ Had(c, n) \in Nat /\ Delivers(c, n)
                         /\ news[n].pc \in {"new", "local", "done"}
  BY <1>1, HubTypes DEF HubInv
<1>4. <<>> \in Seq(Message) /\ \A n \in Message : Times(<<>>, n) = 0
  BY EmptySeq, TimesInNone
<1>5. CASE Subscribe(c)
  <2> DEFINE earlier == {m \in Message : news[m].pc # "new"}
             open == [Unsubscribed EXCEPT !.on = TRUE]
             w == [open EXCEPT !.before = earlier]
  <2>1. /\ open \in Connection /\ open.on /\ open.queue = <<>> /\ open.got = <<>>
        /\ open.missed = {}
    BY <1>4 DEF Unsubscribed, Connection
  <2>2. socket' = [socket EXCEPT ![c] = w]
    BY <1>5 DEF Subscribe
  <2> HIDE DEF open
  <2>3. w \in Connection /\ w.queue = <<>> /\ w.got = <<>> /\ w.before = earlier
    BY <2>1 DEF Connection
  <2>4. \A n \in Message : /\ Times(w.queue, n) + Times(w.got, n) <= Had(c, n)
                           /\ news[n].pc = "done" => n \in w.before
    BY <1>3, <1>4, <2>3
  <2> HIDE DEF w
  <2>5. QED
    BY <1>2, <2>2, <2>3, <2>4, OneSocket
<1>6. CASE Leave(c)
  <2>1. socket' = [socket EXCEPT ![c] = Unsubscribed] /\ Unsubscribed \in Connection
    BY <1>4, <1>6 DEF Leave, Unsubscribed, Connection
  <2>2. /\ ~Unsubscribed.on
        /\ \A n \in Message : Times(Unsubscribed.queue, n) + Times(Unsubscribed.got, n)
                                 <= Had(c, n)
    BY <1>3, <1>4 DEF Unsubscribed
  <2>3. QED
    BY <1>2, <2>1, <2>2, OneSocket
<1>7. CASE Send(c)
  <2> DEFINE s == socket[c]
             u == [s EXCEPT !.queue = Tail(s.queue)]
             w == [u EXCEPT !.got = Append(u.got, Head(s.queue))]
  <2>1. /\ s \in Connection /\ s.queue \in Seq(Message) /\ s.got \in Seq(Message)
        /\ s.queue # <<>>
    BY <1>1, <1>7, HubTypes DEF Send, HubShape, Connection
  <2>2. /\ Head(s.queue) \in Message /\ Tail(s.queue) \in Seq(Message)
        /\ Append(s.got, Head(s.queue)) \in Seq(Message)
    BY <2>1, HeadTailProperties, AppendProperties
  <2>3. /\ w \in Connection /\ w.on = s.on /\ w.queue = Tail(s.queue)
        /\ w.got = Append(s.got, Head(s.queue)) /\ w.before = s.before
        /\ w.missed = s.missed
    <3>1. /\ u.on = s.on /\ u.queue = Tail(s.queue) /\ u.got = s.got
          /\ u.before = s.before /\ u.missed = s.missed /\ u \in Connection
      BY <2>1, <2>2 DEF Connection
    <3> HIDE DEF u, s
    <3>2. QED
      BY <2>2, <3>1 DEF Connection
  <2>4. socket' = [socket EXCEPT ![c] = w]
    BY <1>1, <1>7 DEF Send, HubShape
  <2> HIDE DEF u, w
  <2>5. \A n \in Message :
           /\ Times(s.queue, n) = Times(Tail(s.queue), n) + IF Head(s.queue) = n THEN 1 ELSE 0
           /\ Times(w.got, n) = Times(s.got, n) + IF Head(s.queue) = n THEN 1 ELSE 0
           /\ Times(Tail(s.queue), n) \in Nat /\ Times(s.got, n) \in Nat
    <3> DEFINE e == Head(s.queue)
    <3>1. w.got = Append(s.got, e) /\ e \in Message
      BY <2>2, <2>3
    <3> HIDE DEF s, e
    <3>2. \A n \in Message :
             Times(s.queue, n) = Times(Tail(s.queue), n) + IF Head(s.queue) = n THEN 1 ELSE 0
      BY <2>1, TimesHeadTail
    <3>3. \A n \in Message : Times(w.got, n) = Times(s.got, n) + IF e = n THEN 1 ELSE 0
      BY <2>1, <3>1, TimesAppend
    <3>4. \A n \in Message : Times(Tail(s.queue), n) \in Nat /\ Times(s.got, n) \in Nat
      BY <2>1, <2>2, PlacesAreFinite
    <3>5. QED
      BY <3>2, <3>3, <3>4 DEF e
  <2>6. /\ Range(s.queue) = {Head(s.queue)} \cup Range(w.queue)
        /\ Range(w.got) = Range(s.got) \cup {Head(s.queue)}
    BY <2>1, <2>2, <2>3, RangeHeadTail, RangeAppend
  <2>7. ASSUME NEW n \in Message
        PROVE  /\ Times(w.queue, n) + Times(w.got, n) <= Had(c, n)
               /\ w.on /\ n \notin w.before /\ news[n].pc = "done" =>
                     n \in Range(w.queue) \cup Range(w.got) \cup Range(wire[Home[c]])
                           \cup w.missed
    <3>1. Times(w.queue, n) + Times(w.got, n) <= Had(c, n)
      BY <2>3, <2>5 DEF Had
    <3>2. Delivers(c, n)
      BY <1>3
    <3>3. QED
      BY <2>3, <2>6, <3>1, <3>2 DEF Delivers, Holds
  <2>8. QED
    BY <1>2, <2>3, <2>4, <2>7, OneSocket
<1>8. QED
  BY <1>5, <1>6, <1>7

\* A copy goes from the wire of a process to its clients.
LEMMA RelaySteps ==
    ASSUME HubInv, NEW r \in Replica, RelayDelivers(r)
    PROVE  HubInv'
<1> DEFINE m == Head(wire[r])
<1>1. HubShape
  BY DEF HubInv
<1>2. /\ wire[r] \in Seq(Message) /\ wire[r] # <<>> /\ m \in Message
      /\ Tail(wire[r]) \in Seq(Message)
      /\ DeliverLocal(r, m) /\ wire' = [wire EXCEPT ![r] = Tail(wire[r])] /\ news' = news
  <2>1. wire[r] \in Seq(Message) /\ wire[r] # <<>>
    BY <1>1 DEF HubShape, RelayDelivers
  <2>2. QED
    BY <2>1, HeadTailProperties DEF RelayDelivers
<1> HIDE DEF m
<1>3. /\ socket' \in [Client -> Connection]
      /\ \A c \in Client : socket'[c] = IF Home[c] = r THEN Delivered(c, m) ELSE socket[c]
  BY <1>1, <1>2, DeliverIs
<1>4. HubShape'
  BY <1>1, <1>2, <1>3 DEF HubShape
<1>5. ASSUME NEW c \in Client, NEW n \in Message PROVE Counted(c, n)' /\ Delivers(c, n)'
  <2>1. /\ Had(c, n) \in Nat /\ Coming(c, n) \in Nat /\ Near(c, n) \in {0, 1}
        /\ Times(socket[c].queue, n) \in Nat /\ Times(socket[c].got, n) \in Nat
        /\ Counted(c, n) /\ Delivers(c, n) /\ news[n].pc \in {"new", "local", "done"}
        /\ Home[c] \in Replica
    BY <1>1, HubTypes DEF HubInv
  <2>2. Near(c, n)' = Near(c, n)
    BY <1>2 DEF Near
  <2>3. CASE Home[c] = r
    <3>1. socket'[c] = Delivered(c, m) /\ wire'[Home[c]] = Tail(wire[r])
      BY <1>1, <1>2, <1>3, <2>3 DEF HubShape
    <3>2. Times(wire[r], n) = Times(Tail(wire[r]), n) + IF m = n THEN 1 ELSE 0
      BY <1>2, TimesHeadTail DEF m
    <3>3. Coming(c, n)' \in Nat /\ Coming(c, n) = Coming(c, n)' + IF m = n THEN 1 ELSE 0
      BY <1>2, <2>3, <3>1, <3>2, PlacesAreFinite DEF Coming
    <3>4. Times(socket'[c].queue, n) \in
             {Times(socket[c].queue, n), Times(socket[c].queue, n) + IF m = n THEN 1 ELSE 0}
          /\ socket'[c].got = socket[c].got
      BY <1>1, <1>2, <3>1, DeliveredIs
    <3>5. Had(c, n)' \in {Had(c, n), Had(c, n) + IF m = n THEN 1 ELSE 0}
      BY <2>1, <3>4 DEF Had
    <3>6. Counted(c, n)'
      BY <1>2, <2>1, <2>2, <3>3, <3>5 DEF Counted
    <3>7. /\ socket'[c].on = socket[c].on /\ socket'[c].before = socket[c].before
          /\ socket'[c].got = socket[c].got /\ socket[c].missed \subseteq socket'[c].missed
          /\ Range(socket[c].queue) \subseteq Range(socket'[c].queue)
          /\ socket[c].on => m \in Range(socket'[c].queue) \cup Holds(c) \cup socket'[c].missed
      BY <1>1, <1>2, <3>1, DeliveredIs
    <3>8. Range(wire[Home[c]]) = {m} \cup Range(wire'[Home[c]])
      BY <1>2, <2>3, <3>1, RangeHeadTail DEF m
    <3>9. Delivers(c, n)'
      BY <1>2, <2>1, <3>7, <3>8 DEF Delivers, Holds
    <3>10. QED
      BY <3>6, <3>9
  <2>4. CASE Home[c] # r
    <3>1. socket'[c] = socket[c] /\ wire'[Home[c]] = wire[Home[c]]
      BY <1>1, <1>2, <1>3, <2>1, <2>4 DEF HubShape
    <3>2. Had(c, n)' = Had(c, n) /\ Coming(c, n)' = Coming(c, n) /\ Holds(c)' = Holds(c)
      BY <3>1 DEF Had, Coming, Holds
    <3>3. QED
      BY <1>2, <2>1, <2>2, <3>1, <3>2 DEF Counted, Delivers
  <2>5. QED
    BY <2>3, <2>4
<1>6. QED
  BY <1>4, <1>5 DEF HubInv

\* Redis goes away with what was on the wire.
LEMMA RedisGoes ==
    ASSUME HubInv, RedisFails
    PROVE  HubInv'
<1>1. HubShape
  BY DEF HubInv
<1>2. wire' = [r \in Replica |-> <<>>] /\ news' = news
  BY DEF RedisFails
<1>3. ASSUME NEW c \in Client
      PROVE  /\ socket'[c] \in Connection
             /\ socket'[c].on = socket[c].on /\ socket'[c].before = socket[c].before
             /\ socket'[c].got = socket[c].got /\ socket'[c].queue = socket[c].queue
             /\ socket[c].missed \subseteq socket'[c].missed
             /\ socket[c].on => Range(wire[Home[c]]) \subseteq Holds(c) \cup socket'[c].missed
  <2> DEFINE w == socket[c]
             gone == w.missed \cup (Range(wire[Home[c]]) \ Holds(c))
             left == [w EXCEPT !.missed = gone]
  <2>1. socket'[c] = IF w.on THEN left ELSE w
    BY DEF RedisFails
  <2>2. w \in Connection /\ gone \subseteq Message
    <3>1. w \in Connection /\ w.missed \subseteq Message /\ wire[Home[c]] \in Seq(Message)
      BY <1>1, HubTypes, HubAssumption DEF HubShape, Connection
    <3>2. QED
      BY <3>1, RangeIsIn
  <2>3. /\ left \in Connection /\ left.on = w.on /\ left.before = w.before
        /\ left.got = w.got /\ left.queue = w.queue /\ left.missed = gone
    BY <2>2 DEF Connection
  <2> HIDE DEF left
  <2>4. QED
    BY <2>1, <2>2, <2>3
<1>4. HubShape'
  <2>1. socket' = [c \in Client |-> socket'[c]]
    BY DEF RedisFails
  <2>2. socket' \in [Client -> Connection]
    BY <1>3, <2>1
  <2>3. <<>> \in Seq(Message)
    BY EmptySeq
  <2>4. QED
    BY <1>1, <1>2, <2>2, <2>3 DEF HubShape
<1>5. ASSUME NEW c \in Client, NEW n \in Message PROVE Counted(c, n)' /\ Delivers(c, n)'
  <2>1. /\ Had(c, n) \in Nat /\ Coming(c, n) \in Nat /\ Near(c, n) \in {0, 1}
        /\ Counted(c, n) /\ Delivers(c, n) /\ Home[c] \in Replica
    BY <1>1, HubTypes DEF HubInv
  <2>2. wire'[Home[c]] = <<>>
    BY <1>2, <2>1
  <2>3. Coming(c, n)' = 0
    BY <2>2, TimesInNone DEF Coming
  <2>4. Had(c, n)' = Had(c, n) /\ Near(c, n)' = Near(c, n) /\ Holds(c)' = Holds(c)
    BY <1>2, <1>3 DEF Had, Near, Holds
  <2>5. Counted(c, n)'
    BY <1>2, <2>1, <2>3, <2>4 DEF Counted
  <2>6. Delivers(c, n)'
    BY <1>2, <1>3, <2>1, <2>4 DEF Delivers
  <2>7. QED
    BY <2>5, <2>6
<1>6. QED
  BY <1>4, <1>5 DEF HubInv

\* Both outcomes of a publish hand the message to some of the processes.
LEMMA PublishIsHanded ==
    ASSUME NEW m \in Message, PublishRedis(m) \/ PublishFails(m)
    PROVE  \E listeners \in SUBSET Replica : Handed(m, listeners)
<1>1. CASE PublishRedis(m)
  <2> DEFINE all == {r \in Replica : Listening(r)}
  <2>1. all \in SUBSET Replica
    OBVIOUS
  <2>2. Handed(m, all)
    BY <1>1 DEF PublishRedis
  <2> HIDE DEF all
  <2>3. QED
    BY <2>1, <2>2
<1>2. CASE PublishFails(m)
  <2>1. {} \in SUBSET Replica
    OBVIOUS
  <2>2. QED
    BY <1>2, <2>1 DEF PublishFails
<1>3. QED
  BY <1>1, <1>2

LEMMA NextHub ==
    ASSUME HubInv, [HubNext]_hubVars
    PROVE  HubInv'
<1>1. CASE UNCHANGED <<socket, wire, news>>
  BY <1>1 DEF HubInv, HubShape, Counted, Delivers, Had, Coming, Near, Holds
<1>2. CASE \/ \E r \in Replica : RelayOn(r)
           \/ RedisReturns \/ UNCHANGED hubVars
  BY <1>1, <1>2 DEF RelayOn, RedisReturns, hubVars
<1>3. ASSUME NEW m \in Message, PublishRedis(m) \/ PublishFails(m) PROVE HubInv'
  BY <1>3, PublishIsHanded, RedisPublishes
<1>4. QED
  BY <1>2, <1>3, LocalPublishes, PageSteps, RelaySteps, RedisGoes DEF HubNext

\* "So every replica sees every event", whatever is published where and
\* however the relays and Redis come and go: what a subscribed client does not
\* have was refused by its own full queue or lost with Redis, and nothing
\* reaches a client more than twice, or twice from another process.
THEOREM HubAlwaysDelivers == HubSpec => []HubDelivers
<1>1. HubInit => HubInv
  BY InitHub
<1>2. HubInv /\ [HubNext]_hubVars => HubInv'
  BY NextHub
<1>3. HubInv => HubDelivers
  <2> SUFFICES ASSUME HubInv, NEW c \in Client, NEW m \in Message
               PROVE  /\ socket[c].on /\ m \notin socket[c].before /\ news[m].pc = "done" =>
                            m \in Holds(c) \cup Range(wire[Home[c]]) \cup socket[c].missed
                      /\ Copies(c, m) <= IF news[m].at = Home[c] THEN 2 ELSE 1
    BY DEF HubDelivers
  <2>1. /\ Had(c, m) \in Nat /\ Coming(c, m) \in Nat /\ Near(c, m) \in {0, 1}
        /\ Counted(c, m) /\ Delivers(c, m) /\ news[m].pc \in {"new", "local", "done"}
    BY HubTypes DEF HubInv
  <2>2. Copies(c, m) = Had(c, m)
    BY DEF Copies, Had, Times, Places
  <2>3. Copies(c, m) <= Near(c, m) + 1
    BY <2>1, <2>2 DEF Counted
  <2>4. QED
    BY <2>1, <2>2, <2>3 DEF Near, Delivers
<1>4. QED
  BY <1>1, <1>2, <1>3, PTL DEF HubSpec

\* The rest of the state of the hub: no queue outgrows its size, whoever
\* publishes.
HubRest ==
    /\ redis \in BOOLEAN
    /\ relay \in [Replica -> {"none", "retry", "on"}]
    /\ \A c \in Client : Len(socket[c].queue) <= QueueSize

LEMMA QueuesAre ==
    ASSUME HubShape, HubRest, NEW c \in Client
    PROVE  /\ socket[c] \in Connection /\ socket[c].queue \in Seq(Message)
           /\ Len(socket[c].queue) \in Nat /\ Len(socket[c].queue) <= QueueSize
           /\ Home[c] \in Replica
<1>1. socket[c] \in Connection /\ Home[c] \in Replica
  BY HubAssumption DEF HubShape
<1>2. socket[c].queue \in Seq(Message)
  BY <1>1 DEF Connection
<1>3. QED
  BY <1>1, <1>2, LenProperties DEF HubRest

LEMMA DeliveredFits ==
    ASSUME HubShape, HubRest, NEW c \in Client, NEW m \in Message
    PROVE  Len(Delivered(c, m).queue) <= QueueSize
<1> DEFINE w == socket[c]
<1>1. w \in Connection /\ w.queue \in Seq(Message) /\ Len(w.queue) \in Nat
      /\ Len(w.queue) <= QueueSize
  BY QueuesAre
<1>2. CASE ~w.on \/ Full(c)
  BY <1>1, <1>2 DEF Delivered, Connection
<1>3. CASE w.on /\ ~Full(c)
  <2>1. Delivered(c, m).queue = Append(w.queue, m)
    BY <1>1, <1>3 DEF Delivered, Connection
  <2>2. Len(Append(w.queue, m)) = Len(w.queue) + 1
    BY <1>1, AppendProperties
  <2>3. QED
    BY <1>1, <1>3, <2>1, <2>2, HubAssumption DEF Full
<1>4. QED
  BY <1>2, <1>3

\* A step that leaves each queue as it was, or delivers to it.
LEMMA QueuesFit ==
    ASSUME HubShape, HubRest,
           \A c \in Client : \/ socket'[c].queue = socket[c].queue
                             \/ Len(socket'[c].queue) <= QueueSize
    PROVE  \A c \in Client : Len(socket'[c].queue) <= QueueSize
BY DEF HubRest

LEMMA NextHubRest ==
    ASSUME HubShape, HubRest, [HubNext]_hubVars
    PROVE  HubRest'
<1>1. ASSUME NEW m \in Message, NEW at \in Replica, DeliverLocal(at, m)
      PROVE  \A c \in Client : Len(socket'[c].queue) <= QueueSize
  <2>1. \A c \in Client : socket'[c] = IF Home[c] = at THEN Delivered(c, m) ELSE socket[c]
    BY <1>1 DEF DeliverLocal
  <2>2. QED
    BY <2>1, DeliveredFits, QueuesFit
<1>2. ASSUME NEW m \in Message, NEW at \in Replica, PublishLocal(m, at) PROVE HubRest'
  BY <1>1, <1>2 DEF PublishLocal, HubRest
<1>3. ASSUME NEW m \in Message, NEW listeners \in SUBSET Replica, Handed(m, listeners)
      PROVE  HubRest'
  <2>1. ASSUME NEW c \in Client PROVE socket'[c].queue = socket[c].queue
    <3> DEFINE more == {m} \ Holds(c)
               refused == [socket[c] EXCEPT !.missed = @ \cup more]
    <3>1. refused.queue = socket[c].queue
      BY QueuesAre DEF Connection
    <3>2. socket'[c] = IF socket[c].on /\ Home[c] \notin listeners THEN refused ELSE socket[c]
      BY <1>3 DEF Handed
    <3> HIDE DEF refused
    <3>3. QED
      BY <3>1, <3>2
  <2>2. QED
    BY <1>3, <2>1, QueuesFit DEF Handed, HubRest
<1>4. ASSUME NEW c \in Client, NEW w, socket' = [socket EXCEPT ![c] = w],
             Len(w.queue) <= QueueSize
      PROVE  \A d \in Client : Len(socket'[d].queue) <= QueueSize
  BY <1>4 DEF HubRest, HubShape
<1>5. Len(Unsubscribed.queue) <= QueueSize
  BY HubAssumption, EmptySeq DEF Unsubscribed
<1>6. ASSUME NEW c \in Client, Subscribe(c) PROVE HubRest'
  <2> DEFINE known == {m \in Message : news[m].pc # "new"}
             w == [Unsubscribed EXCEPT !.on = TRUE, !.before = known]
  <2>1. w.queue = Unsubscribed.queue
    BY DEF Unsubscribed
  <2>2. socket' = [socket EXCEPT ![c] = w]
    BY <1>6 DEF Subscribe
  <2>3. relay' \in [Replica -> {"none", "retry", "on"}]
    BY <1>6, QueuesAre DEF Subscribe, HubRest
  <2> HIDE DEF w
  <2>4. \A d \in Client : Len(socket'[d].queue) <= QueueSize
    BY <1>4, <1>5, <2>1, <2>2
  <2>5. redis' = redis
    BY <1>6 DEF Subscribe
  <2>6. QED
    BY <2>3, <2>4, <2>5 DEF HubRest
<1>7. ASSUME NEW c \in Client, Leave(c) PROVE HubRest'
  BY <1>4, <1>5, <1>7 DEF Leave, HubRest
<1>8. ASSUME NEW c \in Client, Send(c) PROVE HubRest'
  <2> DEFINE sent == [socket[c] EXCEPT !.queue = Tail(@)]
             w == [sent EXCEPT !.got = Append(@, Head(socket[c].queue))]
  <2>0. /\ socket[c] \in Connection /\ socket[c].queue \in Seq(Message)
        /\ Len(socket[c].queue) \in Nat /\ Len(socket[c].queue) <= QueueSize
        /\ socket[c].queue # <<>>
    BY <1>8, QueuesAre DEF Send
  <2>1. sent.queue = Tail(socket[c].queue) /\ w.queue = sent.queue
    BY <2>0 DEF Connection
  <2>2. Len(Tail(socket[c].queue)) = Len(socket[c].queue) - 1
    BY <2>0, HeadTailProperties
  <2>3. Len(Tail(socket[c].queue)) <= QueueSize
    BY <2>0, <2>2, HubAssumption
  <2>4. socket' = [socket EXCEPT ![c] = w]
    BY <1>8, <2>0 DEF Send, HubShape
  <2> HIDE DEF sent, w
  <2>5. \A d \in Client : Len(socket'[d].queue) <= QueueSize
    BY <1>4, <2>1, <2>3, <2>4
  <2>6. UNCHANGED <<relay, redis>>
    BY <1>8 DEF Send
  <2>7. QED
    BY <2>5, <2>6 DEF HubRest
<1>9. ASSUME NEW r \in Replica, RelayOn(r) PROVE HubRest'
  BY <1>9 DEF RelayOn, HubRest
<1>10. ASSUME NEW r \in Replica, RelayDelivers(r) PROVE HubRest'
  <2>1. wire[r] \in Seq(Message) /\ wire[r] # <<>>
    BY <1>10 DEF RelayDelivers, HubShape
  <2>2. Head(wire[r]) \in Message
    BY <2>1, HeadTailProperties
  <2>3. QED
    BY <1>1, <1>10, <2>2 DEF RelayDelivers, HubRest
<1>11. CASE RedisFails
  <2>1. ASSUME NEW c \in Client PROVE socket'[c].queue = socket[c].queue
    <3> DEFINE more == Range(wire[Home[c]]) \ Holds(c)
               without == [socket[c] EXCEPT !.missed = @ \cup more]
    <3>1. without.queue = socket[c].queue
      BY QueuesAre DEF Connection
    <3>2. socket'[c] = IF socket[c].on THEN without ELSE socket[c]
      BY <1>11 DEF RedisFails
    <3> HIDE DEF without
    <3>3. QED
      BY <3>1, <3>2
  <2>2. relay' \in [Replica -> {"none", "retry", "on"}]
    BY <1>11 DEF RedisFails, HubRest
  <2>3. QED
    BY <1>11, <2>1, <2>2, QueuesFit DEF RedisFails, HubRest
<1>12. CASE RedisReturns \/ UNCHANGED hubVars
  BY <1>12 DEF RedisReturns, hubVars, HubRest
<1>13. ASSUME NEW m \in Message, PublishRedis(m) \/ PublishFails(m) PROVE HubRest'
  BY <1>3, <1>13, PublishIsHanded
<1>14. QED
  BY <1>2, <1>6, <1>7, <1>8, <1>9, <1>10, <1>11, <1>12, <1>13 DEF HubNext

\* The hub keeps its state within its types; above all no queue ever holds
\* more than its size, of which a full queue and a lost message are made.
THEOREM HubIsAlwaysTyped == HubSpec => []HubTypeOK
<1>1. HubInit => HubInv /\ HubRest
  <2>1. HubInit => HubRest
    BY HubAssumption, EmptySeq DEF HubInit, HubRest, Unsubscribed
  <2>2. QED
    BY <2>1, InitHub
<1>2. HubInv /\ HubRest /\ [HubNext]_hubVars => (HubInv /\ HubRest)'
  BY NextHub, NextHubRest DEF HubInv
<1>3. HubInv /\ HubRest => HubTypeOK
  <2> SUFFICES ASSUME HubInv, HubRest PROVE HubTypeOK
    OBVIOUS
  <2>1. /\ DOMAIN wire = Replica
        /\ \A r \in Replica : Range(wire[r]) \subseteq Message
    BY RangeIsIn DEF HubInv, HubShape
  <2>2. \A c \in Client : /\ Len(socket[c].queue) <= QueueSize
                          /\ socket[c].missed \subseteq Message
                          /\ socket[c].before \subseteq Message
    BY QueuesAre DEF HubInv, HubRest, Connection
  <2>3. QED
    BY <2>1, <2>2 DEF HubTypeOK, HubInv, HubShape, HubRest
<1>4. QED
  BY <1>1, <1>2, <1>3, PTL DEF HubSpec
-----------------------------------------------------------------------------
(* The offline queue, for any number of tabs, notes and accidents.         *)

\* The filter of removeQueued is what its steps compute.
LEMMA WithoutIs ==
    ASSUME NEW M, NEW s \in Seq(M), NEW n
    PROVE  /\ Without(s, n) \in Seq(M)
           /\ Range(Without(s, n)) = Range(s) \ {n}
           /\ IsInjective(s) => IsInjective(Without(s, n))
<1> DEFINE len == Len(s)
           Step(f, i) == IF i = 0 THEN <<>>
                         ELSE IF s[i] = n THEN f[i - 1] ELSE Append(f[i - 1], s[i])
           Is(f, m) == f = [i \in 0 .. m |-> Step(f, i)]
           Some(m) == \E f : Is(f, m)
<1>1. len \in Nat /\ DOMAIN s = 1 .. len /\ \A i \in 1 .. len : s[i] \in M
  BY LenProperties, ElementOfSeq
<1> HIDE DEF len
<1>2. ASSUME NEW m \in Nat, m = 0 \/ Some(m - 1) PROVE Some(m)
  <2>1. CASE m = 0
    <3> DEFINE f == [i \in 0 .. 0 |-> <<>>]
    <3>1. Is(f, 0)
      OBVIOUS
    <3>2. QED
      BY <2>1, <3>1
  <2>2. CASE m # 0
    <3>1. PICK g : Is(g, m - 1)
      BY <1>2, <2>2
    <3> DEFINE f == [i \in 0 .. m |-> IF i = m THEN Step(g, m) ELSE g[i]]
    <3> HIDE DEF Step
    <3>2. \A i \in 0 .. m - 1 : f[i] = g[i] /\ g[i] = Step(g, i)
      BY <2>2, <3>1
    <3>3. \A i \in 0 .. m : Step(f, i) = Step(g, i)
      BY <2>2, <3>2 DEF Step
    <3>4. \A i \in 0 .. m : f[i] = Step(f, i)
      <4>1. f[m] = Step(g, m)
        BY <1>2
      <4>2. QED
        BY <1>2, <2>2, <3>2, <3>3, <4>1
    <3>5. f = [i \in 0 .. m |-> f[i]]
      OBVIOUS
    <3> HIDE DEF f
    <3>6. Is(f, m)
      BY <3>4, <3>5
    <3>7. QED
      BY <3>6
  <2>3. QED
    BY <2>1, <2>2
<1>3. Some(len)
  <2> HIDE DEF Some
  <2> DEFINE T == {m \in Nat : ~Some(m)}
  <2>1. ASSUME T # {} PROVE FALSE
    <3>1. PICK m \in T : \A k \in T : m <= k
      BY <2>1, LeastNatural
    <3>2. m = 0 \/ (m - 1 \in Nat /\ m - 1 \notin T)
      BY <3>1
    <3>3. QED
      BY <1>2, <3>1, <3>2
  <2>2. QED
    BY <1>1, <2>1
<1> DEFINE kept == CHOOSE f : Is(f, len)
<1>4. Without(s, n) = kept[len]
  BY DEF Without, len
<1>5. Is(kept, len)
  <2> HIDE DEF Is
  <2>1. QED
    BY <1>3, Zenon
<1> HIDE DEF kept
<1>6. \A i \in 0 .. len : kept[i] = Step(kept, i)
  BY <1>5
<1> DEFINE Good(i) == /\ kept[i] \in Seq(M)
                      /\ Range(kept[i]) = {s[j] : j \in 1 .. i} \ {n}
                      /\ IsInjective(s) => IsInjective(kept[i])
<1>7. ASSUME NEW i \in 0 .. len, i = 0 \/ Good(i - 1) PROVE Good(i)
  <2>1. CASE i = 0
    <3>1. kept[0] = <<>>
      BY <1>1, <1>6, <2>1
    <3>2. <<>> \in Seq(M) /\ Range(<<>>) = {} /\ DOMAIN <<>> = {}
      BY RangeOfNone, EmptySeq
    <3>3. IsInjective(<<>>)
      BY <3>2 DEF IsInjective
    <3>4. {s[j] : j \in 1 .. 0} = {}
      OBVIOUS
    <3>5. QED
      BY <2>1, <3>1, <3>2, <3>3, <3>4
  <2>2. CASE i # 0
    <3>1. Good(i - 1)
      BY <1>7, <2>2
    <3>2. i \in 1 .. len /\ i - 1 \in 0 .. len /\ s[i] \in M
      BY <1>1, <2>2
    <3>3. {s[j] : j \in 1 .. i} = {s[j] : j \in 1 .. i - 1} \cup {s[i]}
      <4>1. 1 .. i = (1 .. i - 1) \cup {i}
        BY <1>1, <3>2
      <4>2. QED
        BY <4>1
    <3>4. CASE s[i] = n
      <4>1. kept[i] = kept[i - 1]
        BY <1>6, <2>2, <3>4
      <4>2. QED
        BY <3>1, <3>3, <3>4, <4>1
    <3>5. CASE s[i] # n
      <4>1. kept[i] = Append(kept[i - 1], s[i])
        BY <1>6, <2>2, <3>5
      <4>2. Range(kept[i]) = Range(kept[i - 1]) \cup {s[i]}
        BY <3>1, <3>2, <4>1, RangeAppend
      <4>3. kept[i] \in Seq(M)
        BY <3>1, <3>2, <4>1, AppendProperties
      <4>4. ASSUME IsInjective(s) PROVE s[i] \notin Range(kept[i - 1])
        BY <1>1, <3>1, <3>2, <4>4 DEF IsInjective
      <4>5. IsInjective(s) => IsInjective(kept[i])
        BY <3>1, <3>2, <4>1, <4>4, AppendSingle
      <4>6. QED
        BY <3>1, <3>3, <3>5, <4>2, <4>3, <4>5
    <3>6. QED
      BY <3>4, <3>5
  <2>3. QED
    BY <2>1, <2>2
<1>8. Good(len)
  <2> HIDE DEF Good
  <2> DEFINE T == {m \in Nat : m <= len /\ ~Good(m)}
  <2>1. ASSUME T # {} PROVE FALSE
    <3>1. PICK m \in T : \A k \in T : m <= k
      BY <2>1, LeastNatural
    <3>2. m = 0 \/ (m - 1 \in Nat /\ m - 1 \notin T)
      BY <3>1
    <3>3. m = 0 \/ Good(m - 1)
      BY <1>1, <3>1, <3>2
    <3>4. QED
      BY <1>1, <1>7, <3>1, <3>3
  <2>2. QED
    BY <1>1, <2>1
<1>9. {s[j] : j \in 1 .. len} = Range(s)
  BY <1>1 DEF Range
<1>10. QED
  BY <1>4, <1>8, <1>9

\* The state of the pages, of the storage and of the thread.
Slot == {<<>>} \cup {<<e>> : e \in [was : Seq(Note), now : Seq(Note)]}
Form == [pc : {"empty"}, note : {EmptyForm.note}]
        \cup [pc : {"typed", "posting", "loading"}, note : Note]
Told == [submitted : SUBSET Note, closed : SUBSET Note, doubt : SUBSET Note,
         accidents : Nat, raced : BOOLEAN]

OfflineShape ==
    /\ onLine \in BOOLEAN
    /\ queued \in Seq(Note)
    /\ form \in [Tab -> Form]
    /\ flushing \in [Tab -> Seq(Note)]
    /\ setting \in [Tab -> Slot]
    /\ thread \in [Note -> Nat]
    /\ told \in Told

\* Where a note can be: in the form, read by a loop, in a change of the
\* storage under way, as an entry that was read or that is to be written.
InForm(t) == IF form[t].pc = "empty" THEN {} ELSE {form[t].note}
Sending(t) == Range(flushing[t])
Was(t) == IF Runs(t) THEN {} ELSE Range(setting[t][1].was)
Now(t) == IF Runs(t) THEN {} ELSE Range(setting[t][1].now)
Adding(t) == Now(t) \ Was(t)
Removing(t) == Was(t) \ Now(t)
Queueing(n) == n \in Range(queued) \/ \E t \in Tab : n \in Sending(t) \cup Was(t)

\* No entry is twice in a list.
Single ==
    /\ IsInjective(queued)
    /\ \A t \in Tab : IsInjective(flushing[t])
    /\ \A t \in Tab : Runs(t) \/ (IsInjective(setting[t][1].was)
                                  /\ IsInjective(setting[t][1].now))

\* A note is new, or in one form, or on its way from a form into the queue,
\* or has been in the queue.
Placed(n) ==
    /\ n \notin told.submitted =>
          thread[n] = 0 /\ ~Queueing(n) /\ \A t \in Tab : n \notin InForm(t) \cup Adding(t)
    /\ \A t \in Tab : n \in InForm(t) =>
          ~Queueing(n) /\ \A u \in Tab : n \notin Adding(u) /\ (n \in InForm(u) => u = t)
    /\ \A t \in Tab : n \in Adding(t) =>
          ~Queueing(n) /\ \A u \in Tab : n \in Adding(u) => u = t

\* What is being removed from the queue has been posted, and what a tab read
\* there is there, or has been posted.
StillThere(n) ==
    /\ \A t \in Tab : n \in Removing(t) => thread[n] > 0
    /\ \A t \in Tab : n \in Was(t) => n \in Range(queued) \/ thread[n] > 0
    /\ \A t \in Tab : form[t].pc = "loading" /\ form[t].note = n => thread[n] > 0
    /\ n \in told.submitted =>
          \/ thread[n] > 0 \/ n \in Range(queued) \/ n \in told.closed
          \/ \E t \in Tab : n \in InForm(t) \cup Now(t)

\* What will be posted has not been; and a posted note that is still in the
\* queue is being removed.
Once(n) ==
    /\ thread[n] <= 1
    /\ \A t \in Tab : n \in InForm(t) /\ form[t].pc # "loading" => thread[n] = 0
    /\ \A t \in Tab : n \in Adding(t) => thread[n] = 0
    /\ \A t \in Tab : n \in Sending(t) =>
          thread[n] = 0 /\ \A u \in Tab : n \in Sending(u) => u = t
    /\ thread[n] = 1 /\ n \in Range(queued) => \E t \in Tab : n \in Removing(t)

Safe == Single /\ \A n \in Note : Placed(n) /\ StillThere(n) /\ (n \in told.doubt \/ Once(n))

OfflineInv == OfflineShape /\ (~told.raced => Safe)

\* What the shape says of one tab.
LEMMA TabIs ==
    ASSUME OfflineShape, NEW t \in Tab
    PROVE  /\ form[t] \in Form /\ form[t].pc \in {"empty", "typed", "posting", "loading"}
           /\ form[t].pc # "empty" =>
                 form[t].note \in Note /\ form[t] = [pc |-> form[t].pc, note |-> form[t].note]
           /\ flushing[t] \in Seq(Note) /\ setting[t] \in Slot
           /\ ~Runs(t) => /\ setting[t][1].was \in Seq(Note) /\ setting[t][1].now \in Seq(Note)
                          /\ setting[t] = <<setting[t][1]>>
           /\ flushing[t] # <<>> => Head(flushing[t]) \in Note
<1>1. form[t] \in Form /\ flushing[t] \in Seq(Note) /\ setting[t] \in Slot
  BY DEF OfflineShape
<1>2. /\ form[t].pc \in {"empty", "typed", "posting", "loading"}
      /\ form[t].pc # "empty" =>
            form[t].note \in Note /\ form[t] = [pc |-> form[t].pc, note |-> form[t].note]
  BY <1>1 DEF Form
<1>3. ASSUME ~Runs(t)
      PROVE  /\ setting[t][1].was \in Seq(Note) /\ setting[t][1].now \in Seq(Note)
             /\ setting[t] = <<setting[t][1]>>
  <2>1. PICK e \in [was : Seq(Note), now : Seq(Note)] : setting[t] = <<e>>
    BY <1>1, <1>3 DEF Slot, Runs
  <2>2. setting[t][1] = e
    BY <2>1
  <2>3. QED
    BY <2>1, <2>2
<1>4. flushing[t] # <<>> => Head(flushing[t]) \in Note
  BY <1>1, HeadTailProperties
<1>5. QED
  BY <1>1, <1>2, <1>3, <1>4

\* A getItem, and the setItem it is followed by.
LEMMA SetIs ==
    ASSUME OfflineShape, NEW t \in Tab, NEW entries \in Seq(Note), Set(t, entries)
    PROVE  /\ setting' \in [Tab -> Slot]
           /\ \A u \in Tab \ {t} : setting'[u] = setting[u]
           /\ setting'[t] = <<[was |-> queued, now |-> entries]>>
           /\ ~Runs(t)' /\ setting'[t][1].was = queued /\ setting'[t][1].now = entries
<1> DEFINE e == [was |-> queued, now |-> entries]
<1>1. e \in [was : Seq(Note), now : Seq(Note)] /\ e.was = queued /\ e.now = entries
  BY DEF OfflineShape
<1> HIDE DEF e
<1>2. setting' = [setting EXCEPT ![t] = <<e>>]
  BY DEF Set, e
<1>3. <<e>> \in Slot /\ <<e>> # <<>> /\ <<e>>[1] = e
  BY <1>1 DEF Slot
<1>4. /\ setting' \in [Tab -> Slot] /\ \A u \in Tab \ {t} : setting'[u] = setting[u]
      /\ setting'[t] = <<e>>
  BY <1>2, <1>3 DEF OfflineShape
<1>5. QED
  BY <1>1, <1>3, <1>4 DEF Runs, e

\* The history, as the steps change it.
LEMMA ToldIs ==
    ASSUME told \in Told, NEW some \in SUBSET Note
    PROVE  /\ [told EXCEPT !.submitted = @ \cup some] \in Told
           /\ [told EXCEPT !.doubt = @ \cup some] \in Told
           /\ \A more \in BOOLEAN : [told EXCEPT !.raced = more] \in Told
BY DEF Told

\* create_comment: one more with this text.
LEMMA CommentIs ==
    ASSUME OfflineShape, NEW m \in Note, create_comment(m)
    PROVE  /\ thread' \in [Note -> Nat] /\ thread'[m] = thread[m] + 1
           /\ \A n \in Note \ {m} : thread'[n] = thread[n]
<1>1. thread \in [Note -> Nat] /\ thread' = [thread EXCEPT ![m] = thread[m] + 1]
  BY DEF OfflineShape, create_comment
<1>2. QED
  BY <1>1

\* A POST of which the page does not hear.
LEMMA UnansweredIs ==
    ASSUME OfflineShape, NEW m \in Note, Unanswered(m)
    PROVE  /\ thread' \in [Note -> Nat] /\ told' \in Told
           /\ told'.submitted = told.submitted /\ told'.closed = told.closed
           /\ told'.raced = told.raced /\ told.doubt \subseteq told'.doubt
           /\ \A n \in Note : /\ thread'[n] >= thread[n]
                              /\ n \notin told'.doubt => thread'[n] = thread[n]
                              /\ n # m => thread'[n] = thread[n]
<1>0. told \in Told /\ thread \in [Note -> Nat]
  BY DEF OfflineShape
<1>1. CASE UNCHANGED <<thread, told>>
  BY <1>0, <1>1
<1>2. CASE /\ create_comment(m)
           /\ told' = [told EXCEPT !.accidents = @ + 1, !.doubt = @ \cup {m}]
  <2> DEFINE u == [told EXCEPT !.accidents = @ + 1]
  <2>1. /\ u \in Told /\ u.submitted = told.submitted /\ u.closed = told.closed
        /\ u.raced = told.raced /\ u.doubt = told.doubt
    BY <1>0 DEF Told
  <2>2. told' = [u EXCEPT !.doubt = @ \cup {m}]
    BY <1>2
  <2> HIDE DEF u
  <2>3. /\ told' \in Told /\ told'.submitted = told.submitted /\ told'.closed = told.closed
        /\ told'.raced = told.raced /\ told'.doubt = told.doubt \cup {m}
    BY <2>1, <2>2 DEF Told
  <2>4. thread' = [thread EXCEPT ![m] = @ + 1]
    BY <1>2 DEF create_comment
  <2>5. QED
    BY <1>0, <2>3, <2>4
<1>3. QED
  BY <1>1, <1>2 DEF Unanswered

\* What the sets of the model are here.
LEMMA SentByIs ==
    ASSUME OfflineShape, NEW t \in Tab
    PROVE  /\ SentBy(t) = Sending(t) \cup Removing(t)
           /\ SentBy(t) \subseteq Note /\ Now(t) \subseteq Note /\ Was(t) \subseteq Note
           /\ Sending(t) \subseteq Note /\ Range(queued) \subseteq Note
           /\ InForm(t) \subseteq Note
<1>1. Range(flushing[t]) \subseteq Note /\ Range(queued) \subseteq Note
  BY TabIs, RangeIsIn DEF OfflineShape
<1>2. Was(t) \subseteq Note /\ Now(t) \subseteq Note
  BY TabIs, RangeIsIn DEF Was, Now
<1>3. SentBy(t) = Sending(t) \cup Removing(t)
  BY DEF SentBy, Sending, Removing, Was, Now, ToSet, Range
<1>4. QED
  BY <1>1, <1>2, <1>3, TabIs DEF Sending, Removing, InForm

\* What a closed page takes with it.
LEMMA CloseIs ==
    ASSUME OfflineShape, NEW t \in Tab, ClosePage(t)
    PROVE  /\ told' \in Told /\ told'.raced = told.raced
           /\ told'.submitted = told.submitted
           /\ told'.doubt = told.doubt \cup Sending(t) \cup Removing(t)
           /\ told'.closed = told.closed \cup InForm(t) \cup Adding(t)
<1> DEFINE gone == (IF form[t].pc = "empty" THEN {} ELSE {form[t].note})
                   \cup (IF Runs(t) THEN {}
                         ELSE ToSet(setting[t][1].now) \ ToSet(setting[t][1].was))
           u == [told EXCEPT !.accidents = @ + 1]
           v == [u EXCEPT !.doubt = @ \cup SentBy(t)]
<1>1. gone = InForm(t) \cup Adding(t)
  BY DEF InForm, Adding, Now, Was, ToSet, Range
<1>2. told' = [v EXCEPT !.closed = @ \cup (IF form[t].pc = "empty" THEN {} ELSE {form[t].note})
                       \cup (IF Runs(t) THEN {}
                             ELSE ToSet(setting[t][1].now) \ ToSet(setting[t][1].was))]
  BY DEF ClosePage
<1>3. /\ u \in Told /\ u.submitted = told.submitted /\ u.closed = told.closed
      /\ u.raced = told.raced /\ u.doubt = told.doubt
  <2>1. told \in Told
    BY DEF OfflineShape
  <2>2. QED
    BY <2>1 DEF Told
<1> HIDE DEF u
<1>4. /\ v \in Told /\ v.submitted = told.submitted /\ v.closed = told.closed
      /\ v.raced = told.raced /\ v.doubt = told.doubt \cup SentBy(t)
  BY <1>3, SentByIs DEF Told
<1> HIDE DEF v
<1>5. v.closed \cup (IF form[t].pc = "empty" THEN {} ELSE {form[t].note})
               \cup (IF Runs(t) THEN {}
                     ELSE ToSet(setting[t][1].now) \ ToSet(setting[t][1].was))
      = v.closed \cup gone
  OBVIOUS
<1>6. told' = [v EXCEPT !.closed = v.closed \cup gone]
  BY <1>2, <1>5
<1>7. InForm(t) \cup Adding(t) \subseteq Note
  BY SentByIs DEF Adding
<1> HIDE DEF gone
<1>8. QED
  BY <1>1, <1>4, <1>6, <1>7, SentByIs DEF Told

\* The page queues the text of its form, or shows something.
LEMMA CatchIs ==
    ASSUME OfflineShape, NEW t \in Tab, form[t].pc # "empty", NEW shown \in Form,
           Catch(t, shown)
    PROVE  form' \in [Tab -> Form] /\ setting' \in [Tab -> Slot]
<1>1. EmptyForm \in Form
  BY DEF EmptyForm, Form
<1>2. onLine => form' = [form EXCEPT ![t] = shown] /\ setting' = setting
  BY DEF Catch
<1>3. ~onLine => form' = [form EXCEPT ![t] = EmptyForm] /\ Set(t, Append(queued, form[t].note))
  BY DEF Catch, queueComment
<1>4. Append(queued, form[t].note) \in Seq(Note)
  BY TabIs, AppendProperties DEF OfflineShape
<1>5. ~onLine => setting' \in [Tab -> Slot]
  BY <1>3, <1>4, SetIs
<1>6. form' \in [Tab -> Form]
  BY <1>1, <1>2, <1>3 DEF OfflineShape
<1>7. onLine => setting' \in [Tab -> Slot]
  BY <1>2 DEF OfflineShape
<1>8. QED
  BY <1>5, <1>6, <1>7

LEMMA ShapeIsKept ==
    ASSUME OfflineShape, OfflineNext
    PROVE  OfflineShape'
<1>0. told \in Told /\ EmptyForm \in Form /\ <<>> \in Slot /\ <<>> \in Seq(Note)
  BY EmptySeq DEF OfflineShape, EmptyForm, Form, Slot
<1>1. ASSUME NEW t \in Tab, SetItem(t) PROVE OfflineShape'
  <2>1. setting[t][1].now \in Seq(Note)
    BY <1>1, TabIs DEF SetItem
  <2>2. (told.raced \/ queued # setting[t][1].was) \in BOOLEAN
    OBVIOUS
  <2>3. told' \in Told
    BY <1>0, <1>1, <2>2, ToldIs DEF SetItem
  <2>4. QED
    BY <1>0, <1>1, <2>1, <2>3 DEF SetItem, OfflineShape
<1>2. ASSUME NEW t \in Tab, Submit(t) PROVE OfflineShape'
  <2>1. PICK n \in Note \ told.submitted :
          /\ form' = [form EXCEPT ![t] = [pc |-> "posting", note |-> n]]
          /\ told' = [told EXCEPT !.submitted = @ \cup {n}]
    BY <1>2 DEF Submit
  <2>2. [pc |-> "posting", note |-> n] \in Form /\ told' \in Told
    BY <1>0, <2>1, ToldIs DEF Form
  <2>3. QED
    BY <1>2, <2>1, <2>2 DEF Submit, OfflineShape
<1>3. ASSUME NEW t \in Tab, NEW pc \in {"typed", "posting", "loading"}, form[t].pc # "empty"
      PROVE  [form[t] EXCEPT !.pc = pc] \in Form
  BY <1>3, TabIs DEF Form
<1>4. ASSUME NEW t \in Tab, SubmitAgain(t) PROVE OfflineShape'
  <2>1. form' = [form EXCEPT ![t] = [form[t] EXCEPT !.pc = "posting"]]
    BY <1>4 DEF SubmitAgain
  <2>2. [form[t] EXCEPT !.pc = "posting"] \in Form
    BY <1>3, <1>4 DEF SubmitAgain
  <2>3. QED
    BY <1>4, <2>1, <2>2 DEF SubmitAgain, OfflineShape
<1>5. ASSUME NEW t \in Tab, Posted(t) PROVE OfflineShape'
  <2>1. form' = [form EXCEPT ![t] = [form[t] EXCEPT !.pc = "loading"]]
    BY <1>5 DEF Posted
  <2>2. [form[t] EXCEPT !.pc = "loading"] \in Form
    BY <1>3, <1>5 DEF Posted
  <2>3. thread' \in [Note -> Nat]
    BY <1>5, TabIs, CommentIs DEF Posted
  <2>4. QED
    BY <1>5, <2>1, <2>2, <2>3 DEF Posted, OfflineShape
<1>6. ASSUME NEW t \in Tab, PostFails(t) PROVE OfflineShape'
  <2>1. thread' \in [Note -> Nat] /\ told' \in Told
    BY <1>6, TabIs, UnansweredIs DEF PostFails
  <2>2. form' \in [Tab -> Form] /\ setting' \in [Tab -> Slot]
    BY <1>3, <1>6, CatchIs DEF PostFails
  <2>3. QED
    BY <1>6, <2>1, <2>2 DEF PostFails, OfflineShape
<1>7. ASSUME NEW t \in Tab, Loaded(t) PROVE OfflineShape'
  BY <1>0, <1>7 DEF Loaded, OfflineShape
<1>8. ASSUME NEW t \in Tab, LoadFails(t) PROVE OfflineShape'
  <2>1. told' \in Told
    <3>1. form[t].note \in Note
      BY <1>8, TabIs DEF LoadFails
    <3>2. QED
      BY <1>0, <1>8, <3>1, ToldIs DEF LoadFails
  <2>2. form' \in [Tab -> Form] /\ setting' \in [Tab -> Slot]
    BY <1>0, <1>8, CatchIs DEF LoadFails
  <2>3. QED
    BY <1>8, <2>1, <2>2 DEF LoadFails, OfflineShape
<1>9. ASSUME NEW t \in Tab PROVE SentBy(t) \subseteq Note /\ Range(queued) \subseteq Note
  <2>1. Range(flushing[t]) \subseteq Note /\ Range(queued) \subseteq Note
    BY TabIs, RangeIsIn DEF OfflineShape
  <2>2. ~Runs(t) => /\ Range(setting[t][1].was) \subseteq Note
                    /\ Range(setting[t][1].now) \subseteq Note
    BY TabIs, RangeIsIn
  <2>3. QED
    BY <2>1, <2>2 DEF SentBy, ToSet, Range
<1>10. ASSUME NEW t \in Tab, Flush(t) PROVE OfflineShape'
  <2> DEFINE both == ToSet(queued) \cap UNION {SentBy(u) : u \in Tab \ {t}}
  <2>1. both \in SUBSET Note
    BY <1>9, <1>10 DEF ToSet, Range
  <2> HIDE DEF both
  <2>2. told' \in Told
    BY <1>0, <1>10, <2>1, ToldIs DEF Flush, both
  <2>3. QED
    BY <1>10, <2>2 DEF Flush, OfflineShape
<1>11. ASSUME NEW t \in Tab, Sent(t) PROVE OfflineShape'
  <2>1. Head(flushing[t]) \in Note /\ Tail(flushing[t]) \in Seq(Note)
    BY <1>11, TabIs, HeadTailProperties DEF Sent
  <2>2. Without(queued, Head(flushing[t])) \in Seq(Note)
    BY WithoutIs DEF OfflineShape
  <2>3. setting' \in [Tab -> Slot]
    BY <1>11, <2>2, SetIs DEF Sent, removeQueued
  <2>4. thread' \in [Note -> Nat]
    BY <1>11, <2>1 DEF Sent, create_comment, OfflineShape
  <2>5. flushing' \in [Tab -> Seq(Note)]
    BY <1>11, <2>1 DEF Sent, OfflineShape
  <2>6. QED
    BY <1>11, <2>3, <2>4, <2>5 DEF Sent, OfflineShape
<1>12. ASSUME NEW t \in Tab, SendFails(t) PROVE OfflineShape'
  <2>1. thread' \in [Note -> Nat] /\ told' \in Told
    BY <1>12, TabIs, UnansweredIs DEF SendFails
  <2>2. QED
    BY <1>0, <1>12, <2>1 DEF SendFails, OfflineShape
<1>13. ASSUME NEW t \in Tab, ClosePage(t) PROVE OfflineShape'
  <2>1. told' \in Told
    BY <1>13, CloseIs
  <2>2. thread' \in [Note -> Nat]
    <3>1. CASE UNCHANGED thread
      BY <3>1 DEF OfflineShape
    <3>2. CASE flushing[t] # <<>> /\ create_comment(Head(flushing[t]))
      BY <3>2, TabIs, CommentIs
    <3>3. QED
      BY <1>13, <3>1, <3>2 DEF ClosePage
  <2>3. QED
    BY <1>0, <1>13, <2>1, <2>2 DEF ClosePage, OfflineShape
<1>14. CASE ConnectionChanges
  BY <1>14 DEF ConnectionChanges, OfflineShape
<1>15. QED
  BY <1>1, <1>2, <1>4, <1>5, <1>6, <1>7, <1>8, <1>10, <1>11, <1>12, <1>13, <1>14 DEF OfflineNext

\* A tab whose form, loop and change of the storage are as before has its
\* notes where they were.
LEMMA SamePlaces ==
    ASSUME NEW t
    PROVE  /\ form'[t] = form[t] => InForm(t)' = InForm(t)
           /\ flushing'[t] = flushing[t] => Sending(t)' = Sending(t)
           /\ setting'[t] = setting[t] =>
                 /\ Runs(t)' = Runs(t) /\ Was(t)' = Was(t) /\ Now(t)' = Now(t)
                 /\ Adding(t)' = Adding(t) /\ Removing(t)' = Removing(t)
BY DEF InForm, Sending, Runs, Was, Now, Adding, Removing

\* The lists are the same ones.
LEMMA SameLists ==
    ASSUME Single, queued' = queued, flushing' = flushing, setting' = setting
    PROVE  Single'
BY DEF Single, Runs

\* Nothing was posted, or something was and is in doubt.
Uncertain ==
    /\ told'.submitted = told.submitted /\ told'.closed = told.closed
    /\ told.doubt \subseteq told'.doubt
    /\ \A n \in Note : /\ thread'[n] >= thread[n]
                       /\ n \notin told'.doubt \/ n \notin told.submitted =>
                             thread'[n] = thread[n]

LEMMA UnansweredIsUncertain ==
    ASSUME OfflineShape, NEW m \in Note, m \in told.submitted, Unanswered(m)
    PROVE  Uncertain
BY UnansweredIs DEF Uncertain

\* What is in a form, queued or on its way was submitted.
LEMMA KnownIsSubmitted ==
    ASSUME OfflineShape, Safe, NEW t \in Tab
    PROVE  /\ form[t].pc # "empty" => form[t].note \in told.submitted \cap Note
           /\ flushing[t] # <<>> => Head(flushing[t]) \in told.submitted \cap Sending(t)
<1>1. ASSUME form[t].pc # "empty" PROVE form[t].note \in told.submitted \cap Note
  <2>1. form[t].note \in Note /\ form[t].note \in InForm(t)
    BY <1>1, TabIs DEF InForm
  <2>2. QED
    BY <2>1 DEF Safe, Placed
<1>2. ASSUME flushing[t] # <<>> PROVE Head(flushing[t]) \in told.submitted \cap Sending(t)
  <2>1. Head(flushing[t]) \in Note /\ Head(flushing[t]) \in Sending(t)
    BY <1>2, TabIs, RangeHeadTail DEF Sending
  <2>2. QED
    BY <2>1 DEF Safe, Placed, Queueing
<1>3. QED
  BY <1>1, <1>2

\* Only the form of one page changes, and what it held is still there, or
\* was posted.
LEMMA PageShows ==
    ASSUME OfflineShape, OfflineShape', Safe, Uncertain, NEW t \in Tab, NEW shown \in Form,
           form' = [form EXCEPT ![t] = shown], UNCHANGED <<queued, flushing, setting>>,
           \/ form[t].pc = "loading" /\ shown.pc = "empty"
           \/ /\ form[t].pc \in {"typed", "posting"} /\ shown.pc \in {"typed", "posting"}
              /\ shown.note = form[t].note
    PROVE  Safe'
<1>1. /\ form'[t] = shown /\ \A u \in Tab \ {t} : form'[u] = form[u]
  BY DEF OfflineShape
<1>2. /\ \A u \in Tab \ {t} : InForm(u)' = InForm(u)
      /\ InForm(t)' \subseteq InForm(t)
      /\ shown.pc # "empty" => InForm(t)' = InForm(t)
      /\ \A n \in InForm(t) : form[t].note = n
      /\ shown.pc = "empty" => InForm(t)' = {}
  BY <1>1, SamePlaces DEF InForm
<1>3. /\ \A u \in Tab : /\ Sending(u)' = Sending(u) /\ Was(u)' = Was(u) /\ Now(u)' = Now(u)
                        /\ Adding(u)' = Adding(u) /\ Removing(u)' = Removing(u)
      /\ queued' = queued
  BY SamePlaces
<1>4. Single'
  BY SameLists DEF Safe
<1>5. ASSUME NEW n \in Note PROVE Placed(n)' /\ StillThere(n)' /\ (n \in told'.doubt \/ Once(n)')
  <2>1. Placed(n) /\ StillThere(n) /\ (n \in told.doubt \/ Once(n))
    BY DEF Safe
  <2>2. Queueing(n)' <=> Queueing(n)
    BY <1>3 DEF Queueing
  <2>3. Placed(n)'
    BY <1>2, <1>3, <2>1, <2>2 DEF Placed, Uncertain
  <2>4. thread'[n] >= thread[n] /\ thread[n] \in Nat /\ thread'[n] \in Nat
    BY DEF Uncertain, OfflineShape
  <2>5. StillThere(n)'
    BY <1>1, <1>2, <1>3, <2>1, <2>4 DEF StillThere, Uncertain
  <2>6. ASSUME n \notin told'.doubt PROVE Once(n)'
    <3>1. thread'[n] = thread[n] /\ Once(n)
      BY <2>1, <2>6 DEF Uncertain
    <3>2. QED
      BY <1>1, <1>2, <1>3, <3>1 DEF Once
  <2>7. QED
    BY <2>3, <2>5, <2>6
<1>6. QED
  BY <1>4, <1>5 DEF Safe

\* A page queues the text of its form.
LEMMA PageQueues ==
    ASSUME OfflineShape, OfflineShape', Safe, Uncertain, NEW t \in Tab,
           Runs(t), form[t].pc # "empty", form' = [form EXCEPT ![t] = EmptyForm],
           Set(t, Append(queued, form[t].note)), UNCHANGED <<queued, flushing>>,
           form[t].pc = "posting" \/ form[t].note \in told'.doubt
    PROVE  Safe'
<1> DEFINE m == form[t].note
<1>1. m \in Note /\ m \in InForm(t) /\ m \in told.submitted /\ queued \in Seq(Note)
  BY TabIs, KnownIsSubmitted DEF InForm, OfflineShape
<1>2. ~Queueing(m) /\ m \notin Range(queued)
  BY <1>1 DEF Safe, Placed, Queueing
<1>3. /\ form'[t] = EmptyForm /\ \A u \in Tab \ {t} : form'[u] = form[u]
  BY DEF OfflineShape
<1>4. /\ InForm(t)' = {} /\ InForm(t) = {m}
      /\ \A u \in Tab \ {t} : InForm(u)' = InForm(u)
  BY <1>3, SamePlaces DEF InForm, EmptyForm
<1>5. Append(queued, m) \in Seq(Note) /\ Range(Append(queued, m)) = Range(queued) \cup {m}
  BY <1>1, RangeAppend, AppendProperties
<1>6. /\ ~Runs(t)' /\ setting'[t][1].was = queued /\ setting'[t][1].now = Append(queued, m)
      /\ \A u \in Tab \ {t} : setting'[u] = setting[u]
  BY <1>5, SetIs
<1>7. /\ Was(t) = {} /\ Now(t) = {} /\ Was(t)' = Range(queued)
      /\ Now(t)' = Range(queued) \cup {m} /\ Adding(t)' = {m} /\ Removing(t)' = {}
      /\ Adding(t) = {} /\ Removing(t) = {}
  BY <1>2, <1>5, <1>6 DEF Was, Now, Adding, Removing
<1>8. /\ \A u \in Tab : Sending(u)' = Sending(u)
      /\ \A u \in Tab \ {t} : /\ Was(u)' = Was(u) /\ Now(u)' = Now(u)
                              /\ Adding(u)' = Adding(u) /\ Removing(u)' = Removing(u)
  BY <1>6, SamePlaces
<1>9. Single'
  <2>1. IsInjective(Append(queued, m))
    BY <1>1, <1>2, AppendSingle DEF Safe, Single
  <2>2. \A u \in Tab \ {t} : Runs(u)' = Runs(u)
    BY <1>6, SamePlaces
  <2>3. QED
    BY <1>6, <2>1, <2>2 DEF Single, Safe
<1> HIDE DEF m
<1>10. ASSUME NEW n \in Note PROVE Placed(n)' /\ StillThere(n)' /\ (n \in told'.doubt \/ Once(n)')
  <2>1. Placed(n) /\ StillThere(n) /\ (n \in told.doubt \/ Once(n))
    BY DEF Safe
  <2>2. Queueing(n)' <=> Queueing(n)
    BY <1>7, <1>8 DEF Queueing
  <2>3. Placed(n)'
    BY <1>1, <1>2, <1>4, <1>7, <1>8, <2>1, <2>2 DEF Placed, Uncertain
  <2>4. thread'[n] >= thread[n] /\ thread[n] \in Nat /\ thread'[n] \in Nat
    BY DEF Uncertain, OfflineShape
  <2>5. form'[t].pc = "empty"
    BY <1>3 DEF EmptyForm
  <2>6. StillThere(n)'
    BY <1>3, <1>4, <1>7, <1>8, <2>1, <2>4, <2>5 DEF StillThere, Uncertain
  <2>7. ASSUME n \notin told'.doubt PROVE Once(n)'
    <3>1. thread'[n] = thread[n] /\ Once(n)
      BY <2>1, <2>7 DEF Uncertain
    <3>2. n = m => thread[n] = 0
      BY <1>1, <2>7, <3>1 DEF Once, m
    <3>3. QED
      BY <1>3, <1>4, <1>7, <1>8, <3>1, <3>2 DEF Once
  <2>8. QED
    BY <2>3, <2>6, <2>7
<1>11. QED
  BY <1>9, <1>10 DEF Safe

\* A change of the storage is written, over what was read.
LEMMA WriteIsSafe ==
    ASSUME OfflineShape, OfflineShape', Safe, NEW t \in Tab, SetItem(t), ~told'.raced
    PROVE  Safe'
<1>1. queued = setting[t][1].was
  BY DEF SetItem, OfflineShape, Told
<1>2. ~Runs(t) /\ setting' = [setting EXCEPT ![t] = <<>>] /\ queued' = setting[t][1].now
      /\ UNCHANGED <<form, flushing, thread>>
  BY DEF SetItem
<1>3. /\ Runs(t)' /\ \A u \in Tab \ {t} : setting'[u] = setting[u]
  BY <1>2 DEF OfflineShape, Runs
<1>4. /\ Was(t) = Range(queued) /\ Now(t) = Range(queued)' /\ Was(t)' = {} /\ Now(t)' = {}
      /\ Adding(t)' = {} /\ Removing(t)' = {}
      /\ Adding(t) = Range(queued)' \ Range(queued) /\ Removing(t) = Range(queued) \ Range(queued)'
  BY <1>1, <1>2, <1>3 DEF Was, Now, Adding, Removing
<1>5. /\ \A u \in Tab : Sending(u)' = Sending(u) /\ InForm(u)' = InForm(u)
      /\ \A u \in Tab \ {t} : /\ Was(u)' = Was(u) /\ Now(u)' = Now(u)
                              /\ Adding(u)' = Adding(u) /\ Removing(u)' = Removing(u)
  BY <1>2, <1>3, SamePlaces
<1>6. Single'
  <2>1. \A u \in Tab \ {t} : Runs(u)' = Runs(u)
    BY <1>3, SamePlaces
  <2>2. QED
    BY <1>2, <1>3, <2>1 DEF Single, Safe
<1>7. /\ told'.submitted = told.submitted /\ told'.closed = told.closed
      /\ told'.doubt = told.doubt
  BY DEF SetItem, OfflineShape, Told
<1>8. ASSUME NEW n \in Note PROVE Placed(n)' /\ StillThere(n)' /\ (n \in told'.doubt \/ Once(n)')
  <2>1. Placed(n) /\ StillThere(n) /\ (n \in told.doubt \/ Once(n)) /\ thread'[n] = thread[n]
    BY <1>2 DEF Safe
  <2>2. Queueing(n)' => Queueing(n) \/ n \in Adding(t)
    BY <1>4, <1>5 DEF Queueing
  <2>3. Placed(n)'
    BY <1>2, <1>4, <1>5, <1>7, <2>1, <2>2 DEF Placed
  <2>4. StillThere(n)'
    BY <1>2, <1>4, <1>5, <1>7, <2>1 DEF StillThere
  <2>5. ASSUME n \notin told'.doubt PROVE Once(n)'
    <3>1. Once(n)
      BY <1>7, <2>1, <2>5
    <3>2. ASSUME thread'[n] = 1, n \in Range(queued)' PROVE \E u \in Tab : n \in Removing(u)'
      <4>1. n \in Range(queued)
        BY <1>4, <2>1, <3>1, <3>2 DEF Once
      <4>2. PICK u \in Tab : n \in Removing(u)
        BY <2>1, <3>1, <3>2, <4>1 DEF Once
      <4>3. u # t
        BY <1>4, <3>2, <4>2
      <4>4. QED
        BY <1>5, <4>2, <4>3
    <3>3. QED
      BY <1>2, <1>4, <1>5, <2>1, <3>1, <3>2 DEF Once
  <2>6. QED
    BY <2>3, <2>4, <2>5
<1>9. QED
  BY <1>6, <1>8 DEF Safe

\* A text is submitted for the first time.
LEMMA SubmitIsSafe ==
    ASSUME OfflineShape, OfflineShape', Safe, NEW t \in Tab, Submit(t)
    PROVE  Safe'
<1>1. PICK m \in Note \ told.submitted :
        /\ form' = [form EXCEPT ![t] = [pc |-> "posting", note |-> m]]
        /\ told' = [told EXCEPT !.submitted = @ \cup {m}]
  BY DEF Submit
<1>2. /\ told'.submitted = told.submitted \cup {m} /\ told'.closed = told.closed
      /\ told'.doubt = told.doubt
  BY <1>1 DEF OfflineShape, Told
<1>3. /\ form'[t].pc = "posting" /\ form'[t].note = m /\ form[t].pc = "empty"
      /\ \A u \in Tab \ {t} : form'[u] = form[u]
  BY <1>1 DEF OfflineShape, Submit
<1>4. /\ InForm(t)' = {m} /\ InForm(t) = {}
      /\ \A u \in Tab \ {t} : InForm(u)' = InForm(u)
  BY <1>3, SamePlaces DEF InForm
<1>5. /\ \A u \in Tab : /\ Sending(u)' = Sending(u) /\ Was(u)' = Was(u) /\ Now(u)' = Now(u)
                        /\ Adding(u)' = Adding(u) /\ Removing(u)' = Removing(u)
      /\ queued' = queued /\ flushing' = flushing /\ setting' = setting /\ thread' = thread
  <2>1. queued' = queued /\ flushing' = flushing /\ setting' = setting /\ thread' = thread
    BY DEF Submit
  <2>2. QED
    BY <2>1, SamePlaces
<1>6. Single'
  BY <1>5, SameLists DEF Safe
<1>7. ASSUME NEW n \in Note PROVE Placed(n)' /\ StillThere(n)' /\ (n \in told'.doubt \/ Once(n)')
  <2>1. Placed(n) /\ StillThere(n) /\ (n \in told.doubt \/ Once(n))
    BY DEF Safe
  <2>2. Queueing(n)' <=> Queueing(n)
    BY <1>5 DEF Queueing
  <2>3. n = m => thread[n] = 0 /\ ~Queueing(n)
                 /\ \A u \in Tab : n \notin InForm(u) \cup Adding(u)
    BY <1>1, <2>1 DEF Placed
  <2>4. Placed(n)'
    BY <1>2, <1>4, <1>5, <2>1, <2>2, <2>3 DEF Placed
  <2>5. StillThere(n)'
    BY <1>2, <1>3, <1>4, <1>5, <2>1 DEF StillThere
  <2>6. ASSUME n \notin told'.doubt PROVE Once(n)'
    <3>1. Once(n)
      BY <1>2, <2>1, <2>6
    <3>2. QED
      BY <1>3, <1>4, <1>5, <2>3, <3>1 DEF Once
  <2>7. QED
    BY <2>4, <2>5, <2>6
<1>8. QED
  BY <1>6, <1>7 DEF Safe

\* A comment is created, and the page knows.
LEMMA PostedIsSafe ==
    ASSUME OfflineShape, OfflineShape', Safe, NEW t \in Tab, Posted(t)
    PROVE  Safe'
<1> DEFINE m == form[t].note
<1>1. /\ form[t].pc = "posting" /\ m \in Note /\ m \in told.submitted
      /\ form' = [form EXCEPT ![t] = [form[t] EXCEPT !.pc = "loading"]]
      /\ UNCHANGED <<queued, flushing, setting, told>>
  BY KnownIsSubmitted DEF Posted
<1>2. /\ thread'[m] = thread[m] + 1 /\ \A n \in Note \ {m} : thread'[n] = thread[n]
  BY <1>1, CommentIs DEF Posted
<1>3. /\ form'[t].pc = "loading" /\ form'[t].note = m
      /\ \A u \in Tab \ {t} : form'[u] = form[u]
  BY <1>1, TabIs DEF OfflineShape
<1>4. /\ InForm(t)' = {m} /\ InForm(t) = {m}
      /\ \A u \in Tab \ {t} : InForm(u)' = InForm(u)
  BY <1>1, <1>3, SamePlaces DEF InForm
<1>5. \A u \in Tab : /\ Sending(u)' = Sending(u) /\ Was(u)' = Was(u) /\ Now(u)' = Now(u)
                     /\ Adding(u)' = Adding(u) /\ Removing(u)' = Removing(u)
  BY <1>1, SamePlaces
<1>6. Single'
  BY <1>1, SameLists DEF Safe
<1> HIDE DEF m
<1>7. ASSUME NEW n \in Note PROVE Placed(n)' /\ StillThere(n)' /\ (n \in told'.doubt \/ Once(n)')
  <2>1. Placed(n) /\ StillThere(n) /\ (n \in told.doubt \/ Once(n))
    BY DEF Safe
  <2>2. Queueing(n)' <=> Queueing(n)
    BY <1>1, <1>5 DEF Queueing
  <2>3. thread[n] \in Nat /\ (n # m => thread'[n] = thread[n])
        /\ (n = m => thread'[n] = thread[n] + 1)
    BY <1>2 DEF OfflineShape
  <2>4. Placed(n)'
    BY <1>1, <1>4, <1>5, <2>1, <2>2, <2>3 DEF Placed
  <2>5. StillThere(n)'
    BY <1>1, <1>3, <1>4, <1>5, <2>1, <2>3 DEF StillThere
  <2>6. ASSUME n \notin told'.doubt PROVE Once(n)'
    <3>1. Once(n)
      BY <1>1, <2>1, <2>6
    <3>2. CASE n = m
      <4>1. thread[n] = 0 /\ thread'[n] = 1
        BY <1>1, <1>4, <2>3, <3>1, <3>2 DEF Once
      <4>2. ~Queueing(n) /\ \A u \in Tab : n \notin Adding(u) /\ (n \in InForm(u) => u = t)
        BY <1>4, <2>1, <3>2 DEF Placed
      <4>3. QED
        BY <1>1, <1>3, <1>4, <1>5, <4>1, <4>2 DEF Once, Queueing
    <3>3. CASE n # m
      BY <1>1, <1>3, <1>4, <1>5, <2>3, <3>1, <3>3 DEF Once
    <3>4. QED
      BY <3>2, <3>3
  <2>7. QED
    BY <2>4, <2>5, <2>6
<1>8. QED
  BY <1>6, <1>7 DEF Safe

\* A loop begins with what is in the queue.
LEMMA FlushIsSafe ==
    ASSUME OfflineShape, OfflineShape', Safe, NEW t \in Tab, Flush(t)
    PROVE  Safe'
<1>1. /\ Runs(t) /\ flushing[t] = <<>> /\ flushing' = [flushing EXCEPT ![t] = queued]
      /\ UNCHANGED <<queued, form, setting, thread>>
  BY DEF Flush
<1>2. /\ told'.submitted = told.submitted /\ told'.closed = told.closed
      /\ told'.doubt = told.doubt \cup
            (ToSet(queued) \cap UNION {SentBy(u) : u \in Tab \ {t}})
  BY DEF Flush, OfflineShape, Told
<1>3. flushing'[t] = queued /\ \A u \in Tab \ {t} : flushing'[u] = flushing[u]
  BY <1>1 DEF OfflineShape
<1>4. /\ Sending(t)' = Range(queued) /\ Sending(t) = {}
      /\ Removing(t) = {}
      /\ \A u \in Tab \ {t} : Sending(u)' = Sending(u)
  BY <1>1, <1>3, SamePlaces, RangeOfNone DEF Sending, Removing, Was
<1>5. /\ \A u \in Tab : /\ InForm(u)' = InForm(u) /\ Was(u)' = Was(u) /\ Now(u)' = Now(u)
                        /\ Adding(u)' = Adding(u) /\ Removing(u)' = Removing(u)
                        /\ Runs(u)' = Runs(u)
  BY <1>1, SamePlaces
<1>6. Single'
  BY <1>1, <1>3, <1>5 DEF Single, Safe
<1>7. ASSUME NEW n \in Range(queued), n \notin told'.doubt, NEW u \in Tab \ {t}
      PROVE  n \notin Sending(u) \cup Removing(u)
  BY <1>2, <1>7, SentByIs DEF ToSet, Range
<1>8. ASSUME NEW n \in Note PROVE Placed(n)' /\ StillThere(n)' /\ (n \in told'.doubt \/ Once(n)')
  <2>1. Placed(n) /\ StillThere(n) /\ (n \in told.doubt \/ Once(n)) /\ thread'[n] = thread[n]
    BY <1>1 DEF Safe
  <2>2. Queueing(n)' <=> Queueing(n)
    BY <1>1, <1>4, <1>5 DEF Queueing
  <2>3. Placed(n)'
    BY <1>1, <1>2, <1>5, <2>1, <2>2 DEF Placed
  <2>4. StillThere(n)'
    BY <1>1, <1>2, <1>5, <2>1 DEF StillThere
  <2>5. ASSUME n \notin told'.doubt PROVE Once(n)'
    <3>1. Once(n) /\ thread[n] \in Nat
      BY <1>2, <2>1, <2>5 DEF OfflineShape
    <3>2. n \in Range(queued) => thread[n] = 0 /\ \A u \in Tab \ {t} : n \notin Sending(u)
      BY <1>4, <1>7, <2>5, <3>1 DEF Once
    <3>3. QED
      BY <1>1, <1>4, <1>5, <2>1, <3>1, <3>2 DEF Once
  <2>6. QED
    BY <2>3, <2>4, <2>5
<1>9. QED
  BY <1>6, <1>8 DEF Safe

\* An entry was sent, and is being removed.
LEMMA SentIsSafe ==
    ASSUME OfflineShape, OfflineShape', Safe, NEW t \in Tab, Sent(t)
    PROVE  Safe'
<1> DEFINE m == Head(flushing[t])
           kept == Without(queued, m)
<1>1. /\ Runs(t) /\ flushing[t] # <<>> /\ flushing[t] \in Seq(Note)
      /\ flushing' = [flushing EXCEPT ![t] = Tail(flushing[t])]
      /\ Set(t, kept) /\ UNCHANGED <<queued, form, told>>
  BY TabIs DEF Sent, removeQueued
<1>2. m \in Note /\ m \in told.submitted /\ m \in Sending(t)
  BY <1>1, TabIs, KnownIsSubmitted
<1>3. /\ thread'[m] = thread[m] + 1 /\ \A n \in Note \ {m} : thread'[n] = thread[n]
  BY <1>2, CommentIs DEF Sent
<1>4. flushing'[t] = Tail(flushing[t]) /\ \A u \in Tab \ {t} : flushing'[u] = flushing[u]
  BY <1>1 DEF OfflineShape
<1>5. IsInjective(Tail(flushing[t])) /\ m \notin Range(Tail(flushing[t]))
  BY <1>1, TailSingle DEF Safe, Single
<1>6. /\ Sending(t) = {m} \cup Sending(t)' /\ m \notin Sending(t)'
      /\ \A u \in Tab \ {t} : Sending(u)' = Sending(u)
  BY <1>1, <1>4, <1>5, SamePlaces, RangeHeadTail DEF Sending
<1>7. /\ kept \in Seq(Note) /\ Range(kept) = Range(queued) \ {m} /\ IsInjective(kept)
  BY WithoutIs DEF OfflineShape, Safe, Single
<1> HIDE DEF kept
<1>8. /\ ~Runs(t)' /\ setting'[t][1].was = queued /\ setting'[t][1].now = kept
      /\ \A u \in Tab \ {t} : setting'[u] = setting[u]
  BY <1>1, <1>7, SetIs
<1>9. /\ Was(t) = {} /\ Now(t) = {} /\ Was(t)' = Range(queued)
      /\ Now(t)' = Range(queued) \ {m} /\ Adding(t)' = {}
      /\ Removing(t)' = Range(queued) \cap {m} /\ Adding(t) = {} /\ Removing(t) = {}
  BY <1>1, <1>7, <1>8 DEF Was, Now, Adding, Removing
<1>10. /\ \A u \in Tab : InForm(u)' = InForm(u)
       /\ \A u \in Tab \ {t} : /\ Was(u)' = Was(u) /\ Now(u)' = Now(u)
                               /\ Adding(u)' = Adding(u) /\ Removing(u)' = Removing(u)
                               /\ Runs(u)' = Runs(u)
  BY <1>1, <1>8, SamePlaces
<1>11. Single'
  BY <1>1, <1>4, <1>5, <1>7, <1>8, <1>10 DEF Single, Safe
<1> HIDE DEF m
<1>12. ASSUME NEW n \in Note PROVE Placed(n)' /\ StillThere(n)' /\ (n \in told'.doubt \/ Once(n)')
  <2>1. Placed(n) /\ StillThere(n) /\ (n \in told.doubt \/ Once(n))
    BY DEF Safe
  <2>2. Queueing(n)' => Queueing(n)
    BY <1>1, <1>6, <1>9, <1>10 DEF Queueing
  <2>3. thread[n] \in Nat /\ (n # m => thread'[n] = thread[n])
        /\ (n = m => thread'[n] = thread[n] + 1)
    BY <1>3 DEF OfflineShape
  <2>4. Placed(n)'
    BY <1>1, <1>2, <1>9, <1>10, <2>1, <2>2, <2>3 DEF Placed
  <2>5. StillThere(n)'
    BY <1>1, <1>9, <1>10, <2>1, <2>3 DEF StillThere
  <2>6. ASSUME n \notin told'.doubt PROVE Once(n)'
    <3>1. Once(n)
      BY <1>1, <2>1, <2>6
    <3>2. CASE n = m
      <4>1. thread[n] = 0 /\ thread'[n] = 1 /\ \A u \in Tab \ {t} : n \notin Sending(u)
        BY <1>2, <2>3, <3>1, <3>2 DEF Once
      <4>2. /\ \A u \in Tab : n \notin InForm(u) \cup Adding(u)
        BY <1>2, <2>1, <3>2 DEF Placed, Queueing
      <4>3. n \in Range(queued)' => n \in Removing(t)'
        BY <1>1, <1>9, <3>2
      <4>4. QED
        BY <1>1, <1>6, <1>9, <1>10, <3>2, <4>1, <4>2, <4>3 DEF Once
    <3>3. CASE n # m
      BY <1>1, <1>6, <1>9, <1>10, <2>3, <3>1, <3>3 DEF Once
    <3>4. QED
      BY <3>2, <3>3
  <2>7. QED
    BY <2>4, <2>5, <2>6
<1>13. QED
  BY <1>11, <1>12 DEF Safe

\* The loop ends with an error.
LEMMA SendFailsIsSafe ==
    ASSUME OfflineShape, OfflineShape', Safe, NEW t \in Tab, SendFails(t)
    PROVE  Safe'
<1>1. /\ Uncertain /\ flushing' = [flushing EXCEPT ![t] = <<>>]
      /\ UNCHANGED <<queued, form, setting>>
  BY TabIs, KnownIsSubmitted, UnansweredIsUncertain DEF SendFails
<1>2. flushing'[t] = <<>> /\ \A u \in Tab \ {t} : flushing'[u] = flushing[u]
  BY <1>1 DEF OfflineShape
<1>3. Sending(t)' = {} /\ \A u \in Tab \ {t} : Sending(u)' = Sending(u)
  BY <1>2, SamePlaces, RangeOfNone DEF Sending
<1>4. \A u \in Tab : /\ InForm(u)' = InForm(u) /\ Was(u)' = Was(u) /\ Now(u)' = Now(u)
                     /\ Adding(u)' = Adding(u) /\ Removing(u)' = Removing(u)
                     /\ Runs(u)' = Runs(u)
  BY <1>1, SamePlaces
<1>5. IsInjective(<<>>)
  BY DEF IsInjective
<1>6. Single'
  BY <1>1, <1>2, <1>4, <1>5 DEF Single, Safe
<1>7. ASSUME NEW n \in Note PROVE Placed(n)' /\ StillThere(n)' /\ (n \in told'.doubt \/ Once(n)')
  <2>1. Placed(n) /\ StillThere(n) /\ (n \in told.doubt \/ Once(n))
    BY DEF Safe
  <2>2. Queueing(n)' => Queueing(n)
    BY <1>1, <1>3, <1>4 DEF Queueing
  <2>3. thread'[n] >= thread[n] /\ thread[n] \in Nat /\ thread'[n] \in Nat
    BY <1>1 DEF Uncertain, OfflineShape
  <2>4. Placed(n)'
    BY <1>1, <1>4, <2>1, <2>2 DEF Placed, Uncertain
  <2>5. StillThere(n)'
    BY <1>1, <1>4, <2>1, <2>3 DEF StillThere, Uncertain
  <2>6. ASSUME n \notin told'.doubt PROVE Once(n)'
    <3>1. thread'[n] = thread[n] /\ Once(n)
      BY <1>1, <2>1, <2>6 DEF Uncertain
    <3>2. QED
      BY <1>1, <1>3, <1>4, <3>1 DEF Once
  <2>7. QED
    BY <2>4, <2>5, <2>6
<1>8. QED
  BY <1>6, <1>7 DEF Safe

\* A page is closed, with what was in flight.
LEMMA CloseIsSafe ==
    ASSUME OfflineShape, OfflineShape', Safe, NEW t \in Tab, ClosePage(t)
    PROVE  Safe'
<1>1. /\ form' = [form EXCEPT ![t] = EmptyForm] /\ flushing' = [flushing EXCEPT ![t] = <<>>]
      /\ setting' = [setting EXCEPT ![t] = <<>>] /\ queued' = queued
  BY DEF ClosePage
<1>2. /\ told'.submitted = told.submitted
      /\ told'.doubt = told.doubt \cup Sending(t) \cup Removing(t)
      /\ told'.closed = told.closed \cup InForm(t) \cup Adding(t)
  BY CloseIs
<1>3. /\ form'[t].pc = "empty" /\ flushing'[t] = <<>> /\ setting'[t] = <<>>
      /\ \A u \in Tab \ {t} : /\ form'[u] = form[u] /\ flushing'[u] = flushing[u]
                              /\ setting'[u] = setting[u]
  BY <1>1 DEF OfflineShape, EmptyForm
<1>4. /\ InForm(t)' = {} /\ Sending(t)' = {} /\ Was(t)' = {} /\ Now(t)' = {}
      /\ Adding(t)' = {} /\ Removing(t)' = {} /\ Runs(t)'
  BY <1>3, RangeOfNone DEF InForm, Sending, Was, Now, Adding, Removing, Runs
<1>5. \A u \in Tab \ {t} :
         /\ InForm(u)' = InForm(u) /\ Sending(u)' = Sending(u)
         /\ Was(u)' = Was(u) /\ Now(u)' = Now(u) /\ Adding(u)' = Adding(u)
         /\ Removing(u)' = Removing(u) /\ Runs(u)' = Runs(u)
  BY <1>3, SamePlaces
<1>6. IsInjective(<<>>)
  BY DEF IsInjective
<1>7. Single'
  BY <1>1, <1>3, <1>4, <1>5, <1>6 DEF Single, Safe
<1>8. ASSUME NEW n \in Note
      PROVE  /\ thread'[n] \in Nat /\ thread[n] \in Nat /\ thread'[n] >= thread[n]
             /\ n \notin Sending(t) => thread'[n] = thread[n]
  <2>1. CASE UNCHANGED thread
    BY <2>1 DEF OfflineShape
  <2>2. CASE flushing[t] # <<>> /\ create_comment(Head(flushing[t]))
    <3>1. Head(flushing[t]) \in Note \cap Sending(t)
      BY <2>2, TabIs, KnownIsSubmitted
    <3>2. QED
      BY <2>2, <3>1, CommentIs DEF OfflineShape
  <2>3. QED
    BY <2>1, <2>2 DEF ClosePage
<1>9. ASSUME NEW n \in Note PROVE Placed(n)' /\ StillThere(n)' /\ (n \in told'.doubt \/ Once(n)')
  <2>1. Placed(n) /\ StillThere(n) /\ (n \in told.doubt \/ Once(n))
    BY DEF Safe
  <2>2. Queueing(n)' => Queueing(n)
    BY <1>1, <1>4, <1>5 DEF Queueing
  <2>3. n \notin told.submitted => n \notin Sending(t)
    BY <2>1 DEF Placed, Queueing
  <2>4. Placed(n)'
    BY <1>2, <1>4, <1>5, <1>8, <2>1, <2>2, <2>3 DEF Placed
  <2>5. n \in Now(t) => n \in Adding(t) \/ n \in Was(t)
    BY DEF Adding
  <2>6. StillThere(n)'
    BY <1>1, <1>2, <1>3, <1>4, <1>5, <1>8, <2>1, <2>5 DEF StillThere
  <2>7. ASSUME n \notin told'.doubt PROVE Once(n)'
    <3>1. thread'[n] = thread[n] /\ Once(n) /\ n \notin Removing(t)
      BY <1>2, <1>8, <2>1, <2>7
    <3>2. QED
      BY <1>1, <1>3, <1>4, <1>5, <3>1 DEF Once
  <2>8. QED
    BY <2>4, <2>6, <2>7
<1>10. QED
  BY <1>7, <1>9 DEF Safe

LEMMA StepIsSafe ==
    ASSUME OfflineShape, OfflineShape', Safe, OfflineNext, ~told'.raced
    PROVE  Safe'
<1>1. ASSUME NEW t \in Tab, SubmitAgain(t) PROVE Safe'
  <2> DEFINE shown == [form[t] EXCEPT !.pc = "posting"]
  <2>1. /\ form[t].pc = "typed" /\ form' = [form EXCEPT ![t] = shown]
        /\ UNCHANGED <<queued, flushing, setting, thread, told>>
    BY <1>1 DEF SubmitAgain
  <2>2. shown \in Form /\ shown.pc = "posting" /\ shown.note = form[t].note
    BY <2>1, TabIs DEF Form
  <2>3. Uncertain
    BY <2>1 DEF Uncertain, OfflineShape
  <2> HIDE DEF shown
  <2>4. QED
    BY <2>1, <2>2, <2>3, PageShows
<1>2. ASSUME NEW t \in Tab, PostFails(t) PROVE Safe'
  <2> DEFINE shown == [form[t] EXCEPT !.pc = "typed"]
  <2>1. /\ Runs(t) /\ form[t].pc = "posting" /\ Catch(t, shown) /\ Unanswered(form[t].note)
        /\ UNCHANGED <<queued, flushing>>
    BY <1>2 DEF PostFails
  <2>2. shown \in Form /\ shown.pc = "typed" /\ shown.note = form[t].note
    BY <2>1, TabIs DEF Form
  <2>3. Uncertain
    BY <2>1, KnownIsSubmitted, UnansweredIsUncertain
  <2> HIDE DEF shown
  <2>4. CASE onLine
    <3>1. form' = [form EXCEPT ![t] = shown] /\ UNCHANGED setting
      BY <2>1, <2>4 DEF Catch
    <3>2. QED
      BY <2>1, <2>2, <2>3, <3>1, PageShows
  <2>5. CASE ~onLine
    <3>1. form' = [form EXCEPT ![t] = EmptyForm] /\ Set(t, Append(queued, form[t].note))
      BY <2>1, <2>5 DEF Catch, queueComment
    <3>2. QED
      BY <2>1, <2>3, <3>1, PageQueues
  <2>6. QED
    BY <2>4, <2>5
<1>3. EmptyForm \in Form /\ EmptyForm.pc = "empty"
  BY DEF EmptyForm, Form
<1>4. ASSUME NEW t \in Tab, Loaded(t) PROVE Safe'
  <2>1. /\ form[t].pc = "loading" /\ form' = [form EXCEPT ![t] = EmptyForm]
        /\ UNCHANGED <<queued, flushing, setting, thread, told>>
    BY <1>4 DEF Loaded
  <2>2. Uncertain
    BY <2>1 DEF Uncertain, OfflineShape
  <2>3. QED
    BY <1>3, <2>1, <2>2, PageShows
<1>5. ASSUME NEW t \in Tab, LoadFails(t) PROVE Safe'
  <2>1. /\ Runs(t) /\ form[t].pc = "loading" /\ Catch(t, EmptyForm)
        /\ UNCHANGED <<queued, flushing, thread>>
    BY <1>5 DEF LoadFails
  <2>2. CASE onLine
    <3>1. form' = [form EXCEPT ![t] = EmptyForm] /\ UNCHANGED <<setting, told>>
      BY <1>5, <2>1, <2>2 DEF Catch, LoadFails
    <3>2. Uncertain
      BY <2>1, <3>1 DEF Uncertain, OfflineShape
    <3>3. QED
      BY <1>3, <2>1, <3>1, <3>2, PageShows
  <2>3. CASE ~onLine
    <3>1. form' = [form EXCEPT ![t] = EmptyForm] /\ Set(t, Append(queued, form[t].note))
      BY <2>1, <2>3 DEF Catch, queueComment
    <3>2. told' = [told EXCEPT !.doubt = @ \cup {form[t].note}] /\ told \in Told
      BY <1>5, <2>3 DEF LoadFails, OfflineShape
    <3>3. /\ told'.submitted = told.submitted /\ told'.closed = told.closed
          /\ told'.doubt = told.doubt \cup {form[t].note}
      BY <3>2 DEF Told
    <3>4. Uncertain
      BY <2>1, <3>3 DEF Uncertain, OfflineShape
    <3>5. QED
      BY <2>1, <3>1, <3>3, <3>4, PageQueues
  <2>4. QED
    BY <2>2, <2>3
<1>6. CASE ConnectionChanges
  <2>1. /\ UNCHANGED <<queued, form, flushing, setting, thread, told>>
    BY <1>6 DEF ConnectionChanges
  <2>2. \A u \in Tab : /\ InForm(u)' = InForm(u) /\ Sending(u)' = Sending(u)
                       /\ Was(u)' = Was(u) /\ Now(u)' = Now(u) /\ Adding(u)' = Adding(u)
                       /\ Removing(u)' = Removing(u)
    BY <2>1, SamePlaces
  <2>3. \A n \in Note : Queueing(n)' <=> Queueing(n)
    BY <2>1, <2>2 DEF Queueing
  <2>4. Single'
    BY <2>1, SameLists DEF Safe
  <2>5. ASSUME NEW n \in Note PROVE Placed(n)' /\ StillThere(n)' /\ (n \in told'.doubt \/ Once(n)')
    <3>1. Placed(n) /\ StillThere(n) /\ (n \in told.doubt \/ Once(n))
      BY DEF Safe
    <3>2. Placed(n)'
      BY <2>1, <2>2, <2>3, <3>1 DEF Placed
    <3>3. StillThere(n)'
      BY <2>1, <2>2, <3>1 DEF StillThere
    <3>4. Once(n) => Once(n)'
      BY <2>1, <2>2 DEF Once
    <3>5. QED
      BY <2>1, <3>1, <3>2, <3>3, <3>4
  <2>6. QED
    BY <2>4, <2>5 DEF Safe
<1>7. QED
  BY <1>1, <1>2, <1>4, <1>5, <1>6, WriteIsSafe, SubmitIsSafe, PostedIsSafe, FlushIsSafe,
     SentIsSafe, SendFailsIsSafe, CloseIsSafe DEF OfflineNext

\* Where tabs overwrite each other, nothing is said, then or later.
LEMMA RacedStays ==
    ASSUME OfflineShape, OfflineNext, told.raced
    PROVE  told'.raced
<1>0. told \in Told
  BY DEF OfflineShape
<1>1. ASSUME NEW t \in Tab, SetItem(t) PROVE told'.raced
  BY <1>0, <1>1 DEF SetItem, Told
<1>2. ASSUME NEW t \in Tab, Submit(t) PROVE told'.raced
  BY <1>0, <1>2 DEF Submit, Told
<1>3. ASSUME NEW t \in Tab, PostFails(t) \/ SendFails(t) PROVE told'.raced
  BY <1>3, TabIs, UnansweredIs DEF PostFails, SendFails
<1>4. ASSUME NEW t \in Tab, LoadFails(t) PROVE told'.raced
  BY <1>0, <1>4 DEF LoadFails, Told
<1>5. ASSUME NEW t \in Tab, Flush(t) PROVE told'.raced
  BY <1>0, <1>5 DEF Flush, Told
<1>6. ASSUME NEW t \in Tab, ClosePage(t) PROVE told'.raced
  BY <1>6, CloseIs
<1>7. QED
  BY <1>1, <1>2, <1>3, <1>4, <1>5, <1>6
  DEF OfflineNext, SubmitAgain, Posted, Loaded, Sent, ConnectionChanges

\* NothingTypedIsLost, for any tabs, notes and accidents: as long as no tab
\* wrote over another's change of the queue, every note that was submitted is
\* posted, queued, on a page or was on a page that was closed, and is posted
\* once unless its fate was in doubt.
THEOREM NothingTypedIsEverLost == OfflineSpec => []NothingTypedIsLost
<1>1. OfflineInit => OfflineInv
  <2> SUFFICES ASSUME OfflineInit PROVE OfflineInv
    OBVIOUS
  <2>0. <<>> \in Seq(Note) /\ EmptyForm \in Form /\ EmptyForm.pc = "empty" /\ <<>> \in Slot
        /\ IsInjective(<<>>) /\ Range(<<>>) = {}
    BY EmptySeq, RangeOfNone DEF EmptyForm, Form, Slot, IsInjective
  <2>1. OfflineShape
    BY <2>0 DEF OfflineInit, OfflineShape, Told
  <2>2. /\ \A t \in Tab : /\ form[t].pc = "empty" /\ flushing[t] = <<>> /\ setting[t] = <<>>
        /\ told.submitted = {} /\ \A n \in Note : thread[n] = 0
        /\ queued = <<>>
    BY <2>0 DEF OfflineInit
  <2>3. \A t \in Tab : /\ InForm(t) = {} /\ Sending(t) = {} /\ Was(t) = {} /\ Now(t) = {}
                       /\ Runs(t)
    BY <2>0, <2>2 DEF InForm, Sending, Was, Now, Runs
  <2>4. Single
    BY <2>0, <2>2, <2>3 DEF Single
  <2>5. ASSUME NEW n \in Note PROVE Placed(n) /\ StillThere(n) /\ Once(n)
    <3>1. ~Queueing(n)
      BY <2>0, <2>2, <2>3 DEF Queueing
    <3>2. \A t \in Tab : Adding(t) = {} /\ Removing(t) = {}
      BY <2>3 DEF Adding, Removing
    <3>3. QED
      BY <2>0, <2>2, <2>3, <3>1, <3>2 DEF Placed, StillThere, Once
  <2>6. QED
    BY <2>1, <2>4, <2>5 DEF OfflineInv, Safe
<1>2. OfflineInv /\ [OfflineNext]_offlineVars => OfflineInv'
  <2> SUFFICES ASSUME OfflineInv, [OfflineNext]_offlineVars PROVE OfflineInv'
    OBVIOUS
  <2>1. CASE OfflineNext
    BY <2>1, ShapeIsKept, StepIsSafe, RacedStays DEF OfflineInv
  <2>2. CASE UNCHANGED offlineVars
    BY <2>2 DEF offlineVars, OfflineInv, OfflineShape, Safe, Single, Placed, StillThere, Once,
                Queueing, InForm, Sending, Was, Now, Adding, Removing, Runs
  <2>3. QED
    BY <2>1, <2>2
<1>3. OfflineInv => NothingTypedIsLost
  <2> SUFFICES ASSUME OfflineInv, ~told.raced, NEW n \in told.submitted
               PROVE  /\ thread[n] > 0 \/ n \in ToSet(queued) \/ InHand(n)
                         \/ n \in told.closed
                      /\ thread[n] <= 1 \/ n \in told.doubt
    BY DEF NothingTypedIsLost
  <2>1. n \in Note /\ Safe
    BY DEF OfflineInv, OfflineShape, Told
  <2>2. StillThere(n) /\ (n \in told.doubt \/ Once(n))
    BY <2>1 DEF Safe
  <2>3. ASSUME NEW t \in Tab, n \in InForm(t) \cup Now(t) PROVE InHand(n)
    BY <2>3 DEF InForm, Now, InHand, ToSet, Range
  <2>4. ToSet(queued) = Range(queued)
    BY DEF ToSet, Range
  <2>5. QED
    BY <2>2, <2>3, <2>4 DEF StillThere, Once
<1>4. QED
  BY <1>1, <1>2, <1>3, PTL DEF OfflineSpec

\* What the person has not submitted is nowhere: not queued, not in a form or
\* on its way, not counted as closed or in doubt, tabs that overwrite each
\* other's changes or not.
Whereabouts(t) == InForm(t) \cup Sending(t) \cup Was(t) \cup Now(t)

Known ==
    /\ \A t \in Tab : Whereabouts(t) \subseteq told.submitted
    /\ Range(queued) \cup told.closed \cup told.doubt \subseteq told.submitted
    /\ told.accidents <= MaxAccidents

\* A step of one tab that adds no other note.
LEMMA StaysKnown ==
    ASSUME OfflineShape, Known, NEW t \in Tab,
           \A u \in Tab \ {t} : /\ form'[u] = form[u] /\ flushing'[u] = flushing[u]
                                /\ setting'[u] = setting[u],
           told.submitted \subseteq told'.submitted,
           InForm(t)' \cup Sending(t)' \cup Was(t)' \cup Now(t)' \subseteq told'.submitted,
           Range(queued)' \subseteq told'.submitted,
           told'.closed \cup told'.doubt \subseteq told'.submitted,
           told'.accidents <= MaxAccidents
    PROVE  Known'
<1>1. ASSUME NEW u \in Tab, u # t PROVE Whereabouts(u)' = Whereabouts(u)
  <2>1. form'[u] = form[u] /\ flushing'[u] = flushing[u] /\ setting'[u] = setting[u]
    BY <1>1
  <2>2. QED
    BY <2>1 DEF Whereabouts, InForm, Sending, Was, Now, Runs
<1>2. \A u \in Tab : Whereabouts(u)' \subseteq told'.submitted
  BY <1>1 DEF Known, Whereabouts
<1>3. QED
  BY <1>2 DEF Known

\* A POST of which the page does not hear, as far as the history shows it.
LEMMA UnansweredIsKnown ==
    ASSUME OfflineShape, Known, NEW m \in told.submitted, Unanswered(m)
    PROVE  /\ told'.submitted = told.submitted
           /\ told'.closed \cup told'.doubt \subseteq told.submitted
           /\ told'.accidents <= MaxAccidents
<1>0. told \in Told
  BY DEF OfflineShape
<1>1. CASE UNCHANGED told
  BY <1>1 DEF Known
<1>2. CASE Accident /\ told' = [told EXCEPT !.accidents = @ + 1, !.doubt = @ \cup {m}]
  <2> DEFINE u == [told EXCEPT !.accidents = @ + 1]
  <2>1. /\ u \in Told /\ u.submitted = told.submitted /\ u.closed = told.closed
        /\ u.doubt = told.doubt /\ u.accidents = told.accidents + 1
    BY <1>0 DEF Told
  <2>2. told' = [u EXCEPT !.doubt = @ \cup {m}]
    BY <1>2
  <2> HIDE DEF u
  <2>3. /\ told'.submitted = told.submitted /\ told'.closed = told.closed
        /\ told'.doubt = told.doubt \cup {m} /\ told'.accidents = told.accidents + 1
    BY <2>1, <2>2 DEF Told
  <2>4. told.accidents + 1 <= MaxAccidents
    BY <1>0, <1>2, OfflineAssumption DEF Accident, Told
  <2>5. QED
    BY <2>3, <2>4 DEF Known
<1>3. QED
  BY <1>1, <1>2 DEF Unanswered

LEMMA CloseIsKnown ==
    ASSUME OfflineShape, NEW t \in Tab, ClosePage(t)
    PROVE  told'.accidents <= MaxAccidents
<1> DEFINE u == [told EXCEPT !.accidents = @ + 1]
           v == [u EXCEPT !.doubt = @ \cup SentBy(t)]
<1>1. told' = [v EXCEPT !.closed = @ \cup (IF form[t].pc = "empty" THEN {} ELSE {form[t].note})
                       \cup (IF Runs(t) THEN {}
                             ELSE ToSet(setting[t][1].now) \ ToSet(setting[t][1].was))]
  BY DEF ClosePage
<1>2. told \in Told
  BY DEF OfflineShape
<1>3. u \in Told /\ u.accidents = told.accidents + 1
  BY <1>2 DEF Told
<1> HIDE DEF u
<1>4. v.accidents = u.accidents /\ v \in Told
  BY <1>3, SentByIs DEF Told
<1> HIDE DEF v
<1>5. told'.accidents = v.accidents
  BY <1>1, <1>4 DEF Told
<1>6. told.accidents + 1 <= MaxAccidents
  BY <1>2, OfflineAssumption DEF ClosePage, Accident, Told
<1>7. QED
  BY <1>3, <1>4, <1>5, <1>6

LEMMA NextKnown ==
    ASSUME OfflineShape, OfflineShape', Known, OfflineNext
    PROVE  Known'
<1>0. ASSUME NEW t \in Tab
      PROVE  /\ InForm(t) \cup Sending(t) \cup Was(t) \cup Now(t) \subseteq told.submitted
             /\ SentBy(t) \cup Adding(t) \subseteq told.submitted
             /\ form[t].pc # "empty" => form[t].note \in told.submitted \cap Note
             /\ flushing[t] # <<>> => Head(flushing[t]) \in told.submitted \cap Note
  <2>1. InForm(t) \cup Sending(t) \cup Was(t) \cup Now(t) \subseteq told.submitted
    BY DEF Known, Whereabouts
  <2>2. flushing[t] # <<>> => Head(flushing[t]) \in Sending(t) /\ Head(flushing[t]) \in Note
    BY TabIs, RangeHeadTail DEF Sending
  <2>3. form[t].pc # "empty" => form[t].note \in InForm(t) /\ form[t].note \in Note
    BY TabIs DEF InForm
  <2>4. QED
    BY <2>1, <2>2, <2>3, SentByIs DEF Adding, Removing
<1>q. /\ Range(queued) \subseteq told.submitted /\ told.accidents <= MaxAccidents
      /\ told.closed \cup told.doubt \subseteq told.submitted
      /\ queued \in Seq(Note) /\ Range(<<>>) = {} /\ EmptyForm.pc = "empty"
  BY RangeOfNone DEF Known, OfflineShape, EmptyForm
<1>e. ASSUME NEW t \in Tab, NEW w, form' = [form EXCEPT ![t] = w]
      PROVE  /\ \A u \in Tab \ {t} : form'[u] = form[u]
             /\ InForm(t)' = IF w.pc = "empty" THEN {} ELSE {w.note}
  BY <1>e DEF OfflineShape, InForm
<1>w. ASSUME NEW t \in Tab, NEW entries \in Seq(Note), Set(t, entries)
      PROVE  /\ \A u \in Tab \ {t} : setting'[u] = setting[u]
             /\ Was(t)' = Range(queued) /\ Now(t)' = Range(entries)
  BY <1>w, SetIs DEF Was, Now
<1>s. ASSUME NEW t \in Tab, UNCHANGED setting
      PROVE  Was(t)' = Was(t) /\ Now(t)' = Now(t)
  BY <1>s DEF Was, Now, Runs
<1>f. ASSUME NEW t \in Tab, UNCHANGED flushing
      PROVE  Sending(t)' = Sending(t)
  BY <1>f DEF Sending
<1>1. ASSUME NEW t \in Tab, SetItem(t) PROVE Known'
  <2>1. /\ told'.submitted = told.submitted /\ told'.closed = told.closed
        /\ told'.doubt = told.doubt /\ told'.accidents = told.accidents
    BY <1>1 DEF SetItem, OfflineShape, Told
  <2>2. /\ Runs(t)' /\ \A u \in Tab \ {t} : setting'[u] = setting[u]
    BY <1>1 DEF SetItem, OfflineShape, Runs
  <2>3. Range(queued)' = Now(t) /\ Was(t)' = {} /\ Now(t)' = {}
    BY <1>1, <2>2 DEF SetItem, Was, Now
  <2>4. InForm(t)' = InForm(t) /\ Sending(t)' = Sending(t)
        /\ UNCHANGED <<form, flushing>>
    BY <1>1 DEF SetItem, InForm, Sending
  <2>5. QED
    BY <1>0, <1>q, <2>1, <2>2, <2>3, <2>4, StaysKnown
<1>2. ASSUME NEW t \in Tab, Submit(t) PROVE Known'
  <2>1. PICK n \in Note \ told.submitted :
          /\ form' = [form EXCEPT ![t] = [pc |-> "posting", note |-> n]]
          /\ told' = [told EXCEPT !.submitted = @ \cup {n}]
    BY <1>2 DEF Submit
  <2>2. /\ told'.submitted = told.submitted \cup {n} /\ told'.closed = told.closed
        /\ told'.doubt = told.doubt /\ told'.accidents = told.accidents
    BY <2>1 DEF OfflineShape, Told
  <2>3. InForm(t)' = {n} /\ \A u \in Tab \ {t} : form'[u] = form[u]
    <3> DEFINE typed == [pc |-> "posting", note |-> n]
    <3>1. typed.pc # "empty" /\ typed.note = n
      OBVIOUS
    <3>2. form' = [form EXCEPT ![t] = typed]
      BY <2>1
    <3> HIDE DEF typed
    <3>3. /\ \A u \in Tab \ {t} : form'[u] = form[u]
          /\ InForm(t)' = IF typed.pc = "empty" THEN {} ELSE {typed.note}
      BY <3>2, <1>e
    <3>4. QED
      BY <3>1, <3>3
  <2>4. UNCHANGED <<flushing, setting, queued>>
    BY <1>2 DEF Submit
  <2>5. /\ Was(t)' = Was(t) /\ Now(t)' = Now(t) /\ Sending(t)' = Sending(t)
        /\ Range(queued)' = Range(queued)
    BY <1>s, <1>f, <2>4
  <2>6. QED
    BY <1>0, <1>q, <2>2, <2>3, <2>4, <2>5, StaysKnown
<1>3. ASSUME NEW t \in Tab, SubmitAgain(t) \/ Posted(t) \/ Loaded(t) PROVE Known'
  <2>1. /\ UNCHANGED <<flushing, setting, queued, told>>
        /\ \/ form' = [form EXCEPT ![t].pc = "posting"] /\ form[t].pc # "empty"
           \/ form' = [form EXCEPT ![t].pc = "loading"] /\ form[t].pc # "empty"
           \/ form' = [form EXCEPT ![t] = EmptyForm]
    BY <1>3 DEF SubmitAgain, Posted, Loaded
  <2>2. form[t] \in Form /\ form \in [Tab -> Form]
    BY TabIs DEF OfflineShape
  <2>3. /\ InForm(t)' \subseteq InForm(t)
        /\ \A u \in Tab \ {t} : form'[u] = form[u]
    BY <1>q, <2>1, <2>2 DEF InForm, Form
  <2>4. /\ Was(t)' = Was(t) /\ Now(t)' = Now(t) /\ Sending(t)' = Sending(t)
        /\ Range(queued)' = Range(queued)
    BY <1>s, <1>f, <2>1
  <2>5. QED
    BY <1>0, <1>q, <2>1, <2>3, <2>4, StaysKnown
<1>4. ASSUME NEW t \in Tab, NEW shown \in Form, Catch(t, shown), form[t].pc # "empty",
             shown.pc = "empty" \/ shown.note = form[t].note
      PROVE  /\ \A u \in Tab \ {t} : form'[u] = form[u] /\ setting'[u] = setting[u]
             /\ InForm(t)' \cup Was(t)' \cup Now(t)' \subseteq told.submitted
  <2>1. CASE onLine
    <3>1. form' = [form EXCEPT ![t] = shown] /\ UNCHANGED setting
      BY <1>4, <2>1 DEF Catch
    <3>2. /\ InForm(t)' = IF shown.pc = "empty" THEN {} ELSE {shown.note}
          /\ \A u \in Tab \ {t} : form'[u] = form[u]
      BY <1>e, <3>1
    <3>3. InForm(t)' \subseteq told.submitted
      BY <1>0, <1>4, <3>2
    <3>4. Was(t)' \cup Now(t)' \subseteq told.submitted
      BY <1>0, <1>s, <3>1
    <3>5. QED
      BY <3>1, <3>2, <3>3, <3>4
  <2>2. CASE ~onLine
    <3>1. form' = [form EXCEPT ![t] = EmptyForm] /\ Set(t, Append(queued, form[t].note))
      BY <1>4, <2>2 DEF Catch, queueComment
    <3>2. InForm(t)' = {} /\ \A u \in Tab \ {t} : form'[u] = form[u]
      BY <1>q, <1>e, <3>1
    <3>3. /\ Append(queued, form[t].note) \in Seq(Note)
          /\ Range(Append(queued, form[t].note)) = Range(queued) \cup {form[t].note}
      BY <1>0, <1>4, <1>q, AppendProperties, RangeAppend
    <3>4. /\ \A u \in Tab \ {t} : setting'[u] = setting[u]
          /\ Was(t)' = Range(queued) /\ Now(t)' = Range(queued) \cup {form[t].note}
      BY <1>w, <3>1, <3>3
    <3>5. QED
      BY <1>0, <1>4, <1>q, <3>2, <3>4
  <2>3. QED
    BY <2>1, <2>2
<1>5. ASSUME NEW t \in Tab, PostFails(t) PROVE Known'
  <2>1. form[t].pc # "empty" /\ form[t].note \in told.submitted /\ form[t] \in Form
    BY <1>0, <1>5, TabIs DEF PostFails
  <2> DEFINE shown == [form[t] EXCEPT !.pc = "typed"]
  <2>2. shown \in Form /\ shown.note = form[t].note
    BY <2>1 DEF Form
  <2>3. Catch(t, shown) /\ UNCHANGED <<queued, flushing>> /\ Unanswered(form[t].note)
    BY <1>5 DEF PostFails
  <2> HIDE DEF shown
  <2>4. /\ \A u \in Tab \ {t} : form'[u] = form[u] /\ setting'[u] = setting[u]
        /\ InForm(t)' \cup Was(t)' \cup Now(t)' \subseteq told.submitted
    BY <1>4, <2>1, <2>2, <2>3
  <2>5. Sending(t)' = Sending(t) /\ Range(queued)' = Range(queued)
    BY <1>f, <2>3
  <2>6. /\ told'.submitted = told.submitted /\ told'.accidents <= MaxAccidents
        /\ told'.closed \cup told'.doubt \subseteq told.submitted
    BY <2>1, <2>3, UnansweredIsKnown
  <2>7. QED
    BY <1>0, <1>q, <2>3, <2>4, <2>5, <2>6, StaysKnown
<1>6. ASSUME NEW t \in Tab, LoadFails(t) PROVE Known'
  <2>1. form[t].pc # "empty" /\ form[t].note \in told.submitted /\ EmptyForm \in Form
    BY <1>0, <1>6 DEF LoadFails, EmptyForm, Form
  <2>2. Catch(t, EmptyForm) /\ UNCHANGED <<queued, flushing>>
    BY <1>6 DEF LoadFails
  <2>3. /\ \A u \in Tab \ {t} : form'[u] = form[u] /\ setting'[u] = setting[u]
        /\ InForm(t)' \cup Was(t)' \cup Now(t)' \subseteq told.submitted
    BY <1>4, <1>q, <2>1, <2>2
  <2>4. Sending(t)' = Sending(t) /\ Range(queued)' = Range(queued)
    BY <1>f, <2>2
  <2>5. /\ told'.submitted = told.submitted /\ told'.accidents = told.accidents
        /\ told'.closed = told.closed /\ told'.doubt \subseteq told.doubt \cup {form[t].note}
    BY <1>6 DEF LoadFails, OfflineShape, Told
  <2>6. QED
    BY <1>0, <1>q, <2>1, <2>2, <2>3, <2>4, <2>5, StaysKnown
<1>7. ASSUME NEW t \in Tab, Flush(t) PROVE Known'
  <2> DEFINE both == ToSet(queued) \cap UNION {SentBy(u) : u \in Tab \ {t}}
  <2>1. both \subseteq Range(queued)
    BY DEF ToSet, Range
  <2> HIDE DEF both
  <2>2. told' = [told EXCEPT !.doubt = @ \cup both]
    BY <1>7 DEF Flush, both
  <2>3. /\ told'.submitted = told.submitted /\ told'.accidents = told.accidents
        /\ told'.closed = told.closed /\ told'.doubt \subseteq told.doubt \cup Range(queued)
    BY <2>1, <2>2 DEF OfflineShape, Told
  <2>4. UNCHANGED <<form, setting, queued>> /\ flushing' = [flushing EXCEPT ![t] = queued]
    BY <1>7 DEF Flush
  <2>5. /\ Sending(t)' = Range(queued) /\ \A u \in Tab \ {t} : flushing'[u] = flushing[u]
    BY <2>4 DEF Sending, OfflineShape
  <2>6. /\ Was(t)' = Was(t) /\ Now(t)' = Now(t) /\ InForm(t)' = InForm(t)
        /\ Range(queued)' = Range(queued)
    BY <1>s, <2>4 DEF InForm
  <2>7. QED
    BY <1>0, <1>q, <2>3, <2>4, <2>5, <2>6, StaysKnown
<1>8. ASSUME NEW t \in Tab, Sent(t) PROVE Known'
  <2> DEFINE n == Head(flushing[t])
  <2>1. n \in Note /\ flushing[t] # <<>> /\ flushing[t] \in Seq(Note)
    BY <1>8, TabIs DEF Sent
  <2>2. Without(queued, n) \in Seq(Note) /\ Range(Without(queued, n)) \subseteq Range(queued)
    BY <1>q, WithoutIs
  <2>3. Set(t, Without(queued, n)) /\ UNCHANGED <<form, queued, told>>
        /\ flushing' = [flushing EXCEPT ![t] = Tail(flushing[t])]
    BY <1>8 DEF Sent, removeQueued, OfflineShape
  <2> HIDE DEF n
  <2>4. /\ \A u \in Tab \ {t} : setting'[u] = setting[u]
        /\ Was(t)' = Range(queued) /\ Now(t)' \subseteq Range(queued)
    BY <1>w, <2>2, <2>3
  <2>5. Range(Tail(flushing[t])) \subseteq Range(flushing[t])
    BY <2>1, RangeHeadTail
  <2>6. Sending(t)' \subseteq Sending(t) /\ \A u \in Tab \ {t} : flushing'[u] = flushing[u]
    BY <2>3, <2>5 DEF Sending, OfflineShape
  <2>7. InForm(t)' = InForm(t) /\ Range(queued)' = Range(queued)
    BY <2>3 DEF InForm
  <2>8. QED
    BY <1>0, <1>q, <2>3, <2>4, <2>6, <2>7, StaysKnown
<1>9. ASSUME NEW t \in Tab, SendFails(t) PROVE Known'
  <2>1. Head(flushing[t]) \in told.submitted /\ Unanswered(Head(flushing[t]))
    BY <1>0, <1>9 DEF SendFails
  <2>2. UNCHANGED <<form, queued, setting>> /\ flushing' = [flushing EXCEPT ![t] = <<>>]
    BY <1>9 DEF SendFails
  <2>3. Sending(t)' = {} /\ \A u \in Tab \ {t} : flushing'[u] = flushing[u]
    BY <1>q, <2>2 DEF Sending, OfflineShape
  <2>4. /\ told'.submitted = told.submitted /\ told'.accidents <= MaxAccidents
        /\ told'.closed \cup told'.doubt \subseteq told.submitted
    BY <2>1, UnansweredIsKnown
  <2>5. /\ Was(t)' = Was(t) /\ Now(t)' = Now(t) /\ InForm(t)' = InForm(t)
        /\ Range(queued)' = Range(queued)
    BY <1>s, <2>2 DEF InForm
  <2>6. QED
    BY <1>0, <1>q, <2>2, <2>3, <2>4, <2>5, StaysKnown
<1>10. ASSUME NEW t \in Tab, ClosePage(t) PROVE Known'
  <2>1. /\ form' = [form EXCEPT ![t] = EmptyForm] /\ flushing' = [flushing EXCEPT ![t] = <<>>]
        /\ setting' = [setting EXCEPT ![t] = <<>>] /\ UNCHANGED queued
    BY <1>10 DEF ClosePage
  <2>2. /\ InForm(t)' = {} /\ Sending(t)' = {} /\ Was(t)' = {} /\ Now(t)' = {}
        /\ \A u \in Tab \ {t} : flushing'[u] = flushing[u] /\ setting'[u] = setting[u]
    BY <1>q, <1>e, <2>1 DEF Sending, Was, Now, Runs, OfflineShape
  <2>3. /\ \A u \in Tab \ {t} : form'[u] = form[u]
        /\ Range(queued)' = Range(queued)
    BY <1>e, <2>1
  <2>4. /\ told'.submitted = told.submitted /\ told'.accidents <= MaxAccidents
        /\ told'.closed \cup told'.doubt \subseteq told.submitted
    BY <1>0, <1>10, <1>q, CloseIs, CloseIsKnown DEF Removing
  <2>5. QED
    BY <1>q, <2>2, <2>3, <2>4, StaysKnown
<1>11. CASE ConnectionChanges
  BY <1>11 DEF ConnectionChanges, Known, Whereabouts, InForm, Sending, Was, Now, Runs
<1>12. QED
  BY <1>1, <1>2, <1>3, <1>5, <1>6, <1>7, <1>8, <1>9, <1>10, <1>11 DEF OfflineNext

LEMMA InitOffline == OfflineInit => OfflineShape /\ Known
<1> SUFFICES ASSUME OfflineInit PROVE OfflineShape /\ Known
  OBVIOUS
<1>1. <<>> \in Seq(Note) /\ EmptyForm \in Form /\ EmptyForm.pc = "empty" /\ <<>> \in Slot
      /\ Range(<<>>) = {}
  BY EmptySeq, RangeOfNone DEF EmptyForm, Form, Slot
<1>2. OfflineShape
  BY <1>1 DEF OfflineInit, OfflineShape, Told
<1>3. \A t \in Tab : InForm(t) = {} /\ Sending(t) = {} /\ Was(t) = {} /\ Now(t) = {}
  BY <1>1 DEF OfflineInit, InForm, Sending, Was, Now, Runs
<1>4. Known
  BY <1>1, <1>3, OfflineAssumption DEF OfflineInit, Known, Whereabouts
<1>5. QED
  BY <1>2, <1>4

\* The pages and the thread keep their state within its types: what is
\* queued, closed or in doubt is what the person submitted, even when tabs
\* overwrite each other's queue.
THEOREM OfflineIsAlwaysTyped == OfflineSpec => []OfflineTypeOK
<1>1. OfflineInit => OfflineShape /\ Known
  BY InitOffline
<1>2. OfflineShape /\ Known /\ [OfflineNext]_offlineVars => (OfflineShape /\ Known)'
  <2> SUFFICES ASSUME OfflineShape, Known, [OfflineNext]_offlineVars
               PROVE  (OfflineShape /\ Known)'
    OBVIOUS
  <2>1. CASE OfflineNext
    BY <2>1, ShapeIsKept, NextKnown
  <2>2. CASE UNCHANGED offlineVars
    <3>1. OfflineShape'
      BY <2>2 DEF offlineVars, OfflineShape
    <3>2. Known'
      BY <2>2 DEF offlineVars, Known, Whereabouts, InForm, Sending, Was, Now, Runs
    <3>3. QED
      BY <3>1, <3>2
  <2>3. QED
    BY <2>1, <2>2
<1>3. OfflineShape /\ Known => OfflineTypeOK
  <2> SUFFICES ASSUME OfflineShape, Known PROVE OfflineTypeOK
    OBVIOUS
  <2>1. told \in Told /\ thread \in [Note -> Nat] /\ onLine \in BOOLEAN
    BY DEF OfflineShape
  <2>2. told.submitted \subseteq Note /\ told.accidents \in 0 .. MaxAccidents
    BY <2>1, OfflineAssumption DEF Told, Known
  <2>3. ToSet(queued) \cup told.closed \cup told.doubt \subseteq told.submitted
    BY DEF Known, ToSet, Range
  <2>4. \A t \in Tab : form[t].pc \in {"empty", "typed", "posting", "loading"}
    BY TabIs
  <2>5. QED
    BY <2>1, <2>2, <2>3, <2>4 DEF OfflineTypeOK
<1>4. QED
  BY <1>1, <1>2, <1>3, PTL DEF OfflineSpec
=============================================================================
