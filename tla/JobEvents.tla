------------------------------ MODULE JobEvents ------------------------------
(***************************************************************************)
(* The event log of one asset job and the stream that shows it: emit_event *)
(* in the transactions of workers and users, and the polling loop of       *)
(* asset_job_event_stream.  A transaction reads the greatest sequence and  *)
(* commits later; a poll reads the job row and, in a second query, the     *)
(* events after the last one it sent.                                      *)
(***************************************************************************)
EXTENDS Naturals, FiniteSets, FiniteSetsExt

CONSTANTS
    Emitter,        \* transactions that emit an event about the job
    MaxStreams      \* how often the page opens the stream

ASSUME MaxStreamsAssumption == MaxStreams \in Nat

VARIABLES
    log,            \* the committed events, [by, seq]
    ended,          \* does the job row show a terminal status?
    emit,           \* Emitter -> its transaction
    stream          \* the stream of the page

eventVars == <<log, ended, emit, stream>>

Closed == [pc |-> "closed", last |-> 0, ended |-> FALSE, due |-> {}, sent |-> {},
           opened |-> 0]

EventsInit ==
    /\ log = {}
    /\ ended = FALSE
    /\ emit = [e \in Emitter |-> [pc |-> "idle", seq |-> 0]]
    /\ stream = Closed

LastSequence == Max({0} \cup {ev.seq : ev \in log})

\* emit_event: the sequence is taken now, the row is inserted by the commit.
emit_event(e) ==
    /\ emit[e].pc = "idle"
    /\ emit' = [emit EXCEPT ![e] = [pc |-> "open", seq |-> LastSequence + 1]]
    /\ UNCHANGED <<log, ended, stream>>

\* The transaction may also end the job (completion, failure, cancellation)
\* or take it up again (resume).  A rollback leaves nothing.
Commit(e) ==
    /\ emit[e].pc = "open"
    /\ emit' = [emit EXCEPT ![e].pc = "done"]
    /\ log' = log \cup {[by |-> e, seq |-> emit[e].seq]}
    /\ ended' \in BOOLEAN
    /\ UNCHANGED stream

Rollback(e) ==
    /\ emit[e].pc = "open"
    /\ emit' = [emit EXCEPT ![e].pc = "done"]
    /\ UNCHANGED <<log, ended, stream>>
-----------------------------------------------------------------------------
Open ==
    /\ stream.pc = "closed" /\ stream.opened < MaxStreams
    /\ stream' = [Closed EXCEPT !.pc = "poll", !.opened = stream.opened + 1]
    /\ UNCHANGED <<log, ended, emit>>

\* get_job.  What is due is what is committed by now (history only).
ReadJob ==
    /\ stream.pc = "poll"
    /\ stream' = [stream EXCEPT !.pc = "rows", !.ended = ended, !.due = log]
    /\ UNCHANGED <<log, ended, emit>>

list_events_from_last(after) == {ev \in log : ev.seq > after + 1}

list_events(after) == {ev \in log : ev.seq > after}

\* list_events, the events sent, and the terminal event when the job row that
\* was read before them says so.
SendRows ==
    LET rows == list_events(stream.last) IN
    /\ stream.pc = "rows"
    /\ stream' = [stream EXCEPT
           !.pc = IF stream.ended THEN "terminal" ELSE "poll",
           !.sent = @ \cup rows,
           !.last = Max({@} \cup {ev.seq : ev \in rows})]
    /\ UNCHANGED <<log, ended, emit>>

\* The page goes away between two polls, or has been told the end.
Disconnect ==
    /\ stream.pc \in {"poll", "terminal"}
    /\ stream' = [stream EXCEPT !.pc = "closed"]
    /\ UNCHANGED <<log, ended, emit>>

EventsNext ==
    \/ \E e \in Emitter : emit_event(e) \/ Commit(e) \/ Rollback(e)
    \/ Open \/ ReadJob \/ SendRows \/ Disconnect

EventsSpec == EventsInit /\ [][EventsNext]_eventVars
-----------------------------------------------------------------------------
EventsTypeOK ==
    /\ log \subseteq [by : Emitter, seq : Nat]
    /\ ended \in BOOLEAN
    /\ emit \in [Emitter -> [pc : {"idle", "open", "done"}, seq : Nat]]
    /\ stream \in [pc : {"closed", "poll", "rows", "terminal"}, last : Nat,
                   ended : BOOLEAN, due : SUBSET log, sent : SUBSET log,
                   opened : 0 .. MaxStreams]

\* A page that was told the end of the job has been sent what was committed
\* before the job ended, however transactions overlapped: an event is left out
\* only when it shares its sequence with one that was sent.
EndIsTold ==
    stream.pc = "terminal" =>
        \A ev \in stream.due :
            ev \in stream.sent \/ \E other \in stream.sent : other.seq = ev.seq
=============================================================================
