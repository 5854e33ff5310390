--------------------------- MODULE OfflineComments ---------------------------
(***************************************************************************)
(* Comments from the page to the thread: CommentThread.submit, the queue   *)
(* in local storage (offline.js), the loop that flushes it on a reconnect  *)
(* (ConnectionState), and create_comment.  Several tabs share the storage: *)
(* each of its changes is a getItem and, later, a setItem; the rest of a   *)
(* tab's script stands still in between.  Texts and their places are       *)
(* values; edits of a text that is being posted are left out.              *)
(***************************************************************************)
EXTENDS Naturals, Sequences, SequencesExt

CONSTANTS
    Tab,            \* the open pages of one person
    Note,           \* what the person writes
    MaxAccidents    \* bounds lost answers and closed pages

ASSUME OfflineAssumption == MaxAccidents \in Nat

VARIABLES
    onLine,         \* navigator.onLine
    queued,         \* the queue in local storage
    form,           \* Tab -> the form of the thread
    flushing,       \* Tab -> the entries its loop has yet to send, the first
                    \* of them in flight
    setting,        \* Tab -> <<>>, or what was read and is to be written
    thread,         \* Note -> the committed comments with its text
    told            \* history: see OfflineInit

offlineVars == <<onLine, queued, form, flushing, setting, thread, told>>

EmptyForm == [pc |-> "empty", note |-> CHOOSE n \in Note : TRUE]

OfflineInit ==
    /\ onLine \in BOOLEAN
    /\ queued = <<>>
    /\ form = [t \in Tab |-> EmptyForm]
    /\ flushing = [t \in Tab |-> <<>>]
    /\ setting = [t \in Tab |-> <<>>]
    /\ thread = [n \in Note |-> 0]
    /\ told = [submitted |-> {},    \* notes that were posted at least once
               closed |-> {},       \* notes of a page that was closed meanwhile
               doubt |-> {},        \* notes created without the page acting on it
               accidents |-> 0,
               raced |-> FALSE]     \* did a tab overwrite another's change?

Runs(t) == setting[t] = <<>>

Set(t, entries) == setting' = [setting EXCEPT ![t] = <<[was |-> queued, now |-> entries]>>]

queueComment(t, n) == Set(t, Append(queued, n))

removeAllQueued(t, n) == Set(t, <<>>)

\* The entries but n, in their order.
Without(entries, n) ==
    LET kept[i \in 0 .. Len(entries)] ==
          IF i = 0 THEN <<>>
          ELSE IF entries[i] = n THEN kept[i - 1] ELSE Append(kept[i - 1], entries[i])
    IN  kept[Len(entries)]

removeQueued(t, n) == Set(t, Without(queued, n))

SetItem(t) ==
    /\ ~Runs(t)
    /\ queued' = setting[t][1].now
    /\ setting' = [setting EXCEPT ![t] = <<>>]
    /\ told' = [told EXCEPT !.raced = @ \/ queued # setting[t][1].was]
    /\ UNCHANGED <<onLine, form, flushing, thread>>

create_comment(n) == thread' = [thread EXCEPT ![n] = @ + 1]

Accident == told.accidents < MaxAccidents

\* A POST that fails for the page: refused, never arrived, or created and the
\* answer lost.
Unanswered(n) ==
    \/ UNCHANGED <<thread, told>>
    \/ /\ Accident
       /\ create_comment(n)
       /\ told' = [told EXCEPT !.accidents = @ + 1, !.doubt = @ \cup {n}]
-----------------------------------------------------------------------------
Submit(t) ==
    /\ Runs(t) /\ form[t].pc = "empty"
    /\ \E n \in Note \ told.submitted :
          /\ form' = [form EXCEPT ![t] = [pc |-> "posting", note |-> n]]
          /\ told' = [told EXCEPT !.submitted = @ \cup {n}]
    /\ UNCHANGED <<onLine, queued, flushing, setting, thread>>

\* An error was shown and the text is still in the form.
SubmitAgain(t) ==
    /\ Runs(t) /\ form[t].pc = "typed"
    /\ form' = [form EXCEPT ![t].pc = "posting"]
    /\ UNCHANGED <<onLine, queued, flushing, setting, thread, told>>

\* The form is cleared, and then the thread is loaded within the same try.
Posted(t) ==
    /\ Runs(t) /\ form[t].pc = "posting"
    /\ create_comment(form[t].note)
    /\ form' = [form EXCEPT ![t].pc = "loading"]
    /\ UNCHANGED <<onLine, queued, flushing, setting, told>>

Catch(t, shown) ==
    IF onLine THEN form' = [form EXCEPT ![t] = shown] /\ UNCHANGED setting
    ELSE form' = [form EXCEPT ![t] = EmptyForm] /\ queueComment(t, form[t].note)

PostFails(t) ==
    /\ Runs(t) /\ form[t].pc = "posting"
    /\ Unanswered(form[t].note)
    /\ Catch(t, [form[t] EXCEPT !.pc = "typed"])
    /\ UNCHANGED <<onLine, queued, flushing>>

Loaded(t) ==
    /\ Runs(t) /\ form[t].pc = "loading"
    /\ form' = [form EXCEPT ![t] = EmptyForm]
    /\ UNCHANGED <<onLine, queued, flushing, setting, thread, told>>

\* Offline by now, the handler queues the comment that was created.
LoadFails(t) ==
    /\ Runs(t) /\ form[t].pc = "loading"
    /\ Catch(t, EmptyForm)
    /\ told' = IF onLine THEN told
               ELSE [told EXCEPT !.doubt = @ \cup {form[t].note}]
    /\ UNCHANGED <<onLine, queued, flushing, thread>>
-----------------------------------------------------------------------------
\* What another tab is sending, or has sent and not yet removed.
SentBy(t) ==
    ToSet(flushing[t]) \cup (IF Runs(t) THEN {}
                             ELSE ToSet(setting[t][1].was) \ ToSet(setting[t][1].now))

Flush(t) ==
    /\ Runs(t) /\ onLine /\ queued # <<>> /\ flushing[t] = <<>>
    /\ flushing' = [flushing EXCEPT ![t] = queued]
    /\ told' = [told EXCEPT !.doubt =
                  @ \cup (ToSet(queued) \cap UNION {SentBy(u) : u \in Tab \ {t}})]
    /\ UNCHANGED <<onLine, queued, form, setting, thread>>

Sent(t) ==
    /\ Runs(t) /\ flushing[t] # <<>>
    /\ create_comment(Head(flushing[t]))
    /\ removeQueued(t, Head(flushing[t]))
    /\ flushing' = [flushing EXCEPT ![t] = Tail(@)]
    /\ UNCHANGED <<onLine, queued, form, told>>

\* Any error ends the loop; the entry and those behind it stay.
SendFails(t) ==
    /\ Runs(t) /\ flushing[t] # <<>>
    /\ Unanswered(Head(flushing[t]))
    /\ flushing' = [flushing EXCEPT ![t] = <<>>]
    /\ UNCHANGED <<onLine, queued, form, setting>>
-----------------------------------------------------------------------------
\* A page is closed and opened again, at any point.  What is in flight may
\* still arrive (a POST of the loop; one of the form as if answered before).
ClosePage(t) ==
    /\ Accident
    /\ form' = [form EXCEPT ![t] = EmptyForm]
    /\ flushing' = [flushing EXCEPT ![t] = <<>>]
    /\ setting' = [setting EXCEPT ![t] = <<>>]
    /\ told' = [told EXCEPT
          !.accidents = @ + 1, !.doubt = @ \cup SentBy(t),
          !.closed = @ \cup (IF form[t].pc = "empty" THEN {} ELSE {form[t].note})
                       \cup (IF Runs(t) THEN {}
                             ELSE ToSet(setting[t][1].now) \ ToSet(setting[t][1].was))]
    /\ \/ UNCHANGED thread
       \/ flushing[t] # <<>> /\ Runs(t) /\ create_comment(Head(flushing[t]))
    /\ UNCHANGED <<onLine, queued>>

ConnectionChanges ==
    /\ onLine' = ~onLine
    /\ UNCHANGED <<queued, form, flushing, setting, thread, told>>

OfflineNext ==
    \/ \E t \in Tab :
          \/ SetItem(t) \/ Submit(t) \/ SubmitAgain(t) \/ Posted(t) \/ PostFails(t)
          \/ Loaded(t) \/ LoadFails(t) \/ Flush(t) \/ Sent(t) \/ SendFails(t)
          \/ ClosePage(t)
    \/ ConnectionChanges

OfflineSpec == OfflineInit /\ [][OfflineNext]_offlineVars
-----------------------------------------------------------------------------
OfflineTypeOK ==
    /\ onLine \in BOOLEAN
    /\ \A t \in Tab : form[t].pc \in {"empty", "typed", "posting", "loading"}
    /\ ToSet(queued) \cup told.closed \cup told.doubt \subseteq told.submitted
    /\ told.submitted \subseteq Note /\ told.accidents \in 0 .. MaxAccidents
    /\ thread \in [Note -> Nat]

InHand(n) ==
    \E t \in Tab :
       \/ form[t].pc # "empty" /\ form[t].note = n
       \/ ~Runs(t) /\ n \in ToSet(setting[t][1].now)

\* "A failure leaves the item in the queue rather than dropping it, so nothing
\* a person typed is lost" (ConnectionState.js:11): unless a tab wrote over
\* another's change, a note that was submitted is posted, queued or on the
\* page, whatever fails and whenever the connection comes and goes, but for
\* the text of a page that was closed.  It is posted once, unless it was
\* created without the page acting on it, or two tabs flushed the same queue.
NothingTypedIsLost ==
    ~told.raced =>
        \A n \in told.submitted :
            /\ thread[n] > 0 \/ n \in ToSet(queued) \/ InHand(n) \/ n \in told.closed
            /\ thread[n] <= 1 \/ n \in told.doubt
=============================================================================
