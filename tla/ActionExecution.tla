-------------------------- MODULE ActionExecution --------------------------
(***************************************************************************)
(* One agent action on its way out of the twin and back: the human who     *)
(* approves and dispatches it (intelligence.approve_action,                *)
(* action_execution.dispatch_action), the OneClaw task the dispatch starts *)
(* (OneClawAdapter, external) and the executor's report                    *)
(* (action_execution.record_execution).                                    *)
(*                                                                         *)
(* Every API request has a database session of its own.  It reads the row  *)
(* in one step and commits in a later one, and no row is locked or         *)
(* versioned in between: its record holds what its commit depends on.      *)
(***************************************************************************)
EXTENDS Naturals

CONSTANTS
    Human,          \* concurrent requests of people with action:approve
    Reporter,       \* concurrent requests of the executor's credential
    Outcome,        \* what the executor's runs may end in
    MaxReceipts,    \* bound: reports begun only below this many receipts
    Reapproval,     \* environment: may an action be approved more than once?
    LossyCalls,     \* environment: may the answer to a dispatch be lost?
    ApiCrashes      \* environment: may the API die inside a request?

VALID_OUTCOMES == {"executed", "failed", "dry_run"}

ASSUME ExecutionAssumption ==
    /\ Outcome \subseteq VALID_OUTCOMES
    /\ MaxReceipts \in Nat
    /\ Reapproval \in BOOLEAN
    /\ LossyCalls \in BOOLEAN
    /\ ApiCrashes \in BOOLEAN

VARIABLES
    action,     \* the agent_actions row
    human,      \* the requests of people: where they are and what they read
    reporter,   \* the requests of the executor, likewise
    task,       \* OneClaw's task under the action's idempotency key
    delivered,  \* notifications that reached the site
    receipts    \* reports filed as evidence

vars == <<action, human, reporter, task, delivered, receipts>>

TERMINAL_STATUSES == {"executed", "failed"}

Status == {"pending_approval", "approved", "dispatched", "dispatch_failed"}
            \cup TERMINAL_STATUSES

\* dispatched_at, seen from the clock: NULL, or older than the threshold
\* settings.oneclaw_dispatch_stale_after_seconds or not.
Stamp == {"none", "recent", "stale"}

\* result is the "stage" of execution_result.
ActionRow == [status        : Status,
              approved_by   : BOOLEAN,
              dispatched_at : Stamp,
              result        : {"none", "dispatch", "refused", "execution"}]

HumanState == [pc : {"idle", "approve", "load", "intent", "call", "answer",
                     "reload", "refuse", "record"},
               seen : ActionRow,                    \* the row as read
               answer : {"accepted", "refused"}]    \* of OneClaw

ReporterState == [pc      : {"idle", "report"},
                  seen    : ActionRow,      \* the row as read
                  outcome : VALID_OUTCOMES]

Tasks == {"none", "queued"} \cup VALID_OUTCOMES

TypeOK ==
    /\ action \in ActionRow
    /\ human \in [Human -> HumanState]
    /\ reporter \in [Reporter -> ReporterState]
    /\ task \in Tasks
    /\ delivered \in Nat
    /\ receipts \in Nat

NewAction == [status |-> "pending_approval", approved_by |-> FALSE,
              dispatched_at |-> "none", result |-> "none"]

NoRequest == [pc |-> "idle", seen |-> NewAction, answer |-> "refused"]
NoReport  == [pc |-> "idle", seen |-> NewAction, outcome |-> "failed"]

\* run_agent has committed a recommendation.
Init ==
    /\ action = NewAction
    /\ human = [h \in Human |-> NoRequest]
    /\ reporter = [r \in Reporter |-> NoReport]
    /\ task = "none"
    /\ delivered = 0
    /\ receipts = 0

-----------------------------------------------------------------------------
(* The human's requests.                                                   *)

At(h, pc) == human[h].pc = pc
Step(h, pc) == human' = [human EXCEPT ![h].pc = pc]
Done(h) == human' = [human EXCEPT ![h] = NoRequest]

\* approve_action reads the row.  One that is approved already is returned as
\* it is, and goes on to its dispatch when the request names recipients.
ReadForApproval(h) ==
    /\ At(h, "idle")
    /\ \/ /\ action.status = "approved"
          /\ Step(h, "intent")
       \/ /\ action.status # "approved"
          /\ action.status = "pending_approval" \/ Reapproval
          /\ Step(h, "approve")
    /\ UNCHANGED <<action, reporter, task, delivered, receipts>>

Approve(h) ==
    /\ At(h, "approve")
    /\ action' = [action EXCEPT !.status = "approved", !.approved_by = TRUE]
    /\ \E pc \in {"idle", "load"} : Step(h, pc)
    /\ UNCHANGED <<reporter, task, delivered, receipts>>

\* POST /actions/{id}/dispatch.
RequestDispatch(h) ==
    /\ At(h, "idle")
    /\ Step(h, "load")
    /\ UNCHANGED <<action, reporter, task, delivered, receipts>>

\* Variants of the definitions below, each with one plausible slip; see README.
LoadUnguarded(h) ==
    At(h, "load") /\ Step(h, "intent")
      /\ UNCHANGED <<action, reporter, task, delivered, receipts>>
LoadAnyUnsent(h) ==
    At(h, "load") /\ Step(h, IF action.status \in TERMINAL_STATUSES THEN "idle" ELSE "intent")
      /\ UNCHANGED <<action, reporter, task, delivered, receipts>>

\* The guards of dispatch_action; refused with 409 otherwise.
LoadForDispatch(h) ==
    LET dispatchable == action.status = "approved" /\ action.approved_by IN
    /\ At(h, "load")
    /\ Step(h, IF dispatchable THEN "intent" ELSE "idle")
    /\ UNCHANGED <<action, reporter, task, delivered, receipts>>

CallFirst(h) ==
    /\ At(h, "intent")
    /\ Step(h, "call")
    /\ UNCHANGED <<action, reporter, task, delivered, receipts>>

\* "The intent is committed before the call, not after it."
CommitIntent(h) ==
    /\ At(h, "intent")
    /\ action' = [action EXCEPT !.status = "dispatched", !.result = "dispatch",
                               !.dispatched_at = "recent"]
    /\ Step(h, "call")
    /\ UNCHANGED <<reporter, task, delivered, receipts>>

SubmitUnkeyed(h) ==
    /\ At(h, "call")
    /\ task' = "queued"
    /\ human' = [human EXCEPT ![h].pc = "answer", ![h].answer = "accepted"]
    /\ UNCHANGED <<action, reporter, delivered, receipts>>

\* OneClaw stores the idempotency key, the action id, and returns the original
\* task for a repeat.
Submit(h) ==
    /\ At(h, "call")
    /\ task' = IF task = "none" THEN "queued" ELSE task
    /\ human' = [human EXCEPT ![h].pc = "answer", ![h].answer = "accepted"]
    /\ UNCHANGED <<action, reporter, delivered, receipts>>

\* refusal_reason, or a request that never reached OneClaw.
Refuse(h) ==
    /\ At(h, "call")
    /\ human' = [human EXCEPT ![h].pc = "reload", ![h].answer = "refused"]
    /\ UNCHANGED <<action, reporter, task, delivered, receipts>>

\* The answer arrives, or the client times out: "OneClaw unavailable".
ReceiveAnswer(h) ==
    /\ At(h, "answer")
    /\ \/ Step(h, "reload")
       \/ /\ LossyCalls
          /\ human' = [human EXCEPT ![h].pc = "reload", ![h].answer = "refused"]
    /\ UNCHANGED <<action, reporter, task, delivered, receipts>>

\* "Re-read it and refuse to move a reported outcome backwards."
ReloadAction(h) ==
    LET reported == action.status \in TERMINAL_STATUSES
        refused  == human[h].answer = "refused" IN
    /\ At(h, "reload")
    /\ \/ refused /\ reported /\ Done(h)
       \/ /\ ~(refused /\ reported)
          /\ human' = [human EXCEPT ![h].pc = IF refused THEN "refuse" ELSE "record",
                                    ![h].seen = action]
    /\ UNCHANGED <<action, reporter, task, delivered, receipts>>

\* A commit writes the attributes whose value differs from the one read.
Flush(loaded, new, current) == IF new = loaded THEN current ELSE new

RefuseDispatch(h) ==
    /\ At(h, "refuse")
    /\ action' = [action EXCEPT
                    !.status = Flush(human[h].seen.status, "dispatch_failed", @),
                    !.result = "refused"]
    /\ Done(h)
    /\ UNCHANGED <<reporter, task, delivered, receipts>>

RecordAsExecuted(h) ==
    /\ At(h, "record")
    /\ action' = [action EXCEPT !.status = "executed", !.result = "execution"]
    /\ Done(h)
    /\ UNCHANGED <<reporter, task, delivered, receipts>>

\* The task id and status are added to the execution_result that was read.
RecordTask(h) ==
    LET reported == human[h].seen.status \in TERMINAL_STATUSES IN
    /\ At(h, "record")
    /\ action' = [action EXCEPT !.result = IF reported THEN @ ELSE human[h].seen.result]
    /\ Done(h)
    /\ UNCHANGED <<reporter, task, delivered, receipts>>

\* The process dies: the session rolls back and nobody answers the request.
CrashRequest(h) ==
    /\ ApiCrashes
    /\ human[h].pc # "idle"
    /\ Done(h)
    /\ UNCHANGED <<action, reporter, task, delivered, receipts>>

-----------------------------------------------------------------------------
(* The executor.                                                           *)

\* OneClaw runs the task: it delivers, fails to, or rehearses.
RunTask ==
    /\ task = "queued"
    /\ task' \in Outcome
    /\ delivered' = delivered + (IF task' = "executed" THEN 1 ELSE 0)
    /\ UNCHANGED <<action, human, reporter, receipts>>

ReadRepeated(r) ==
    /\ reporter[r].pc = "idle"
    /\ task \in VALID_OUTCOMES /\ receipts < MaxReceipts
    /\ reporter' = [reporter EXCEPT ![r] = [pc |-> "report", seen |-> action,
                                            outcome |-> task]]
    /\ UNCHANGED <<action, human, task, delivered, receipts>>

ReadUnlessStale(r) ==
    /\ reporter[r].pc = "idle"
    /\ task \in VALID_OUTCOMES /\ receipts < MaxReceipts
    /\ action.status = "dispatched" /\ action.dispatched_at = "recent"
    /\ reporter' = [reporter EXCEPT ![r] = [pc |-> "report", seen |-> action,
                                            outcome |-> task]]
    /\ UNCHANGED <<action, human, task, delivered, receipts>>

\* record_execution reads the row.  The report, first or repeated, is ignored
\* when the status is terminal and refused unless dispatched or approved.
ReadForReport(r) ==
    /\ reporter[r].pc = "idle"
    /\ task \in VALID_OUTCOMES /\ receipts < MaxReceipts
    /\ action.status \in {"dispatched", "approved"}
    /\ reporter' = [reporter EXCEPT ![r] = [pc |-> "report", seen |-> action,
                                            outcome |-> task]]
    /\ UNCHANGED <<action, human, task, delivered, receipts>>

ReportedRaw(outcome, row) == [row EXCEPT !.status = outcome]

\* A rehearsal leaves the action approved, as if it had not been dispatched.
ReportedRow(outcome, row) ==
    CASE outcome = "dry_run" -> [row EXCEPT !.status = "approved",
                                            !.dispatched_at = "none"]
      [] OTHER               -> [row EXCEPT !.status = outcome]

Report(r) ==
    LET seen == reporter[r].seen
        new  == ReportedRow(reporter[r].outcome, seen) IN
    /\ reporter[r].pc = "report"
    /\ action' = [action EXCEPT
          !.status        = Flush(seen.status, new.status, @),
          !.dispatched_at = Flush(seen.dispatched_at, new.dispatched_at, @),
          !.result        = "execution"]
    /\ receipts' = receipts + 1
    /\ reporter' = [reporter EXCEPT ![r] = NoReport]
    /\ UNCHANGED <<human, task, delivered>>

CrashReport(r) ==
    /\ ApiCrashes
    /\ reporter[r].pc = "report"
    /\ reporter' = [reporter EXCEPT ![r] = NoReport]
    /\ UNCHANGED <<action, human, task, delivered, receipts>>

\* The clock passes the threshold.
Age ==
    /\ action.dispatched_at = "recent"
    /\ action' = [action EXCEPT !.dispatched_at = "stale"]
    /\ UNCHANGED <<human, reporter, task, delivered, receipts>>

ListedByAge == action.status = "dispatched" /\ action.dispatched_at = "stale"

\* all_stale_dispatched_actions: the reconciliation list has the action.  NULL
\* "is an action stuck without even a dispatch timestamp", and is listed.
Listed == action.status = "dispatched" /\ action.dispatched_at \in {"stale", "none"}

\* The steps that a request in progress goes through.
Serve(h) ==
    \/ Approve(h) \/ LoadForDispatch(h) \/ CommitIntent(h) \/ Submit(h) \/ Refuse(h)
    \/ ReceiveAnswer(h) \/ ReloadAction(h) \/ RefuseDispatch(h) \/ RecordTask(h)

Next ==
    \/ \E h \in Human :
          ReadForApproval(h) \/ RequestDispatch(h) \/ Serve(h) \/ CrashRequest(h)
    \/ RunTask \/ Age
    \/ \E r \in Reporter : ReadForReport(r) \/ Report(r) \/ CrashReport(r)

Spec == Init /\ [][Next]_vars

(***************************************************************************)
(* A request that was begun is served, time passes, OneClaw works off its  *)
(* queue and repeats a report until the twin has taken it.  Nobody has to  *)
(* approve, dispatch or crash.                                             *)
(***************************************************************************)
Fairness ==
    /\ \A h \in Human : WF_vars(Serve(h))
    /\ WF_vars(RunTask) /\ WF_vars(Age)
    /\ \A r \in Reporter : SF_vars(ReadForReport(r)) /\ WF_vars(Report(r))

FairSpec == Spec /\ Fairness

-----------------------------------------------------------------------------
(* What holds of any requests, races, losses and crashes.                  *)

\* "the twin never claims an action happened unless the executor said so"
\* (action_execution.py), a rehearsal included: executed means delivered.
ExecutedMeansDelivered == action.status = "executed" => delivered > 0

\* Nothing leaves the twin without a human decision and without the intent to
\* send it on record: what the executor holds, the row has been dispatched for.
SentMeansApproved ==
    task # "none" => action.approved_by /\ action.result # "none"

\* "Re-approving cannot make a subcontractor receive the same incident twice"
\* (docs/EXECUTION_CHAIN.md), nor can two people, a retry or a lost answer.
DeliveredOnce == delivered <= 1

\* What was handed over and never accounted for is on the reconciliation list
\* in the end (scripts/reconcile_actions.py), whatever lost its timestamp.
UnconfirmedIsListed ==
    action.status = "dispatched" ~> (action.status # "dispatched" \/ Listed)

-----------------------------------------------------------------------------
(* Why these hold: what one step hands to the next.                        *)

DeliveredByTask == delivered = IF task = "executed" THEN 1 ELSE 0

\* A report in progress carries the outcome of the one task there is.
ReportsAreTrue ==
    \A r \in Reporter : reporter[r].pc = "report" =>
        task \in VALID_OUTCOMES /\ reporter[r].outcome = task

ExecutedByTask == action.status = "executed" => task = "executed"

ApprovedByHuman == action.status = "approved" => action.approved_by

\* Past the guards of dispatch_action there is an approval, and past the
\* commit of the intent a record of it, in the row and in what is reloaded.
IntentOnRecord ==
    \A h \in Human :
        /\ human[h].pc = "intent" => action.approved_by
        /\ human[h].pc \in {"call", "answer", "reload", "refuse", "record"} =>
              action.approved_by /\ action.result # "none"
        /\ human[h].pc \in {"refuse", "record"} => human[h].seen.result # "none"

\* The inductive invariant of an action on its way out and back.
SentInv ==
    /\ TypeOK
    /\ DeliveredByTask /\ ReportsAreTrue /\ ExecutedByTask
    /\ ApprovedByHuman /\ IntentOnRecord /\ SentMeansApproved

-----------------------------------------------------------------------------
(* What holds while an action is approved once, answers arrive, and one     *)
(* person and one executor connection deal with it.                         *)

Later(status) ==
    CASE status = "pending_approval" -> {"approved"}
      [] status = "approved"         -> {"dispatched"}
      [] status = "dispatched"       -> {"dispatch_failed"} \cup TERMINAL_STATUSES
      [] OTHER                       -> {}

\* "The status is a one-way progression" (models.AgentAction), but for the
\* rehearsal that hands the action back.
OneWayProgression ==
    [][\/ action'.status \in {action.status} \cup Later(action.status)
       \/ task = "dry_run" /\ action'.status = "approved"]_vars

\* "Unconfirmed is visible. A dispatch with no report leaves the action in
\* dispatched and on the reconciliation list" (docs/EXECUTION_CHAIN.md).
UnconfirmedIsVisible ==
    task # "none" /\ receipts = 0 => action.status = "dispatched"

\* An outcome is filed as evidence once, however often it is reported
\* (test_a_repeated_report_does_not_duplicate_evidence).  A rehearsal is not
\* an outcome: its report may be filed again.
OneReceipt == task \in TERMINAL_STATUSES => receipts <= 1

\* An action that left comes back: the executor's report, or the refusal,
\* takes it out of "dispatched".
DispatchedResolves == action.status = "dispatched" ~> action.status # "dispatched"

=============================================================================
