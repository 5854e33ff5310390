----------------------- MODULE ActionExecutionProofs -----------------------
(***************************************************************************)
(* Theorems about ActionExecution for any number of concurrent requests of *)
(* people and of the executor, any outcomes, and with repeated approvals,  *)
(* lost answers and crashes of the API or without them; the last sections   *)
(* take one person at a time, and name what else they assume.              *)
(***************************************************************************)
EXTENDS ActionExecution, TLAPS

\* A commit leaves the value it finds or writes the new one.
LEMMA FlushCases ==
    ASSUME NEW loaded, NEW new, NEW current
    PROVE  Flush(loaded, new, current) \in {new, current}
BY DEF Flush

-----------------------------------------------------------------------------
(* Types.                                                                  *)

LEMMA TypeInit == Init => TypeOK
BY ExecutionAssumption
   DEF Init, TypeOK, NewAction, NoRequest, NoReport, ActionRow, HumanState,
       ReporterState, Tasks, Status, Stamp, VALID_OUTCOMES

\* What a report writes is a row, whichever attributes have changed meanwhile.
LEMMA ReportType ==
    ASSUME TypeOK, NEW r \in Reporter, Report(r)
    PROVE  action' \in ActionRow
<1> DEFINE seen == reporter[r].seen
           new == ReportedRow(reporter[r].outcome, seen)
           status == Flush(seen.status, new.status, action.status)
           stamp == Flush(seen.dispatched_at, new.dispatched_at, action.dispatched_at)
<1>1. /\ seen \in ActionRow /\ action \in ActionRow
      /\ reporter[r].outcome \in VALID_OUTCOMES
  BY DEF TypeOK, ReporterState
<1>2. new \in ActionRow
  BY <1>1 DEF ReportedRow, ActionRow, VALID_OUTCOMES, Status, Stamp, TERMINAL_STATUSES
<1>3. status \in Status /\ stamp \in Stamp
  <2> HIDE DEF seen, new
  <2> QED BY <1>1, <1>2 DEF Flush, ActionRow
<1>4. action' = [action EXCEPT !.status = status, !.dispatched_at = stamp,
                               !.result = "execution"]
  BY <1>1 DEF Report
<1> HIDE DEF status, stamp
<1>5. QED
  BY <1>1, <1>3, <1>4 DEF ActionRow

\* Moving a request on leaves it a request.
LEMMA StepType ==
    ASSUME TypeOK, NEW h \in Human,
           NEW pc \in {"idle", "approve", "load", "intent", "call", "answer",
                       "reload", "refuse", "record"},
           Step(h, pc)
    PROVE  human' \in [Human -> HumanState]
BY DEF TypeOK, Step, HumanState

LEMMA TypeNext == TypeOK /\ [Next]_vars => TypeOK'
<1> SUFFICES ASSUME TypeOK, [Next]_vars PROVE TypeOK'
  OBVIOUS
<1> USE DEF TypeOK
<1>a. NoRequest \in HumanState /\ NoReport \in ReporterState
  BY DEF NoRequest, NoReport, NewAction, HumanState, ReporterState, ActionRow,
         Status, Stamp, VALID_OUTCOMES
<1>1. ASSUME NEW h \in Human, ReadForApproval(h) PROVE TypeOK'
  BY <1>1 DEF ReadForApproval, Step, HumanState
<1>2. ASSUME NEW h \in Human, Approve(h) PROVE TypeOK'
  <2>1. action' \in ActionRow
    BY <1>2 DEF Approve, ActionRow, Status
  <2>2. human' \in [Human -> HumanState]
    BY <1>2, StepType DEF Approve
  <2>3. QED
    BY <1>2, <2>1, <2>2 DEF Approve
<1>3. ASSUME NEW h \in Human, RequestDispatch(h) PROVE TypeOK'
  BY <1>3 DEF RequestDispatch, Step, HumanState
<1>4. ASSUME NEW h \in Human, LoadForDispatch(h) PROVE TypeOK'
  BY <1>4 DEF LoadForDispatch, Step, HumanState
<1>5. ASSUME NEW h \in Human, CommitIntent(h) PROVE TypeOK'
  <2>1. action' \in ActionRow
    BY <1>5 DEF CommitIntent, ActionRow, Status, Stamp
  <2>2. human' \in [Human -> HumanState]
    BY <1>5, StepType DEF CommitIntent
  <2>3. QED
    BY <1>5, <2>1, <2>2 DEF CommitIntent
<1>6. ASSUME NEW h \in Human, Submit(h) PROVE TypeOK'
  BY <1>6 DEF Submit, HumanState, Tasks
<1>7. ASSUME NEW h \in Human, Refuse(h) PROVE TypeOK'
  BY <1>7 DEF Refuse, HumanState
<1>8. ASSUME NEW h \in Human, ReceiveAnswer(h) PROVE TypeOK'
  BY <1>8 DEF ReceiveAnswer, Step, HumanState
<1>9. ASSUME NEW h \in Human, ReloadAction(h) PROVE TypeOK'
  BY <1>9, <1>a DEF ReloadAction, Done, HumanState
<1>10. ASSUME NEW h \in Human, RefuseDispatch(h) PROVE TypeOK'
  <2>1. Flush(human[h].seen.status, "dispatch_failed", action.status) \in Status
    BY DEF Flush, ActionRow, Status
  <2>2. QED
    BY <1>10, <1>a, <2>1 DEF RefuseDispatch, Done, ActionRow
<1>11. ASSUME NEW h \in Human, RecordTask(h) PROVE TypeOK'
  BY <1>11, <1>a DEF RecordTask, Done, ActionRow, HumanState
<1>12. ASSUME NEW h \in Human, CrashRequest(h) PROVE TypeOK'
  BY <1>12, <1>a DEF CrashRequest, Done
<1>13. ASSUME RunTask PROVE TypeOK'
  BY <1>13, ExecutionAssumption DEF RunTask, Tasks, ExecutionAssumption
<1>14. ASSUME Age PROVE TypeOK'
  BY <1>14 DEF Age, ActionRow, Stamp
<1>15. ASSUME NEW r \in Reporter, ReadForReport(r) PROVE TypeOK'
  BY <1>15 DEF ReadForReport, ReporterState
<1>16. ASSUME NEW r \in Reporter, Report(r) PROVE TypeOK'
  <2>1. action' \in ActionRow
    BY <1>16, ReportType
  <2>2. QED
    BY <1>16, <1>a, <2>1 DEF Report
<1>17. ASSUME NEW r \in Reporter, CrashReport(r) PROVE TypeOK'
  BY <1>17, <1>a DEF CrashReport
<1>18. CASE UNCHANGED vars
  BY <1>18 DEF vars
<1>19. QED
  BY <1>1, <1>2, <1>3, <1>4, <1>5, <1>6, <1>7, <1>8, <1>9, <1>10, <1>11, <1>12,
     <1>13, <1>14, <1>15, <1>16, <1>17, <1>18 DEF Next, Serve

\* The row, the requests in progress, the task and the counters stay within
\* their types: no status outside the documented ones is ever written.
THEOREM TypeCorrect == Spec => []TypeOK
<1>1. Init => TypeOK
  BY TypeInit
<1>2. TypeOK /\ [Next]_vars => TypeOK'
  BY TypeNext
<1>3. QED
  BY <1>1, <1>2, PTL DEF Spec

-----------------------------------------------------------------------------
(* Sent once, approved, and never claimed without having happened.         *)

LEMMA SentInit == Init => SentInv
BY TypeInit, ExecutionAssumption
   DEF Init, SentInv, DeliveredByTask, ReportsAreTrue, ExecutedByTask,
       ApprovedByHuman, IntentOnRecord, SentMeansApproved, NewAction, NoRequest,
       NoReport

LEMMA SentNext == SentInv /\ [Next]_vars => SentInv'
<1> SUFFICES ASSUME SentInv, [Next]_vars PROVE SentInv'
  OBVIOUS
<1>t. TypeOK /\ TypeOK'
  BY TypeNext DEF SentInv
<1> DEFINE Rest == /\ DeliveredByTask /\ ReportsAreTrue /\ ExecutedByTask
                   /\ ApprovedByHuman /\ IntentOnRecord /\ SentMeansApproved
<1>r. Rest
  BY DEF SentInv
<1> SUFFICES Rest'
  BY <1>t DEF SentInv
<1> USE <1>t, <1>r DEF DeliveredByTask, ReportsAreTrue, ExecutedByTask,
        ApprovedByHuman, IntentOnRecord, SentMeansApproved, TypeOK
<1>1. ASSUME NEW h \in Human, ReadForApproval(h) PROVE Rest'
  BY <1>1 DEF ReadForApproval, Step, HumanState, At
<1>2. ASSUME NEW h \in Human, Approve(h) PROVE Rest'
  BY <1>2 DEF Approve, Step, HumanState, ActionRow, At
<1>3. ASSUME NEW h \in Human, RequestDispatch(h) PROVE Rest'
  BY <1>3 DEF RequestDispatch, Step, HumanState
<1>4. ASSUME NEW h \in Human, LoadForDispatch(h) PROVE Rest'
  BY <1>4 DEF LoadForDispatch, Step, HumanState
<1>5. ASSUME NEW h \in Human, CommitIntent(h) PROVE Rest'
  BY <1>5 DEF CommitIntent, Step, HumanState, ActionRow, At
<1>6. ASSUME NEW h \in Human, Submit(h) PROVE Rest'
  BY <1>6 DEF Submit, HumanState, At, VALID_OUTCOMES
<1>7. ASSUME NEW h \in Human, Refuse(h) PROVE Rest'
  BY <1>7 DEF Refuse, HumanState, At
<1>8. ASSUME NEW h \in Human, ReceiveAnswer(h) PROVE Rest'
  BY <1>8 DEF ReceiveAnswer, Step, HumanState, At
<1>9. ASSUME NEW h \in Human, ReloadAction(h) PROVE Rest'
  BY <1>9 DEF ReloadAction, Done, HumanState, At, NoRequest
<1>10. ASSUME NEW h \in Human, RefuseDispatch(h) PROVE Rest'
  BY <1>10 DEF RefuseDispatch, Done, HumanState, At, NoRequest, ActionRow, Flush
<1>11. ASSUME NEW h \in Human, RecordTask(h) PROVE Rest'
  BY <1>11 DEF RecordTask, Done, HumanState, At, NoRequest, ActionRow
<1>12. ASSUME NEW h \in Human, CrashRequest(h) PROVE Rest'
  BY <1>12 DEF CrashRequest, Done, NoRequest
<1>13. ASSUME RunTask PROVE Rest'
  BY <1>13, ExecutionAssumption DEF RunTask, ExecutionAssumption, VALID_OUTCOMES
<1>14. ASSUME Age PROVE Rest'
  BY <1>14 DEF Age, ActionRow
<1>15. ASSUME NEW r \in Reporter, ReadForReport(r) PROVE Rest'
  BY <1>15 DEF ReadForReport
<1>16. ASSUME NEW r \in Reporter, Report(r) PROVE Rest'
  BY <1>16 DEF Report, NoReport, ReportedRow, ActionRow, Flush, VALID_OUTCOMES
<1>17. ASSUME NEW r \in Reporter, CrashReport(r) PROVE Rest'
  BY <1>17 DEF CrashReport, NoReport
<1>18. CASE UNCHANGED vars
  BY <1>18 DEF vars
<1>19. QED
  BY <1>1, <1>2, <1>3, <1>4, <1>5, <1>6, <1>7, <1>8, <1>9, <1>10, <1>11, <1>12,
     <1>13, <1>14, <1>15, <1>16, <1>17, <1>18 DEF Next, Serve

\* The inductive invariant of an action on its way out and back.
THEOREM SentAndReported == Spec => []SentInv
<1>1. Init => SentInv
  BY SentInit
<1>2. SentInv /\ [Next]_vars => SentInv'
  BY SentNext
<1>3. QED
  BY <1>1, <1>2, PTL DEF Spec

\* "The twin never claims an action happened unless the executor said so":
\* record_execution is the only writer of "executed", and what it writes is the
\* outcome of the one task OneClaw keeps for the action.
THEOREM ExecutedWasDelivered == Spec => []ExecutedMeansDelivered
<1>1. SentInv => ExecutedMeansDelivered
  BY DEF SentInv, ExecutedMeansDelivered, ExecutedByTask, DeliveredByTask
<1>2. QED
  BY <1>1, SentAndReported, PTL

\* Whatever the executor holds, a human approved, and the row says that it was
\* dispatched: dispatch_action commits the intent before its call.
THEOREM NothingLeavesUnapproved == Spec => []SentMeansApproved
<1>1. SentInv => SentMeansApproved
  BY DEF SentInv
<1>2. QED
  BY <1>1, SentAndReported, PTL

\* However many people approve, dispatch and retry at once, and whatever
\* answers are lost, the site gets one notification.
THEOREM NotifiedOnce == Spec => []DeliveredOnce
<1>1. SentInv => DeliveredOnce
  BY DEF SentInv, DeliveredOnce, DeliveredByTask
<1>2. QED
  BY <1>1, SentAndReported, PTL

-----------------------------------------------------------------------------
(* What holds while an action is approved once and one person deals with it: *)
(* no second session of a person can write what it read before the first one *)
(* went on.                                                                  *)

OnePerson == \A h, other \in Human : h = other

\* The one request that may still take the action out of "dispatched".
MayRefuse(h) ==
    \/ human[h].pc \in {"intent", "call", "refuse"}
    \/ (human[h].pc = "reload" /\ human[h].answer = "refused")

\* Why an unconfirmed dispatch stays visible: a refusal is recorded only of a
\* task that OneClaw never got, or that was reported as a rehearsal before.
VisibleInv ==
    /\ action.status = "pending_approval" => task = "none"
    /\ \A h \in Human :
          /\ human[h].pc = "approve" => action.status = "pending_approval"
          /\ human[h].pc = "answer" => human[h].answer = "accepted"
          /\ MayRefuse(h) => task = "none" \/ receipts > 0
          /\ human[h].pc = "call" /\ task = "none" => action.status = "dispatched"
    /\ UnconfirmedIsVisible

LEMMA VisibleInit == Init => VisibleInv
BY DEF Init, VisibleInv, UnconfirmedIsVisible, MayRefuse, NewAction, NoRequest

LEMMA VisibleNext ==
    ASSUME OnePerson, ~Reapproval, ~LossyCalls, SentInv, VisibleInv, [Next]_vars
    PROVE  VisibleInv'
<1>t. TypeOK /\ ReportsAreTrue
  BY DEF SentInv
<1> USE <1>t DEF OnePerson, VisibleInv, UnconfirmedIsVisible, MayRefuse, TypeOK
<1>1. ASSUME NEW h \in Human, ReadForApproval(h) PROVE VisibleInv'
  BY <1>1 DEF ReadForApproval, Step, HumanState, At
<1>2. ASSUME NEW h \in Human, Approve(h) PROVE VisibleInv'
  BY <1>2 DEF Approve, Step, HumanState, ActionRow, At
<1>3. ASSUME NEW h \in Human, RequestDispatch(h) PROVE VisibleInv'
  BY <1>3 DEF RequestDispatch, Step, HumanState, At
<1>4. ASSUME NEW h \in Human, LoadForDispatch(h) PROVE VisibleInv'
  BY <1>4 DEF LoadForDispatch, Step, HumanState, At
<1>5. ASSUME NEW h \in Human, CommitIntent(h) PROVE VisibleInv'
  BY <1>5 DEF CommitIntent, Step, HumanState, ActionRow, At
<1>6. ASSUME NEW h \in Human, Submit(h) PROVE VisibleInv'
  BY <1>6 DEF Submit, HumanState, At
<1>7. ASSUME NEW h \in Human, Refuse(h) PROVE VisibleInv'
  BY <1>7 DEF Refuse, HumanState, At
<1>8. ASSUME NEW h \in Human, ReceiveAnswer(h) PROVE VisibleInv'
  BY <1>8 DEF ReceiveAnswer, Step, HumanState, At
<1>9. ASSUME NEW h \in Human, ReloadAction(h) PROVE VisibleInv'
  BY <1>9 DEF ReloadAction, Done, HumanState, At, NoRequest
<1>10. ASSUME NEW h \in Human, RefuseDispatch(h) PROVE VisibleInv'
  BY <1>10 DEF RefuseDispatch, Done, HumanState, At, NoRequest, ActionRow, Flush
<1>11. ASSUME NEW h \in Human, RecordTask(h) PROVE VisibleInv'
  BY <1>11 DEF RecordTask, Done, HumanState, At, NoRequest, ActionRow
<1>12. ASSUME NEW h \in Human, CrashRequest(h) PROVE VisibleInv'
  BY <1>12 DEF CrashRequest, Done, NoRequest
<1>13. ASSUME RunTask PROVE VisibleInv'
  BY <1>13, ExecutionAssumption DEF RunTask, ExecutionAssumption, VALID_OUTCOMES
<1>14. ASSUME Age PROVE VisibleInv'
  BY <1>14 DEF Age, ActionRow
<1>15. ASSUME NEW r \in Reporter, ReadForReport(r) PROVE VisibleInv'
  BY <1>15 DEF ReadForReport
<1>16. ASSUME NEW r \in Reporter, Report(r) PROVE VisibleInv'
  <2>1. task \in VALID_OUTCOMES /\ task # "none" /\ receipts' > 0 /\ task' = task
    BY <1>16 DEF Report, ReportsAreTrue, VALID_OUTCOMES
  <2>2. human' = human /\ action'.status # "pending_approval"
    <3> DEFINE seen == reporter[r].seen
               new == ReportedRow(reporter[r].outcome, seen)
    <3>1. /\ seen \in ActionRow /\ action.status # "pending_approval"
          /\ reporter[r].outcome \in VALID_OUTCOMES
      BY <2>1, <1>16 DEF ReporterState, Report
    <3>2. new.status # "pending_approval"
      BY <3>1 DEF ReportedRow, ActionRow, VALID_OUTCOMES
    <3>3. action'.status = Flush(seen.status, new.status, action.status)
      BY <1>16, <3>1 DEF Report, ActionRow
    <3> HIDE DEF seen, new
    <3>4. QED
      BY <1>16, <3>1, <3>2, <3>3 DEF Flush, Report
  <2>3. \A h \in Human : human[h].pc # "approve"
    BY <2>1
  <2>4. QED
    BY <2>1, <2>2, <2>3
<1>17. ASSUME NEW r \in Reporter, CrashReport(r) PROVE VisibleInv'
  BY <1>17 DEF CrashReport
<1>18. CASE UNCHANGED vars
  BY <1>18 DEF vars
<1>19. QED
  BY <1>1, <1>2, <1>3, <1>4, <1>5, <1>6, <1>7, <1>8, <1>9, <1>10, <1>11, <1>12,
     <1>13, <1>14, <1>15, <1>16, <1>17, <1>18 DEF Next, Serve

\* "Unconfirmed is visible" (docs/EXECUTION_CHAIN.md): what OneClaw holds and
\* nobody has reported is "dispatched", whatever dies meanwhile, if one person
\* at a time deals with the action, it is approved once and no answer is lost.
THEOREM DispatchStaysVisible ==
    ASSUME OnePerson, ~Reapproval, ~LossyCalls
    PROVE  Spec => []UnconfirmedIsVisible
<1>1. Init => VisibleInv
  BY VisibleInit
<1>2. SentInv /\ VisibleInv /\ [Next]_vars => VisibleInv'
  BY VisibleNext
<1>3. VisibleInv => UnconfirmedIsVisible
  BY DEF VisibleInv
<1>4. QED
  BY <1>1, <1>2, <1>3, SentAndReported, PTL DEF Spec

-----------------------------------------------------------------------------
(* One receipt per outcome, while one connection of the executor reports.    *)

OneConnection == \A r, other \in Reporter : r = other

\* Why an outcome is filed once: its report leaves a status that no report and
\* no dispatch begins from, and nothing brings the action back to "approved".
ReceiptInv ==
    /\ receipts > 0 => task \in VALID_OUTCOMES
    /\ action.status = "pending_approval" => task = "none"
    /\ action.status = "approved" => task \in {"none", "dry_run"}
    /\ \A h \in Human :
          /\ human[h].pc = "approve" => action.status = "pending_approval"
          /\ human[h].pc = "intent" => task \in {"none", "dry_run"}
          /\ human[h].pc = "call" /\ task = "none" => action.status = "dispatched"
    /\ \A r \in Reporter :
          reporter[r].pc = "report" => reporter[r].seen.status \in {"dispatched", "approved"}
    /\ task \in TERMINAL_STATUSES /\ receipts > 0 =>
          /\ receipts = 1
          /\ action.status \in TERMINAL_STATUSES \cup {"dispatch_failed"}
          /\ \A r \in Reporter : reporter[r].pc = "idle"

LEMMA ReceiptInit == Init => ReceiptInv
BY DEF Init, ReceiptInv, NewAction, NoRequest, NoReport, VALID_OUTCOMES,
       TERMINAL_STATUSES

\* The status a report leaves: what it reports, if that is an outcome.
LEMMA ReportedStatus ==
    ASSUME SentInv, NEW r \in Reporter, Report(r),
           reporter[r].seen.status \in {"dispatched", "approved"}
    PROVE  /\ task \in VALID_OUTCOMES
           /\ task \in TERMINAL_STATUSES => action'.status = task
           /\ task = "dry_run" => action'.status \in {action.status, "approved"}
<1> DEFINE seen == reporter[r].seen
           new == ReportedRow(reporter[r].outcome, seen)
<1>1. /\ seen \in ActionRow /\ task \in VALID_OUTCOMES
      /\ reporter[r].outcome = task /\ action \in ActionRow
  BY DEF SentInv, TypeOK, ReporterState, ReportsAreTrue, Report
<1>2. new.status = IF task = "dry_run" THEN "approved" ELSE task
  BY <1>1 DEF ReportedRow, ActionRow, VALID_OUTCOMES
<1>3. action'.status = Flush(seen.status, new.status, action.status)
  BY <1>1 DEF Report, ActionRow
<1> HIDE DEF new
<1>4. QED
  BY <1>1, <1>2, <1>3 DEF Flush, TERMINAL_STATUSES

LEMMA ReceiptNext ==
    ASSUME OnePerson, OneConnection, ~Reapproval, SentInv, ReceiptInv, [Next]_vars
    PROVE  ReceiptInv'
<1>t. TypeOK /\ ReportsAreTrue
  BY DEF SentInv
<1> USE <1>t DEF OnePerson, OneConnection, ReceiptInv, TypeOK, VALID_OUTCOMES,
        TERMINAL_STATUSES
<1>1. ASSUME NEW h \in Human, ReadForApproval(h) PROVE ReceiptInv'
  BY <1>1 DEF ReadForApproval, Step, HumanState, At
<1>2. ASSUME NEW h \in Human, Approve(h) PROVE ReceiptInv'
  BY <1>2 DEF Approve, Step, HumanState, ActionRow, At
<1>3. ASSUME NEW h \in Human, RequestDispatch(h) PROVE ReceiptInv'
  BY <1>3 DEF RequestDispatch, Step, HumanState, At
<1>4. ASSUME NEW h \in Human, LoadForDispatch(h) PROVE ReceiptInv'
  BY <1>4 DEF LoadForDispatch, Step, HumanState, At
<1>5. ASSUME NEW h \in Human, CommitIntent(h) PROVE ReceiptInv'
  BY <1>5 DEF CommitIntent, Step, HumanState, ActionRow, At
<1>6. ASSUME NEW h \in Human, Submit(h) PROVE ReceiptInv'
  BY <1>6 DEF Submit, HumanState, At
<1>7. ASSUME NEW h \in Human, Refuse(h) PROVE ReceiptInv'
  BY <1>7 DEF Refuse, HumanState, At
<1>8. ASSUME NEW h \in Human, ReceiveAnswer(h) PROVE ReceiptInv'
  BY <1>8 DEF ReceiveAnswer, Step, HumanState, At
<1>9. ASSUME NEW h \in Human, ReloadAction(h) PROVE ReceiptInv'
  BY <1>9 DEF ReloadAction, Done, HumanState, At, NoRequest
<1>10. ASSUME NEW h \in Human, RefuseDispatch(h) PROVE ReceiptInv'
  <2>1. action'.status \in {action.status, "dispatch_failed"}
    BY <1>10, FlushCases DEF RefuseDispatch, ActionRow
  <2>2. human' = [human EXCEPT ![h] = NoRequest] /\ NoRequest.pc = "idle"
    BY <1>10 DEF RefuseDispatch, Done, NoRequest
  <2>3. UNCHANGED <<reporter, task, receipts>>
    BY <1>10 DEF RefuseDispatch
  <2>4. QED
    BY <2>1, <2>2, <2>3, <1>10 DEF RefuseDispatch, At
<1>11. ASSUME NEW h \in Human, RecordTask(h) PROVE ReceiptInv'
  BY <1>11 DEF RecordTask, Done, HumanState, At, NoRequest, ActionRow
<1>12. ASSUME NEW h \in Human, CrashRequest(h) PROVE ReceiptInv'
  BY <1>12 DEF CrashRequest, Done, NoRequest
<1>13. ASSUME RunTask PROVE ReceiptInv'
  BY <1>13, ExecutionAssumption DEF RunTask, ExecutionAssumption
<1>14. ASSUME Age PROVE ReceiptInv'
  BY <1>14 DEF Age, ActionRow
<1>15. ASSUME NEW r \in Reporter, ReadForReport(r) PROVE ReceiptInv'
  BY <1>15 DEF ReadForReport
<1>16. ASSUME NEW r \in Reporter, Report(r) PROVE ReceiptInv'
  <2>a. reporter[r].pc = "report" /\ reporter[r].seen.status \in {"dispatched", "approved"}
    BY <1>16 DEF Report
  <2>b. task \in TERMINAL_STATUSES => receipts = 0
    BY <2>a
  <2>1. /\ task \in TERMINAL_STATUSES => action'.status = task /\ receipts = 0
        /\ task = "dry_run" => action'.status \in {action.status, "approved"}
        /\ task \in VALID_OUTCOMES
    BY <1>16, <2>a, <2>b, ReportedStatus
  <2>2. /\ receipts' = receipts + 1 /\ human' = human /\ task' = task
        /\ reporter' = [reporter EXCEPT ![r] = NoReport]
    BY <1>16 DEF Report
  <2>3. \A o \in Reporter : reporter'[o].pc = "idle"
    BY <2>2 DEF NoReport
  <2>4. \A h \in Human : human[h].pc # "approve"
    BY <2>1
  <2>5. QED
    BY <2>1, <2>2, <2>3, <2>4
<1>17. ASSUME NEW r \in Reporter, CrashReport(r) PROVE ReceiptInv'
  BY <1>17 DEF CrashReport, NoReport
<1>18. CASE UNCHANGED vars
  BY <1>18 DEF vars
<1>19. QED
  BY <1>1, <1>2, <1>3, <1>4, <1>5, <1>6, <1>7, <1>8, <1>9, <1>10, <1>11, <1>12,
     <1>13, <1>14, <1>15, <1>16, <1>17, <1>18 DEF Next, Serve

\* "A repeated report does not duplicate evidence": however often the executor
\* repeats it over one connection, whatever answers are lost and whatever dies,
\* if one person at a time deals with the action and it is approved once.
THEOREM OutcomeFiledOnce ==
    ASSUME OnePerson, OneConnection, ~Reapproval
    PROVE  Spec => []OneReceipt
<1>1. Init => ReceiptInv
  BY ReceiptInit
<1>2. SentInv /\ ReceiptInv /\ [Next]_vars => ReceiptInv'
  BY ReceiptNext
<1>3. SentInv /\ ReceiptInv => OneReceipt
  BY DEF SentInv, TypeOK, ReceiptInv, OneReceipt
<1>4. QED
  BY <1>1, <1>2, <1>3, SentAndReported, PTL DEF Spec

-----------------------------------------------------------------------------
(* The status goes one way, while nothing is rehearsed.                      *)

\* Why the status goes one way: what a request is about to write still follows
\* the status in the row, and what a report is about to write is what any other
\* report of the same task has written.
OneWayInv ==
    /\ task # "dry_run"
    /\ action.status \in {"pending_approval", "approved", "dispatch_failed"} => task = "none"
    /\ action.status \in TERMINAL_STATUSES => action.status = task
    /\ \A h \in Human :
          /\ human[h].pc = "approve" => action.status = "pending_approval"
          /\ human[h].pc = "intent" => action.status = "approved"
          /\ human[h].pc = "answer" => human[h].answer = "accepted"
          /\ MayRefuse(h) => task = "none"
          /\ MayRefuse(h) /\ human[h].pc # "intent" => action.status = "dispatched"
          /\ human[h].pc = "refuse" => human[h].seen.status = "dispatched"
    /\ \A r \in Reporter :
          reporter[r].pc = "report" => reporter[r].seen.status = "dispatched"

LEMMA OneWayInit == Init => OneWayInv
BY DEF Init, OneWayInv, MayRefuse, NewAction, NoRequest, NoReport, TERMINAL_STATUSES

LEMMA OneWayNext ==
    ASSUME OnePerson, ~Reapproval, ~LossyCalls, "dry_run" \notin Outcome,
           SentInv, OneWayInv, [Next]_vars
    PROVE  OneWayInv' /\ action'.status \in {action.status} \cup Later(action.status)
<1> DEFINE Goal == OneWayInv' /\ action'.status \in {action.status} \cup Later(action.status)
<1>t. TypeOK /\ ReportsAreTrue
  BY DEF SentInv
<1> USE <1>t DEF OnePerson, OneWayInv, MayRefuse, TypeOK, TERMINAL_STATUSES
<1>1. ASSUME NEW h \in Human, ReadForApproval(h) PROVE Goal
  BY <1>1 DEF ReadForApproval, Step, HumanState, At
<1>2. ASSUME NEW h \in Human, Approve(h) PROVE Goal
  BY <1>2 DEF Approve, Step, HumanState, ActionRow, At, Later
<1>3. ASSUME NEW h \in Human, RequestDispatch(h) PROVE Goal
  BY <1>3 DEF RequestDispatch, Step, HumanState, At
<1>4. ASSUME NEW h \in Human, LoadForDispatch(h) PROVE Goal
  BY <1>4 DEF LoadForDispatch, Step, HumanState, At
<1>5. ASSUME NEW h \in Human, CommitIntent(h) PROVE Goal
  BY <1>5 DEF CommitIntent, Step, HumanState, ActionRow, At, Later
<1>6. ASSUME NEW h \in Human, Submit(h) PROVE Goal
  BY <1>6 DEF Submit, HumanState, At
<1>7. ASSUME NEW h \in Human, Refuse(h) PROVE Goal
  BY <1>7 DEF Refuse, HumanState, At
<1>8. ASSUME NEW h \in Human, ReceiveAnswer(h) PROVE Goal
  BY <1>8 DEF ReceiveAnswer, Step, HumanState, At
<1>9. ASSUME NEW h \in Human, ReloadAction(h) PROVE Goal
  BY <1>9 DEF ReloadAction, Done, HumanState, At, NoRequest
<1>10. ASSUME NEW h \in Human, RefuseDispatch(h) PROVE Goal
  BY <1>10 DEF RefuseDispatch, Done, HumanState, At, NoRequest, ActionRow, Flush, Later
<1>11. ASSUME NEW h \in Human, RecordTask(h) PROVE Goal
  BY <1>11 DEF RecordTask, Done, HumanState, At, NoRequest, ActionRow
<1>12. ASSUME NEW h \in Human, CrashRequest(h) PROVE Goal
  BY <1>12 DEF CrashRequest, Done, NoRequest
<1>13. ASSUME RunTask PROVE Goal
  BY <1>13, ExecutionAssumption DEF RunTask, ExecutionAssumption, VALID_OUTCOMES
<1>14. ASSUME Age PROVE Goal
  BY <1>14 DEF Age, ActionRow
<1>15. ASSUME NEW r \in Reporter, ReadForReport(r) PROVE Goal
  BY <1>15 DEF ReadForReport, VALID_OUTCOMES
<1>16. ASSUME NEW r \in Reporter, Report(r) PROVE Goal
  <2>1. /\ reporter[r].pc = "report" /\ reporter[r].seen.status = "dispatched"
        /\ action \in ActionRow
    BY <1>16 DEF Report
  <2>2. task \in TERMINAL_STATUSES /\ task # "none" /\ action'.status = task
    BY <1>16, <2>1, ReportedStatus DEF VALID_OUTCOMES
  <2>3. action.status \in {"dispatched", task}
    BY <2>2 DEF ActionRow, Status
  <2>4. /\ human' = human /\ task' = task
        /\ \A o \in Reporter : reporter'[o].pc = "report" => reporter'[o] = reporter[o]
    BY <1>16 DEF Report, NoReport
  <2>5. OneWayInv'
    BY <2>2, <2>4
  <2>6. QED
    BY <2>2, <2>3, <2>5 DEF Later
<1>17. ASSUME NEW r \in Reporter, CrashReport(r) PROVE Goal
  BY <1>17 DEF CrashReport, NoReport
<1>18. CASE UNCHANGED vars
  BY <1>18 DEF vars
<1>19. QED
  BY <1>1, <1>2, <1>3, <1>4, <1>5, <1>6, <1>7, <1>8, <1>9, <1>10, <1>11, <1>12,
     <1>13, <1>14, <1>15, <1>16, <1>17, <1>18 DEF Next, Serve

\* "The status is a one-way progression" (models.AgentAction): no report, no
\* late answer and no crash takes it back, if one person at a time deals with
\* the action, it is approved once, no answer is lost and nothing is rehearsed.
THEOREM StatusGoesOneWay ==
    ASSUME OnePerson, ~Reapproval, ~LossyCalls, "dry_run" \notin Outcome
    PROVE  Spec => OneWayProgression
<1> DEFINE Forward == \/ action'.status \in {action.status} \cup Later(action.status)
                      \/ task = "dry_run" /\ action'.status = "approved"
<1>1. Init => OneWayInv
  BY OneWayInit
<1>2. SentInv /\ OneWayInv /\ [Next]_vars => OneWayInv' /\ [Forward]_vars
  BY OneWayNext
<1>3. QED
  BY <1>1, <1>2, SentAndReported, PTL DEF Spec, OneWayProgression
=============================================================================
