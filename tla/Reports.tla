------------------------------- MODULE Reports -------------------------------
(* One report of a case: its generation, archive and approval, and the      *)
(* alerts its submission puts into the inboxes of the owner, the reviewer   *)
(* and the active administrators of that moment.                            *)
(*                                                                          *)
(* A request loads the row, decides, and writes the columns it changed when *)
(* its session commits; another request may have committed in between.  A   *)
(* submission writes the row, and so locks it, before it looks up whom to   *)
(* alert; the rebuild of the alerts only reads the row.  Who may send what  *)
(* is not repeated here (Membership), generation, which only reads the      *)
(* case, succeeds or fails as it pleases, and who owns and reviews the case *)
(* and who is an administrator changes as it pleases.                       *)
EXTENDS FiniteSets

CONSTANTS
    Users,        \* who may become owner, reviewer or administrator
    Requests,     \* slots for requests in flight
    Unset         \* a column a request leaves alone

ReportStatuses == {"ready", "failed", "archived"}

ApprovalStatuses == {"draft", "pending_approval", "approved", "rejected"}

\* handled: read, dismissed or archived.
AlertStatuses == {"unread", "handled"}

\* status_before is report_metadata["status_before_archive"]; queued and
\* generating are overwritten before the session commits.
Rows == [status: ReportStatuses, status_before: {"none", "ready", "failed"},
         archived_at: {"null", "set"}, content: {"null", "rendered"},
         approval: ApprovalStatuses, reason: {"null", "given"}]

Writes == [status: ReportStatuses \cup {Unset},
           status_before: {"none", "ready", "failed", Unset},
           archived_at: {"null", "set", Unset}, content: {"null", "rendered", Unset},
           approval: ApprovalStatuses \cup {Unset}, reason: {"null", "given", Unset}]

ASSUME ReportsAssumption ==
    Unset \notin ReportStatuses \cup ApprovalStatuses
                    \cup {"none", "null", "set", "rendered", "given"}

VARIABLES
    report,     \* the reports row, or NoReport
    recipients, \* owner_id, reviewer_id and the active administrators
    inbox,      \* user -> status of the alert for this report, or "none"
    request,    \* slot -> the request in flight there, or Idle
    raced,      \* history: a request wrote over a row changed since it was loaded
    late        \* history: became recipients after the last look at them

vars == <<report, recipients, inbox, request, raced, late>>

NoReport == [status |-> "absent"]

Idle == [phase |-> "idle"]

\* A submission is submitting until its row is flushed; then, like a rebuild
\* that is alerting, it has looked at the recipients and who lacks the alert.
InFlight == [phase: {"loaded", "submitting", "flushed", "alerting"}, write: Writes,
             looked: SUBSET Users, alerts: SUBSET Users, stale: BOOLEAN]

Rosters == SUBSET Users \ {{}}

\* The columns that changed, and those in forced, which every flush writes.
Differing(loaded, new, forced) ==
    LET Diff(column, a, b) == IF a = b /\ column \notin forced THEN Unset ELSE b
    IN  [status        |-> Diff("status", loaded.status, new.status),
         status_before |-> Diff("status_before", loaded.status_before, new.status_before),
         archived_at   |-> Diff("archived_at", loaded.archived_at, new.archived_at),
         content       |-> Diff("content", loaded.content, new.content),
         approval      |-> Diff("approval", loaded.approval, new.approval),
         reason        |-> Diff("reason", loaded.reason, new.reason)]

Applied(now, write) ==
    LET Merge(a, b) == IF b = Unset THEN a ELSE b
    IN  [status        |-> Merge(now.status, write.status),
         status_before |-> Merge(now.status_before, write.status_before),
         archived_at   |-> Merge(now.archived_at, write.archived_at),
         content       |-> Merge(now.content, write.content),
         approval      |-> Merge(now.approval, write.approval),
         reason        |-> Merge(now.reason, write.reason)]
-----------------------------------------------------------------------------
(* report.py and reporting_center.py *)

\* _generate_report_content on success: the metadata are replaced.
Generated(p) == [p EXCEPT !.status = "ready", !.content = "rendered",
                          !.status_before = "none", !.archived_at = "null"]

\* create_report: a new row is stored whether its generation worked or not.
CreateReport ==
    LET new == [status |-> "failed", status_before |-> "none", archived_at |-> "null",
                content |-> "null", approval |-> "draft", reason |-> "null"]
    IN  {new, Generated(new)}

\* retry_failed_report, its generation failing again
RetryReportFailed(p) ==
    IF p.status = "failed" THEN {[p EXCEPT !.archived_at = "null"]} ELSE {}

\* retry_failed_report, its generation succeeding
RetryReportReady(p) == IF p.status = "failed" THEN {Generated(p)} ELSE {}

\* archive_report
ArchiveReport(p) ==
    IF p.status = "archived" THEN {p}
    ELSE {[p EXCEPT !.status_before = p.status, !.status = "archived",
                    !.archived_at = "set"]}

\* Mutant: the row leaves the archive with its stamp.
RestoreReportStamped(p) ==
    IF p.status # "archived" THEN {p}
    ELSE {[p EXCEPT !.status = IF p.status_before = "failed" THEN "failed" ELSE "ready"]}

\* Mutant: the status before the archive is not looked up.
RestoreReportReady(p) ==
    IF p.status # "archived" THEN {p}
    ELSE {[p EXCEPT !.status = "ready", !.archived_at = "null"]}

\* restore_report
RestoreReport(p) ==
    IF p.status # "archived" THEN {p}
    ELSE {[p EXCEPT !.status = IF p.status_before = "failed" THEN "failed" ELSE "ready",
                    !.archived_at = "null"]}

(* case_review.py *)

\* Mutant: the reason of an earlier rejection stays.
SubmitReportApprovalKeeping(p) ==
    IF p.status = "archived" THEN {} ELSE {[p EXCEPT !.approval = "pending_approval"]}

\* submit_report_approval: in whatever state the approval is
SubmitReportApproval(p) ==
    IF p.status = "archived" THEN {}
    ELSE {[p EXCEPT !.approval = "pending_approval", !.reason = "null"]}

\* decide_report_approval: an archived report may be decided on
DecideReportApproval(p, decision) ==
    IF p.approval # "pending_approval" THEN {}
    ELSE {[p EXCEPT !.approval = IF decision = "approve" THEN "approved" ELSE "rejected",
                    !.reason = IF decision = "approve" THEN "null" ELSE "given"]}

(* notification.py *)

\* Mutant: nobody is told.
WithoutAlertNobody == {}

\* _reviewer_recipient_ids, of whom create_notification alerts those whose
\* dedupe key it does not find.
WithoutAlert == {u \in recipients : inbox[u] = "none"}

Alerted(alerts) == [u \in Users |-> IF u \in alerts THEN "unread" ELSE inbox[u]]

\* Mutant: the keys are looked up before the row is written.
RowLockedNever == FALSE

\* A submission has written the row and not committed yet.
RowLocked == \E o \in Requests : request[o].phase = "flushed"
-----------------------------------------------------------------------------
Init ==
    /\ report = NoReport
    /\ recipients \in Rosters
    /\ inbox = [u \in Users |-> "none"]
    /\ request = [r \in Requests |-> Idle]
    /\ raced = FALSE
    /\ late = {}

Create ==
    /\ report = NoReport
    /\ report' \in CreateReport
    /\ UNCHANGED <<recipients, inbox, request, raced, late>>

\* The handler has loaded the row, found nothing against it and set columns.
Receive(r, phase, outcomes, forced) ==
    /\ report # NoReport
    /\ request[r] = Idle
    /\ \E new \in outcomes :
          request' = [request EXCEPT ![r] =
              [phase |-> phase, write |-> Differing(report, new, forced),
               looked |-> {}, alerts |-> {}, stale |-> FALSE]]
    /\ UNCHANGED <<report, recipients, inbox, raced, late>>

\* A retry flushes generating before it flushes how it ended, and success
\* replaces the metadata and the content.
ReceiveRetry(r) ==
    /\ report # NoReport
    /\ \/ Receive(r, "loaded", RetryReportReady(report),
                  {"status", "status_before", "content"})
       \/ Receive(r, "loaded", RetryReportFailed(report), {"status"})

ReceiveArchive(r) == report # NoReport /\ Receive(r, "loaded", ArchiveReport(report), {})

ReceiveRestore(r) == report # NoReport /\ Receive(r, "loaded", RestoreReport(report), {})

ReceiveDecision(r, decision) ==
    report # NoReport /\ Receive(r, "loaded", DecideReportApproval(report, decision), {})

ReceiveSubmit(r) ==
    report # NoReport /\ Receive(r, "submitting", SubmitReportApproval(report), {})

\* submit_report_approval flushes the row (submitted_at always changes) and
\* waits for whoever has it; then notify_report_approval_pending looks.
FlushSubmit(r) ==
    /\ request[r].phase = "submitting"
    /\ ~RowLocked
    /\ request' = [request EXCEPT ![r] =
          [@ EXCEPT !.phase = "flushed", !.looked = recipients, !.alerts = WithoutAlert]]
    /\ UNCHANGED <<report, recipients, inbox, raced, late>>

\* rebuild_workflow_alerts (_alerts_for_report_approvals) writes no report.
ReceiveRebuild(r) ==
    /\ report # NoReport
    /\ report.approval = "pending_approval"
    /\ request[r] = Idle
    /\ request' = [request EXCEPT ![r] =
          [phase |-> "alerting", write |-> Differing(report, report, {}),
           looked |-> recipients, alerts |-> WithoutAlert, stale |-> FALSE]]
    /\ UNCHANGED <<report, recipients, inbox, raced, late>>

\* The index on dedupe_key refuses a second alert, and with it the session.
Deliverable(r) == \A u \in request[r].alerts : inbox[u] = "none"

Commit(r) ==
    /\ request[r].phase \in {"loaded", "flushed", "alerting"}
    /\ request[r].phase = "loaded" => ~RowLocked
    /\ Deliverable(r)
    /\ report' = Applied(report, request[r].write)
    /\ inbox' = Alerted(request[r].alerts)
    /\ request' = [o \in Requests |->
          IF o = r \/ request[o] = Idle THEN Idle
          ELSE [request[o] EXCEPT !.stale = @ \/ report' # report]]
    /\ raced' = (raced \/ (request[r].stale /\ report' # report))
    /\ late' = late \ request[r].looked
    /\ UNCHANGED recipients

Abort(r) ==
    /\ request[r] # Idle
    /\ request' = [request EXCEPT ![r] = Idle]
    /\ UNCHANGED <<report, recipients, inbox, raced, late>>

\* mark_notification_read, mark_all_notifications_read, dismiss_notification;
\* archive_stale_notifications (data_quality.py) leaves a handled alert handled.
HandleAlert(u) ==
    /\ inbox[u] = "unread"
    /\ inbox' = [inbox EXCEPT ![u] = "handled"]
    /\ UNCHANGED <<report, recipients, request, raced, late>>

\* The case gets another owner or reviewer, or an administrator is made,
\* disabled or enabled; no report is looked at.
ChangeRecipients ==
    /\ \E roster \in Rosters \ {recipients} :
          /\ recipients' = roster
          /\ late' = (late \cap roster) \cup (roster \ recipients)
    /\ UNCHANGED <<report, inbox, request, raced>>

Next ==
    \/ Create
    \/ \E r \in Requests :
          \/ ReceiveRetry(r)
          \/ ReceiveArchive(r)
          \/ ReceiveRestore(r)
          \/ \E decision \in {"approve", "reject"} : ReceiveDecision(r, decision)
          \/ ReceiveSubmit(r)
          \/ FlushSubmit(r)
          \/ ReceiveRebuild(r)
          \/ Commit(r)
          \/ Abort(r)
    \/ \E u \in Users : HandleAlert(u)
    \/ ChangeRecipients

Spec == Init /\ [][Next]_vars

\* What the requests that tell nobody make of report p.
Revised(p, new) ==
    \/ new \in RetryReportReady(p) \cup RetryReportFailed(p)
    \/ new \in ArchiveReport(p) \cup RestoreReport(p)
    \/ \E decision \in {"approve", "reject"} : new \in DecideReportApproval(p, decision)

\* One request of the report center, the approval or the rebuild of the
\* alerts, from load to commit.
HandlerStep ==
    /\ \/ report = NoReport /\ report' \in CreateReport /\ UNCHANGED inbox
       \/ report # NoReport /\ Revised(report, report') /\ UNCHANGED inbox
       \/ /\ report # NoReport
          /\ report' \in SubmitReportApproval(report)
          /\ inbox' = Alerted(WithoutAlert)
       \/ /\ report # NoReport
          /\ report.approval = "pending_approval"
          /\ inbox' = Alerted(WithoutAlert)
          /\ UNCHANGED report
    /\ UNCHANGED recipients

\* Somebody handles an alert.
InboxStep ==
    /\ \E u \in Users : inbox[u] # "none" /\ inbox' = [inbox EXCEPT ![u] = "handled"]
    /\ UNCHANGED <<report, recipients>>

\* Other people own, review or administer.
RosterStep == recipients' \in Rosters /\ UNCHANGED <<report, inbox>>

SerialSpec ==
    /\ report = NoReport
    /\ recipients \in Rosters
    /\ inbox = [u \in Users |-> "none"]
    /\ [][HandlerStep \/ InboxStep \/ RosterStep]_<<report, recipients, inbox>>

\* The request in slot r decided on a report that has changed since, or looked
\* at recipients that have.
Overtaken(r) ==
    /\ request[r] # Idle
    /\ \/ request[r].stale
       \/ request[r].phase \in {"flushed", "alerting"} /\ request[r].looked # recipients
-----------------------------------------------------------------------------
TypeOK ==
    /\ report \in {NoReport} \cup Rows
    /\ recipients \in Rosters
    /\ inbox \in [Users -> {"none"} \cup AlertStatuses]
    /\ request \in [Requests -> {Idle} \cup InFlight]
    /\ raced \in BOOLEAN
    /\ late \subseteq recipients

(* A ready report has content, whatever overlaps: the scan reports anything *)
(* else as report_ready_without_content (data_quality.py:902-907).  Unless  *)
(* requests overlapped, a failed one has none.                              *)
ContentMatchesStatus ==
    report # NoReport =>
        /\ report.status = "ready" => report.content = "rendered"
        /\ report.status = "failed" /\ ~raced => report.content = "null"

(* Unless requests overlapped, the archive stamp is on archived reports     *)
(* only, and an archived report remembers a status that fits its content.   *)
ArchiveIsWhole ==
    report # NoReport /\ ~raced =>
        /\ report.archived_at = "set" <=> report.status = "archived"
        /\ report.status = "archived" =>
              report.status_before = IF report.content = "rendered" THEN "ready" ELSE "failed"

(* "Rejected reports preserve the rejection reason"                         *)
(* (CASE_REVIEW_WORKFLOW.md:85), and only they have one.                    *)
VerdictsAreWhole ==
    report # NoReport /\ ~raced =>
        (report.approval = "rejected" <=> report.reason = "given")

(* The owner, the reviewer and the administrators have been told of a       *)
(* pending report, however submissions, rebuilds and changes of who they    *)
(* are overlap, save for those who became one after the last submission or  *)
(* rebuild had looked: nobody tells them until an administrator rebuilds    *)
(* the alerts.  (The alert may be handled by now: a resubmission finds its  *)
(* key and leaves it alone.)                                                *)
PendingIsAlerted ==
    report # NoReport /\ report.approval = "pending_approval" =>
        \A u \in recipients \ late : inbox[u] # "none"

(* A submission whose row is written fails on an alert that exists already  *)
(* only because of a rebuild: two submissions never want the same alert,    *)
(* the second one waits for the row and finds it.                           *)
RefusedByRebuildOnly ==
    [][\A r \in Requests :
          request[r].phase = "flushed" /\ Deliverable(r) /\ request'[r] # Idle =>
              \/ Deliverable(r)'
              \/ \E o \in Requests : request[o].phase = "alerting" /\ request'[o] = Idle]_vars

(* Every change of the report and its alerts is what one handler makes of   *)
(* the report, the recipients and the inboxes as they are at that moment;   *)
(* only a request that was overtaken leaves what no handler would.          *)
AtomicUnlessOvertaken ==
    [][HandlerStep \/ InboxStep
       \/ \E r \in Requests : Overtaken(r) /\ request'[r] = Idle]_<<report, inbox>>

\* The review checklist counts reports, its closure counterpart those that
\* are ready or archived.
ReviewItemPassed == report # NoReport

ClosureItemCompleted == report # NoReport /\ report.status \in {"ready", "archived"}

(* "Reports were generated" (CASE_REVIEW_WORKFLOW.md:35): the item of the   *)
(* review checklist passes only if a report has been generated.             *)
ReviewItemMeansGenerated == ReviewItemPassed => report.content = "rendered"
=============================================================================
