---------------------------- MODULE FindingReview ----------------------------
(* One finding under the three services that decide about it:               *)
(* findings_service.py (status and assignment), playbook.py (remediation)   *)
(* and case_review.py (validation of the remediation).  They share one row  *)
(* and each keeps rules of its own.                                         *)
(*                                                                          *)
(* Requests overlap as in PlaybookRuns: load, decide, commit the columns    *)
(* that differ.  review_history is a JSON list: a handler that appends to   *)
(* it writes the whole list it loaded, and case_review.py cuts the list to  *)
(* its last entries.                                                        *)
EXTENDS Naturals

CONSTANTS
    FindingTargets,   \* statuses clients set
    HistoryLimit,     \* entries case_review.py keeps of the history: 50
    Requests,         \* slots for requests in flight
    Unset             \* a column a request leaves alone

FindingStatuses == {"new", "under_review", "validated", "accepted_risk", "mitigated",
                    "false_positive", "archived", "open", "resolved"}

RemediationStatuses == {"not_started", "validating", "remediation_planned", "in_progress",
                        "pending_verification", "remediated", "accepted_risk",
                        "false_positive"}

ValidationStatuses == {"not_validated", "validation_pending", "validated",
                       "validation_failed", "accepted_risk"}

\* What review_history says last of the status (with the creation as its
\* first entry, "cut" when that entry is gone) and of the validation, and how
\* many entries follow the one about the status, HistoryLimit for any more.
Histories == [status: FindingStatuses \cup {"cut"}, validation: ValidationStatuses,
              later: 0..HistoryLimit]

Rows == [status: FindingStatuses, remediation: RemediationStatuses,
         validation: ValidationStatuses, verified_by: {"null", "set"},
         verified_at: {"null", "set"}, history: Histories]

ASSUME FindingAssumption ==
    /\ FindingTargets \subseteq FindingStatuses
    /\ HistoryLimit \in Nat \ {0}
    /\ Unset \notin FindingStatuses \cup RemediationStatuses \cup ValidationStatuses
                    \cup {"null", "set"} \cup Histories

\* The columns a request writes.
Writes == [status: FindingStatuses \cup {Unset},
           remediation: RemediationStatuses \cup {Unset},
           validation: ValidationStatuses \cup {Unset},
           verified_by: {"null", "set", Unset}, verified_at: {"null", "set", Unset},
           history: Histories \cup {Unset}]

VARIABLES
    finding,    \* the row
    request,    \* slot -> the request in flight there, or Idle
    raced       \* history: a request committed after another had changed the
                \* row it loaded

vars == <<finding, request, raced>>

Idle == [phase |-> "idle"]

InFlight == [phase: {"loaded"}, write: Writes, stale: BOOLEAN]

-----------------------------------------------------------------------------
(* The handlers: the rows they may leave of the one they loaded.            *)

NewFinding == [status |-> "new", remediation |-> "not_started",
               validation |-> "not_validated", verified_by |-> "null",
               verified_at |-> "null",
               history |-> [status |-> "new", validation |-> "not_validated", later |-> 0]]

OneMore(n) == IF n < HistoryLimit THEN n + 1 ELSE n

\* _append_review_history, which keeps every entry.
WithStatus(h, status) == [h EXCEPT !.status = status, !.later = 0]

WithAssignment(h) == [h EXCEPT !.later = OneMore(@)]

\* _append_finding_history, which keeps the last HistoryLimit entries.
WithValidation(h, validation) ==
    [status     |-> IF OneMore(h.later) < HistoryLimit THEN h.status ELSE "cut",
     validation |-> validation,
     later      |-> OneMore(h.later)]

\* update_finding_status: any status follows any other.
UpdateFindingStatus(f, target) ==
    {[f EXCEPT !.status = target, !.history = WithStatus(@, target)]}

\* assign_finding appends an entry that is about neither status.
AssignFinding(f) == {[f EXCEPT !.history = WithAssignment(@)]}

\* Mutant: the submission leaves no entry of its own.
SubmitValidationSilently(f) == {[f EXCEPT !.validation = "validation_pending"]}

\* submit_remediation_validation: also when it was validated before.
SubmitValidation(f) ==
    {[f EXCEPT !.validation = "validation_pending",
               !.history = WithValidation(@, "validation_pending")]}

ValidationDecisions == [validate    |-> "validated",
                        fail        |-> "validation_failed",
                        accept_risk |-> "accepted_risk"]

\* Mutant: an accepted risk is not carried over to the remediation.
DecideValidationForgets(f, decision) ==
    IF f.validation # "validation_pending" THEN {}
    ELSE {[f EXCEPT !.validation = ValidationDecisions[decision],
                    !.history = WithValidation(@, ValidationDecisions[decision]),
                    !.verified_by = "set",
                    !.verified_at = "set",
                    !.remediation = IF decision = "validate" THEN "remediated" ELSE @]}

\* decide_remediation_validation: past the remediation table.
DecideValidation(f, decision) ==
    IF f.validation # "validation_pending" THEN {}
    ELSE {[f EXCEPT !.validation = ValidationDecisions[decision],
                    !.history = WithValidation(@, ValidationDecisions[decision]),
                    !.verified_by = "set",
                    !.verified_at = "set",
                    !.remediation = CASE decision = "validate" -> "remediated"
                                      [] decision = "accept_risk" -> "accepted_risk"
                                      [] decision = "fail" -> @]}

\* Mutant: what was remediated can be planned again.
REMEDIATION_TRANSITIONS_REOPENING ==
    [not_started          |-> {"validating", "remediation_planned", "accepted_risk",
                               "false_positive"},
     validating           |-> {"remediation_planned", "accepted_risk", "false_positive"},
     remediation_planned  |-> {"in_progress", "accepted_risk"},
     in_progress          |-> {"pending_verification", "accepted_risk"},
     pending_verification |-> {"in_progress", "remediated"},
     remediated           |-> {"remediation_planned"},
     accepted_risk        |-> {},
     false_positive       |-> {}]

REMEDIATION_TRANSITIONS ==
    [not_started          |-> {"validating", "remediation_planned", "accepted_risk",
                               "false_positive"},
     validating           |-> {"remediation_planned", "accepted_risk", "false_positive"},
     remediation_planned  |-> {"in_progress", "accepted_risk"},
     in_progress          |-> {"pending_verification", "accepted_risk"},
     pending_verification |-> {"in_progress", "remediated"},
     remediated           |-> {},
     accepted_risk        |-> {},
     false_positive       |-> {}]

\* Mutant: the verifier is asked for when the status changes, not when it is
\* sent again.
UpdateRemediationOnce(f, target, verifier, documented) ==
    IF /\ target = f.remediation \/ target \in REMEDIATION_TRANSITIONS[f.remediation]
       /\ target = "remediated" /\ target # f.remediation => verifier = "set" /\ documented
       /\ target = "accepted_risk" => documented
    THEN {[f EXCEPT !.remediation = target,
                    !.verified_by = verifier,
                    !.verified_at = IF target = "remediated" THEN "set"
                                    ELSE IF target # f.remediation THEN "null" ELSE @]}
    ELSE {}

\* update_finding_remediation.  The PATCH carries the whole form: a verifier
\* it leaves out is cleared.  documented: the notes the status asks for.
UpdateRemediation(f, target, verifier, documented) ==
    IF /\ target = f.remediation \/ target \in REMEDIATION_TRANSITIONS[f.remediation]
       /\ target = "remediated" => verifier = "set" /\ documented
       /\ target = "accepted_risk" => documented
    THEN {[f EXCEPT !.remediation = target,
                    !.verified_by = verifier,
                    !.verified_at = IF target = "remediated" THEN "set"
                                    ELSE IF target # f.remediation THEN "null" ELSE @]}
    ELSE {}

\* What the session flushes: the columns that differ, and the list if the
\* handler appended to it.
Differing(loaded, new, appends) ==
    LET Diff(a, b) == IF a = b THEN Unset ELSE b
    IN  [status      |-> Diff(loaded.status, new.status),
         remediation |-> Diff(loaded.remediation, new.remediation),
         validation  |-> Diff(loaded.validation, new.validation),
         verified_by |-> Diff(loaded.verified_by, new.verified_by),
         verified_at |-> Diff(loaded.verified_at, new.verified_at),
         history     |-> IF appends THEN new.history ELSE Unset]

Applied(now, write) ==
    LET Merge(a, b) == IF b = Unset THEN a ELSE b
    IN  [status      |-> Merge(now.status, write.status),
         remediation |-> Merge(now.remediation, write.remediation),
         validation  |-> Merge(now.validation, write.validation),
         verified_by |-> Merge(now.verified_by, write.verified_by),
         verified_at |-> Merge(now.verified_at, write.verified_at),
         history     |-> Merge(now.history, write.history)]

-----------------------------------------------------------------------------
Init ==
    /\ finding = NewFinding
    /\ request = [r \in Requests |-> Idle]
    /\ raced = FALSE

Receive(r, outcomes, appends) ==
    /\ request[r] = Idle
    /\ \E new \in outcomes :
          request' = [request EXCEPT ![r] =
              [phase |-> "loaded", write |-> Differing(finding, new, appends),
               stale |-> FALSE]]
    /\ UNCHANGED <<finding, raced>>

ReceiveStatus(r, target) == Receive(r, UpdateFindingStatus(finding, target), TRUE)

ReceiveAssign(r) == Receive(r, AssignFinding(finding), TRUE)

ReceiveSubmit(r) == Receive(r, SubmitValidation(finding), TRUE)

ReceiveDecision(r, decision) == Receive(r, DecideValidation(finding, decision), TRUE)

ReceiveRemediation(r, target, verifier, documented) ==
    Receive(r, UpdateRemediation(finding, target, verifier, documented), FALSE)

Commit(r) ==
    /\ request[r] # Idle
    /\ finding' = Applied(finding, request[r].write)
    /\ raced' = (raced \/ request[r].stale)
    /\ request' = [o \in Requests |->
          IF o = r \/ request[o] = Idle THEN Idle
          ELSE [request[o] EXCEPT !.stale = TRUE]]

Abort(r) ==
    /\ request[r] # Idle
    /\ request' = [request EXCEPT ![r] = Idle]
    /\ UNCHANGED <<finding, raced>>

Next ==
    \E r \in Requests :
        \/ \E target \in FindingTargets : ReceiveStatus(r, target)
        \/ ReceiveAssign(r)
        \/ ReceiveSubmit(r)
        \/ \E decision \in DOMAIN ValidationDecisions : ReceiveDecision(r, decision)
        \/ \E target \in RemediationStatuses, verifier \in {"null", "set"},
              documented \in BOOLEAN : ReceiveRemediation(r, target, verifier, documented)
        \/ Commit(r)
        \/ Abort(r)

Spec == Init /\ [][Next]_vars

\* Some handler leaves row `new` of a row f that nobody else touches.
Handled(f, new) ==
    \/ \E target \in FindingTargets : new \in UpdateFindingStatus(f, target)
    \/ new \in AssignFinding(f)
    \/ new \in SubmitValidation(f)
    \/ \E decision \in DOMAIN ValidationDecisions : new \in DecideValidation(f, decision)
    \/ \E target \in RemediationStatuses, verifier \in {"null", "set"}, documented \in BOOLEAN :
          new \in UpdateRemediation(f, target, verifier, documented)

\* The handlers one after another.
SerialSpec == finding = NewFinding /\ [][Handled(finding, finding')]_finding

\* The request in slot r decided on a row that has changed since.
Overtaken(r) == request[r] # Idle /\ request[r].stale
-----------------------------------------------------------------------------
(* What the rest of the system makes of the row (for a critical or high      *)
(* finding).                                                                 *)

\* Mutant: a finding whose analysis is finished does not block closing.
ClosureBlockedUnvalidated(f) ==
    /\ f.status \notin {"validated", "mitigated", "false_positive", "archived"}
    /\ f.remediation \notin {"remediated", "accepted_risk"}

\* case_closure.py _unresolved_high_risk_count
ClosureBlocked(f) ==
    /\ f.status \notin {"mitigated", "false_positive", "archived"}
    /\ f.remediation \notin {"remediated", "accepted_risk"}

\* case_review.py _critical_blockers
ReviewBlocked(f) ==
    /\ f.status \notin {"validated", "mitigated", "false_positive", "archived"}
    /\ f.remediation \notin {"remediated", "accepted_risk"}

\* operations.py _finding_is_unresolved
OperationsUnresolved(f) ==
    /\ f.status \in {"new", "under_review", "accepted_risk", "open"}
    /\ f.remediation \notin {"remediated", "accepted_risk", "false_positive"}

\* productivity.py _build_summary
SummaryUnresolved(f) ==
    /\ f.status \notin {"mitigated", "resolved", "false_positive", "archived"}
    /\ f.remediation \notin {"remediated", "accepted_risk", "false_positive"}
-----------------------------------------------------------------------------
TypeOK ==
    /\ finding \in Rows
    /\ request \in [Requests -> {Idle} \cup InFlight]
    /\ raced \in BOOLEAN

(* The validation's outcome and the remediation agree, although validation  *)
(* bypasses the remediation table and can be repeated after the remediation *)
(* was closed by hand: validated goes with remediated, accepted risk with   *)
(* accepted risk.  Only overlapping requests break it.                      *)
OutcomeMatchesRemediation ==
    ~raced => /\ finding.validation = "validated" => finding.remediation = "remediated"
              /\ finding.validation = "accepted_risk" => finding.remediation = "accepted_risk"

(* "Remediated findings require a verifier and verification notes"          *)
(* (playbook.py:430): whichever service closed it, and however often the    *)
(* form is sent again, a remediated finding names its verifier and the time.*)
RemediatedIsVerified ==
    ~raced /\ finding.remediation = "remediated" =>
        finding.verified_by = "set" /\ finding.verified_at = "set"

(* A finding that was remediated or whose risk was accepted stays decided:  *)
(* it never counts as open work again.                                      *)
ResolutionIsKept ==
    [][finding.remediation \in {"remediated", "accepted_risk"} =>
          finding'.remediation \in {"remediated", "accepted_risk"} \/ raced']_vars

(* The review history tells how the finding got where it is: its last       *)
(* entries name the status and the validation outcome the row has, unless   *)
(* the entry about the status is HistoryLimit or more entries old.  Four    *)
(* handlers of two services append to it; overlapping appends drop entries. *)
HistoryTellsDecisions ==
    ~raced =>
        /\ finding.history.validation = finding.validation
        /\ \/ finding.history.status = finding.status
           \/ finding.history.status = "cut" /\ finding.history.later = HistoryLimit

(* Every change of the row is what one handler makes of the row as it is at *)
(* that moment, although the handler read it earlier and the commit writes  *)
(* single columns over it; only a request that was overtaken leaves a row   *)
(* that no handler would.                                                   *)
AtomicUnlessOvertaken ==
    [][Handled(finding, finding')
       \/ \E r \in Requests : Overtaken(r) /\ request'[r] = Idle]_finding

(* Whatever some view of the case still calls unresolved also blocks its    *)
(* closing: the closure never lets through what the review gate, the        *)
(* operations board or the summary report as open.                          *)
ClosureIsStrictest ==
    ReviewBlocked(finding) \/ OperationsUnresolved(finding) \/ SummaryUnresolved(finding) =>
        ClosureBlocked(finding)
=============================================================================
