---------------------------- MODULE CaseHandlers ----------------------------
(* What each request does to the workflow columns of one case.              *)
(*                                                                          *)
(* A case is a record of the columns the governance handlers read and       *)
(* write: status and stage of the investigations row, the case_reviews row  *)
(* and the case_closures row.  The two child rows are created on first use  *)
(* with the defaults not_submitted and draft, so a missing row and a fresh  *)
(* one are the same case here.                                              *)
(*                                                                          *)
(* A handler maps the case it loaded to the set of cases it may leave       *)
(* behind: empty when the handler raises and its session is rolled back.    *)
(* CaseWorkflow applies handlers to the committed case in one step; being   *)
(* functions of a case they can as well be given one that is out of date.   *)

Statuses == {"intake", "active", "monitoring", "remediation", "validation",
             "completed", "archived"}

Stages == {"intake", "scoping", "recon", "analysis", "remediation",
           "validation", "reporting", "completed", "archived"}

ReviewStatuses == {"not_submitted", "pending_review", "changes_requested",
                   "approved", "rejected", "closed"}

ClosureStatuses == {"draft", "in_review", "approved", "closed", "reopened"}

Cases == [status: Statuses, stage: Stages, review: ReviewStatuses,
          reviewOverride: BOOLEAN, closure: ClosureStatuses]

\* Mutant: active work may be called completed.
ALLOWED_WORKFLOW_TRANSITIONS_LOOSE ==
    [intake      |-> {"active"},
     active      |-> {"monitoring", "remediation", "completed"},
     monitoring  |-> {"active", "remediation"},
     remediation |-> {"validation"},
     validation  |-> {"remediation", "completed"},
     completed   |-> {"active", "archived"},
     archived    |-> {"active"}]

ALLOWED_WORKFLOW_TRANSITIONS ==
    [intake      |-> {"active"},
     active      |-> {"monitoring", "remediation"},
     monitoring  |-> {"active", "remediation"},
     remediation |-> {"validation"},
     validation  |-> {"remediation", "completed"},
     completed   |-> {"active", "archived"},
     archived    |-> {"active"}]

ALLOWED_STAGE_TRANSITIONS ==
    [intake      |-> {"scoping"},
     scoping     |-> {"intake", "recon"},
     recon       |-> {"scoping", "analysis"},
     analysis    |-> {"recon", "remediation"},
     remediation |-> {"analysis", "validation"},
     validation  |-> {"remediation", "reporting"},
     reporting   |-> {"validation", "completed"},
     completed   |-> {"reporting", "archived"},
     archived    |-> {"completed"}]

\* A handler that checks `allowed` and then writes d.
When(allowed, d) == IF allowed THEN {d} ELSE {}

\* create_investigation
NewCase == [status |-> "intake", stage |-> "intake", review |-> "not_submitted",
            reviewOverride |-> FALSE, closure |-> "draft"]

-----------------------------------------------------------------------------
(* investigation.py *)

\* PUT /investigations/{id} with a status (update_investigation): the stage
\* stays as it is, also when the case leaves the archive.
PutStatus(c, target) ==
    When(target \in ALLOWED_WORKFLOW_TRANSITIONS[c.status],
         [c EXCEPT !.status = target])

\* PATCH /investigations/{id}/status: leaving the archive also restores the stage.
PatchStatus(c, target) ==
    When(target \in ALLOWED_WORKFLOW_TRANSITIONS[c.status],
         [c EXCEPT !.status = target,
                   !.stage = IF c.status = "archived" /\ @ = "archived"
                             THEN "completed" ELSE @])

\* Mutant: the table alone decides.
UpdateStageByTable(c, target) ==
    When(target \in ALLOWED_STAGE_TRANSITIONS[c.stage], [c EXCEPT !.stage = target])

UpdateStage(c, target) ==
    When(/\ target = "archived" => c.status = "archived"
         /\ target \in ALLOWED_STAGE_TRANSITIONS[c.stage],
         [c EXCEPT !.stage = target])

ArchiveInvestigation(c) ==
    {[c EXCEPT !.status = "archived",
               !.stage = IF @ = "completed" THEN "archived" ELSE @]}

-----------------------------------------------------------------------------
(* case_review.py *)

\* Mutant: a closed review may be submitted again.
SubmitCaseReviewAnytime(c) == {[c EXCEPT !.review = "pending_review"]}

SubmitCaseReview(c) ==
    When(c.review # "closed", [c EXCEPT !.review = "pending_review"])

ReviewDecisions == [approve         |-> "approved",
                    reject          |-> "rejected",
                    request_changes |-> "changes_requested"]

DecideCaseReview(c, decision) ==
    When(c.review \in {"pending_review", "changes_requested"},
         [c EXCEPT !.review = ReviewDecisions[decision]])

\* Mutant: a rejected review is closed like an approved one.
CloseCaseDecided(c, override) ==
    When(c.review \in {"approved", "rejected"} \/ override,
         [c EXCEPT !.review = "closed", !.reviewOverride = override,
                   !.status = "completed", !.stage = "completed"])

\* close_case: any review state may be closed with an override reason, a
\* closed one again; the status and stage are overwritten whatever they were.
CloseCase(c, override) ==
    When(c.review = "approved" \/ override,
         [c EXCEPT !.review = "closed", !.reviewOverride = override,
                   !.status = "completed", !.stage = "completed"])

-----------------------------------------------------------------------------
(* case_closure.py *)

SubmitCaseClosure(c) ==
    When(c.closure \in {"draft", "reopened"}, [c EXCEPT !.closure = "in_review"])

ApproveCaseClosure(c) ==
    When(c.closure = "in_review", [c EXCEPT !.closure = "approved"])

\* Mutant: the checklist alone decides.
CloseCaseClosureUnapproved(c, blocked, override) ==
    When(override \/ ~blocked,
         [c EXCEPT !.closure = "closed",
                   !.status = IF @ = "archived" THEN @ ELSE "completed",
                   !.stage = IF @ = "archived" THEN @ ELSE "completed"])

\* Mutant: an archived case is completed too.
CloseCaseClosureAlways(c, blocked, override) ==
    When(override \/ (c.closure = "approved" /\ ~blocked),
         [c EXCEPT !.closure = "closed", !.status = "completed", !.stage = "completed"])

\* blocked: a required checklist item is pending or blocked (ClosureChecklist
\* says when).
CloseCaseClosure(c, blocked, override) ==
    When(override \/ (c.closure = "approved" /\ ~blocked),
         [c EXCEPT !.closure = "closed",
                   !.status = IF @ = "archived" THEN @ ELSE "completed",
                   !.stage = IF @ = "archived" THEN @ ELSE "completed"])

\* Mutant: any closure may be reopened.
ReopenCaseClosureAnytime(c) ==
    {[c EXCEPT !.closure = "reopened",
               !.status = IF @ = "completed" THEN "active" ELSE @,
               !.stage = IF @ = "completed" THEN "analysis" ELSE @]}

ReopenCaseClosure(c) ==
    When(c.closure = "closed",
         [c EXCEPT !.closure = "reopened",
                   !.status = IF @ = "completed" THEN "active" ELSE @,
                   !.stage = IF @ = "completed" THEN "analysis" ELSE @])
=============================================================================
