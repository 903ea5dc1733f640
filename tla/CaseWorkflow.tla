---------------------------- MODULE CaseWorkflow ----------------------------
(* The life of one case under the people who may change it: the workflow    *)
(* columns of CaseHandlers together with the roles of Membership.  Every    *)
(* request is one step here, as it is when requests on the case do not      *)
(* overlap.                                                                 *)
EXTENDS Membership, CaseHandlers

VARIABLES
    exists,     \* the investigations row is there
    case,       \* the workflow columns (CaseHandlers!Cases)
    granted,    \* history: what was approved since it was last submitted
    waived      \* history: the latest closing of the closure gave an override reason

workflowVars == <<exists, case, granted, waived>>
vars == <<memberVars, workflowVars>>

Init ==
    /\ MembershipInit
    /\ exists = TRUE
    /\ case = NewCase
    /\ granted = {}
    /\ waived = FALSE

\* Every request looks the case up first (get_investigation: 404 once purged);
\* `exists` is that test, and the role tests below imply its other half.
\*
\* _ensure_reviewer_permission: the users owner_id and reviewer_id name pass
\* whatever their role; get_investigation has asked for membership before.
MayReview(u) ==
    /\ CanSee(u)
    /\ u \in {ownerId, reviewerId} \/ HasRole(u, CASE_ADMIN_ROLES)

\* ensure_investigation_permission with MUTATION_ROLES: once the review is
\* closed the roles below case admin are refused.
MayMutate(u) ==
    /\ HasRole(u, MUTATION_ROLES)
    /\ case.review = "closed" => HasRole(u, CASE_ADMIN_ROLES)

\* Outcomes of a handler that approves and waives nothing.
WorkflowStep(outcomes) ==
    /\ case' \in outcomes
    /\ UNCHANGED <<memberVars, exists, granted, waived>>

\* Setting the status or stage a case already has is accepted and changes nothing.
MoveCase(u) ==
    /\ exists
    /\ HasRole(u, CASE_ADMIN_ROLES)
    /\ \/ \E target \in Statuses : WorkflowStep(PutStatus(case, target))
       \/ \E target \in Statuses : WorkflowStep(PatchStatus(case, target))
       \/ \E target \in Stages : WorkflowStep(UpdateStage(case, target))

Archive(u) ==
    /\ exists
    /\ HasRole(u, OWNER_ROLES)
    /\ WorkflowStep(ArchiveInvestigation(case))

\* purge_archived_investigation: the row goes and the child rows cascade.
Purge(u) ==
    /\ exists
    /\ HasRole(u, OWNER_ROLES)
    /\ case.status = "archived"
    /\ exists' = FALSE
    /\ UNCHANGED <<memberVars, case, granted, waived>>

SubmitReview(u) ==
    /\ exists
    /\ MayMutate(u)
    /\ case' \in SubmitCaseReview(case)
    /\ granted' = granted \ {"review"}
    /\ UNCHANGED <<memberVars, exists, waived>>

DecideReview(u, decision) ==
    /\ exists
    /\ MayReview(u)
    /\ case' \in DecideCaseReview(case, decision)
    /\ granted' = IF decision = "approve" THEN granted \cup {"review"}
                                          ELSE granted \ {"review"}
    /\ UNCHANGED <<memberVars, exists, waived>>

\* An approved review is closed by a reviewer, any other one by a case admin
\* who gives an override reason.
CloseReview(u, override) ==
    /\ exists
    /\ CanSee(u)
    /\ IF case.review = "approved" THEN MayReview(u)
                                   ELSE HasRole(u, CASE_ADMIN_ROLES)
    /\ WorkflowStep(CloseCase(case, override))

SubmitClosure(u) ==
    /\ exists
    /\ MayMutate(u)
    /\ case' \in SubmitCaseClosure(case)
    /\ granted' = granted \ {"closure"}
    /\ UNCHANGED <<memberVars, exists, waived>>

ApproveClosure(u) ==
    /\ exists
    /\ HasRole(u, CASE_ADMIN_ROLES)
    /\ case' \in ApproveCaseClosure(case)
    /\ granted' = granted \cup {"closure"}
    /\ UNCHANGED <<memberVars, exists, waived>>

CloseClosure(u, blocked, override) ==
    /\ exists
    /\ HasRole(u, CASE_ADMIN_ROLES)
    /\ case' \in CloseCaseClosure(case, blocked, override)
    /\ waived' = override
    /\ UNCHANGED <<memberVars, exists, granted>>

ReopenClosure(u) ==
    /\ exists
    /\ HasRole(u, CASE_ADMIN_ROLES)
    /\ WorkflowStep(ReopenCaseClosure(case))

MembershipStep ==
    /\ exists
    /\ MembershipNext
    /\ UNCHANGED workflowVars

UserStep(u) ==
    \/ MoveCase(u)
    \/ Archive(u)
    \/ Purge(u)
    \/ SubmitReview(u)
    \/ \E decision \in DOMAIN ReviewDecisions : DecideReview(u, decision)
    \/ \E override \in BOOLEAN : CloseReview(u, override)
    \/ SubmitClosure(u)
    \/ ApproveClosure(u)
    \/ \E blocked, override \in BOOLEAN : CloseClosure(u, blocked, override)
    \/ ReopenClosure(u)

Next ==
    \/ MembershipStep
    \/ \E u \in Users : UserStep(u)

Spec == Init /\ [][Next]_vars
-----------------------------------------------------------------------------
TypeOK ==
    /\ MembershipTypeOK
    /\ exists \in BOOLEAN
    /\ case \in Cases
    /\ granted \subseteq {"review", "closure"}
    /\ waived \in BOOLEAN

(* A closed closure was earned: since the closure was last submitted a case *)
(* admin approved it, or the closing recorded an override reason.  An       *)
(* approval never outlives a reopening (submit, approve, close and reopen   *)
(* in case_closure.py).                                                     *)
ClosureEarned == case.closure = "closed" => "closure" \in granted \/ waived

(* "Closure is allowed when the case review is approved.  Owners and        *)
(* platform admins can override closure with a documented reason"           *)
(* (CASE_REVIEW_WORKFLOW.md:110): a closed review was approved after its    *)
(* last submission or carries an override reason, although members submit,  *)
(* decide and close in any order.                                           *)
ReviewEarned == case.review = "closed" => "review" \in granted \/ case.reviewOverride

\* What keeps the two inductive: an approved status is an approval on record.
ApprovalsOnRecord ==
    /\ case.review = "approved" => "review" \in granted
    /\ case.closure = "approved" => "closure" \in granted

GovernanceInv == TypeOK /\ ApprovalsOnRecord /\ ReviewEarned /\ ClosureEarned

(* "Closed cases become read-only for non-owner analysts and viewers"       *)
(* (CASE_REVIEW_WORKFLOW.md:22): whichever way the case was closed, nobody  *)
(* below case admin passes the test every handler that edits case content   *)
(* begins with.  Only a closed review locks the case; closing from the      *)
(* Closure tab does not.                                                    *)
ClosedCaseReadOnly ==
    case.review = "closed" \/ case.closure = "closed" =>
        \A u \in Users : MayMutate(u) => HasRole(u, CASE_ADMIN_ROLES)

(* No request takes a review out of closed: not a new submission, not a     *)
(* decision, not reopening the closure.                                     *)
ReviewClosedIsFinal ==
    [][case.review = "closed" => case'.review = "closed"]_vars

(* A case becomes completed only from validation or by one of the two       *)
(* closings, although five handlers write the status.                       *)
CompletionIsGoverned ==
    [][case'.status = "completed" /\ case.status # "completed" =>
          \/ case.status = "validation"
          \/ case'.review = "closed"
          \/ case'.closure = "closed"]_vars

(* A case leaves the archive only restored to active or by closing its      *)
(* review; nothing else that runs on an archived case changes its status.   *)
ArchiveLeftOnlyByRestoreOrReview ==
    [][case.status = "archived" /\ case'.status # "archived" =>
          \/ case'.status = "active"
          \/ case'.status = "completed" /\ case'.review = "closed"]_vars

(* The stage becomes archived only in an archived case, whether the archive *)
(* request or a stage request sets it.                                      *)
StageArchivedWithCase ==
    [][case.stage # "archived" /\ case'.stage = "archived" =>
          case'.status = "archived"]_vars

Lifecycle == INSTANCE ClosureLifecycle
    WITH closure <- case.closure, granted <- "closure" \in granted

(* The closure endpoints keep what closing promises whatever the other      *)
(* requests on the case do in between.                                      *)
ImplementsLifecycle == Lifecycle!LifecycleSpec
=============================================================================
