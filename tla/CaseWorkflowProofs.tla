------------------------- MODULE CaseWorkflowProofs -------------------------
(* Proofs about CaseWorkflow, for every set of users.                       *)
EXTENDS CaseWorkflow, MembershipProofs

(* Requests on the case and requests on its members do not disturb each     *)
(* other: what holds of Membership holds of the members of a case.          *)
THEOREM WorkflowImplementsMembership == Spec => MembershipSpec
<1>1. Init => MembershipInit
  BY DEF Init
<1>2. ASSUME [Next]_vars
      PROVE  [MembershipNext]_memberVars
  <2>1. CASE MembershipStep
    BY <2>1 DEF MembershipStep
  <2>2. ASSUME NEW u \in Users, UserStep(u)
        PROVE  UNCHANGED memberVars
    BY <2>2 DEF UserStep, MoveCase, Archive, Purge, SubmitReview, DecideReview,
                CloseReview, SubmitClosure, ApproveClosure, CloseClosure,
                ReopenClosure, WorkflowStep, memberVars
  <2>3. CASE UNCHANGED vars
    BY <2>3 DEF vars
  <2>4. QED BY <1>2, <2>1, <2>2, <2>3 DEF Next
<1>3. QED BY <1>1, <1>2, PTL DEF Spec, MembershipSpec

(* The governed product keeps one owner per case whatever else happens.     *)
THEOREM WorkflowKeepsOneOwner ==
    ASSUME GovernedClients
    PROVE  Spec => []SingleOwner
<1>1. QED BY WorkflowImplementsMembership, GovernedCasesHaveOneOwner, PTL
-----------------------------------------------------------------------------
(* What the handlers return. *)

(* The status and stage handlers turn cases into cases.                     *)
LEMMA WorkflowHandlersType ==
    ASSUME NEW c \in Cases
    PROVE  /\ \A t \in Statuses : PutStatus(c, t) \cup PatchStatus(c, t) \subseteq Cases
           /\ \A t \in Stages : UpdateStage(c, t) \subseteq Cases
           /\ ArchiveInvestigation(c) \subseteq Cases
<1>1. "archived" \in Statuses /\ {"completed", "archived"} \subseteq Stages
  BY DEF Statuses, Stages
<1>2. ASSUME NEW t \in Statuses
      PROVE  PutStatus(c, t) \subseteq Cases
  BY DEF Cases, PutStatus, When
<1>3. ASSUME NEW t \in Statuses
      PROVE  PatchStatus(c, t) \subseteq Cases
  BY <1>1 DEF Cases, PatchStatus, When
<1>4. ASSUME NEW t \in Stages
      PROVE  UpdateStage(c, t) \subseteq Cases
  BY DEF Cases, UpdateStage, When
<1>5. ArchiveInvestigation(c) \subseteq Cases
  BY <1>1 DEF Cases, ArchiveInvestigation
<1>6. QED BY <1>2, <1>3, <1>4, <1>5

(* The review handlers turn cases into cases.                               *)
LEMMA ReviewHandlersType ==
    ASSUME NEW c \in Cases
    PROVE  /\ SubmitCaseReview(c) \subseteq Cases
           /\ \A d \in DOMAIN ReviewDecisions : DecideCaseReview(c, d) \subseteq Cases
           /\ \A override \in BOOLEAN : CloseCase(c, override) \subseteq Cases
<1>1. /\ {"pending_review", "closed"} \subseteq ReviewStatuses
      /\ \A d \in DOMAIN ReviewDecisions : ReviewDecisions[d] \in ReviewStatuses
      /\ "completed" \in Statuses /\ "completed" \in Stages
  BY DEF ReviewStatuses, ReviewDecisions, Statuses, Stages
<1>2. SubmitCaseReview(c) \subseteq Cases
  BY <1>1 DEF Cases, SubmitCaseReview, When
<1>3. ASSUME NEW d \in DOMAIN ReviewDecisions
      PROVE  DecideCaseReview(c, d) \subseteq Cases
  BY <1>1 DEF Cases, DecideCaseReview, When
<1>4. ASSUME NEW override \in BOOLEAN
      PROVE  CloseCase(c, override) \subseteq Cases
  BY <1>1 DEF Cases, CloseCase, When
<1>5. QED BY <1>2, <1>3, <1>4

(* The closure handlers turn cases into cases.                              *)
LEMMA ClosureHandlersType ==
    ASSUME NEW c \in Cases
    PROVE  /\ SubmitCaseClosure(c) \subseteq Cases
           /\ ApproveCaseClosure(c) \subseteq Cases
           /\ \A blocked, override \in BOOLEAN :
                 CloseCaseClosure(c, blocked, override) \subseteq Cases
           /\ ReopenCaseClosure(c) \subseteq Cases
<1>1. /\ {"in_review", "approved", "closed", "reopened"} \subseteq ClosureStatuses
      /\ {"active", "completed"} \subseteq Statuses
      /\ {"analysis", "completed"} \subseteq Stages
  BY DEF ClosureStatuses, Statuses, Stages
<1>2. SubmitCaseClosure(c) \subseteq Cases
  BY <1>1 DEF Cases, SubmitCaseClosure, When
<1>3. ApproveCaseClosure(c) \subseteq Cases
  BY <1>1 DEF Cases, ApproveCaseClosure, When
<1>4. ASSUME NEW blocked \in BOOLEAN, NEW override \in BOOLEAN
      PROVE  CloseCaseClosure(c, blocked, override) \subseteq Cases
  <2> DEFINE status == IF c.status = "archived" THEN c.status ELSE "completed"
             stage == IF c.stage = "archived" THEN c.stage ELSE "completed"
             d == [c EXCEPT !.closure = "closed", !.status = status, !.stage = stage]
  <2>1. status \in Statuses /\ stage \in Stages
    BY <1>1 DEF Cases
  <2>2. d \in Cases
    BY <1>1, <2>1 DEF Cases
  <2>3. QED BY <2>2 DEF CloseCaseClosure, When
<1>5. ReopenCaseClosure(c) \subseteq Cases
  <2> DEFINE status == IF c.status = "completed" THEN "active" ELSE c.status
             stage == IF c.stage = "completed" THEN "analysis" ELSE c.stage
             d == [c EXCEPT !.closure = "reopened", !.status = status, !.stage = stage]
  <2>1. status \in Statuses /\ stage \in Stages
    BY <1>1 DEF Cases
  <2>2. d \in Cases
    BY <1>1, <2>1 DEF Cases
  <2>3. QED BY <2>2 DEF ReopenCaseClosure, When
<1>6. QED BY <1>2, <1>3, <1>4, <1>5

(* Moving and archiving touch neither the review nor the closure.           *)
LEMMA WorkflowHandlersFrame ==
    ASSUME NEW c \in Cases, NEW d,
           \/ \E t \in Statuses : d \in PutStatus(c, t) \cup PatchStatus(c, t)
           \/ \E t \in Stages : d \in UpdateStage(c, t)
           \/ d \in ArchiveInvestigation(c)
    PROVE  /\ d.review = c.review
           /\ d.reviewOverride = c.reviewOverride
           /\ d.closure = c.closure
  BY DEF Cases, PutStatus, PatchStatus, UpdateStage, ArchiveInvestigation, When

(* What a review handler requires of the review and what it leaves; the     *)
(* closure stays as it is.                                                  *)
LEMMA ReviewHandlersEffect ==
    ASSUME NEW c \in Cases, NEW d
    PROVE  /\ d \in SubmitCaseReview(c) =>
                 /\ c.review # "closed"
                 /\ d.review = "pending_review"
                 /\ d.closure = c.closure
           /\ \A decision \in DOMAIN ReviewDecisions :
                 d \in DecideCaseReview(c, decision) =>
                     /\ c.review # "closed"
                     /\ d.review \in {"approved", "rejected", "changes_requested"}
                     /\ d.review = "approved" => decision = "approve"
                     /\ d.closure = c.closure
           /\ \A override \in BOOLEAN :
                 d \in CloseCase(c, override) =>
                     /\ c.review = "approved" \/ override
                     /\ d.review = "closed"
                     /\ d.reviewOverride = override
                     /\ d.closure = c.closure
<1>1. d \in SubmitCaseReview(c) =>
          /\ c.review # "closed"
          /\ d.review = "pending_review"
          /\ d.closure = c.closure
  BY DEF Cases, SubmitCaseReview, When
<1>2. ASSUME NEW decision \in DOMAIN ReviewDecisions, d \in DecideCaseReview(c, decision)
      PROVE  /\ c.review # "closed"
             /\ d.review \in {"approved", "rejected", "changes_requested"}
             /\ d.review = "approved" => decision = "approve"
             /\ d.closure = c.closure
  <2>1. /\ c.review # "closed"
        /\ d.review = ReviewDecisions[decision]
        /\ d.closure = c.closure
    BY <1>2 DEF Cases, DecideCaseReview, When
  <2>2. QED BY <2>1 DEF ReviewDecisions
<1>3. ASSUME NEW override \in BOOLEAN, d \in CloseCase(c, override)
      PROVE  /\ c.review = "approved" \/ override
             /\ d.review = "closed"
             /\ d.reviewOverride = override
             /\ d.closure = c.closure
  BY <1>3 DEF Cases, CloseCase, When
<1>4. QED BY <1>1, <1>2, <1>3

(* What a closure handler requires of the closure and what it leaves; the   *)
(* review stays as it is.                                                   *)
LEMMA ClosureHandlersEffect ==
    ASSUME NEW c \in Cases, NEW d
    PROVE  /\ d \in SubmitCaseClosure(c) =>
                 /\ c.closure \in {"draft", "reopened"}
                 /\ d.closure = "in_review"
                 /\ d.review = c.review /\ d.reviewOverride = c.reviewOverride
           /\ d \in ApproveCaseClosure(c) =>
                 /\ c.closure = "in_review"
                 /\ d.closure = "approved"
                 /\ d.review = c.review /\ d.reviewOverride = c.reviewOverride
           /\ \A blocked, override \in BOOLEAN :
                 d \in CloseCaseClosure(c, blocked, override) =>
                     /\ c.closure = "approved" \/ override
                     /\ d.closure = "closed"
                     /\ d.review = c.review /\ d.reviewOverride = c.reviewOverride
           /\ d \in ReopenCaseClosure(c) =>
                 /\ c.closure = "closed"
                 /\ d.closure = "reopened"
                 /\ d.review = c.review /\ d.reviewOverride = c.reviewOverride
<1>1. d \in SubmitCaseClosure(c) =>
          /\ c.closure \in {"draft", "reopened"}
          /\ d.closure = "in_review"
          /\ d.review = c.review /\ d.reviewOverride = c.reviewOverride
  BY DEF Cases, SubmitCaseClosure, When
<1>2. d \in ApproveCaseClosure(c) =>
          /\ c.closure = "in_review"
          /\ d.closure = "approved"
          /\ d.review = c.review /\ d.reviewOverride = c.reviewOverride
  BY DEF Cases, ApproveCaseClosure, When
<1>3. ASSUME NEW blocked \in BOOLEAN, NEW override \in BOOLEAN,
             d \in CloseCaseClosure(c, blocked, override)
      PROVE  /\ c.closure = "approved" \/ override
             /\ d.closure = "closed"
             /\ d.review = c.review /\ d.reviewOverride = c.reviewOverride
  BY <1>3 DEF Cases, CloseCaseClosure, When
<1>4. d \in ReopenCaseClosure(c) =>
          /\ c.closure = "closed"
          /\ d.closure = "reopened"
          /\ d.review = c.review /\ d.reviewOverride = c.reviewOverride
  BY DEF Cases, ReopenCaseClosure, When
<1>5. QED BY <1>1, <1>2, <1>3, <1>4
-----------------------------------------------------------------------------
(* What one request does to the governed columns: it keeps the invariant,   *)
(* keeps a closed review closed, and is a step of the closure's promise.    *)

ReviewClosedStep == case.review = "closed" => case'.review = "closed"

GovernedStep ==
    /\ GovernanceInv'
    /\ ReviewClosedStep
    /\ [Lifecycle!LifecycleNext]_<<case.closure, "closure" \in granted, waived>>

(* A new case has nothing approved and nothing closed.                      *)
LEMMA GovernanceInit == Init => GovernanceInv /\ Lifecycle!LifecycleInit
<1>1. NewCase \in Cases
  BY DEF NewCase, Cases, Statuses, Stages, ReviewStatuses, ClosureStatuses
<1>2. NewCase.review = "not_submitted" /\ NewCase.closure = "draft"
  BY DEF NewCase
<1>3. SUFFICES ASSUME Init
               PROVE  GovernanceInv /\ Lifecycle!LifecycleInit
  OBVIOUS
<1>4. TypeOK
  BY <1>1, <1>3, MembershipInitTypeOK DEF Init, TypeOK
<1>5. ApprovalsOnRecord /\ ReviewEarned /\ ClosureEarned
  BY <1>2, <1>3 DEF Init, ApprovalsOnRecord, ReviewEarned, ClosureEarned
<1>6. Lifecycle!LifecycleInit
  BY <1>2, <1>3 DEF Init, Lifecycle!LifecycleInit
<1>7. QED BY <1>4, <1>5, <1>6 DEF GovernanceInv

(* Requests that write neither the review nor the closure.                  *)
LEMMA FrameGovernedStep ==
    ASSUME GovernanceInv, TypeOK',
           case'.review = case.review, case'.reviewOverride = case.reviewOverride,
           case'.closure = case.closure, UNCHANGED <<granted, waived>>
    PROVE  GovernedStep
  BY DEF GovernanceInv, GovernedStep, ReviewClosedStep, ApprovalsOnRecord,
         ReviewEarned, ClosureEarned

(* Requests on the members leave the governance columns alone.              *)
LEMMA MembershipGovernedStep ==
    ASSUME GovernanceInv, MembershipStep
    PROVE  GovernedStep
<1>1. MembershipTypeOK'
  BY MembershipNextTypeOK DEF MembershipStep, GovernanceInv, TypeOK
<1>2. TypeOK' /\ UNCHANGED workflowVars
  BY <1>1 DEF MembershipStep, GovernanceInv, TypeOK, workflowVars
<1>3. QED BY <1>2, FrameGovernedStep DEF workflowVars

(* Every request of a user on the case is a governed step.                  *)
LEMMA UserGovernedStep ==
    ASSUME GovernanceInv, NEW u \in Users, UserStep(u)
    PROVE  GovernedStep
<1>1. UNCHANGED memberVars
  BY DEF UserStep, MoveCase, Archive, Purge, SubmitReview, DecideReview, CloseReview,
         SubmitClosure, ApproveClosure, CloseClosure, ReopenClosure, WorkflowStep,
         memberVars
<1>2. MembershipTypeOK' /\ case \in Cases
  BY <1>1 DEF GovernanceInv, TypeOK, MembershipTypeOK, memberVars
<1>3. ASSUME case' \in Cases, exists' \in BOOLEAN, waived' \in BOOLEAN,
             granted' \subseteq {"review", "closure"}
      PROVE  TypeOK'
  BY <1>2, <1>3 DEF TypeOK
<1>4. CASE MoveCase(u) \/ Archive(u)
  <2>1. /\ \/ \E t \in Statuses : case' \in PutStatus(case, t) \cup PatchStatus(case, t)
           \/ \E t \in Stages : case' \in UpdateStage(case, t)
           \/ case' \in ArchiveInvestigation(case)
        /\ UNCHANGED <<exists, granted, waived>>
    BY <1>4 DEF MoveCase, Archive, WorkflowStep
  <2>2. case' \in Cases
    BY <2>1, <1>2, WorkflowHandlersType
  <2>3. TypeOK'
    BY <2>1, <2>2, <1>3 DEF GovernanceInv, TypeOK
  <2>4. QED BY <2>1, <2>3, <1>2, WorkflowHandlersFrame, FrameGovernedStep
<1>5. CASE Purge(u)
  <2>1. TypeOK'
    BY <1>5, <1>3 DEF Purge, GovernanceInv, TypeOK
  <2>2. QED BY <1>5, <2>1, FrameGovernedStep DEF Purge
<1>6. CASE SubmitReview(u)
  <2>1. /\ case' \in SubmitCaseReview(case)
        /\ granted' = granted \ {"review"}
        /\ UNCHANGED <<exists, waived>>
    BY <1>6 DEF SubmitReview
  <2>2. TypeOK'
    BY <2>1, <1>2, <1>3, ReviewHandlersType DEF GovernanceInv, TypeOK
  <2>3. case.review # "closed" /\ case'.review = "pending_review"
        /\ case'.closure = case.closure
    BY <2>1, <1>2, ReviewHandlersEffect
  <2>4. QED
    BY <2>1, <2>2, <2>3 DEF GovernanceInv, GovernedStep, ReviewClosedStep,
                            ApprovalsOnRecord, ReviewEarned, ClosureEarned
<1>7. ASSUME NEW decision \in DOMAIN ReviewDecisions, DecideReview(u, decision)
      PROVE  GovernedStep
  <2>1. /\ case' \in DecideCaseReview(case, decision)
        /\ granted' = IF decision = "approve" THEN granted \cup {"review"}
                                              ELSE granted \ {"review"}
        /\ UNCHANGED <<exists, waived>>
    BY <1>7 DEF DecideReview
  <2>2. TypeOK'
    BY <2>1, <1>2, <1>3, ReviewHandlersType DEF GovernanceInv, TypeOK
  <2>3. /\ case.review # "closed"
        /\ case'.review \in {"approved", "rejected", "changes_requested"}
        /\ case'.review = "approved" => decision = "approve"
        /\ case'.closure = case.closure
    BY <2>1, <1>2, ReviewHandlersEffect
  <2>4. QED
    BY <2>1, <2>2, <2>3 DEF GovernanceInv, GovernedStep, ReviewClosedStep,
                            ApprovalsOnRecord, ReviewEarned, ClosureEarned
<1>8. ASSUME NEW override \in BOOLEAN, CloseReview(u, override)
      PROVE  GovernedStep
  <2>1. case' \in CloseCase(case, override) /\ UNCHANGED <<exists, granted, waived>>
    BY <1>8 DEF CloseReview, WorkflowStep
  <2>2. TypeOK'
    BY <2>1, <1>2, <1>3, ReviewHandlersType DEF GovernanceInv, TypeOK
  <2>3. /\ case.review = "approved" \/ override
        /\ case'.review = "closed"
        /\ case'.reviewOverride = override
        /\ case'.closure = case.closure
    BY <2>1, <1>2, ReviewHandlersEffect
  <2>4. QED
    BY <2>1, <2>2, <2>3 DEF GovernanceInv, GovernedStep, ReviewClosedStep,
                            ApprovalsOnRecord, ReviewEarned, ClosureEarned
<1>9. CASE SubmitClosure(u)
  <2>1. /\ case' \in SubmitCaseClosure(case)
        /\ granted' = granted \ {"closure"}
        /\ UNCHANGED <<exists, waived>>
    BY <1>9 DEF SubmitClosure
  <2>2. TypeOK'
    BY <2>1, <1>2, <1>3, ClosureHandlersType DEF GovernanceInv, TypeOK
  <2>3. /\ case.closure \in {"draft", "reopened"}
        /\ case'.closure = "in_review"
        /\ case'.review = case.review /\ case'.reviewOverride = case.reviewOverride
    BY <2>1, <1>2, ClosureHandlersEffect
  <2>4. Lifecycle!Submit
    BY <2>1, <2>3 DEF Lifecycle!Submit
  <2>5. QED
    BY <2>1, <2>2, <2>3, <2>4
       DEF GovernanceInv, GovernedStep, ReviewClosedStep, ApprovalsOnRecord,
           ReviewEarned, ClosureEarned, Lifecycle!LifecycleNext
<1>10. CASE ApproveClosure(u)
  <2>1. /\ case' \in ApproveCaseClosure(case)
        /\ granted' = granted \cup {"closure"}
        /\ UNCHANGED <<exists, waived>>
    BY <1>10 DEF ApproveClosure
  <2>2. TypeOK'
    BY <2>1, <1>2, <1>3, ClosureHandlersType DEF GovernanceInv, TypeOK
  <2>3. /\ case.closure = "in_review"
        /\ case'.closure = "approved"
        /\ case'.review = case.review /\ case'.reviewOverride = case.reviewOverride
    BY <2>1, <1>2, ClosureHandlersEffect
  <2>4. Lifecycle!Approve
    BY <2>1, <2>3 DEF Lifecycle!Approve
  <2>5. QED
    BY <2>1, <2>2, <2>3, <2>4
       DEF GovernanceInv, GovernedStep, ReviewClosedStep, ApprovalsOnRecord,
           ReviewEarned, ClosureEarned, Lifecycle!LifecycleNext
<1>11. ASSUME NEW blocked \in BOOLEAN, NEW override \in BOOLEAN,
              CloseClosure(u, blocked, override)
       PROVE  GovernedStep
  <2>1. /\ case' \in CloseCaseClosure(case, blocked, override)
        /\ waived' = override
        /\ UNCHANGED <<exists, granted>>
    BY <1>11 DEF CloseClosure
  <2>2. TypeOK'
    BY <2>1, <1>2, <1>3, ClosureHandlersType DEF GovernanceInv, TypeOK
  <2>3. /\ case.closure = "approved" \/ override
        /\ case'.closure = "closed"
        /\ case'.review = case.review /\ case'.reviewOverride = case.reviewOverride
    BY <2>1, <1>2, ClosureHandlersEffect
  <2>4. case.closure = "approved" => "closure" \in granted
    BY DEF GovernanceInv, ApprovalsOnRecord
  <2>5. Lifecycle!Close
    BY <2>1, <2>3, <2>4 DEF Lifecycle!Close
  <2>6. QED
    BY <2>1, <2>2, <2>3, <2>4, <2>5
       DEF GovernanceInv, GovernedStep, ReviewClosedStep, ApprovalsOnRecord,
           ReviewEarned, ClosureEarned, Lifecycle!LifecycleNext
<1>12. CASE ReopenClosure(u)
  <2>1. case' \in ReopenCaseClosure(case) /\ UNCHANGED <<exists, granted, waived>>
    BY <1>12 DEF ReopenClosure, WorkflowStep
  <2>2. TypeOK'
    BY <2>1, <1>2, <1>3, ClosureHandlersType DEF GovernanceInv, TypeOK
  <2>3. /\ case.closure = "closed"
        /\ case'.closure = "reopened"
        /\ case'.review = case.review /\ case'.reviewOverride = case.reviewOverride
    BY <2>1, <1>2, ClosureHandlersEffect
  <2>4. Lifecycle!Reopen
    BY <2>1, <2>3 DEF Lifecycle!Reopen
  <2>5. QED
    BY <2>1, <2>2, <2>3, <2>4
       DEF GovernanceInv, GovernedStep, ReviewClosedStep, ApprovalsOnRecord,
           ReviewEarned, ClosureEarned, Lifecycle!LifecycleNext
<1>13. QED
  BY <1>4, <1>5, <1>6, <1>7, <1>8, <1>9, <1>10, <1>11, <1>12 DEF UserStep
-----------------------------------------------------------------------------
(* The invariant of the governance columns, and that every request is a     *)
(* governed step.                                                           *)
LEMMA NextGovernedStep ==
    ASSUME GovernanceInv, [Next]_vars
    PROVE  GovernedStep
<1>1. CASE UNCHANGED vars
  <2>1. UNCHANGED <<role, ownerId, reviewerId, exists, case, granted, waived>>
    BY <1>1 DEF vars, memberVars, workflowVars
  <2>2. TypeOK'
    BY <2>1 DEF GovernanceInv, TypeOK, MembershipTypeOK
  <2>3. QED BY <2>1, <2>2, FrameGovernedStep
<1>2. QED BY <1>1, MembershipGovernedStep, UserGovernedStep DEF Next

(* The inductive invariant: approvals are on record, closings are earned.   *)
THEOREM GovernanceInvariant == Spec => []GovernanceInv
<1>1. GovernanceInv /\ [Next]_vars => GovernanceInv'
  BY NextGovernedStep DEF GovernedStep
<1>2. QED BY <1>1, GovernanceInit, PTL DEF Spec

(* Type correctness of the whole case.                                      *)
THEOREM TypeCorrect == Spec => []TypeOK
<1>1. GovernanceInv => TypeOK
  BY DEF GovernanceInv
<1>2. QED BY <1>1, GovernanceInvariant, PTL

(* A closed closure was approved since its last submission or waived.       *)
THEOREM ClosuresAreEarned == Spec => []ClosureEarned
<1>1. GovernanceInv => ClosureEarned
  BY DEF GovernanceInv
<1>2. QED BY <1>1, GovernanceInvariant, PTL

(* A closed review was approved since its last submission or overridden.    *)
THEOREM ReviewsAreEarned == Spec => []ReviewEarned
<1>1. GovernanceInv => ReviewEarned
  BY DEF GovernanceInv
<1>2. QED BY <1>1, GovernanceInvariant, PTL

(* Nothing takes a review out of closed.                                    *)
THEOREM ClosedReviewsStayClosed == Spec => ReviewClosedIsFinal
<1>1. GovernanceInv /\ [Next]_vars => ReviewClosedStep
  BY NextGovernedStep DEF GovernedStep
<1>2. QED
  BY <1>1, GovernanceInvariant, PTL DEF Spec, ReviewClosedIsFinal, ReviewClosedStep

(* The case workflow implements what closing promises.                      *)
THEOREM WorkflowImplementsLifecycle == Spec => ImplementsLifecycle
<1>1. Init => Lifecycle!LifecycleInit
  BY GovernanceInit
<1>2. GovernanceInv /\ [Next]_vars =>
        [Lifecycle!LifecycleNext]_<<case.closure, "closure" \in granted, waived>>
  BY NextGovernedStep DEF GovernedStep
<1>3. QED
  BY <1>1, <1>2, GovernanceInvariant, PTL
     DEF Spec, ImplementsLifecycle, Lifecycle!LifecycleSpec, Lifecycle!lifecycleVars
-----------------------------------------------------------------------------
(* Status and stage.  The three facts are about single steps and need no    *)
(* invariant beyond the types, so each handler is looked at once.           *)

Completes(c, d) ==
    c.status # "completed" /\ d.status = "completed" =>
        c.status = "validation" \/ d.review = "closed" \/ d.closure = "closed"

Unarchives(c, d) ==
    c.status = "archived" /\ d.status # "archived" =>
        d.status = "active" \/ (d.status = "completed" /\ d.review = "closed")

ArchivesStage(c, d) ==
    c.stage # "archived" /\ d.stage = "archived" => d.status = "archived"

Moved(c, d) == Completes(c, d) /\ Unarchives(c, d) /\ ArchivesStage(c, d)

(* What the transition table says of completion and of the archive.         *)
LEMMA WorkflowTable ==
    ASSUME NEW s \in Statuses, NEW t \in ALLOWED_WORKFLOW_TRANSITIONS[s]
    PROVE  /\ t = "completed" => s = "validation"
           /\ s = "archived" => t = "active"
  BY DEF Statuses, ALLOWED_WORKFLOW_TRANSITIONS

(* A handler that leaves status and stage alone moves nothing.              *)
LEMMA StillMoved ==
    ASSUME NEW c, NEW d, d.status = c.status, d.stage = c.stage
    PROVE  Moved(c, d)
  BY DEF Moved, Completes, Unarchives, ArchivesStage

(* The handlers of the status, the stage and the archive.                   *)
LEMMA WorkflowHandlersMove ==
    ASSUME NEW c \in Cases, NEW d,
           \/ \E t \in Statuses : d \in PutStatus(c, t) \cup PatchStatus(c, t)
           \/ \E t \in Stages : d \in UpdateStage(c, t)
           \/ d \in ArchiveInvestigation(c)
    PROVE  Moved(c, d)
<1> USE DEF Moved, Completes, Unarchives, ArchivesStage
<1>1. ASSUME NEW t \in Statuses, d \in PutStatus(c, t)
      PROVE  Moved(c, d)
  <2>1. t \in ALLOWED_WORKFLOW_TRANSITIONS[c.status] /\ c.status \in Statuses
    BY <1>1 DEF PutStatus, When, Cases
  <2>2. d.status = t /\ d.stage = c.stage
    BY <1>1 DEF PutStatus, When, Cases
  <2>3. QED BY <2>1, <2>2, WorkflowTable
<1>2. ASSUME NEW t \in Statuses, d \in PatchStatus(c, t)
      PROVE  Moved(c, d)
  <2>1. t \in ALLOWED_WORKFLOW_TRANSITIONS[c.status] /\ c.status \in Statuses
    BY <1>2 DEF PatchStatus, When, Cases
  <2>2. d.status = t /\ (c.stage # "archived" => d.stage = c.stage)
    BY <1>2 DEF PatchStatus, When, Cases
  <2>3. QED BY <2>1, <2>2, WorkflowTable
<1>3. ASSUME NEW t \in Stages, d \in UpdateStage(c, t)
      PROVE  Moved(c, d)
  BY <1>3 DEF UpdateStage, When, Cases
<1>4. ASSUME d \in ArchiveInvestigation(c)
      PROVE  Moved(c, d)
  BY <1>4 DEF ArchiveInvestigation, Cases
<1>5. QED BY <1>1, <1>2, <1>3, <1>4

(* The handlers of the review and of the closure.                           *)
LEMMA GovernanceHandlersMove ==
    ASSUME NEW c \in Cases, NEW d,
           \/ d \in SubmitCaseReview(c)
           \/ \E decision \in DOMAIN ReviewDecisions : d \in DecideCaseReview(c, decision)
           \/ \E override \in BOOLEAN : d \in CloseCase(c, override)
           \/ d \in SubmitCaseClosure(c)
           \/ d \in ApproveCaseClosure(c)
           \/ \E blocked, override \in BOOLEAN : d \in CloseCaseClosure(c, blocked, override)
           \/ d \in ReopenCaseClosure(c)
    PROVE  Moved(c, d)
<1>1. ASSUME \/ d \in SubmitCaseReview(c)
             \/ \E decision \in DOMAIN ReviewDecisions :
                    d \in DecideCaseReview(c, decision)
             \/ d \in SubmitCaseClosure(c)
             \/ d \in ApproveCaseClosure(c)
      PROVE  Moved(c, d)
  <2>1. d.status = c.status /\ d.stage = c.stage
    BY <1>1 DEF Cases, SubmitCaseReview, DecideCaseReview, SubmitCaseClosure,
                ApproveCaseClosure, When
  <2>2. QED BY <2>1, StillMoved
<1> USE DEF Moved, Completes, Unarchives, ArchivesStage
<1>2. ASSUME NEW override \in BOOLEAN, d \in CloseCase(c, override)
      PROVE  Moved(c, d)
  BY <1>2 DEF CloseCase, When, Cases
<1>3. ASSUME NEW blocked \in BOOLEAN, NEW override \in BOOLEAN,
             d \in CloseCaseClosure(c, blocked, override)
      PROVE  Moved(c, d)
  BY <1>3 DEF CloseCaseClosure, When, Cases
<1>4. ASSUME d \in ReopenCaseClosure(c)
      PROVE  Moved(c, d)
  BY <1>4 DEF ReopenCaseClosure, When, Cases
<1>5. QED BY <1>1, <1>2, <1>3, <1>4

(* Every request, and the stutter.                                          *)
LEMMA NextMoves ==
    ASSUME TypeOK, [Next]_vars
    PROVE  Moved(case, case')
<1>1. case \in Cases
  BY DEF TypeOK
<1>2. CASE UNCHANGED case
  BY <1>2, StillMoved
<1>3. ASSUME NEW u \in Users, UserStep(u)
      PROVE  Moved(case, case')
  <2>1. CASE MoveCase(u) \/ Archive(u)
    BY <1>1, <2>1, WorkflowHandlersMove DEF MoveCase, Archive, WorkflowStep
  <2>2. CASE Purge(u)
    BY <1>2, <2>2 DEF Purge
  <2>3. CASE SubmitReview(u) \/ SubmitClosure(u) \/ ApproveClosure(u) \/ ReopenClosure(u)
    BY <1>1, <2>3, GovernanceHandlersMove
       DEF SubmitReview, SubmitClosure, ApproveClosure, ReopenClosure, WorkflowStep
  <2>4. CASE \E decision \in DOMAIN ReviewDecisions : DecideReview(u, decision)
    BY <1>1, <2>4, GovernanceHandlersMove DEF DecideReview
  <2>5. CASE \E override \in BOOLEAN : CloseReview(u, override)
    BY <1>1, <2>5, GovernanceHandlersMove DEF CloseReview, WorkflowStep
  <2>6. CASE \E blocked, override \in BOOLEAN : CloseClosure(u, blocked, override)
    BY <1>1, <2>6, GovernanceHandlersMove DEF CloseClosure
  <2>7. QED BY <1>3, <2>1, <2>2, <2>3, <2>4, <2>5, <2>6 DEF UserStep
<1>4. QED BY <1>2, <1>3 DEF Next, MembershipStep, vars, workflowVars

(* A case becomes completed only from validation or by a closing.           *)
THEOREM CompletionNeedsGovernance == Spec => CompletionIsGoverned
<1>1. TypeOK /\ [Next]_vars => Completes(case, case')
  BY NextMoves DEF Moved
<1>2. QED
  BY <1>1, TypeCorrect, PTL DEF Spec, CompletionIsGoverned, Completes

(* The archive is left by a restore or by closing the review.               *)
THEOREM ArchiveIsLeftOnPurpose == Spec => ArchiveLeftOnlyByRestoreOrReview
<1>1. TypeOK /\ [Next]_vars => Unarchives(case, case')
  BY NextMoves DEF Moved
<1>2. QED
  BY <1>1, TypeCorrect, PTL DEF Spec, ArchiveLeftOnlyByRestoreOrReview, Unarchives

(* The stage becomes archived only in an archived case.                     *)
THEOREM StageFollowsArchive == Spec => StageArchivedWithCase
<1>1. TypeOK /\ [Next]_vars => ArchivesStage(case, case')
  BY NextMoves DEF Moved
<1>2. QED
  BY <1>1, TypeCorrect, PTL DEF Spec, StageArchivedWithCase, ArchivesStage
=============================================================================
