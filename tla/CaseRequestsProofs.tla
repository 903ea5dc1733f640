-------------------------- MODULE CaseRequestsProofs --------------------------
(* Proofs about CaseRequests, for any number of requests in flight and any  *)
(* statuses and stages clients ask for.                                     *)
EXTENDS CaseRequests, TLAPS

InFlight == Deciding \cup Purging \cup Editing

\* What a handler has checked of the case c it read, and what it leaves.
StepOf(op, c, new) ==
    /\ new \in Cases
    /\ op \in {"submit_review", "approve_review", "decline_review"} => c.review # "closed"
    /\ op = "submit_review" => new.review = "pending_review"
    /\ op = "approve_review" => new.review = "approved"
    /\ op = "decline_review" => new.review \in {"rejected", "changes_requested"}
    /\ op = "close_review" => new.review = "closed" /\ (c.review = "approved" \/ new.reviewOverride)
    /\ op \notin {"submit_review", "approve_review", "decline_review", "close_review"} =>
          new.review = c.review /\ new.reviewOverride = c.reviewOverride
    /\ op = "submit_closure" => c.closure \in {"draft", "reopened"} /\ new.closure = "in_review"
    /\ op = "approve_closure" => c.closure = "in_review" /\ new.closure = "approved"
    /\ op = "close_closure" => c.closure = "approved" /\ new.closure = "closed"
    /\ op = "waive_closure" => new.closure = "closed"
    /\ op = "reopen_closure" => c.closure = "closed" /\ new.closure = "reopened"
    /\ op \notin {"submit_closure", "approve_closure", "close_closure", "waive_closure",
                  "reopen_closure"} => new.closure = c.closure

\* The handler of operation op leaves `new` of case c.
Handled(op, c, new) ==
    /\ op = "move" =>
          \/ \E t \in StatusTargets : new \in PutStatus(c, t) \cup PatchStatus(c, t)
          \/ \E t \in StageTargets : new \in UpdateStage(c, t)
          \/ new \in ArchiveInvestigation(c)
    /\ op = "submit_review" => new \in SubmitCaseReview(c)
    /\ op = "approve_review" => new \in DecideCaseReview(c, "approve")
    /\ op = "decline_review" =>
          \E d \in {"reject", "request_changes"} : new \in DecideCaseReview(c, d)
    /\ op = "close_review" => \E override \in BOOLEAN : new \in CloseCase(c, override)
    /\ op = "submit_closure" => new \in SubmitCaseClosure(c)
    /\ op = "approve_closure" => new \in ApproveCaseClosure(c)
    /\ op = "close_closure" =>
          \E blocked \in BOOLEAN : new \in CloseCaseClosure(c, blocked, FALSE)
    /\ op = "waive_closure" =>
          \E blocked \in BOOLEAN : new \in CloseCaseClosure(c, blocked, TRUE)
    /\ op = "reopen_closure" => new \in ReopenCaseClosure(c)

\* What a request that nothing has overtaken still knows about the case.
Knows(r) ==
    request[r] # Idle /\ ~request[r].stale =>
        /\ request[r].phase = "deciding" =>
              Handled(request[r].op, case, Applied(case, request[r].write))
        /\ request[r].phase = "purging" => case.status = "archived"
        /\ request[r].phase = "editing" => MayMutate(request[r].caller)

\* What was closed or approved was granted or waived.
Earned ==
    /\ case.review = "approved" => "review" \in granted
    /\ case.review = "closed" => "review" \in granted \/ case.reviewOverride
    /\ case.closure = "approved" => "closure" \in granted
    /\ case.closure = "closed" => "closure" \in granted \/ waived

RequestsInv ==
    /\ TypeOK
    /\ ~raced => Earned
    /\ \A r \in Requests : Knows(r)

(* Columns are merged column by column.                                     *)
LEMMA MergeTypes ==
    ASSUME NEW now \in Cases, NEW write \in Writes
    PROVE  Applied(now, write) \in Cases
  BY DEF Applied, Cases, Writes

(* A request that nothing has overtaken leaves the case it computed.        *)
LEMMA FlushesWhatItComputed ==
    ASSUME NEW c \in Cases, NEW new \in Cases
    PROVE  Differing(c, new) \in Writes /\ Applied(c, Differing(c, new)) = new
<1> DEFINE w == Differing(c, new)
<1>1. w \in Writes
  BY DEF Differing, Cases, Writes
<1>2. /\ Applied(c, w).status = new.status
      /\ Applied(c, w).stage = new.stage
      /\ Applied(c, w).review = new.review
      /\ Applied(c, w).reviewOverride = new.reviewOverride
      /\ Applied(c, w).closure = new.closure
  BY RequestsAssumption DEF Applied, Differing, Cases
<1>3. Applied(c, w) \in Cases
  BY <1>1, MergeTypes
<1>4. QED BY <1>1, <1>2, <1>3 DEF Cases

\* A handler does what its operation promises.
Does(op, c, outcomes) == \A new \in outcomes : StepOf(op, c, new)

(* Status and stage changes and the archive leave review and closure alone. *)
LEMMA MovesDo ==
    ASSUME NEW c \in Cases
    PROVE  /\ \A t \in StatusTargets : Does("move", c, PutStatus(c, t) \cup PatchStatus(c, t))
           /\ \A t \in StageTargets : Does("move", c, UpdateStage(c, t))
           /\ Does("move", c, ArchiveInvestigation(c))
<1>0. "archived" \in Statuses /\ {"completed", "archived"} \subseteq Stages
  BY DEF Statuses, Stages
<1>1. ASSUME NEW t \in StatusTargets, NEW new \in PutStatus(c, t) \cup PatchStatus(c, t)
      PROVE  /\ new \in Cases
             /\ new.review = c.review /\ new.reviewOverride = c.reviewOverride
             /\ new.closure = c.closure
  <2>1. t \in Statuses
    BY RequestsAssumption
  <2>2. CASE new \in PutStatus(c, t)
    BY <2>1, <2>2 DEF PutStatus, When, Cases
  <2>3. CASE new \in PatchStatus(c, t)
    BY <1>0, <2>1, <2>3 DEF PatchStatus, When, Cases
  <2>4. QED BY <1>1, <2>2, <2>3
<1>2. ASSUME NEW t \in StageTargets, NEW new \in UpdateStage(c, t)
      PROVE  /\ new \in Cases
             /\ new.review = c.review /\ new.reviewOverride = c.reviewOverride
             /\ new.closure = c.closure
  BY <1>2, RequestsAssumption DEF UpdateStage, When, Cases
<1>3. ASSUME NEW new \in ArchiveInvestigation(c)
      PROVE  /\ new \in Cases
             /\ new.review = c.review /\ new.reviewOverride = c.reviewOverride
             /\ new.closure = c.closure
  BY <1>0, <1>3 DEF ArchiveInvestigation, Cases
<1>4. QED BY <1>1, <1>2, <1>3 DEF Does, StepOf

(* The review handlers check the review and leave the closure alone.        *)
LEMMA ReviewsDo ==
    ASSUME NEW c \in Cases
    PROVE  /\ Does("submit_review", c, SubmitCaseReview(c))
           /\ Does("approve_review", c, DecideCaseReview(c, "approve"))
           /\ \A d \in {"reject", "request_changes"} :
                 Does("decline_review", c, DecideCaseReview(c, d))
           /\ \A override \in BOOLEAN : Does("close_review", c, CloseCase(c, override))
<1>0. /\ {"pending_review", "approved", "rejected", "changes_requested", "closed"}
             \subseteq ReviewStatuses
      /\ "completed" \in Statuses /\ "completed" \in Stages
  BY DEF ReviewStatuses, Statuses, Stages
<1>1. ASSUME NEW new \in SubmitCaseReview(c) PROVE StepOf("submit_review", c, new)
  BY <1>0, <1>1 DEF SubmitCaseReview, When, Cases, StepOf
<1>2. ASSUME NEW new \in DecideCaseReview(c, "approve") PROVE StepOf("approve_review", c, new)
  BY <1>0, <1>2 DEF DecideCaseReview, ReviewDecisions, When, Cases, StepOf
<1>3. ASSUME NEW d \in {"reject", "request_changes"}, NEW new \in DecideCaseReview(c, d)
      PROVE  StepOf("decline_review", c, new)
  BY <1>0, <1>3 DEF DecideCaseReview, ReviewDecisions, When, Cases, StepOf
<1>4. ASSUME NEW override \in BOOLEAN, NEW new \in CloseCase(c, override)
      PROVE  StepOf("close_review", c, new)
  BY <1>0, <1>4 DEF CloseCase, When, Cases, StepOf
<1>5. QED BY <1>1, <1>2, <1>3, <1>4 DEF Does

(* The closure handlers check the closure and leave the review alone.       *)
LEMMA ClosuresDo ==
    ASSUME NEW c \in Cases
    PROVE  /\ Does("submit_closure", c, SubmitCaseClosure(c))
           /\ Does("approve_closure", c, ApproveCaseClosure(c))
           /\ \A blocked \in BOOLEAN :
                 /\ Does("close_closure", c, CloseCaseClosure(c, blocked, FALSE))
                 /\ Does("waive_closure", c, CloseCaseClosure(c, blocked, TRUE))
           /\ Does("reopen_closure", c, ReopenCaseClosure(c))
<1>0. /\ {"in_review", "approved", "closed", "reopened"} \subseteq ClosureStatuses
      /\ {"completed", "active"} \subseteq Statuses /\ {"completed", "analysis"} \subseteq Stages
  BY DEF ClosureStatuses, Statuses, Stages
<1>1. ASSUME NEW new \in SubmitCaseClosure(c) PROVE StepOf("submit_closure", c, new)
  BY <1>0, <1>1 DEF SubmitCaseClosure, When, Cases, StepOf
<1>2. ASSUME NEW new \in ApproveCaseClosure(c) PROVE StepOf("approve_closure", c, new)
  BY <1>0, <1>2 DEF ApproveCaseClosure, When, Cases, StepOf
<1>3. ASSUME NEW blocked \in BOOLEAN, NEW override \in BOOLEAN,
             NEW new \in CloseCaseClosure(c, blocked, override)
      PROVE  /\ new \in Cases /\ new.closure = "closed"
             /\ new.review = c.review /\ new.reviewOverride = c.reviewOverride
             /\ ~override => c.closure = "approved"
  BY <1>0, <1>3 DEF CloseCaseClosure, When, Cases
<1>4. ASSUME NEW new \in ReopenCaseClosure(c) PROVE StepOf("reopen_closure", c, new)
  BY <1>0, <1>4 DEF ReopenCaseClosure, When, Cases, StepOf
<1>5. ASSUME NEW blocked \in BOOLEAN, NEW new \in CloseCaseClosure(c, blocked, FALSE)
      PROVE  StepOf("close_closure", c, new)
  BY <1>3, <1>5 DEF StepOf
<1>6. ASSUME NEW blocked \in BOOLEAN, NEW new \in CloseCaseClosure(c, blocked, TRUE)
      PROVE  StepOf("waive_closure", c, new)
  BY <1>3, <1>6 DEF StepOf
<1>7. QED BY <1>1, <1>2, <1>4, <1>5, <1>6 DEF Does

(* Every handler does what its operation promises.                          *)
LEMMA HandlersDo ==
    ASSUME NEW c \in Cases, NEW op \in Ops, NEW new, Handled(op, c, new)
    PROVE  StepOf(op, c, new)
<1>1. CASE op = "move"
  BY <1>1, MovesDo DEF Handled, Does
<1>2. CASE op \in {"submit_review", "approve_review", "decline_review", "close_review"}
  BY <1>2, ReviewsDo DEF Handled, Does
<1>3. CASE op \in {"submit_closure", "approve_closure", "close_closure", "waive_closure",
                   "reopen_closure"}
  BY <1>3, ClosuresDo DEF Handled, Does
<1>4. QED BY <1>1, <1>2, <1>3 DEF Ops
-----------------------------------------------------------------------------
(* Putting a request in a free slot keeps the invariant when it knows what  *)
(* it has to know.                                                          *)
LEMMA EnterKeeps ==
    ASSUME RequestsInv, NEW r \in Requests, NEW q \in InFlight,
           request' = [request EXCEPT ![r] = q],
           UNCHANGED <<exists, case, content, raced, granted, waived>>,
           q.phase = "deciding" => Handled(q.op, case, Applied(case, q.write)),
           q.phase = "purging" => case.status = "archived",
           q.phase = "editing" => MayMutate(q.caller)
    PROVE  RequestsInv'
<1>1. request \in [Requests -> {Idle} \cup InFlight]
  BY DEF RequestsInv, TypeOK, InFlight
<1>2. TypeOK'
  BY <1>1 DEF RequestsInv, TypeOK, InFlight
<1>3. ASSUME NEW o \in Requests PROVE Knows(o)'
  <2>1. CASE o = r
    BY <1>1, <2>1 DEF Knows, Applied, MayMutate
  <2>2. CASE o # r
    <3>1. request'[o] = request[o] /\ Knows(o)
      BY <1>1, <2>2 DEF RequestsInv
    <3>2. QED BY <3>1 DEF Knows, Applied, MayMutate
  <2>3. QED BY <2>1, <2>2
<1>4. QED BY <1>2, <1>3 DEF RequestsInv, Earned

(* A handler that does what its operation promises may be received.         *)
LEMMA DecideKeeps ==
    ASSUME RequestsInv, NEW r \in Requests, NEW op \in Ops, NEW outcomes,
           Decide(r, op, outcomes), \A new \in outcomes : Handled(op, case, new)
    PROVE  RequestsInv' /\ UNCHANGED <<exists, case, content, granted, waived>>
<1>1. PICK new \in outcomes :
         request' = [request EXCEPT ![r] =
             [phase |-> "deciding", op |-> op, write |-> Differing(case, new), stale |-> FALSE]]
  BY DEF Decide
<1> DEFINE q == [phase |-> "deciding", op |-> op, write |-> Differing(case, new), stale |-> FALSE]
<1>2. case \in Cases /\ new \in Cases /\ Handled(op, case, new)
  <2>1. case \in Cases /\ Handled(op, case, new)
    BY DEF RequestsInv, TypeOK
  <2>2. QED BY <2>1, HandlersDo DEF StepOf
<1>3. Differing(case, new) \in Writes /\ Applied(case, Differing(case, new)) = new
  BY <1>2, FlushesWhatItComputed
<1>4. q \in InFlight
  BY <1>3 DEF InFlight, Deciding
<1>5. q.phase = "deciding" /\ q.op = op /\ q.write = Differing(case, new)
  OBVIOUS
<1>6. RequestsInv'
  BY <1>1, <1>2, <1>3, <1>4, <1>5, EnterKeeps DEF Decide
<1>7. QED BY <1>6 DEF Decide

(* The requests left behind by a commit keep their types and, if the case   *)
(* has changed, are stale.                                                  *)
LEMMA OthersAreOvertaken ==
    ASSUME RequestsInv, NEW r \in Requests, NEW changed \in BOOLEAN, Finish(r, changed),
           case' = case \/ changed
    PROVE  /\ request' \in [Requests -> {Idle} \cup InFlight]
           /\ \A o \in Requests : Knows(o)'
<1>1. request \in [Requests -> {Idle} \cup InFlight]
  BY DEF RequestsInv, TypeOK, InFlight
<1>2. ASSUME NEW o \in Requests
      PROVE  request'[o] \in {Idle} \cup InFlight /\ Knows(o)'
  <2>1. CASE o = r \/ request[o] = Idle
    BY <2>1 DEF Finish, Knows
  <2>2. CASE o # r /\ request[o] # Idle
    <3> DEFINE q == [request[o] EXCEPT !.stale = @ \/ changed]
    <3>1. request[o] \in InFlight /\ request'[o] = q
      BY <1>1, <2>2 DEF Finish
    <3>2. q \in InFlight
      <4>1. CASE request[o] \in Deciding
        BY <4>1 DEF InFlight, Deciding
      <4>2. CASE request[o] \in Purging
        BY <4>2 DEF InFlight, Purging
      <4>3. CASE request[o] \in Editing
        BY <4>3 DEF InFlight, Editing
      <4>4. QED BY <3>1, <4>1, <4>2, <4>3 DEF InFlight
    <3>3. CASE changed
      <4>1. q.stale
        BY <3>1, <3>3 DEF InFlight, Deciding, Purging, Editing
      <4>2. QED BY <3>1, <3>2, <4>1 DEF Knows
    <3>4. CASE ~changed
      <4>1. q = request[o]
        BY <3>1, <3>4 DEF InFlight, Deciding, Purging, Editing
      <4>2. case' = case /\ Knows(o)
        BY <3>4 DEF RequestsInv
      <4>3. QED BY <3>1, <3>2, <4>1, <4>2 DEF Knows, Applied, MayMutate
    <3>5. QED BY <3>3, <3>4
  <2>3. QED BY <2>1, <2>2
<1>3. QED BY <1>2 DEF Finish
-----------------------------------------------------------------------------
(* The owner of CaseWorkflow's instance passes every role test.             *)
LEMMA CaseAdminMay ==
    /\ Workflow!HasRole("case_admin", Workflow!OWNER_ROLES)
    /\ Workflow!HasRole("case_admin", Workflow!CASE_ADMIN_ROLES)
    /\ Workflow!CanSee("case_admin")
    /\ Workflow!MayReview("case_admin")
    /\ Workflow!MayMutate("case_admin")
    /\ UNCHANGED Workflow!memberVars
  BY DEF Workflow!HasRole, Workflow!OWNER_ROLES, Workflow!CASE_ADMIN_ROLES,
         Workflow!MUTATION_ROLES, Workflow!CanSee, Workflow!IsMember, Workflow!NotMember,
         Workflow!MayReview, Workflow!MayMutate, Workflow!memberVars

(* Status and stage changes and the archive are steps of CaseWorkflow.      *)
LEMMA MovesAreWorkflowSteps ==
    ASSUME exists, NEW new, Handled("move", case, new), case' = new,
           UNCHANGED <<exists, granted, waived>>
    PROVE  Workflow!UserStep("case_admin")
<1>1. CASE \E t \in StatusTargets : new \in PutStatus(case, t) \cup PatchStatus(case, t)
  <2>1. PICK t \in StatusTargets : new \in PutStatus(case, t) \cup PatchStatus(case, t)
    BY <1>1
  <2>2. t \in Workflow!Statuses
    BY RequestsAssumption DEF Statuses, Workflow!Statuses
  <2>3. case' \in Workflow!PutStatus(case, t) \/ case' \in Workflow!PatchStatus(case, t)
    BY <2>1 DEF PutStatus, PatchStatus, When, ALLOWED_WORKFLOW_TRANSITIONS,
       Workflow!PutStatus, Workflow!PatchStatus, Workflow!When,
       Workflow!ALLOWED_WORKFLOW_TRANSITIONS
  <2>4. Workflow!MoveCase("case_admin")
    BY <2>2, <2>3, CaseAdminMay DEF Workflow!MoveCase, Workflow!WorkflowStep
  <2>5. QED BY <2>4 DEF Workflow!UserStep
<1>2. CASE \E t \in StageTargets : new \in UpdateStage(case, t)
  <2>1. PICK t \in StageTargets : new \in UpdateStage(case, t)
    BY <1>2
  <2>2. t \in Workflow!Stages
    BY RequestsAssumption DEF Stages, Workflow!Stages
  <2>3. case' \in Workflow!UpdateStage(case, t)
    BY <2>1 DEF UpdateStage, When, ALLOWED_STAGE_TRANSITIONS, Workflow!UpdateStage,
       Workflow!When, Workflow!ALLOWED_STAGE_TRANSITIONS
  <2>4. Workflow!MoveCase("case_admin")
    BY <2>2, <2>3, CaseAdminMay DEF Workflow!MoveCase, Workflow!WorkflowStep
  <2>5. QED BY <2>4 DEF Workflow!UserStep
<1>3. CASE new \in ArchiveInvestigation(case)
  <2>1. Workflow!Archive("case_admin")
    BY <1>3, CaseAdminMay DEF ArchiveInvestigation, Workflow!ArchiveInvestigation,
       Workflow!Archive, Workflow!WorkflowStep
  <2>2. QED BY <2>1 DEF Workflow!UserStep
<1>4. QED BY <1>1, <1>2, <1>3 DEF Handled

(* So are the requests on the review.                                       *)
LEMMA ReviewsAreWorkflowSteps ==
    ASSUME exists, NEW op \in {"submit_review", "approve_review", "decline_review", "close_review"},
           NEW new, Handled(op, case, new), case' = new, UNCHANGED exists,
           granted' = GrantedAfter(op), waived' = WaivedAfter(op)
    PROVE  Workflow!UserStep("case_admin")
<1>0. waived' = waived
  BY DEF WaivedAfter
<1>1. CASE op = "submit_review"
  <2>1. case' \in Workflow!SubmitCaseReview(case)
    BY <1>1 DEF Handled, SubmitCaseReview, When, Workflow!SubmitCaseReview, Workflow!When
  <2>2. Workflow!SubmitReview("case_admin")
    BY <1>0, <1>1, <2>1, CaseAdminMay DEF Workflow!SubmitReview, GrantedAfter
  <2>3. QED BY <2>2 DEF Workflow!UserStep
<1>2. CASE op \in {"approve_review", "decline_review"}
  <2>1. PICK d \in {"approve", "reject", "request_changes"} :
           /\ new \in DecideCaseReview(case, d)
           /\ d = "approve" <=> op = "approve_review"
    BY <1>2 DEF Handled
  <2>2. case' \in Workflow!DecideCaseReview(case, d) /\ d \in DOMAIN Workflow!ReviewDecisions
    BY <2>1 DEF DecideCaseReview, ReviewDecisions, When, Workflow!DecideCaseReview,
       Workflow!ReviewDecisions, Workflow!When
  <2>3. Workflow!DecideReview("case_admin", d)
    BY <1>0, <1>2, <2>1, <2>2, CaseAdminMay DEF Workflow!DecideReview, GrantedAfter
  <2>4. QED BY <2>2, <2>3 DEF Workflow!UserStep
<1>3. CASE op = "close_review"
  <2>1. PICK override \in BOOLEAN : new \in CloseCase(case, override)
    BY <1>3 DEF Handled
  <2>2. case' \in Workflow!CloseCase(case, override)
    BY <2>1 DEF CloseCase, When, Workflow!CloseCase, Workflow!When
  <2>3. Workflow!CloseReview("case_admin", override)
    BY <1>0, <1>3, <2>2, CaseAdminMay DEF Workflow!CloseReview, Workflow!WorkflowStep, GrantedAfter
  <2>4. QED BY <2>3 DEF Workflow!UserStep
<1>4. QED BY <1>1, <1>2, <1>3

(* And those on the closure.                                                *)
LEMMA ClosuresAreWorkflowSteps ==
    ASSUME exists, NEW op \in {"submit_closure", "approve_closure", "close_closure",
                               "waive_closure", "reopen_closure"},
           NEW new, Handled(op, case, new), case' = new, UNCHANGED exists,
           granted' = GrantedAfter(op), waived' = WaivedAfter(op)
    PROVE  Workflow!UserStep("case_admin")
<1>1. CASE op = "submit_closure"
  <2>1. case' \in Workflow!SubmitCaseClosure(case)
    BY <1>1 DEF Handled, SubmitCaseClosure, When, Workflow!SubmitCaseClosure, Workflow!When
  <2>2. Workflow!SubmitClosure("case_admin")
    BY <1>1, <2>1, CaseAdminMay DEF Workflow!SubmitClosure, GrantedAfter, WaivedAfter
  <2>3. QED BY <2>2 DEF Workflow!UserStep
<1>2. CASE op = "approve_closure"
  <2>1. case' \in Workflow!ApproveCaseClosure(case)
    BY <1>2 DEF Handled, ApproveCaseClosure, When, Workflow!ApproveCaseClosure, Workflow!When
  <2>2. Workflow!ApproveClosure("case_admin")
    BY <1>2, <2>1, CaseAdminMay DEF Workflow!ApproveClosure, GrantedAfter, WaivedAfter
  <2>3. QED BY <2>2 DEF Workflow!UserStep
<1>3. CASE op \in {"close_closure", "waive_closure"}
  <2>1. PICK blocked \in BOOLEAN, override \in BOOLEAN :
           new \in CloseCaseClosure(case, blocked, override) /\ override = (op = "waive_closure")
    BY <1>3 DEF Handled
  <2>2. case' \in Workflow!CloseCaseClosure(case, blocked, override)
    BY <2>1 DEF CloseCaseClosure, When, Workflow!CloseCaseClosure, Workflow!When
  <2>3. Workflow!CloseClosure("case_admin", blocked, override)
    BY <1>3, <2>1, <2>2, CaseAdminMay DEF Workflow!CloseClosure, GrantedAfter, WaivedAfter
  <2>4. QED BY <2>3 DEF Workflow!UserStep
<1>4. CASE op = "reopen_closure"
  <2>1. case' \in Workflow!ReopenCaseClosure(case)
    BY <1>4 DEF Handled, ReopenCaseClosure, When, Workflow!ReopenCaseClosure, Workflow!When
  <2>2. Workflow!ReopenClosure("case_admin")
    BY <1>4, <2>1, CaseAdminMay DEF Workflow!ReopenClosure, Workflow!WorkflowStep,
       GrantedAfter, WaivedAfter
  <2>3. QED BY <2>2 DEF Workflow!UserStep
<1>5. QED BY <1>1, <1>2, <1>3, <1>4
-----------------------------------------------------------------------------
\* What a step may do to the case while no stale request commits.
Orderly ==
    /\ case.review = "closed" => case'.review = "closed" \/ raced'
    /\ Lifecycle!LifecycleNext \/ raced' \/ UNCHANGED <<case.closure, "closure" \in granted, waived>>
    /\ exists /\ ~exists' => case.status = "archived" \/ raced'
    /\ content' # content /\ case.review = "closed" =>
          content'.caller = "case_admin" \/ content'.late

(* A commit that is not stale does what its handler decided.                *)
LEMMA CommitKeeps ==
    ASSUME RequestsInv, NEW r \in Requests, CommitDecision(r)
    PROVE  RequestsInv' /\ Orderly
<1> DEFINE q == request[r]
           new == Applied(case, q.write)
<1>1. case \in Cases /\ granted \subseteq {"review", "closure"} /\ waived \in BOOLEAN
      /\ raced \in BOOLEAN
  BY DEF RequestsInv, TypeOK
<1>2. q \in Deciding
  <2>1. request[r] \in {Idle} \cup Deciding \cup Purging \cup Editing
    BY DEF RequestsInv, TypeOK
  <2>2. request[r].phase = "deciding"
    BY DEF CommitDecision
  <2>3. QED BY <2>1, <2>2 DEF Idle, Deciding, Purging, Editing
<1>3. q # Idle /\ q.op \in Ops /\ q.write \in Writes /\ q.stale \in BOOLEAN /\ q.phase = "deciding"
  BY <1>2 DEF Idle, Deciding
<1>4. /\ case' = new /\ raced' = (raced \/ q.stale) /\ granted' = GrantedAfter(q.op)
      /\ waived' = WaivedAfter(q.op) /\ exists' = exists /\ content' = content
      /\ Finish(r, new # case)
  BY DEF CommitDecision
<1>5. new \in Cases
  BY <1>1, <1>3, MergeTypes
<1>6. granted' \subseteq {"review", "closure"} /\ waived' \in BOOLEAN /\ raced' \in BOOLEAN
  BY <1>1, <1>3, <1>4 DEF GrantedAfter, WaivedAfter
<1>7. request' \in [Requests -> {Idle} \cup InFlight] /\ \A o \in Requests : Knows(o)'
  <2>1. (new # case) \in BOOLEAN /\ (case' = case \/ new # case)
    BY <1>4
  <2>2. QED BY <1>4, <2>1, OthersAreOvertaken
<1>8. TypeOK'
  BY <1>4, <1>5, <1>6, <1>7 DEF RequestsInv, TypeOK, InFlight
<1>9. ~raced' => StepOf(q.op, case, new) /\ Earned
  BY <1>1, <1>3, <1>4, HandlersDo DEF RequestsInv, Knows
<1>10. ~raced' => Earned'
  <2> SUFFICES ASSUME ~raced' PROVE Earned'
    OBVIOUS
  <2>1. /\ case'.review = "approved" => "review" \in granted'
        /\ case'.review = "closed" => "review" \in granted' \/ case'.reviewOverride
    <3>1. CASE q.op \in {"submit_review", "approve_review", "decline_review", "close_review"}
      BY <1>1, <1>4, <1>9, <3>1 DEF StepOf, Earned, GrantedAfter
    <3>2. CASE q.op \notin {"submit_review", "approve_review", "decline_review", "close_review"}
      <4>1. "review" \in granted' <=> "review" \in granted
        BY <1>1, <1>3, <1>4, <3>2 DEF GrantedAfter, Ops
      <4>2. case'.review = case.review /\ case'.reviewOverride = case.reviewOverride
        BY <1>4, <1>9, <3>2 DEF StepOf
      <4>3. QED BY <1>9, <4>1, <4>2 DEF Earned
    <3>3. QED BY <3>1, <3>2
  <2>2. /\ case'.closure = "approved" => "closure" \in granted'
        /\ case'.closure = "closed" => "closure" \in granted' \/ waived'
    BY <1>1, <1>3, <1>4, <1>9 DEF StepOf, Earned, GrantedAfter, WaivedAfter, Ops
  <2>3. QED BY <2>1, <2>2 DEF Earned
<1>11. case.review = "closed" => case'.review = "closed" \/ raced'
  BY <1>3, <1>4, <1>9 DEF StepOf, Ops
<1>12. Lifecycle!LifecycleNext \/ raced' \/ UNCHANGED <<case.closure, "closure" \in granted, waived>>
  <2> SUFFICES ASSUME ~raced'
               PROVE  Lifecycle!LifecycleNext
                      \/ UNCHANGED <<case.closure, "closure" \in granted, waived>>
    OBVIOUS
  <2>0. StepOf(q.op, case, new) /\ Earned
    BY <1>9
  <2>1. CASE q.op = "submit_closure"
    BY <1>1, <1>4, <2>0, <2>1 DEF StepOf, GrantedAfter, WaivedAfter, Lifecycle!LifecycleNext,
       Lifecycle!Submit
  <2>2. CASE q.op = "approve_closure"
    BY <1>1, <1>4, <2>0, <2>2 DEF StepOf, GrantedAfter, WaivedAfter, Lifecycle!LifecycleNext,
       Lifecycle!Approve
  <2>3. CASE q.op \in {"close_closure", "waive_closure"}
    BY <1>1, <1>4, <2>0, <2>3 DEF StepOf, Earned, GrantedAfter, WaivedAfter,
       Lifecycle!LifecycleNext, Lifecycle!Close
  <2>4. CASE q.op = "reopen_closure"
    BY <1>1, <1>4, <2>0, <2>4 DEF StepOf, GrantedAfter, WaivedAfter, Lifecycle!LifecycleNext,
       Lifecycle!Reopen
  <2>5. CASE q.op \in {"move", "submit_review", "approve_review", "decline_review", "close_review"}
    <3>1. case'.closure = case.closure
      BY <1>4, <2>0, <2>5 DEF StepOf
    <3>2. waived' = waived
      BY <1>4, <2>5 DEF WaivedAfter
    <3>3. "closure" \in granted' <=> "closure" \in granted
      BY <1>1, <1>4, <2>5 DEF GrantedAfter
    <3>4. ("closure" \in granted)' = ("closure" \in granted)
      BY <3>3
    <3>5. QED BY <3>1, <3>2, <3>4
  <2>6. QED BY <1>3, <2>1, <2>2, <2>3, <2>4, <2>5 DEF Ops
<1>13. QED BY <1>4, <1>7, <1>8, <1>10, <1>11, <1>12 DEF RequestsInv, Orderly

(* Every step keeps the invariant and is orderly.                           *)
LEMMA RequestsInvStep ==
    ASSUME RequestsInv, [Next]_vars
    PROVE  RequestsInv' /\ (Orderly \/ UNCHANGED vars)
<1>0. case \in Cases /\ request \in [Requests -> {Idle} \cup InFlight]
  BY DEF RequestsInv, TypeOK, InFlight
<1>a. ASSUME UNCHANGED <<exists, case, content, granted, waived>>
      PROVE  Orderly
  BY <1>a DEF Orderly
<1>1. ASSUME NEW r \in Requests, ReceiveMove(r)
      PROVE  RequestsInv' /\ Orderly
  <2>1. "move" \in Ops
    BY DEF Ops
  <2>2. QED BY <1>0, <1>1, <1>a, <2>1, DecideKeeps DEF ReceiveMove, Handled
<1>2. ASSUME NEW r \in Requests, NEW caller \in Callers, ReceiveReview(r, caller)
      PROVE  RequestsInv' /\ Orderly
  <2>1. {"submit_review", "approve_review", "decline_review", "close_review"} \subseteq Ops
    BY DEF Ops
  <2>2. QED BY <1>0, <1>2, <1>a, <2>1, DecideKeeps DEF ReceiveReview, Handled
<1>3. ASSUME NEW r \in Requests, NEW caller \in Callers, ReceiveClosure(r, caller)
      PROVE  RequestsInv' /\ Orderly
  <2>1. {"submit_closure", "approve_closure", "close_closure", "waive_closure",
         "reopen_closure"} \subseteq Ops
    BY DEF Ops
  <2>2. QED BY <1>0, <1>3, <1>a, <2>1, DecideKeeps DEF ReceiveClosure, Handled
<1>4. ASSUME NEW r \in Requests, ReceivePurge(r)
      PROVE  RequestsInv' /\ Orderly
  <2> DEFINE q == [phase |-> "purging", stale |-> FALSE]
  <2>1. q \in InFlight /\ q.phase = "purging"
    BY DEF InFlight, Purging
  <2>2. QED BY <1>4, <1>a, <2>1, EnterKeeps DEF ReceivePurge
<1>5. ASSUME NEW r \in Requests, NEW caller \in Callers, ReceiveEdit(r, caller)
      PROVE  RequestsInv' /\ Orderly
  <2> DEFINE q == [phase |-> "editing", caller |-> caller, stale |-> FALSE]
  <2>1. q \in InFlight /\ q.phase = "editing" /\ q.caller = caller
    BY DEF InFlight, Editing
  <2>2. QED BY <1>5, <1>a, <2>1, EnterKeeps DEF ReceiveEdit
<1>6. ASSUME NEW r \in Requests, CommitDecision(r)
      PROVE  RequestsInv' /\ Orderly
  BY <1>6, CommitKeeps
<1>7. ASSUME NEW r \in Requests, CommitPurge(r)
      PROVE  RequestsInv' /\ Orderly
  <2>1. request[r] # Idle /\ request[r].stale \in BOOLEAN /\ Knows(r)
    BY <1>0, <1>7 DEF RequestsInv, CommitPurge, Idle, InFlight, Deciding, Purging, Editing
  <2>2. request' \in [Requests -> {Idle} \cup InFlight] /\ \A o \in Requests : Knows(o)'
    BY <1>7, OthersAreOvertaken DEF CommitPurge
  <2>3. TypeOK'
    BY <1>7, <2>1, <2>2 DEF RequestsInv, TypeOK, InFlight, CommitPurge
  <2>4. ~raced' => Earned'
    BY <1>7 DEF RequestsInv, Earned, CommitPurge
  <2>5. Orderly
    BY <1>7, <2>1 DEF Orderly, Knows, CommitPurge
  <2>6. QED BY <2>2, <2>3, <2>4, <2>5 DEF RequestsInv
<1>8. ASSUME NEW r \in Requests, CommitEdit(r)
      PROVE  RequestsInv' /\ Orderly
  <2>1. request[r] \in Editing /\ request[r] # Idle /\ Knows(r)
    BY <1>0, <1>8 DEF RequestsInv, CommitEdit, Idle, InFlight, Deciding, Purging, Editing
  <2>2. request' \in [Requests -> {Idle} \cup InFlight] /\ \A o \in Requests : Knows(o)'
    BY <1>8, OthersAreOvertaken DEF CommitEdit
  <2>3. content' \in Contents /\ content'.caller = request[r].caller
        /\ content'.late = request[r].stale
    BY <1>8, <2>1 DEF RequestsInv, TypeOK, Contents, Editing, CommitEdit
  <2>4. TypeOK'
    BY <1>8, <2>2, <2>3 DEF RequestsInv, TypeOK, InFlight, CommitEdit
  <2>5. ~raced' => Earned'
    BY <1>8 DEF RequestsInv, Earned, CommitEdit
  <2>6. Orderly
    BY <1>8, <2>1, <2>3 DEF Orderly, Knows, CommitEdit, MayMutate, Editing
  <2>7. QED BY <2>2, <2>4, <2>5, <2>6 DEF RequestsInv
<1>9. ASSUME NEW r \in Requests, Abort(r)
      PROVE  RequestsInv' /\ Orderly
  <2>1. request' \in [Requests -> {Idle} \cup InFlight]
    BY <1>0, <1>9 DEF Abort
  <2>2. ASSUME NEW o \in Requests PROVE Knows(o)'
    <3>1. (request'[o] = request[o] \/ request'[o] = Idle) /\ Knows(o)
      BY <1>0, <1>9 DEF Abort, RequestsInv
    <3>2. QED BY <1>9, <3>1 DEF Abort, Knows, Applied, MayMutate
  <2>3. RequestsInv'
    BY <1>9, <2>1, <2>2 DEF Abort, RequestsInv, TypeOK, Earned, InFlight
  <2>4. QED BY <1>9, <1>a, <2>3 DEF Abort
<1>10. CASE UNCHANGED vars
  BY <1>10 DEF RequestsInv, TypeOK, Earned, Knows, Applied, MayMutate, vars
<1>11. QED BY <1>1, <1>2, <1>3, <1>4, <1>5, <1>6, <1>7, <1>8, <1>9, <1>10 DEF Next

\* The workflow columns change by a request of CaseWorkflow or by an overtaken one.
Atomic ==
    \/ Workflow!UserStep("case_admin")
    \/ \E r \in Requests : Overtaken(r) /\ request'[r] = Idle
    \/ UNCHANGED <<exists, case, granted, waived>>

(* A decision that nothing has overtaken is committed as its handler would  *)
(* decide it now.                                                           *)
LEMMA DecisionsAreAtomic ==
    ASSUME RequestsInv, NEW r \in Requests, CommitDecision(r)
    PROVE  Atomic
<1> DEFINE q == request[r]
           new == Applied(case, q.write)
<1>1. q \in Deciding /\ q # Idle
  BY DEF RequestsInv, TypeOK, CommitDecision, Idle, Deciding, Purging, Editing
<1>2. /\ case' = new /\ granted' = GrantedAfter(q.op) /\ waived' = WaivedAfter(q.op)
      /\ exists /\ UNCHANGED exists /\ request'[r] = Idle
  BY DEF CommitDecision, Finish
<1>3. CASE q.stale
  BY <1>1, <1>2, <1>3 DEF Atomic, Overtaken
<1>4. CASE ~q.stale
  <2>1. Handled(q.op, case, new)
    BY <1>1, <1>4 DEF RequestsInv, Knows, Deciding
  <2>2. CASE q.op = "move"
    <3>1. UNCHANGED <<exists, granted, waived>>
      BY <1>2, <2>2 DEF GrantedAfter, WaivedAfter
    <3>2. Workflow!UserStep("case_admin")
      BY <1>2, <2>1, <2>2, <3>1, MovesAreWorkflowSteps
    <3>3. QED BY <3>2 DEF Atomic
  <2>3. CASE q.op \in {"submit_review", "approve_review", "decline_review", "close_review"}
    <3>1. Workflow!UserStep("case_admin")
      BY <1>2, <2>1, <2>3, ReviewsAreWorkflowSteps
    <3>2. QED BY <3>1 DEF Atomic
  <2>4. CASE q.op \in {"submit_closure", "approve_closure", "close_closure", "waive_closure",
                       "reopen_closure"}
    <3>1. Workflow!UserStep("case_admin")
      BY <1>2, <2>1, <2>4, ClosuresAreWorkflowSteps
    <3>2. QED BY <3>1 DEF Atomic
  <2>5. QED BY <1>1, <2>2, <2>3, <2>4 DEF Deciding, Ops
<1>5. QED BY <1>1, <1>3, <1>4 DEF Deciding

(* A purge that nothing has overtaken finds the case archived.              *)
LEMMA PurgesAreAtomic ==
    ASSUME RequestsInv, NEW r \in Requests, CommitPurge(r)
    PROVE  Atomic
<1>1. request[r] \in Purging /\ request[r] # Idle /\ Knows(r)
  BY DEF RequestsInv, TypeOK, CommitPurge, Idle, Deciding, Purging, Editing
<1>2. request'[r] = Idle /\ exists /\ ~exists' /\ UNCHANGED <<case, granted, waived>>
  BY DEF CommitPurge, Finish
<1>3. CASE request[r].stale
  BY <1>1, <1>2, <1>3 DEF Atomic, Overtaken
<1>4. CASE ~request[r].stale
  <2>1. case.status = "archived"
    BY <1>1, <1>4 DEF Knows, Purging
  <2>2. Workflow!Purge("case_admin")
    BY <1>2, <2>1, CaseAdminMay DEF CommitPurge, Workflow!Purge
  <2>3. QED BY <2>2 DEF Atomic, Workflow!UserStep
<1>5. QED BY <1>1, <1>3, <1>4 DEF Purging

(* Receiving, editing and aborting leave the workflow columns alone.        *)
LEMMA StepsAreAtomic ==
    ASSUME RequestsInv, [Next]_vars
    PROVE  Atomic
<1>1. ASSUME NEW r \in Requests, NEW op, NEW outcomes, Decide(r, op, outcomes)
      PROVE  Atomic
  BY <1>1 DEF Decide, Atomic
<1>2. ASSUME NEW r \in Requests, ReceiveMove(r)
      PROVE  Atomic
  BY <1>1, <1>2 DEF ReceiveMove
<1>3. ASSUME NEW r \in Requests, NEW caller \in Callers,
             ReceiveReview(r, caller) \/ ReceiveClosure(r, caller)
      PROVE  Atomic
  BY <1>1, <1>3 DEF ReceiveReview, ReceiveClosure
<1>4. ASSUME NEW r \in Requests, NEW caller \in Callers,
             ReceiveEdit(r, caller) \/ ReceivePurge(r) \/ CommitEdit(r) \/ Abort(r)
      PROVE  Atomic
  BY <1>4 DEF ReceiveEdit, ReceivePurge, CommitEdit, Abort, Atomic
<1>5. ASSUME UNCHANGED vars
      PROVE  Atomic
  BY <1>5 DEF vars, Atomic
<1>6. "analyst" \in Callers
  BY DEF Callers
<1>7. QED BY <1>2, <1>3, <1>4, <1>5, <1>6, DecisionsAreAtomic, PurgesAreAtomic DEF Next

(* A new case has earned what it has.                                       *)
LEMMA RequestsInvInit == Init => RequestsInv
<1> SUFFICES ASSUME Init PROVE RequestsInv
  OBVIOUS
<1>1. NewCase \in Cases
  BY DEF NewCase, Cases, Statuses, Stages, ReviewStatuses, ClosureStatuses
<1>2. QED BY <1>1 DEF Init, RequestsInv, TypeOK, Earned, Knows, NewCase, Contents, Callers

(* The invariant of every reachable state.                                  *)
LEMMA RequestsInvariant == Spec => []RequestsInv
<1>1. RequestsInv /\ [Next]_vars => RequestsInv'
  BY RequestsInvStep
<1>2. QED BY RequestsInvInit, <1>1, PTL DEF Spec
-----------------------------------------------------------------------------
(* The case, the requests in flight and the histories keep their types.     *)
THEOREM RequestsTypeCorrect == Spec => []TypeOK
<1>1. RequestsInv => TypeOK
  BY DEF RequestsInv
<1>2. QED BY RequestsInvariant, <1>1, PTL

(* Whatever is closed was approved since it was submitted, or overridden,   *)
(* until a stale request commits (close_case, close_case_closure).          *)
THEOREM OverlappingClosingsAreEarned == Spec => []ClosingsAreEarned
<1>1. RequestsInv => ClosingsAreEarned
  BY DEF RequestsInv, Earned, ClosingsAreEarned
<1>2. QED BY RequestsInvariant, <1>1, PTL

(* Only a stale request reopens a closed review (submit_case_review).       *)
THEOREM ReviewStaysClosed == Spec => ClosedReviewStays
<1>1. RequestsInv /\ [Next]_vars =>
        [case.review = "closed" => case'.review = "closed" \/ raced']_vars
  BY RequestsInvStep DEF Orderly
<1>2. QED BY RequestsInvariant, <1>1, PTL DEF Spec, ClosedReviewStays

(* Overlapping requests implement the closure's lifecycle until one of them *)
(* commits what it decided on an older case.                                *)
THEOREM OverlapKeepsLifecycle == Spec => LifecycleUnlessRaced
<1>1. RequestsInv /\ [Next]_vars =>
        [Lifecycle!LifecycleNext \/ raced']_<<case.closure, "closure" \in granted, waived>>
  BY RequestsInvStep DEF Orderly, vars
<1>2. QED BY RequestsInvariant, <1>1, PTL DEF Spec, LifecycleUnlessRaced

(* Only a stale purge deletes a case that is not archived.                  *)
THEOREM PurgesAreFromArchive == Spec => PurgedFromArchive
<1>1. RequestsInv /\ [Next]_vars =>
        [exists /\ ~exists' => case.status = "archived" \/ raced']_vars
  BY RequestsInvStep DEF Orderly
<1>2. QED BY RequestsInvariant, <1>1, PTL DEF Spec, PurgedFromArchive

(* After the review is closed an analyst's edits are late ones              *)
(* (ensure_investigation_permission with MUTATION_ROLES).                   *)
THEOREM AnalystsEditLate == Spec => LateEditsOnly
<1>1. RequestsInv /\ [Next]_vars =>
        [content' # content /\ case.review = "closed" =>
             content'.caller = "case_admin" \/ content'.late]_vars
  BY RequestsInvStep DEF Orderly
<1>2. QED BY RequestsInvariant, <1>1, PTL DEF Spec, LateEditsOnly

(* Overlapping requests are those of CaseWorkflow one after another, save   *)
(* for the ones that were overtaken: what a handler decided on the case it  *)
(* had loaded it would decide on the case it commits to (investigation.py,  *)
(* case_review.py, case_closure.py).                                        *)
THEOREM CaseRequestsAreAtomic == Spec => AtomicUnlessOvertaken
<1>1. RequestsInv /\ [Next]_vars =>
        [Workflow!UserStep("case_admin")
         \/ \E r \in Requests : Overtaken(r) /\ request'[r] = Idle
        ]_<<exists, case, granted, waived>>
  BY StepsAreAtomic DEF Atomic
<1>2. QED BY RequestsInvariant, <1>1, PTL DEF Spec, AtomicUnlessOvertaken

(* With requests that run one after another the split into receiving and    *)
(* committing makes no difference: CaseRequests implements CaseWorkflow and *)
(* none of the properties above has its exception.                          *)
THEOREM SerialCaseRequests ==
    ASSUME \A r, s \in Requests : r = s
    PROVE  Spec => SerialSpec /\ []~raced
<1> DEFINE Inv == RequestsInv /\ ~raced /\ \A r \in Requests : ~Overtaken(r)
<1>1. Init => Inv
  BY RequestsInvInit DEF Init, Overtaken
<1>2. Inv /\ [Next]_vars => Inv' /\ [Workflow!Next]_(Workflow!vars)
  <2> SUFFICES ASSUME Inv, [Next]_vars PROVE Inv' /\ [Workflow!Next]_(Workflow!vars)
    OBVIOUS
  <2>1. RequestsInv' /\ Atomic
    BY RequestsInvStep, StepsAreAtomic
  <2> DEFINE Alone == ~raced' /\ \A r \in Requests : ~Overtaken(r)'
  <2>0. request \in [Requests -> {Idle} \cup InFlight]
    BY DEF RequestsInv, TypeOK, InFlight
  <2>2. ASSUME NEW r \in Requests, NEW op, NEW outcomes, Decide(r, op, outcomes)
        PROVE  Alone
    BY <2>0, <2>2 DEF Decide, Overtaken
  <2>3. ASSUME NEW r \in Requests, NEW caller \in Callers, ReceiveEdit(r, caller)
        PROVE  Alone
    BY <2>0, <2>3 DEF ReceiveEdit, Overtaken
  <2>4. ASSUME NEW r \in Requests, ReceivePurge(r)
        PROVE  Alone
    BY <2>0, <2>4 DEF ReceivePurge, Overtaken
  <2>5. ASSUME NEW r \in Requests, CommitDecision(r) \/ CommitPurge(r) \/ CommitEdit(r)
        PROVE  Alone
    <3>1. request[r].phase \in {"deciding", "purging", "editing"}
      BY <2>5 DEF CommitDecision, CommitPurge, CommitEdit
    <3>2. ~raced /\ ~request[r].stale
      BY <3>1 DEF Overtaken, Idle
    <3>3. raced' = raced \/ raced' = (raced \/ request[r].stale)
      BY <2>5 DEF CommitDecision, CommitPurge, CommitEdit
    <3>4. PICK changed : Finish(r, changed)
      BY <2>5 DEF CommitDecision, CommitPurge, CommitEdit
    <3>5. \A o \in Requests : request'[o] = Idle
      BY <3>4 DEF Finish
    <3>6. ~raced'
      BY <3>2, <3>3
    <3>7. QED BY <3>5, <3>6 DEF Overtaken
  <2>6. ASSUME NEW r \in Requests, Abort(r)
        PROVE  Alone
    BY <2>0, <2>6 DEF Abort, Overtaken
  <2>7. ASSUME UNCHANGED vars
        PROVE  Alone
    BY <2>7 DEF vars, Overtaken
  <2>8. Alone
    BY <2>2, <2>3, <2>4, <2>5, <2>6, <2>7 DEF Next, ReceiveMove, ReceiveReview, ReceiveClosure
  <2>9. Inv'
    BY <2>1, <2>8
  <2>10. Workflow!UserStep("case_admin") \/ UNCHANGED <<exists, case, granted, waived>>
    BY <2>1 DEF Atomic
  <2>11. [Workflow!Next]_(Workflow!vars)
    BY <2>10, CaseAdminMay DEF Workflow!Next, Workflow!vars, Workflow!workflowVars
  <2>12. QED BY <2>9, <2>11
<1>3. Init => Workflow!Init
  <2>1. NewCase = Workflow!NewCase
    BY DEF NewCase, Workflow!NewCase
  <2>2. Workflow!MembershipInit
    BY DEF Workflow!MembershipInit
  <2>3. QED BY <2>1, <2>2 DEF Init, Workflow!Init
<1>4. Inv => ~raced
  OBVIOUS
<1>5. QED BY <1>1, <1>2, <1>3, <1>4, PTL DEF Spec, SerialSpec, Workflow!Spec
=============================================================================
