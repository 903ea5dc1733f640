------------------------- MODULE FindingReviewProofs -------------------------
(* Proofs about FindingReview, for any number of requests in flight and any *)
(* statuses clients set.                                                    *)
EXTENDS FindingReview, TLAPS

Resolved == {"remediated", "accepted_risk"}

\* What requests that do not overlap keep of the row.
Good(f) ==
    /\ f.validation = "validated" => f.remediation = "remediated"
    /\ f.validation = "accepted_risk" => f.remediation = "accepted_risk"
    /\ f.remediation = "remediated" => f.verified_by = "set" /\ f.verified_at = "set"
    /\ f.history.validation = f.validation
    /\ \/ f.history.status = f.status
       \/ f.history.status = "cut" /\ f.history.later = HistoryLimit

\* A request that nothing has overtaken will leave what its handler makes of
\* the row as it is now.
Knows(r) ==
    request[r] # Idle /\ ~request[r].stale =>
        Handled(finding, Applied(finding, request[r].write))

ReviewInv ==
    /\ TypeOK
    /\ ~raced => Good(finding)
    /\ \A r \in Requests : Knows(r)

(* Columns are merged column by column.                                     *)
LEMMA MergeTypes ==
    ASSUME NEW now \in Rows, NEW write \in Writes
    PROVE  Applied(now, write) \in Rows
  BY DEF Applied, Rows, Writes

(* A request that nothing has overtaken leaves the row it computed.         *)
LEMMA FlushesWhatItComputed ==
    ASSUME NEW f \in Rows, NEW new \in Rows, NEW appends \in BOOLEAN,
           ~appends => new.history = f.history
    PROVE  Differing(f, new, appends) \in Writes /\ Applied(f, Differing(f, new, appends)) = new
<1> DEFINE w == Differing(f, new, appends)
<1>1. w \in Writes
  BY DEF Differing, Rows, Writes
<1>2. /\ Applied(f, w).status = new.status
      /\ Applied(f, w).remediation = new.remediation
      /\ Applied(f, w).validation = new.validation
      /\ Applied(f, w).verified_by = new.verified_by
      /\ Applied(f, w).verified_at = new.verified_at
      /\ Applied(f, w).history = new.history
  BY FindingAssumption DEF Applied, Differing, Rows
<1>3. Applied(f, w) \in Rows
  BY <1>1, MergeTypes
<1>4. QED BY <1>1, <1>2, <1>3 DEF Rows

(* What an entry makes of the history: a status entry is the last one on    *)
(* the status, and a validation entry cuts it only when it is old enough.   *)
LEMMA EntriesTell ==
    ASSUME NEW h \in Histories
    PROVE  /\ \A status \in FindingStatuses :
                 /\ WithStatus(h, status) \in Histories
                 /\ WithStatus(h, status).status = status
                 /\ WithStatus(h, status).validation = h.validation
           /\ /\ WithAssignment(h) \in Histories
              /\ WithAssignment(h).status = h.status
              /\ WithAssignment(h).validation = h.validation
              /\ h.later = HistoryLimit => WithAssignment(h).later = HistoryLimit
           /\ \A validation \in ValidationStatuses :
                 /\ WithValidation(h, validation) \in Histories
                 /\ WithValidation(h, validation).validation = validation
                 /\ \/ WithValidation(h, validation).status = h.status /\ h.later # HistoryLimit
                    \/ /\ WithValidation(h, validation).status = "cut"
                       /\ WithValidation(h, validation).later = HistoryLimit
<1>1. h.later \in 0..HistoryLimit /\ HistoryLimit \in Nat \ {0} /\ 0 \in 0..HistoryLimit
  BY FindingAssumption DEF Histories
<1>2. /\ OneMore(h.later) \in 0..HistoryLimit
      /\ h.later = HistoryLimit => OneMore(h.later) = HistoryLimit
      /\ ~(OneMore(h.later) < HistoryLimit) => OneMore(h.later) = HistoryLimit
      /\ OneMore(h.later) < HistoryLimit => h.later # HistoryLimit
  BY <1>1 DEF OneMore
<1>3. \A status \in FindingStatuses :
         /\ WithStatus(h, status) \in Histories
         /\ WithStatus(h, status).status = status
         /\ WithStatus(h, status).validation = h.validation
  BY <1>1 DEF Histories, WithStatus
<1>4. /\ WithAssignment(h) \in Histories
      /\ WithAssignment(h).status = h.status
      /\ WithAssignment(h).validation = h.validation
      /\ h.later = HistoryLimit => WithAssignment(h).later = HistoryLimit
  BY <1>2 DEF Histories, WithAssignment
<1>5. \A validation \in ValidationStatuses :
         /\ WithValidation(h, validation) \in Histories
         /\ WithValidation(h, validation).validation = validation
         /\ \/ WithValidation(h, validation).status = h.status /\ h.later # HistoryLimit
            \/ /\ WithValidation(h, validation).status = "cut"
               /\ WithValidation(h, validation).later = HistoryLimit
  BY <1>2 DEF Histories, WithValidation
<1>6. QED BY <1>3, <1>4, <1>5

\* A handler keeps a good row good and does not reopen a resolved one.
Keeps(f, outcomes) ==
    \A new \in outcomes :
        /\ new \in Rows
        /\ Good(f) => Good(new)
        /\ f.remediation \in Resolved => new.remediation \in Resolved

(* Setting a status appends it to the history.                              *)
LEMMA StatusKeeps ==
    ASSUME NEW f \in Rows, NEW target \in FindingTargets
    PROVE  Keeps(f, UpdateFindingStatus(f, target))
<1> SUFFICES ASSUME NEW new \in UpdateFindingStatus(f, target)
             PROVE  /\ new \in Rows
                    /\ Good(f) => Good(new)
                    /\ new.remediation = f.remediation
  BY DEF Keeps
<1> DEFINE h == WithStatus(f.history, target)
<1>1. /\ target \in FindingStatuses /\ h \in Histories
      /\ h.status = target /\ h.validation = f.history.validation
  BY FindingAssumption, EntriesTell DEF Rows
<1>2. new = [f EXCEPT !.status = target, !.history = h]
  BY DEF UpdateFindingStatus, Rows
<1>3. new \in Rows /\ new.history = h /\ new.status = target
      /\ new.validation = f.validation /\ new.remediation = f.remediation
      /\ new.verified_by = f.verified_by /\ new.verified_at = f.verified_at
  BY <1>1, <1>2 DEF Rows
<1>4. QED BY <1>1, <1>3 DEF Good

(* An assignment leaves both entries in place.                              *)
LEMMA AssignKeeps ==
    ASSUME NEW f \in Rows
    PROVE  Keeps(f, AssignFinding(f))
<1> SUFFICES ASSUME NEW new \in AssignFinding(f)
             PROVE  /\ new \in Rows
                    /\ Good(f) => Good(new)
                    /\ new.remediation = f.remediation
  BY DEF Keeps
<1> DEFINE h == WithAssignment(f.history)
<1>1. /\ h \in Histories
      /\ h.status = f.history.status /\ h.validation = f.history.validation
      /\ f.history.later = HistoryLimit => h.later = HistoryLimit
  BY EntriesTell DEF Rows
<1>2. new = [f EXCEPT !.history = h]
  BY DEF AssignFinding, Rows
<1>3. new \in Rows /\ new.history = h /\ new.status = f.status
      /\ new.validation = f.validation /\ new.remediation = f.remediation
      /\ new.verified_by = f.verified_by /\ new.verified_at = f.verified_at
  BY <1>1, <1>2 DEF Rows
<1>4. QED BY <1>1, <1>3 DEF Good

(* Submitting resets the validation and says so.                            *)
LEMMA SubmitKeeps ==
    ASSUME NEW f \in Rows
    PROVE  Keeps(f, SubmitValidation(f))
<1> SUFFICES ASSUME NEW new \in SubmitValidation(f)
             PROVE  /\ new \in Rows
                    /\ Good(f) => Good(new)
                    /\ new.remediation = f.remediation
  BY DEF Keeps
<1> DEFINE h == WithValidation(f.history, "validation_pending")
<1>1. /\ h \in Histories /\ h.validation = "validation_pending"
      /\ \/ h.status = f.history.status /\ f.history.later # HistoryLimit
         \/ h.status = "cut" /\ h.later = HistoryLimit
  BY EntriesTell DEF Rows, ValidationStatuses
<1>2. new = [f EXCEPT !.validation = "validation_pending", !.history = h]
  BY DEF SubmitValidation, Rows
<1>3. new \in Rows /\ new.history = h /\ new.validation = "validation_pending"
      /\ new.status = f.status /\ new.remediation = f.remediation
      /\ new.verified_by = f.verified_by /\ new.verified_at = f.verified_at
  BY <1>1, <1>2 DEF Rows, ValidationStatuses
<1>4. QED BY <1>1, <1>3 DEF Good

(* A decision writes the remediation that goes with its outcome.            *)
LEMMA DecisionKeeps ==
    ASSUME NEW f \in Rows, NEW decision \in DOMAIN ValidationDecisions
    PROVE  Keeps(f, DecideValidation(f, decision))
<1> SUFFICES ASSUME NEW new \in DecideValidation(f, decision)
             PROVE  /\ new \in Rows
                    /\ Good(f) => Good(new)
                    /\ f.remediation \in Resolved => new.remediation \in Resolved
  BY DEF Keeps
<1> DEFINE out == ValidationDecisions[decision]
           rem == CASE decision = "validate" -> "remediated"
                    [] decision = "accept_risk" -> "accepted_risk"
                    [] decision = "fail" -> f.remediation
           h == WithValidation(f.history, out)
<1>1. decision \in {"validate", "fail", "accept_risk"}
  BY DEF ValidationDecisions
<1>2. out \in ValidationStatuses
  BY <1>1 DEF ValidationDecisions, ValidationStatuses
<1>3. rem \in RemediationStatuses /\ (f.remediation \in Resolved => rem \in Resolved)
  BY <1>1 DEF RemediationStatuses, Rows, Resolved
<1>4. /\ h \in Histories /\ h.validation = out
      /\ \/ h.status = f.history.status /\ f.history.later # HistoryLimit
         \/ h.status = "cut" /\ h.later = HistoryLimit
  BY <1>2, EntriesTell DEF Rows
<1>5. new = [f EXCEPT !.validation = out, !.history = h, !.verified_by = "set",
                      !.verified_at = "set", !.remediation = rem]
  BY DEF DecideValidation, Rows
<1>6. /\ new \in Rows
      /\ new.status = f.status /\ new.validation = out /\ new.history = h
      /\ new.verified_by = "set" /\ new.verified_at = "set" /\ new.remediation = rem
  BY <1>2, <1>3, <1>4, <1>5 DEF Rows
<1>7. /\ out = "validated" => rem = "remediated"
      /\ out = "accepted_risk" => rem = "accepted_risk"
  BY <1>1 DEF ValidationDecisions
<1>8. QED BY <1>3, <1>4, <1>6, <1>7 DEF Good

(* The table has no way out of a resolved remediation.                      *)
LEMMA RemediationKeeps ==
    ASSUME NEW f \in Rows, NEW target \in RemediationStatuses,
           NEW verifier \in {"null", "set"}, NEW documented \in BOOLEAN
    PROVE  /\ Keeps(f, UpdateRemediation(f, target, verifier, documented))
           /\ \A new \in UpdateRemediation(f, target, verifier, documented) :
                 new.history = f.history
<1> SUFFICES ASSUME NEW new \in UpdateRemediation(f, target, verifier, documented)
             PROVE  /\ new \in Rows
                    /\ Good(f) => Good(new)
                    /\ f.remediation \in Resolved => new.remediation \in Resolved
                    /\ new.history = f.history
  BY DEF Keeps
<1>1. /\ target = f.remediation \/ target \in REMEDIATION_TRANSITIONS[f.remediation]
      /\ target = "remediated" => verifier = "set"
  BY DEF UpdateRemediation
<1>2. /\ new \in Rows /\ new.remediation = target /\ new.history = f.history
      /\ new.status = f.status /\ new.validation = f.validation /\ new.verified_by = verifier
      /\ target = "remediated" => new.verified_at = "set"
  BY DEF UpdateRemediation, Rows
<1>3. f.remediation \in Resolved => target = f.remediation
  BY <1>1 DEF REMEDIATION_TRANSITIONS, Resolved
<1>4. QED BY <1>1, <1>2, <1>3 DEF Good, Resolved, Rows

(* Every handler keeps a good row good and does not reopen a resolved one.  *)
LEMMA HandlersKeep ==
    ASSUME NEW f \in Rows
    PROVE  \A new : Handled(f, new) => Keeps(f, {new})
<1> SUFFICES ASSUME NEW new, Handled(f, new) PROVE Keeps(f, {new})
  OBVIOUS
<1>1. CASE \E target \in FindingTargets : new \in UpdateFindingStatus(f, target)
  BY <1>1, StatusKeeps DEF Keeps
<1>2. CASE new \in AssignFinding(f)
  BY <1>2, AssignKeeps DEF Keeps
<1>3. CASE new \in SubmitValidation(f)
  BY <1>3, SubmitKeeps DEF Keeps
<1>4. CASE \E decision \in DOMAIN ValidationDecisions : new \in DecideValidation(f, decision)
  BY <1>4, DecisionKeeps DEF Keeps
<1>5. CASE \E target \in RemediationStatuses, verifier \in {"null", "set"},
              documented \in BOOLEAN : new \in UpdateRemediation(f, target, verifier, documented)
  BY <1>5, RemediationKeeps DEF Keeps
<1>6. QED BY <1>1, <1>2, <1>3, <1>4, <1>5 DEF Handled

(* What a request knows after a step, spelled out in the next state.        *)
LEMMA KnowsNext ==
    ASSUME NEW r \in Requests,
           request'[r] # Idle /\ ~request'[r].stale =>
               Handled(finding', Applied(finding', request'[r].write))
    PROVE  Knows(r)'
BY Zenon DEF Knows, Applied, Handled

(* Receiving a request keeps the invariant.                                 *)
LEMMA ReceiveKeeps ==
    ASSUME ReviewInv, NEW r \in Requests, NEW outcomes, NEW appends \in BOOLEAN,
           Receive(r, outcomes, appends), \A new \in outcomes : Handled(finding, new),
           ~appends => \A new \in outcomes : new.history = finding.history
    PROVE  ReviewInv' /\ UNCHANGED finding
<1>1. PICK new \in outcomes :
         request' = [request EXCEPT ![r] =
            [phase |-> "loaded", write |-> Differing(finding, new, appends), stale |-> FALSE]]
  BY DEF Receive
<1> DEFINE w == Differing(finding, new, appends)
           q == [phase |-> "loaded", write |-> w, stale |-> FALSE]
<1>2. finding \in Rows /\ request \in [Requests -> {Idle} \cup InFlight] /\ UNCHANGED <<finding, raced>>
  BY DEF ReviewInv, TypeOK, Receive
<1>3. w \in Writes /\ Applied(finding, w) = new
  BY <1>2, HandlersKeep, FlushesWhatItComputed DEF Keeps
<1>4. q \in InFlight
  BY <1>3 DEF InFlight
<1>5. TypeOK'
  BY <1>1, <1>2, <1>4 DEF ReviewInv, TypeOK
<1>6. ASSUME NEW o \in Requests PROVE Knows(o)'
  <2>1. CASE o = r
    <3>1. request'[o] = q
      BY <1>1, <1>2, <2>1
    <3>2. Handled(finding, Applied(finding, request'[o].write))
      BY <1>3, <3>1
    <3>3. finding' = finding
      BY <1>2
    <3>4. QED BY <3>2, <3>3, KnowsNext
  <2>2. CASE o # r
    <3>1. request'[o] = request[o]
      BY <1>1, <1>2, <2>2
    <3>2. Knows(o)
      BY DEF ReviewInv
    <3>3. request'[o] # Idle /\ ~request'[o].stale =>
             Handled(finding, Applied(finding, request'[o].write))
      BY <3>1, <3>2 DEF Knows
    <3>4. QED BY <1>2, <3>3, KnowsNext
  <2>3. QED BY <2>1, <2>2
<1>7. QED BY <1>2, <1>5, <1>6 DEF ReviewInv

\* The row is left alone or changed by a handler, or a request was overtaken.
Atomic ==
    \/ UNCHANGED finding
    \/ Handled(finding, finding')
    \/ \E r \in Requests : Overtaken(r) /\ request'[r] = Idle

(* Every step keeps the invariant and what was resolved, and is atomic.     *)
LEMMA ReviewInvStep ==
    ASSUME ReviewInv, [Next]_vars
    PROVE  /\ ReviewInv' /\ Atomic
           /\ finding.remediation \in Resolved => finding'.remediation \in Resolved \/ raced'
<1> DEFINE Kept ==
        /\ Atomic
        /\ finding.remediation \in Resolved => finding'.remediation \in Resolved \/ raced'
<1>0. finding \in Rows /\ request \in [Requests -> {Idle} \cup InFlight] /\ raced \in BOOLEAN
  BY DEF ReviewInv, TypeOK
<1>1. ASSUME NEW r \in Requests, NEW target \in FindingTargets, ReceiveStatus(r, target)
      PROVE  ReviewInv' /\ Kept
  BY <1>0, <1>1, ReceiveKeeps DEF ReceiveStatus, Handled, Atomic
<1>2. ASSUME NEW r \in Requests, ReceiveAssign(r)
      PROVE  ReviewInv' /\ Kept
  BY <1>2, ReceiveKeeps DEF ReceiveAssign, Handled, Atomic
<1>3. ASSUME NEW r \in Requests, ReceiveSubmit(r)
      PROVE  ReviewInv' /\ Kept
  BY <1>0, <1>3, ReceiveKeeps DEF ReceiveSubmit, Handled, Atomic
<1>4. ASSUME NEW r \in Requests, NEW decision \in DOMAIN ValidationDecisions,
             ReceiveDecision(r, decision)
      PROVE  ReviewInv' /\ Kept
  BY <1>0, <1>4, ReceiveKeeps DEF ReceiveDecision, Handled, Atomic
<1>5. ASSUME NEW r \in Requests, NEW target \in RemediationStatuses,
             NEW verifier \in {"null", "set"}, NEW documented \in BOOLEAN,
             ReceiveRemediation(r, target, verifier, documented)
      PROVE  ReviewInv' /\ Kept
  <2>1. ASSUME NEW new \in UpdateRemediation(finding, target, verifier, documented)
        PROVE  Handled(finding, new)
    <3>1. \E t \in RemediationStatuses, v \in {"null", "set"}, d \in BOOLEAN :
             new \in UpdateRemediation(finding, t, v, d)
      BY <2>1
    <3>2. QED BY <3>1, ZenonT(60) DEF Handled
  <2>2. QED BY <1>0, <1>5, <2>1, RemediationKeeps, ReceiveKeeps DEF ReceiveRemediation, Atomic
<1>6. ASSUME NEW r \in Requests, Commit(r)
      PROVE  ReviewInv' /\ Kept
  <2>1. request[r] \in InFlight /\ request[r].write \in Writes /\ request[r].stale \in BOOLEAN
    BY <1>0, <1>6 DEF Commit, InFlight
  <2>2. finding' = Applied(finding, request[r].write) /\ finding' \in Rows
    BY <1>0, <1>6, <2>1, MergeTypes DEF Commit
  <2>3. raced' = (raced \/ request[r].stale) /\ Knows(r)
    BY <1>6 DEF Commit, ReviewInv
  <2>a. Handled(finding, finding') \/ (Overtaken(r) /\ request'[r] = Idle)
    <3>1. request'[r] = Idle /\ request[r] # Idle
      BY <1>0, <1>6 DEF Commit
    <3>2. QED BY <2>1, <2>2, <2>3, <3>1 DEF Knows, Overtaken
  <2>b. Atomic
    BY <2>a DEF Atomic
  <2>4. ~raced' => Good(finding') /\ (finding.remediation \in Resolved =>
                                         finding'.remediation \in Resolved)
    BY <1>0, <2>a, <2>3, HandlersKeep DEF ReviewInv, Keeps, Overtaken
  <2>5. ASSUME NEW o \in Requests
        PROVE  request'[o] \in {Idle} \cup InFlight /\ (request'[o] = Idle \/ request'[o].stale)
    <3>1. request[o] # Idle => [request[o] EXCEPT !.stale = TRUE] \in InFlight
                               /\ [request[o] EXCEPT !.stale = TRUE].stale
      BY <1>0 DEF InFlight
    <3>2. QED BY <1>6, <3>1 DEF Commit
  <2>6. request' \in [Requests -> {Idle} \cup InFlight]
    BY <1>6, <2>5 DEF Commit
  <2>7. QED BY <1>0, <2>2, <2>3, <2>1, <2>b, <2>4, <2>5, <2>6 DEF ReviewInv, TypeOK, Knows
<1>7. ASSUME NEW r \in Requests, Abort(r)
      PROVE  ReviewInv' /\ Kept
  <2>1. request' \in [Requests -> {Idle} \cup InFlight] /\ UNCHANGED <<finding, raced>>
    BY <1>0, <1>7 DEF Abort
  <2>2. ASSUME NEW o \in Requests PROVE Knows(o)'
    <3>1. request'[o] = request[o] \/ request'[o] = Idle
      BY <1>0, <1>7 DEF Abort
    <3>2. Knows(o)
      BY DEF ReviewInv
    <3>3. request'[o] # Idle /\ ~request'[o].stale =>
             Handled(finding, Applied(finding, request'[o].write))
      BY <3>1, <3>2 DEF Knows
    <3>4. QED BY <2>1, <3>3, KnowsNext
  <2>3. QED BY <2>1, <2>2 DEF ReviewInv, TypeOK, Atomic
<1>8. CASE UNCHANGED vars
  BY <1>8 DEF ReviewInv, TypeOK, Knows, Applied, Handled, vars, Atomic
<1>9. QED BY <1>1, <1>2, <1>3, <1>4, <1>5, <1>6, <1>7, <1>8 DEF Next

(* A new finding is good.                                                   *)
LEMMA ReviewInvInit == Init => ReviewInv
<1> SUFFICES ASSUME Init PROVE ReviewInv
  OBVIOUS
<1>1. 0 \in 0..HistoryLimit
  BY FindingAssumption
<1>2. NewFinding \in Rows /\ Good(NewFinding)
  BY <1>1 DEF NewFinding, Rows, Histories, Good, FindingStatuses, RemediationStatuses,
         ValidationStatuses
<1>3. QED BY <1>2 DEF Init, ReviewInv, TypeOK, Knows

(* The invariant of every reachable state.                                  *)
LEMMA ReviewInvariant == Spec => []ReviewInv
<1>1. ReviewInv /\ [Next]_vars => ReviewInv'
  BY ReviewInvStep
<1>2. QED BY ReviewInvInit, <1>1, PTL DEF Spec
-----------------------------------------------------------------------------
(* The row, the requests in flight and the history keep their types.        *)
THEOREM ReviewTypeCorrect == Spec => []TypeOK
<1>1. ReviewInv => TypeOK
  BY DEF ReviewInv
<1>2. QED BY ReviewInvariant, <1>1, PTL

(* Validation and remediation agree unless requests overlapped              *)
(* (decide_remediation_validation, update_finding_remediation).             *)
THEOREM OutcomesMatch == Spec => []OutcomeMatchesRemediation
<1>1. ReviewInv => OutcomeMatchesRemediation
  BY DEF ReviewInv, Good, OutcomeMatchesRemediation
<1>2. QED BY ReviewInvariant, <1>1, PTL

(* A remediated finding names its verifier, whichever service closed it.    *)
THEOREM RemediationsAreVerified == Spec => []RemediatedIsVerified
<1>1. ReviewInv => RemediatedIsVerified
  BY DEF ReviewInv, Good, RemediatedIsVerified
<1>2. QED BY ReviewInvariant, <1>1, PTL

(* The history's last entries are the row's status and validation outcome.  *)
THEOREM HistoryIsTrue == Spec => []HistoryTellsDecisions
<1>1. ReviewInv => HistoryTellsDecisions
  BY DEF ReviewInv, Good, HistoryTellsDecisions
<1>2. QED BY ReviewInvariant, <1>1, PTL

(* No request reopens a resolved finding unless it was overtaken.           *)
THEOREM ResolutionsAreKept == Spec => ResolutionIsKept
<1>1. ReviewInv /\ [Next]_vars =>
        [finding.remediation \in {"remediated", "accepted_risk"} =>
            finding'.remediation \in {"remediated", "accepted_risk"} \/ raced']_vars
  BY ReviewInvStep DEF Resolved
<1>2. QED BY ReviewInvariant, <1>1, PTL DEF Spec, ResolutionIsKept

(* Overlapping requests are the handlers one after another, save for those  *)
(* that were overtaken: a commit of single columns is its handler applied   *)
(* to the row as it is (findings_service.py, playbook.py, case_review.py).  *)
THEOREM FindingRequestsAreAtomic == Spec => AtomicUnlessOvertaken
<1>1. ReviewInv /\ [Next]_vars =>
        [Handled(finding, finding')
         \/ \E r \in Requests : Overtaken(r) /\ request'[r] = Idle]_finding
  BY ReviewInvStep DEF Atomic
<1>2. QED BY ReviewInvariant, <1>1, PTL DEF Spec, AtomicUnlessOvertaken

(* With requests that run one after another the finding changes by its      *)
(* handlers alone and no exception is left: the model implements them.      *)
THEOREM SerialFindingReview ==
    ASSUME \A r, s \in Requests : r = s
    PROVE  Spec => SerialSpec /\ []~raced
<1> DEFINE Inv == ReviewInv /\ ~raced /\ \A r \in Requests : ~Overtaken(r)
<1>1. Init => Inv
  BY ReviewInvInit DEF Init, Overtaken
<1>2. Inv /\ [Next]_vars => Inv' /\ [Handled(finding, finding')]_finding
  <2> SUFFICES ASSUME Inv, [Next]_vars PROVE Inv' /\ [Handled(finding, finding')]_finding
    OBVIOUS
  <2>1. ReviewInv' /\ Atomic
    BY ReviewInvStep
  <2> DEFINE Alone == ~raced' /\ \A r \in Requests : ~Overtaken(r)'
  <2>0. request \in [Requests -> {Idle} \cup InFlight]
    BY DEF ReviewInv, TypeOK
  <2>2. ASSUME NEW r \in Requests, NEW outcomes, NEW appends, Receive(r, outcomes, appends)
        PROVE  Alone
    BY <2>0, <2>2 DEF Receive, Overtaken
  <2>3. ASSUME NEW r \in Requests, Commit(r)
        PROVE  Alone
    BY <2>0, <2>3 DEF Commit, Overtaken
  <2>4. ASSUME NEW r \in Requests, Abort(r)
        PROVE  Alone
    BY <2>0, <2>4 DEF Abort, Overtaken
  <2>5. ASSUME UNCHANGED vars
        PROVE  Alone
    BY <2>5 DEF vars, Overtaken
  <2>6. Alone
    BY <2>2, <2>3, <2>4, <2>5 DEF Next, ReceiveStatus, ReceiveAssign, ReceiveSubmit,
       ReceiveDecision, ReceiveRemediation
  <2>7. Inv'
    BY <2>1, <2>6
  <2>8. UNCHANGED finding \/ Handled(finding, finding')
    BY <2>1 DEF Atomic
  <2>9. QED BY <2>7, <2>8
<1>3. Init => finding = NewFinding
  BY DEF Init
<1>4. Inv => ~raced
  OBVIOUS
<1>5. QED BY <1>1, <1>2, <1>3, <1>4, PTL DEF Spec, SerialSpec

(* The closing gate blocks whatever the other views call unresolved, for    *)
(* every finding the types allow.                                           *)
THEOREM GateIsStrictest == Spec => []ClosureIsStrictest
<1>1. TypeOK => ClosureIsStrictest
  BY DEF TypeOK, ClosureIsStrictest, ClosureBlocked, ReviewBlocked, OperationsUnresolved,
         SummaryUnresolved
<1>2. QED BY ReviewTypeCorrect, <1>1, PTL
=============================================================================
