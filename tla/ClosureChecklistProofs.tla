----------------------- MODULE ClosureChecklistProofs -----------------------
(* Proofs about ClosureChecklist, for every set of items, severities and    *)
(* ratings set by hand.                                                     *)
EXTENDS ClosureChecklist, TLAPS

(* The rating computed from a severity the table knows is a rating.         *)
LEMMA FinalRiskRatingType ==
    ASSUME NEW severity \in Severities
    PROVE  /\ FinalRiskRating(severity) \in FinalRiskRatings
           /\ severity # "none" => FinalRiskRating(severity) # "not_assessed"
  BY SeveritiesAssumption DEF FinalRiskRating, FinalRiskRatings

(* _definition returns an item status, pending or blocked only for an item  *)
(* whose records are missing, not_applicable only for one that is not       *)
(* required.                                                                *)
LEMMA DefinedStatusType ==
    ASSUME NEW k
    PROVE  /\ DefinedStatus(k) \in ItemStatuses
           /\ Applicable(k) => DefinedStatus(k) # "not_applicable"
           /\ k = BlockingKey /\ unresolved => DefinedStatus(k) = "blocked"
<1>1. k = BlockingKey => Applicable(k)
  BY DEF Applicable, BlockingKey, EngagementKeys
<1>2. QED BY <1>1 DEF DefinedStatus, ItemStatuses, Passed

(* The refresh leaves item statuses, whatever the rows were before.         *)
LEMMA RefreshType ==
    ASSUME RefreshChecklist
    PROVE  item' \in [Keys -> ItemStatuses \cup {NoItem}]
  BY DefinedStatusType DEF RefreshChecklist, RefreshedStatus, ItemStatuses

(* A request closes the closure only through close_case_closure.            *)
LEMMA ClosingIsCloseClosure ==
    ASSUME [Next]_vars, Closing
    PROVE  \E override \in BOOLEAN : CloseClosure(override)
<1>1. CASE UNCHANGED vars
  BY <1>1 DEF vars, closureVars, Closing
<1>2. CASE ChangeRecords
  BY <1>2 DEF ChangeRecords, closureVars, Closing
<1>3. CASE GenerateChecklist
  BY <1>3 DEF GenerateChecklist, closureVars, Closing
<1>4. CASE \E k \in Keys, status \in ItemStatuses : UpdateChecklistItem(k, status)
  BY <1>4 DEF UpdateChecklistItem, closureVars, Closing
<1>5. CASE \E r \in HandRatings : UpdateCaseClosure(r)
  BY <1>5 DEF UpdateCaseClosure, Closing
<1>6. CASE SubmitClosure \/ ApproveClosure \/ ReopenClosure
  BY <1>6 DEF SubmitClosure, ApproveClosure, ReopenClosure, Closing
<1>7. QED BY <1>1, <1>2, <1>3, <1>4, <1>5, <1>6 DEF Next
-----------------------------------------------------------------------------
(* The first step of a run has the types.                                   *)
LEMMA InitTypeOK == Init => TypeOK
  BY FinalRiskRatingType DEF Init, TypeOK, NoItem

(* Every request keeps the types.                                           *)
LEMMA StepTypeOK ==
    ASSUME TypeOK, [Next]_vars
    PROVE  TypeOK'
<1> USE DEF TypeOK
<1>1. CASE UNCHANGED vars
  BY <1>1 DEF vars, recordVars, closureVars
<1>2. CASE ChangeRecords
  BY <1>2 DEF ChangeRecords, closureVars
<1>3. CASE GenerateChecklist
  BY <1>3, RefreshType DEF GenerateChecklist, recordVars, closureVars
<1>4. CASE \E k \in Keys, status \in ItemStatuses : UpdateChecklistItem(k, status)
  BY <1>4 DEF UpdateChecklistItem, recordVars, closureVars
<1>5. CASE \E r \in HandRatings : UpdateCaseClosure(r)
  BY <1>5, HandRatingsAssumption DEF UpdateCaseClosure, recordVars
<1>6. CASE SubmitClosure \/ ApproveClosure \/ ReopenClosure
  BY <1>6 DEF SubmitClosure, ApproveClosure, ReopenClosure, recordVars
<1>7. ASSUME NEW override \in BOOLEAN, CloseClosure(override)
      PROVE  TypeOK'
  BY <1>7, RefreshType, FinalRiskRatingType DEF CloseClosure, recordVars
<1>8. QED BY <1>1, <1>2, <1>3, <1>4, <1>5, <1>6, <1>7 DEF Next

(* The types hold for any set of checklist items.                           *)
THEOREM ChecklistTypeCorrect == Spec => []TypeOK
<1>1. TypeOK /\ [Next]_vars => TypeOK'
  BY StepTypeOK
<1>2. QED BY <1>1, InitTypeOK, PTL DEF Spec

(* No unwaived closing happens over an unresolved critical or high finding, *)
(* whatever marks were set by hand before.                                  *)
THEOREM NoOpenRiskIsClosed == Spec => UnwaivedClosingHasNoOpenRisk
<1>1. ASSUME [Next]_vars, Closing, ~waived', BlockingKey \in Keys
      PROVE  ~unresolved
  <2>1. CloseClosure(FALSE)
    BY <1>1, ClosingIsCloseClosure DEF CloseClosure
  <2>2. RefreshedStatus(BlockingKey) # "blocked"
    BY <1>1, <2>1 DEF CloseClosure, Blockers, Required, Applicable, BlockingKey,
       OptionalKeys, EngagementKeys
  <2>3. QED BY <2>2, DefinedStatusType DEF RefreshedStatus
<1>2. [Next]_vars => [Closing /\ ~waived' /\ BlockingKey \in Keys => ~unresolved]_vars
  BY <1>1
<1>3. QED BY <1>2, PTL DEF Spec, UnwaivedClosingHasNoOpenRisk

(* After an unwaived closing every required item of the stored checklist is *)
(* completed, for any set of items.                                         *)
THEOREM ClosedChecklistIsComplete == Spec => UnwaivedClosingIsComplete
<1>1. ASSUME [Next]_vars, Closing, ~waived', NEW k \in Keys, Required(k)
      PROVE  item'[k] = "completed"
  <2>1. CloseClosure(FALSE)
    BY <1>1, ClosingIsCloseClosure DEF CloseClosure
  <2>2. RefreshedStatus(k) \notin {"pending", "blocked"}
    BY <1>1, <2>1 DEF CloseClosure, Blockers
  <2>3. RefreshedStatus(k) = "completed"
    BY <1>1, <2>2, DefinedStatusType DEF RefreshedStatus, Required, ItemStatuses
  <2>4. QED BY <2>1, <2>3 DEF CloseClosure, RefreshChecklist
<1>2. [Next]_vars =>
        [Closing /\ ~waived' => \A k \in Keys : Required(k) => item'[k] = "completed"]_vars
  BY <1>1
<1>3. QED BY <1>2, PTL DEF Spec, UnwaivedClosingIsComplete

(* A closing of a case with findings leaves a final risk rating.            *)
THEOREM ClosedCasesAreRated == Spec => ClosingAssessesRisk
<1>1. ASSUME TypeOK, [Next]_vars, Closing, worst # "none"
      PROVE  rating' # "not_assessed"
  <2>1. PICK override \in BOOLEAN : CloseClosure(override)
    BY <1>1, ClosingIsCloseClosure
  <2>2. QED BY <1>1, <2>1, FinalRiskRatingType DEF CloseClosure, TypeOK
<1>2. TypeOK /\ [Next]_vars => [Closing /\ worst # "none" => rating' # "not_assessed"]_vars
  BY <1>1
<1>3. QED BY <1>2, ChecklistTypeCorrect, PTL DEF Spec, ClosingAssessesRisk
-----------------------------------------------------------------------------
\* An approved closure was granted: what the refinement needs.
ApprovedIsGranted == closure = "approved" => granted

(* Only the four closure requests touch the closure, and an approved one    *)
(* was granted.                                                             *)
LEMMA LifecycleStep ==
    ASSUME ApprovedIsGranted, [Next]_vars
    PROVE  ApprovedIsGranted' /\ [Lifecycle!LifecycleNext]_(Lifecycle!lifecycleVars)
<1> USE DEF ApprovedIsGranted, Lifecycle!LifecycleNext, Lifecycle!lifecycleVars
<1>1. CASE UNCHANGED closureVars
  BY <1>1 DEF closureVars
<1>2. CASE \E r \in HandRatings : UpdateCaseClosure(r)
  BY <1>2 DEF UpdateCaseClosure
<1>3. CASE SubmitClosure
  BY <1>3 DEF SubmitClosure, Lifecycle!Submit
<1>4. CASE ApproveClosure
  BY <1>4 DEF ApproveClosure, Lifecycle!Approve
<1>5. ASSUME NEW override \in BOOLEAN, CloseClosure(override)
      PROVE  ApprovedIsGranted' /\ Lifecycle!Close
  BY <1>5 DEF CloseClosure, Lifecycle!Close
<1>6. CASE ReopenClosure
  BY <1>6 DEF ReopenClosure, Lifecycle!Reopen
<1>7. UNCHANGED vars \/ ChangeRecords \/ GenerateChecklist
      \/ (\E k \in Keys, status \in ItemStatuses : UpdateChecklistItem(k, status))
      => UNCHANGED closureVars
  BY DEF vars, closureVars, ChangeRecords, GenerateChecklist, UpdateChecklistItem
<1>8. QED BY <1>1, <1>2, <1>3, <1>4, <1>5, <1>6, <1>7 DEF Next

(* The checklist and what is edited by hand do not change what closing      *)
(* promises.                                                                *)
THEOREM ChecklistImplementsLifecycle == Spec => ImplementsLifecycle
<1>1. Init => ApprovedIsGranted /\ Lifecycle!LifecycleInit
  BY DEF Init, ApprovedIsGranted, Lifecycle!LifecycleInit
<1>2. ApprovedIsGranted /\ [Next]_vars
        => ApprovedIsGranted' /\ [Lifecycle!LifecycleNext]_(Lifecycle!lifecycleVars)
  BY LifecycleStep
<1>3. QED BY <1>1, <1>2, PTL DEF Spec, ImplementsLifecycle, Lifecycle!LifecycleSpec

(* The checklist and the case workflow share one closing: what the workflow *)
(* model leaves open (whether the checklist blocks) is decided here, and    *)
(* everything else about the closure endpoints is the same, on any case.    *)
THEOREM ChecklistAgreesWithHandlers == Spec => AgreesWithHandlers
<1> DEFINE Agrees == \A c \in Handlers!Cases : c.closure = closure => HandlerStep(c)
<1>1. [Next]_vars => [Agrees]_<<closure, granted, waived>>
  <2> SUFFICES ASSUME [Next]_vars, ~UNCHANGED <<closure, granted, waived>>,
                      NEW c \in Handlers!Cases, c.closure = closure
               PROVE  HandlerStep(c)
    OBVIOUS
  <2> USE DEF Handlers!Cases, Handlers!When, HandlerStep
  <2>1. CASE SubmitClosure
    BY <2>1 DEF SubmitClosure, Handlers!SubmitCaseClosure
  <2>2. CASE ApproveClosure
    BY <2>2 DEF ApproveClosure, Handlers!ApproveCaseClosure
  <2>3. ASSUME NEW override \in BOOLEAN, CloseClosure(override)
        PROVE  HandlerStep(c)
    BY <2>3 DEF CloseClosure, Handlers!CloseCaseClosure
  <2>4. CASE ReopenClosure
    BY <2>4 DEF ReopenClosure, Handlers!ReopenCaseClosure
  <2>5. QED BY <2>1, <2>2, <2>3, <2>4
           DEF Next, vars, closureVars, ChangeRecords, GenerateChecklist,
               UpdateChecklistItem, UpdateCaseClosure
<1>2. QED BY <1>1, PTL DEF Spec, AgreesWithHandlers
=============================================================================
