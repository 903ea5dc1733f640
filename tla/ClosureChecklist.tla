-------------------------- MODULE ClosureChecklist --------------------------
(* The closure checklist and what it lets a case admin close.               *)
(*                                                                          *)
(* The checklist items are rows that are refreshed from the stored records  *)
(* by two requests (generate and close) and edited by hand by a third; in   *)
(* between the records move on.  Who may send which request is CaseWorkflow's*)
(* matter; here any of them may arrive at any time, one after another.      *)
CONSTANTS
    Keys,          \* the checklist items of the instance, by key
    Severities,    \* the severities findings get, with "none" for no findings
    HandRatings    \* the ratings clients set by hand

\* Items whose definition is: completed when the records are there, else pending.
PresenceKeys == {"case_overview", "targets_recon_reviewed", "findings_reviewed",
                 "evidence_reviewed", "remediation_reviewed", "report_generated",
                 "audit_trail_available", "final_deliverables_prepared"}

OptionalKeys == {"executive_summary_available"}   \* the same, but required=False

\* Required and applicable only while an engagement is linked.
EngagementKeys == {"engagement_scope_reviewed", "authorization_reviewed"}

BlockingKey == "unresolved_high_acknowledged"     \* blocked while not passed

ASSUME KeysAssumption ==
    Keys \subseteq PresenceKeys \cup OptionalKeys \cup EngagementKeys \cup {BlockingKey}

ASSUME SeveritiesAssumption ==
    Severities \subseteq {"none", "info", "low", "medium", "high", "critical"}

ItemStatuses == {"pending", "completed", "blocked", "not_applicable"}

FinalRiskRatings == {"low", "moderate", "elevated", "high", "critical", "not_assessed"}

ASSUME HandRatingsAssumption == HandRatings \subseteq FinalRiskRatings

VARIABLES
    present,      \* keys whose records are stored (targets, reports, ...)
    engaged,      \* investigations.engagement_id is set
    worst,        \* highest severity among the findings, "none" without any
    unresolved,   \* some critical or high finding is neither resolved nor accepted
    item,         \* checklist rows: key -> status, or NoItem
    closure,      \* case_closures.status
    rating,       \* case_closures.final_risk_rating
    granted,      \* history, as in CaseWorkflow
    waived        \* history, as in CaseWorkflow

recordVars == <<present, engaged, worst, unresolved>>
closureVars == <<closure, rating, granted, waived>>
vars == <<recordVars, item, closureVars>>

NoItem == "absent"

\* _final_risk_rating
FinalRiskRating(severity) ==
    CASE severity = "critical" -> "critical"
      [] severity = "high"     -> "high"
      [] severity = "medium"   -> "elevated"
      [] severity = "low"      -> "moderate"
      [] severity = "info"     -> "low"
      [] severity = "none"     -> "not_assessed"

\* The `passed` argument of the item's definition.
Passed(k) ==
    IF k = BlockingKey THEN ~unresolved
    ELSE IF k = "findings_reviewed" THEN worst # "none"
    ELSE IF k \in EngagementKeys THEN engaged /\ k \in present
    ELSE k \in present

Applicable(k) == k \in EngagementKeys => engaged

Required(k) == k \notin OptionalKeys /\ Applicable(k)

\* _definition: the status the records alone give the item.
DefinedStatus(k) ==
    CASE ~Applicable(k) -> "not_applicable"
      [] Applicable(k) /\ Passed(k) -> "completed"
      [] Applicable(k) /\ ~Passed(k) -> IF k = BlockingKey THEN "blocked" ELSE "pending"

\* Mutant: a completed row keeps its status whatever the records say.
RefreshedStatusSticky(k) ==
    IF item[k] = "completed" THEN "completed" ELSE DefinedStatus(k)

\* A completed row keeps its status unless the records now block it.
RefreshedStatus(k) ==
    IF item[k] = "completed" /\ DefinedStatus(k) # "blocked"
    THEN "completed" ELSE DefinedStatus(k)

\* _refresh_checklist
RefreshChecklist == item' = [k \in Keys |-> RefreshedStatus(k)]

\* Mutant: pending items do not block.
BlockedItems == {k \in Keys : Required(k) /\ RefreshedStatus(k) = "blocked"}

\* _closure_warnings, on the rows as refreshed.  Only `blockers` matters: the
\* warnings stop nothing.
Blockers == {k \in Keys : Required(k) /\ RefreshedStatus(k) \in {"pending", "blocked"}}

\* The request that creates the closure row (_get_or_create_closure): any case
\* may have got there, and the rating starts from its findings.
Init ==
    /\ present \in SUBSET Keys
    /\ engaged \in BOOLEAN
    /\ worst \in Severities
    /\ unresolved \in BOOLEAN
    /\ unresolved => worst \in {"high", "critical"}
    /\ item = [k \in Keys |-> NoItem]
    /\ closure = "draft"
    /\ rating = FinalRiskRating(worst)
    /\ granted = FALSE
    /\ waived = FALSE

\* Analysts' other requests: records appear and disappear, an engagement is
\* linked or unlinked, findings are found, resolved or accepted.
ChangeRecords ==
    /\ \/ \E k \in Keys : present' \in {present \cup {k}, present \ {k}}
          /\ UNCHANGED <<engaged, worst, unresolved>>
       \/ engaged' = ~engaged /\ UNCHANGED <<present, worst, unresolved>>
       \/ /\ worst' \in Severities
          /\ unresolved' \in BOOLEAN
          /\ unresolved' => worst' \in {"high", "critical"}
          /\ UNCHANGED <<present, engaged>>
    /\ UNCHANGED <<item, closureVars>>

GenerateChecklist ==
    /\ RefreshChecklist
    /\ UNCHANGED <<recordVars, closureVars>>

UpdateChecklistItem(k, status) ==
    /\ item[k] # NoItem
    /\ item' = [item EXCEPT ![k] = status]
    /\ UNCHANGED <<recordVars, closureVars>>

\* update_case_closure: the rating by hand.
UpdateCaseClosure(r) ==
    /\ rating' = r
    /\ UNCHANGED <<recordVars, item, closure, granted, waived>>

SubmitClosure ==
    /\ closure \in {"draft", "reopened"}
    /\ closure' = "in_review"
    /\ granted' = FALSE
    /\ UNCHANGED <<recordVars, item, rating, waived>>

ApproveClosure ==
    /\ closure = "in_review"
    /\ closure' = "approved"
    /\ granted' = TRUE
    /\ UNCHANGED <<recordVars, item, rating, waived>>

\* Mutant: the rating is left to the analysts.
CloseClosureUnrated(override) ==
    /\ override \/ (closure = "approved" /\ Blockers = {})
    /\ RefreshChecklist
    /\ closure' = "closed"
    /\ waived' = override
    /\ UNCHANGED <<recordVars, rating, granted>>

\* close_case_closure.  The refresh is part of the request: when the closing
\* is refused it is rolled back with it.
CloseClosure(override) ==
    /\ override \/ (closure = "approved" /\ Blockers = {})
    /\ RefreshChecklist
    /\ closure' = "closed"
    /\ rating' = IF rating = "not_assessed" THEN FinalRiskRating(worst) ELSE rating
    /\ waived' = override
    /\ UNCHANGED <<recordVars, granted>>

ReopenClosure ==
    /\ closure = "closed"
    /\ closure' = "reopened"
    /\ UNCHANGED <<recordVars, item, rating, granted, waived>>

Next ==
    \/ ChangeRecords
    \/ GenerateChecklist
    \/ \E k \in Keys, status \in ItemStatuses : UpdateChecklistItem(k, status)
    \/ \E r \in HandRatings : UpdateCaseClosure(r)
    \/ SubmitClosure
    \/ ApproveClosure
    \/ \E override \in BOOLEAN : CloseClosure(override)
    \/ ReopenClosure

Spec == Init /\ [][Next]_vars
-----------------------------------------------------------------------------
TypeOK ==
    /\ present \subseteq Keys
    /\ engaged \in BOOLEAN
    /\ worst \in Severities
    /\ unresolved \in BOOLEAN
    /\ item \in [Keys -> ItemStatuses \cup {NoItem}]
    /\ closure \in {"draft", "in_review", "approved", "closed", "reopened"}
    /\ rating \in FinalRiskRatings
    /\ granted \in BOOLEAN
    /\ waived \in BOOLEAN

Closing == closure # "closed" /\ closure' = "closed"

(* An unwaived closing happens only when no critical or high finding is     *)
(* unresolved, whoever marked the acknowledgement item completed by hand    *)
(* and whenever: the refresh takes the mark back ("or definition.status ==  *)
(* "blocked"" in _refresh_checklist).                                       *)
UnwaivedClosingHasNoOpenRisk ==
    [][Closing /\ ~waived' /\ BlockingKey \in Keys => ~unresolved]_vars

(* After an unwaived closing every required item of the stored checklist is *)
(* completed; marking one not applicable by hand does not get it past the   *)
(* refresh.                                                                 *)
UnwaivedClosingIsComplete ==
    [][Closing /\ ~waived' => \A k \in Keys : Required(k) => item'[k] = "completed"]_vars

(* A closing leaves no final risk rating unassessed while the case has      *)
(* findings, also when an analyst set the rating back by hand in between.   *)
ClosingAssessesRisk ==
    [][Closing /\ worst # "none" => rating' # "not_assessed"]_vars

Lifecycle == INSTANCE ClosureLifecycle

(* The checklist does not change what closing promises.                     *)
ImplementsLifecycle == Lifecycle!LifecycleSpec

Handlers == INSTANCE CaseHandlers

\* The endpoints of CaseHandlers on a case whose closure is this one, closing
\* with what the checklist here finds blocking.
HandlerStep(c) ==
    \/ \E new \in Handlers!SubmitCaseClosure(c) :
          closure' = new.closure /\ ~granted' /\ waived' = waived
    \/ \E new \in Handlers!ApproveCaseClosure(c) :
          closure' = new.closure /\ granted' /\ waived' = waived
    \/ \E override \in BOOLEAN :
          \E new \in Handlers!CloseCaseClosure(c, Blockers # {}, override) :
             closure' = new.closure /\ granted' = granted /\ waived' = override
    \/ \E new \in Handlers!ReopenCaseClosure(c) :
          closure' = new.closure /\ UNCHANGED <<granted, waived>>

(* Whatever status, stage and review the case has, the closure moves as the *)
(* handlers of CaseHandlers move it when `blocked`, a free choice there, is *)
(* that a required item is pending or blocked after the refresh: the two    *)
(* models of close_case_closure are one, and neither lets a closing through *)
(* that the other refuses.                                                  *)
AgreesWithHandlers ==
    [][\A c \in Handlers!Cases : c.closure = closure => HandlerStep(c)
      ]_<<closure, granted, waived>>
=============================================================================
