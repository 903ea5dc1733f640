-------------------------- MODULE ClosureLifecycle --------------------------
(* What closing a case promises, apart from how case_closure.py keeps it:   *)
(* the closure is submitted, approved, closed and reopened in turns; a      *)
(* closing needs an approval given since the last submission or a waiver    *)
(* on record, and only a closed closure can be reopened.                    *)
VARIABLES
    closure,      \* case_closures.status
    granted,      \* approved since it was last submitted
    waived        \* the latest closing carried an override reason

lifecycleVars == <<closure, granted, waived>>

LifecycleInit ==
    /\ closure = "draft"
    /\ granted = FALSE
    /\ waived = FALSE

Submit ==
    /\ closure \in {"draft", "reopened"}
    /\ closure' = "in_review"
    /\ granted' = FALSE
    /\ UNCHANGED waived

Approve ==
    /\ closure = "in_review"
    /\ closure' = "approved"
    /\ granted' = TRUE
    /\ UNCHANGED waived

\* A closing may repeat on a closed closure, but then only with a waiver.
Close ==
    \E waiver \in BOOLEAN :
        /\ (closure = "approved" /\ granted) \/ waiver
        /\ closure' = "closed"
        /\ waived' = waiver
        /\ UNCHANGED granted

Reopen ==
    /\ closure = "closed"
    /\ closure' = "reopened"
    /\ UNCHANGED <<granted, waived>>

LifecycleNext == Submit \/ Approve \/ Close \/ Reopen

LifecycleSpec == LifecycleInit /\ [][LifecycleNext]_lifecycleVars
=============================================================================
