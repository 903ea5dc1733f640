------------------------------ MODULE MCReports ------------------------------
(* Two users; three requests in flight before the report is submitted for   *)
(* the first time (archivings, restores and retries), two from then on.     *)
EXTENDS Reports, Naturals, TLC

InFlightBound ==
    \/ Cardinality({r \in Requests : request[r] # Idle}) <= 2
    \/ /\ report.approval = "draft"
       /\ late = {}
       /\ \A r \in Requests : request[r].phase \in {"idle", "loaded"}

Symmetry == Permutations(Requests) \cup Permutations(Users)
=============================================================================
