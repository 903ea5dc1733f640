--------------------------- MODULE MCPlaybookRuns ---------------------------
(* Two runs, a required and an optional step, two requests in flight: enough*)
(* for two last steps at once and for two starts at once.                   *)
EXTENDS PlaybookRuns, TLC

SlotSymmetry == Permutations(Requests) \cup Permutations(Runs)
=============================================================================
