--------------------------- MODULE MCFindingReview ---------------------------
(* Two requests in flight, one status of each kind the views tell apart,    *)
(* and a history cut early.                                                 *)
EXTENDS FindingReview, TLC

SlotSymmetry == Permutations(Requests)

\* The first stale commit is checked and not explored further: the properties
\* promise nothing of what follows, but ClosureIsStrictest, which is local.
BeforeTheRace == ~raced
=============================================================================
