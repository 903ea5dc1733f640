--------------------------- MODULE MCCaseRequests ---------------------------
(* CaseRequests with two requests in flight, explored until the first stale *)
(* one has committed: what is promised after it holds by the history alone. *)
EXTENDS CaseRequests, TLC

Symmetry == Permutations(Requests)

BeforeTheRace == ~raced
=============================================================================
