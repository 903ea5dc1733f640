----------------------------- MODULE MCSessions -----------------------------
(* Two accounts, one of them with sessions.                                 *)
EXTENDS Sessions, TLC

Symmetry == Permutations(Tokens) \cup Permutations(Refreshes)

\* Two refreshes overlap with each other, one with an administrator's request:
\* the three-fold overlap is not explored further.
OverlapInPairs ==
    \/ \A r \in Requests : request[r] = Idle
    \/ \E r \in Refreshes : refresh[r] = Idle
=============================================================================
