------------------------- MODULE MCClosureChecklist -------------------------
(* One required item of each kind of definition: presence of records, tied  *)
(* to an engagement, and blocking.  Three severities reach the three kinds  *)
(* of rating: unassessed, harmless and blocking.                            *)
EXTENDS ClosureChecklist
=============================================================================
