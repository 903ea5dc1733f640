--------------------------- MODULE MCCaseWorkflow ---------------------------
(* One case and two ordinary users, one of whom creates it.  The users are  *)
(* interchangeable: nothing names one of them.                              *)
EXTENDS CaseWorkflow, TLC

UserSymmetry == Permutations(Users)
==============================================================================
