----------------------------- MODULE MCUserAdmin -----------------------------
(* Three identities: an administrator, a second one to demote or disable,   *)
(* and one that registers.  They are interchangeable.                       *)
EXTENDS UserAdmin, TLC

AccountSymmetry == Permutations(Accounts)
==============================================================================
