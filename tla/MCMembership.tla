---------------------------- MODULE MCMembership ----------------------------
(* One case, three accounts, one of them a platform admin: a case can have  *)
(* an owner, a former owner and a bystander at once.                        *)
EXTENDS Membership, TLC

UserSymmetry == Permutations(Users \ PlatformAdmins)
=============================================================================
