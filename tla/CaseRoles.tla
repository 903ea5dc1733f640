------------------------------ MODULE CaseRoles ------------------------------
(* Roles and the permission tests every case handler begins with.           *)
(*                                                                          *)
(* A user has a platform role (admin or analyst; here: membership of the    *)
(* constant set PlatformAdmins) and, per investigation, at most one         *)
(* membership row carrying a case role.  One investigation is modelled: no  *)
(* handler of the modules that extend this one touches two.                 *)
EXTENDS Naturals, FiniteSets

CONSTANTS
    Users,            \* accounts with is_active = true
    PlatformAdmins,   \* the users whose platform role is "admin"
    NoUser            \* SQL NULL in a column that holds a user id

ASSUME UsersAssumption ==
    /\ IsFiniteSet(Users)
    /\ PlatformAdmins \subseteq Users
    /\ NoUser \notin Users

MemberRoles == {"owner", "admin", "analyst", "viewer"}

NotMember == "none"   \* there is no membership row

OWNER_ROLES == {"owner"}

CASE_ADMIN_ROLES == {"owner", "admin"}

MUTATION_ROLES == {"owner", "admin", "analyst"}

ROLE_RANK == [r \in MemberRoles |->
    CASE r = "viewer"  -> 10
      [] r = "analyst" -> 20
      [] r = "admin"   -> 30
      [] r = "owner"   -> 40]
==============================================================================
