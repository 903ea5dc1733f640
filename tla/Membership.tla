----------------------------- MODULE Membership -----------------------------
(* Who belongs to a case, who owns it and who reviews it.                   *)
(*                                                                          *)
(* Four services write these rows: investigation.py (members endpoints),    *)
(* collaboration.py (ownership and handoff), operations.py (bulk actions)   *)
(* and investigation.py again (reviewer on PUT).  Each action below is one  *)
(* request that commits; a request that raises rolls its session back       *)
(* (db/session.py) and changes nothing, so a failed guard is no step.       *)
EXTENDS CaseRoles

CONSTANTS
    AddRoles,         \* roles clients ask for when adding a member
    TransferRoles     \* roles clients send together with transfer_ownership

NoRole == "null"      \* MemberUpdateRequest.role omitted

ASSUME AddRolesAssumption ==
    AddRoles \subseteq {"owner", "admin", "collaborator", "viewer"}

ASSUME TransferRolesAssumption ==
    TransferRoles \subseteq MemberRoles \cup {NoRole}

VARIABLES
    role,             \* investigation_members: user -> role, or NotMember
    ownerId,          \* investigations.owner_id
    reviewerId        \* investigations.reviewer_id

memberVars == <<role, ownerId, reviewerId>>

IsMember(u) == role[u] # NotMember

Owners == {u \in Users : role[u] = "owner"}

\* get_investigation: 404 unless the caller is a platform admin or a member.
CanSee(u) == u \in PlatformAdmins \/ IsMember(u)

\* ensure_investigation_permission, without its closed-case clause: that one
\* concerns members below case admin and is added by CaseWorkflow.
HasRole(u, allowed) == u \in PlatformAdmins \/ role[u] \in allowed

MembershipInit ==
    \E creator \in Users :
        /\ role = [u \in Users |-> IF u = creator THEN "owner" ELSE NotMember]
        /\ ownerId = creator
        /\ reviewerId = NoUser

PersistedRole(r) == IF r = "collaborator" THEN "analyst" ELSE r

AddMember(u, target, r) ==
    /\ HasRole(u, OWNER_ROLES)
    /\ target = u => PersistedRole(r) = "viewer"
    /\ ~IsMember(target)
    /\ role' = [role EXCEPT ![target] = PersistedRole(r)]
    /\ UNCHANGED <<ownerId, reviewerId>>

\* Mutant: counts the owner about to go as one that remains.
NotLastOwnerOffByOne == Cardinality(Owners) >= 1

\* _ensure_not_last_owner
NotLastOwner == Cardinality(Owners) > 1

\* Naming a member owner, or asking for a transfer, moves owner_id and demotes
\* every other owner; asking for a transfer does not by itself raise the
\* target's own role.
UpdateMemberRole(u, target, r, transfer) ==
    LET new    == IF r = NoRole THEN role[target] ELSE r
        moving == (transfer \/ new = "owner") /\ ownerId # target
    IN  /\ HasRole(u, OWNER_ROLES)
        /\ IsMember(target)
        /\ target = u => ROLE_RANK[new] <= ROLE_RANK[role[target]]
        /\ role[target] = "owner" /\ new # "owner" => NotLastOwner
        /\ role' = [v \in Users |->
                      IF v = target THEN new
                      ELSE IF moving /\ role[v] = "owner" THEN "analyst"
                      ELSE role[v]]
        /\ ownerId' = IF moving THEN target ELSE ownerId
        /\ UNCHANGED reviewerId

RemoveMember(u, target) ==
    /\ HasRole(u, OWNER_ROLES)
    /\ IsMember(target)
    /\ role[target] = "owner" => NotLastOwner
    /\ role' = [role EXCEPT ![target] = NotMember]
    /\ UNCHANGED <<ownerId, reviewerId>>

\* PATCH .../ownership.  new = NoUser leaves the owner alone.  The response is
\* built before the commit and fails when owner_id is not a member, so such a
\* request is rolled back.
UpdateOwnership(u, new, assigned, watchers) ==
    LET owner == IF new = NoUser THEN ownerId ELSE new
    IN  /\ HasRole(u, CASE_ADMIN_ROLES)
        /\ assigned \cap watchers = {}
        /\ \A v \in assigned \cup watchers \cup {owner} : IsMember(v)
        /\ role' = [v \in Users |->
                      IF v = owner /\ owner # ownerId THEN "owner"
                      ELSE IF v # owner /\ v \in assigned THEN "analyst"
                      ELSE IF v # owner /\ v \in watchers THEN "viewer"
                      ELSE IF owner # ownerId /\ role[v] = "owner" THEN "analyst"
                      ELSE role[v]]
        /\ ownerId' = owner
        /\ UNCHANGED reviewerId

\* Mutant: the handoff leaves the outgoing owner's role as it is.
CreateHandoffKeepsOwner(u, new) ==
    /\ HasRole(u, CASE_ADMIN_ROLES)
    /\ new # ownerId
    /\ IsMember(new)
    /\ IsMember(ownerId)
    /\ role' = [role EXCEPT ![new] = "owner"]
    /\ ownerId' = new
    /\ UNCHANGED reviewerId

\* POST .../handoff: the previous owner_id must still be a member.
CreateHandoff(u, new) ==
    /\ HasRole(u, CASE_ADMIN_ROLES)
    /\ new # ownerId
    /\ IsMember(new)
    /\ IsMember(ownerId)
    /\ role' = [v \in Users |->
                  IF v = new THEN "owner"
                  ELSE IF v = ownerId \/ role[v] = "owner" THEN "analyst"
                  ELSE role[v]]
    /\ ownerId' = new
    /\ UNCHANGED reviewerId

\* Mutant: the previous owner keeps the owner role.
BulkAssignOwnerKeepsOwner(u, new) ==
    /\ HasRole(u, OWNER_ROLES)
    /\ IsMember(new)
    /\ new # ownerId
    /\ role' = [role EXCEPT ![new] = "owner"]
    /\ ownerId' = new
    /\ UNCHANGED reviewerId

\* Mutant: the roles are swapped, owner_id is not moved.
BulkAssignOwnerRolesOnly(u, new) ==
    /\ HasRole(u, OWNER_ROLES)
    /\ IsMember(new)
    /\ new # ownerId
    /\ role' = [v \in Users |->
                  IF v = new THEN "owner"
                  ELSE IF v = ownerId /\ IsMember(v) THEN "admin"
                  ELSE role[v]]
    /\ UNCHANGED <<ownerId, reviewerId>>

\* Bulk action assign_owner (_transfer_owner): only the member owner_id names
\* is demoted, to case admin; naming the current owner_id changes nothing.
BulkAssignOwner(u, new) ==
    /\ HasRole(u, OWNER_ROLES)
    /\ IsMember(new)
    /\ new # ownerId
    /\ role' = [v \in Users |->
                  IF v = new THEN "owner"
                  ELSE IF v = ownerId /\ IsMember(v) THEN "admin"
                  ELSE role[v]]
    /\ ownerId' = new
    /\ UNCHANGED reviewerId

\* reviewer_id by PUT (r = NoUser clears it) or by the bulk action
\* assign_reviewer; both need a case admin and a member.
AssignReviewer(u, r) ==
    /\ HasRole(u, CASE_ADMIN_ROLES)
    /\ r # NoUser => IsMember(r)
    /\ reviewerId' = r
    /\ UNCHANGED <<role, ownerId>>

OwnershipStep(u) ==
    \/ \E new \in Users \cup {NoUser} : \E assigned, watchers \in SUBSET Users :
           UpdateOwnership(u, new, assigned, watchers)
    \/ \E new \in Users : CreateHandoff(u, new)
    \/ \E new \in Users : BulkAssignOwner(u, new)

RosterStep(u) ==
    \/ \E target \in Users, r \in AddRoles : AddMember(u, target, r)
    \/ \E target \in Users, r \in MemberRoles : UpdateMemberRole(u, target, r, FALSE)
    \/ \E target \in Users, r \in TransferRoles : UpdateMemberRole(u, target, r, TRUE)
    \/ \E target \in Users : RemoveMember(u, target)

MembershipNext ==
    \E u \in Users :
        \/ RosterStep(u)
        \/ OwnershipStep(u)
        \/ \E r \in Users \cup {NoUser} : AssignReviewer(u, r)

MembershipSpec == MembershipInit /\ [][MembershipNext]_memberVars
-----------------------------------------------------------------------------
MembershipTypeOK ==
    /\ role \in [Users -> MemberRoles \cup {NotMember}]
    /\ ownerId \in Users
    /\ reviewerId \in Users \cup {NoUser}

(* Exactly the user owner_id names holds the owner role.                    *)
SingleOwner == Owners = {ownerId}

(* Every transfer demotes the outgoing owner: whoever owner_id stops naming *)
(* no longer has the owner role after the request, on all four paths that   *)
(* move owner_id.                                                           *)
OutgoingOwnerDemoted ==
    [][ownerId' # ownerId => ownerId \notin Owners']_memberVars

(* A case with its single owner loses that in two ways only: a second       *)
(* member becomes owner while the first stays, or a transfer to a member    *)
(* who is not made owner leaves no owner row.  No request leaves the owner  *)
(* role with someone else than the one it was transferred to.               *)
SingleOwnerLostOneOfTwoWays ==
    [][SingleOwner /\ ~SingleOwner' =>
          \/ ownerId' = ownerId /\ ownerId \in Owners'
          \/ ownerId' # ownerId /\ Owners' = {}]_memberVars

(* While owner_id names a member with the owner role, no request that keeps *)
(* owner_id takes the last owner row: _ensure_not_last_owner guards removal *)
(* and demotion, and the ownership endpoint skips the owner.                *)
LastOwnerKept ==
    [][Owners' = {} /\ ownerId \in Owners => ownerId' # ownerId]_memberVars

(* "Cannot remove or demote the last owner" (investigation.py:1319): a case *)
(* keeps an owner.  It does not: transfer_ownership with a role other than  *)
(* owner demotes every owner and raises nobody.                             *)
NeverOwnerless == Owners # {}
=============================================================================
