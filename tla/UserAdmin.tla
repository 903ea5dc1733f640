------------------------------ MODULE UserAdmin ------------------------------
(* Platform accounts and the requests that administer them.                 *)
(*                                                                          *)
(* A request loads the account, counts the other administrators and         *)
(* commits, in a session of its own at READ COMMITTED and without locking   *)
(* what it read (db/session.py).  The ORM writes the columns that differ    *)
(* from what was loaded, so requests that overlap can each undo what the    *)
(* other one checked.  Requests holds one slot per request in flight: with  *)
(* a single slot the requests run one after another.                        *)
CONSTANTS
    Accounts,           \* identities that may get an account
    Requests,           \* slots for requests in flight
    RequiresApproval    \* settings.REGISTRATION_REQUIRES_APPROVAL

ASSUME RequiresApprovalAssumption == RequiresApproval \in BOOLEAN

PlatformRoles == {"admin", "analyst"}

AccountStatuses == {"active", "pending", "disabled", "rejected"}

NoRow == [role |-> "none", is_active |-> FALSE, account_status |-> "absent"]

Rows == [role: PlatformRoles, is_active: BOOLEAN, account_status: AccountStatuses]

\* What a request asks of its target; "unset" is a field the client leaves out.
Changes ==
    [op: {"update_user"}, role: PlatformRoles \cup {"unset"},
     is_active: {"true", "false", "unset"}]
    \cup [op: {"deactivate_user"}]
    \cup [op: {"set_user_status"}, status: AccountStatuses]
    \cup [op: {"set_user_role"}, role: PlatformRoles]

VARIABLES
    user,       \* users: account -> row, or NoRow
    request     \* slot -> the request in flight there, or Idle

vars == <<user, request>>

Idle == [phase |-> "idle"]

InFlight(phase) ==
    [phase: {phase}, target: Accounts, change: Changes, loaded: Rows]

-----------------------------------------------------------------------------
(* The four handlers, as functions of the row they loaded. *)

\* Mutant: PUT sets is_active and forgets account_status.
UpdateUserUnsynced(row, role, active) ==
    [row EXCEPT !.role = IF role = "unset" THEN @ ELSE role,
                !.is_active = IF active = "unset" THEN @ ELSE active = "true"]

UpdateUser(row, role, active) ==
    [row EXCEPT !.role = IF role = "unset" THEN @ ELSE role,
                !.is_active = IF active = "unset" THEN @ ELSE active = "true",
                !.account_status = CASE active = "unset" -> @
                                     [] active = "true"  -> "active"
                                     [] active = "false" -> "disabled"]

DeactivateUser(row) ==
    [row EXCEPT !.is_active = FALSE, !.account_status = "disabled"]

SetUserStatus(row, status) ==
    IF row.account_status = status THEN row
    ELSE [row EXCEPT !.is_active = (status = "active"), !.account_status = status]

SetUserRole(row, role) == [row EXCEPT !.role = role]

\* The row a handler leaves in its session.
Changed(change, row) ==
    CASE change.op = "update_user"     -> UpdateUser(row, change.role, change.is_active)
      [] change.op = "deactivate_user" -> DeactivateUser(row)
      [] change.op = "set_user_status" -> SetUserStatus(row, change.status)
      [] change.op = "set_user_role"   -> SetUserRole(row, change.role)

\* Mutant: PUT guards the demotion of an admin but not the switching off.
NeedsAnotherAdminIfDemoted(change, row) ==
    /\ row.role = "admin"
    /\ CASE change.op = "update_user" -> Changed(change, row).role # "admin"
         [] change.op = "deactivate_user" -> TRUE
         [] change.op = "set_user_status" ->
              row.account_status # change.status /\ change.status # "active"
         [] change.op = "set_user_role" -> change.role # "admin"

\* When the handler calls _ensure_another_active_admin: always for an account
\* it loaded as an admin that it would demote or leave inactive.
NeedsAnotherAdmin(change, row) ==
    /\ row.role = "admin"
    /\ CASE change.op = "update_user" ->
              \/ Changed(change, row).role # "admin"
              \/ ~Changed(change, row).is_active
         [] change.op = "deactivate_user" -> TRUE
         [] change.op = "set_user_status" ->
              row.account_status # change.status /\ change.status # "active"
         [] change.op = "set_user_role" -> change.role # "admin"

IsActiveAdmin(row) ==
    row.role = "admin" /\ row.is_active /\ row.account_status = "active"

\* _ensure_another_active_admin
AnotherActiveAdmin(target) ==
    \E a \in Accounts \ {target} : IsActiveAdmin(user[a])

\* The UPDATE at flush sets the columns that changed since the row was loaded.
Written(now, loaded, new) ==
    [c \in DOMAIN now |-> IF new[c] = loaded[c] THEN now[c] ELSE new[c]]

-----------------------------------------------------------------------------
\* A new account.  A second insert of the same identity fails on the unique
\* index, so it is one step whatever it overlaps with.
Insert(a, row) ==
    /\ user[a] = NoRow
    /\ user' = [user EXCEPT ![a] = row]

Registered == [role |-> "analyst", is_active |-> ~RequiresApproval,
               account_status |-> IF RequiresApproval THEN "pending" ELSE "active"]

Created(role) == [role |-> role, is_active |-> TRUE, account_status |-> "active"]

UserInit ==
    \E first \in Accounts :
        user = [a \in Accounts |-> IF a = first THEN Created("admin") ELSE NoRow]

Init == UserInit /\ request = [r \in Requests |-> Idle]

\* get_current_user and require_role("admin") admit the request, then the
\* handler loads its target.  Nobody deactivates their own account.
Receive(r, actor, target, change) ==
    /\ request[r] = Idle
    /\ IsActiveAdmin(user[actor])
    /\ user[target] # NoRow
    /\ change.op = "deactivate_user" => target # actor
    /\ request' = [request EXCEPT ![r] = [phase  |-> "loaded", target |-> target,
                                          change |-> change, loaded |-> user[target]]]
    /\ UNCHANGED user

Check(r) ==
    /\ request[r].phase = "loaded"
    /\ request' = [request EXCEPT ![r] =
           IF NeedsAnotherAdmin(@.change, @.loaded) /\ ~AnotherActiveAdmin(@.target)
           THEN Idle
           ELSE [@ EXCEPT !.phase = "checked"]]
    /\ UNCHANGED user

Commit(r) ==
    /\ request[r].phase = "checked"
    /\ LET q == request[r]
       IN  user' = [user EXCEPT ![q.target] =
                      Written(@, q.loaded, Changed(q.change, q.loaded))]
    /\ request' = [request EXCEPT ![r] = Idle]

Register(a) == Insert(a, Registered) /\ UNCHANGED request

CreateUser(actor, a, role) ==
    /\ IsActiveAdmin(user[actor])
    /\ Insert(a, Created(role))
    /\ UNCHANGED request

Next ==
    \/ \E r \in Requests, actor, target \in Accounts, change \in Changes :
           Receive(r, actor, target, change)
    \/ \E r \in Requests : Check(r)
    \/ \E r \in Requests : Commit(r)
    \/ \E a \in Accounts : Register(a)
    \/ \E actor, a \in Accounts, role \in PlatformRoles : CreateUser(actor, a, role)

Spec == Init /\ [][Next]_vars

\* A request from log-in check to commit, with nothing in between.
HandlerStep ==
    \/ \E actor, target \in Accounts, change \in Changes :
          /\ IsActiveAdmin(user[actor])
          /\ user[target] # NoRow
          /\ change.op = "deactivate_user" => target # actor
          /\ NeedsAnotherAdmin(change, user[target]) => AnotherActiveAdmin(target)
          /\ user' = [user EXCEPT ![target] = Changed(change, @)]
    \/ \E a \in Accounts : Insert(a, Registered)
    \/ \E actor, a \in Accounts, role \in PlatformRoles :
          IsActiveAdmin(user[actor]) /\ Insert(a, Created(role))

\* The requests one after another.
SerialSpec == UserInit /\ [][HandlerStep]_user
-----------------------------------------------------------------------------
TypeOK ==
    /\ user \in [Accounts -> Rows \cup {NoRow}]
    /\ request \in [Requests -> {Idle} \cup InFlight("loaded") \cup InFlight("checked")]

(* "The backend prevents disabling or demoting the last active              *)
(* administrator" (DEPLOYMENT_PREFLIGHT.md:83): whatever mix of the four    *)
(* handlers runs on whichever accounts, an active administrator remains.    *)
SomeActiveAdmin == \E a \in Accounts : IsActiveAdmin(user[a])

(* is_active and account_status tell the same: get_current_user and login   *)
(* read both columns, refresh_tokens only the first.                        *)
ColumnsAgree ==
    \A a \in Accounts : user[a].is_active <=> user[a].account_status = "active"
=============================================================================
