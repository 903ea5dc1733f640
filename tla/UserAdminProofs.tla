--------------------------- MODULE UserAdminProofs ---------------------------
(* Proofs about UserAdmin and Sessions, for every set of accounts, tokens   *)
(* and requests in flight.                                                  *)
EXTENDS Sessions, TLAPS

\* Requests on accounts that run one after another.
OneAtATime == \A r, s \in Requests : r = s

(* The handlers compute rows.                                               *)
LEMMA ChangedType ==
    ASSUME NEW change \in Changes, NEW row \in Rows
    PROVE  Changed(change, row) \in Rows
<1>1. CASE change.op = "update_user"
  <2>1. /\ change.role \in PlatformRoles \cup {"unset"}
        /\ change.is_active \in {"true", "false", "unset"}
    BY <1>1 DEF Changes
  <2>2. UpdateUser(row, change.role, change.is_active) \in Rows
    BY <2>1 DEF UpdateUser, Rows, AccountStatuses
  <2>3. QED BY <1>1, <2>2 DEF Changed
<1>2. CASE change.op = "deactivate_user"
  BY <1>2 DEF Changed, DeactivateUser, Rows, AccountStatuses
<1>3. CASE change.op = "set_user_status"
  <2>1. change.status \in AccountStatuses
    BY <1>3 DEF Changes
  <2>2. QED BY <1>3, <2>1 DEF Changed, SetUserStatus, Rows
<1>4. CASE change.op = "set_user_role"
  <2>1. change.role \in PlatformRoles
    BY <1>4 DEF Changes
  <2>2. QED BY <1>4, <2>1 DEF Changed, SetUserRole, Rows
<1>5. QED BY <1>1, <1>2, <1>3, <1>4 DEF Changes

(* The UPDATE mixes columns of two rows into a row.                         *)
LEMMA WrittenType ==
    ASSUME NEW now \in Rows, NEW loaded \in Rows, NEW new \in Rows
    PROVE  Written(now, loaded, new) \in Rows
  BY DEF Written, Rows

(* A request that wrote what it loaded last writes the row it computed.     *)
LEMMA WrittenUncontended ==
    ASSUME NEW row \in Rows, NEW new \in Rows
    PROVE  Written(row, row, new) = new
  BY DEF Written, Rows

(* A missing account is no row and no administrator.                        *)
LEMMA NoRowIsNoRow == NoRow \notin Rows /\ ~IsActiveAdmin(NoRow)
  BY DEF NoRow, Rows, PlatformRoles, IsActiveAdmin

(* The guard is asked whenever an active admin would stop being one.        *)
LEMMA GuardCoversLoss ==
    ASSUME NEW change \in Changes, NEW row \in Rows,
           IsActiveAdmin(row), ~IsActiveAdmin(Changed(change, row))
    PROVE  NeedsAnotherAdmin(change, row)
<1> USE DEF IsActiveAdmin, NeedsAnotherAdmin, Changed
<1>1. CASE change.op = "update_user"
  BY <1>1 DEF UpdateUser, Rows, Changes
<1>2. CASE change.op = "deactivate_user"
  BY <1>2 DEF DeactivateUser, Rows
<1>3. CASE change.op = "set_user_status"
  BY <1>3 DEF SetUserStatus, Rows
<1>4. CASE change.op = "set_user_role"
  BY <1>4 DEF SetUserRole, Rows
<1>5. QED BY <1>1, <1>2, <1>3, <1>4 DEF Changes

(* The handlers keep is_active and account_status in step.                  *)
LEMMA ChangedAgrees ==
    ASSUME NEW change \in Changes, NEW row \in Rows,
           row.is_active <=> row.account_status = "active"
    PROVE  Changed(change, row).is_active
              <=> Changed(change, row).account_status = "active"
<1> USE DEF Changed
<1>1. CASE change.op = "update_user"
  BY <1>1 DEF UpdateUser, Rows, Changes
<1>2. CASE change.op = "deactivate_user"
  BY <1>2 DEF DeactivateUser, Rows
<1>3. CASE change.op = "set_user_status"
  BY <1>3 DEF SetUserStatus, Rows
<1>4. CASE change.op = "set_user_role"
  BY <1>4 DEF SetUserRole, Rows
<1>5. QED BY <1>1, <1>2, <1>3, <1>4 DEF Changes
-----------------------------------------------------------------------------
(* Type correctness holds however the requests overlap. *)

(* The first administrator alone is a well-typed table.                     *)
LEMMA InitTypeOK == Init => TypeOK
  BY DEF Init, UserInit, Created, TypeOK, Rows, PlatformRoles, AccountStatuses

(* Registration and creation insert a row whose two status columns agree.   *)
LEMMA InsertType ==
    ASSUME TypeOK, NEW a \in Accounts,
           Register(a) \/ \E actor \in Accounts, role \in PlatformRoles :
                             CreateUser(actor, a, role)
    PROVE  /\ user[a] = NoRow
           /\ \E row \in Rows :
                 /\ row.is_active <=> row.account_status = "active"
                 /\ user' = [user EXCEPT ![a] = row]
           /\ UNCHANGED request
<1>1. CASE Register(a)
  <2>1. /\ Registered \in Rows
        /\ Registered.is_active <=> Registered.account_status = "active"
    BY RequiresApprovalAssumption DEF Registered, Rows, PlatformRoles, AccountStatuses
  <2>2. QED BY <1>1, <2>1 DEF Register, Insert
<1>2. ASSUME NEW actor \in Accounts, NEW role \in PlatformRoles, CreateUser(actor, a, role)
      PROVE  /\ user[a] = NoRow
             /\ \E row \in Rows :
                   /\ row.is_active <=> row.account_status = "active"
                   /\ user' = [user EXCEPT ![a] = row]
             /\ UNCHANGED request
  <2>1. /\ Created(role) \in Rows
        /\ Created(role).is_active <=> Created(role).account_status = "active"
    BY DEF Created, Rows, AccountStatuses
  <2>2. QED BY <1>2, <2>1 DEF CreateUser, Insert
<1>3. QED BY <1>1, <1>2

(* A received request has loaded a row and changes none.                    *)
LEMMA ReceiveType ==
    ASSUME TypeOK, NEW r \in Requests, NEW actor \in Accounts, NEW target \in Accounts,
           NEW change \in Changes, Receive(r, actor, target, change)
    PROVE  /\ user[target] \in Rows
           /\ request' = [request EXCEPT ![r] =
                            [phase  |-> "loaded", target |-> target,
                             change |-> change, loaded |-> user[target]]]
           /\ request'[r] \in InFlight("loaded")
           /\ UNCHANGED user
  BY DEF TypeOK, Receive, InFlight

(* A request that asked the guard was refused or saw another administrator. *)
LEMMA CheckType ==
    ASSUME TypeOK, NEW r \in Requests, Check(r)
    PROVE  /\ request[r] \in InFlight("loaded")
           /\ \/ request' = [request EXCEPT ![r] = Idle]
              \/ /\ NeedsAnotherAdmin(request[r].change, request[r].loaded) =>
                        AnotherActiveAdmin(request[r].target)
                 /\ request' = [request EXCEPT ![r] = [@ EXCEPT !.phase = "checked"]]
                 /\ request'[r] \in InFlight("checked")
           /\ UNCHANGED user
<1>1. request[r] \in InFlight("loaded")
  BY DEF TypeOK, Check, Idle, InFlight
<1>2. [request[r] EXCEPT !.phase = "checked"] \in InFlight("checked")
  BY <1>1 DEF InFlight
<1>3. QED BY <1>1, <1>2 DEF TypeOK, Check

(* A committed request leaves a row at its target.                          *)
LEMMA CommitType ==
    ASSUME TypeOK, NEW r \in Requests, Commit(r),
           user[request[r].target] \in Rows
    PROVE  /\ request[r] \in InFlight("checked")
           /\ Changed(request[r].change, request[r].loaded) \in Rows
           /\ user'[request[r].target] \in Rows
           /\ request' = [request EXCEPT ![r] = Idle]
<1>1. request[r] \in InFlight("checked")
  BY DEF TypeOK, Commit, Idle, InFlight
<1>2. Changed(request[r].change, request[r].loaded) \in Rows
  BY <1>1, ChangedType DEF InFlight
<1>3. user'[request[r].target] \in Rows
  BY <1>1, <1>2, WrittenType DEF Commit, InFlight, TypeOK
<1>4. QED BY <1>1, <1>2, <1>3 DEF Commit

\* The target of a request in flight has a row: rows are never deleted.
TargetsExist ==
    \A r \in Requests : request[r] # Idle => user[request[r].target] \in Rows

AccountInv == TypeOK /\ TargetsExist

(* Every step keeps the types and the targets.                              *)
LEMMA AccountInvStep ==
    ASSUME AccountInv, [Next]_vars
    PROVE  AccountInv'
<1> USE DEF AccountInv
<1>1. ASSUME NEW a \in Accounts,
             Register(a) \/ \E actor \in Accounts, role \in PlatformRoles :
                               CreateUser(actor, a, role)
      PROVE  AccountInv'
  <2>1. PICK row \in Rows : user' = [user EXCEPT ![a] = row]
    BY <1>1, InsertType
  <2>2. UNCHANGED request
    BY <1>1, InsertType
  <2>3. TypeOK'
    BY <2>1, <2>2 DEF TypeOK
  <2>4. ASSUME NEW r \in Requests, request[r] # Idle
        PROVE  request[r].target \in Accounts
    BY <2>4 DEF TypeOK, InFlight
  <2>5. QED BY <2>1, <2>2, <2>3, <2>4 DEF TargetsExist, TypeOK
<1>2. ASSUME NEW r \in Requests, NEW actor \in Accounts, NEW target \in Accounts,
             NEW change \in Changes, Receive(r, actor, target, change)
      PROVE  AccountInv'
  <2>1. TypeOK'
    BY <1>2, ReceiveType DEF TypeOK
  <2>2. request'[r].target = target
    BY <1>2, ReceiveType DEF TypeOK
  <2>3. \A s \in Requests \ {r} : request'[s] = request[s]
    BY <1>2, ReceiveType DEF TypeOK
  <2>4. QED BY <1>2, <2>1, <2>2, <2>3, ReceiveType DEF TargetsExist
<1>3. ASSUME NEW r \in Requests, Check(r)
      PROVE  AccountInv'
  <2>1. TypeOK'
    BY <1>3, CheckType DEF TypeOK
  <2>2. \/ request'[r] = Idle
        \/ request'[r].target = request[r].target
    BY <1>3, CheckType DEF TypeOK, InFlight
  <2>3. \A s \in Requests \ {r} : request'[s] = request[s]
    BY <1>3, CheckType DEF TypeOK
  <2>4. request[r] # Idle
    BY <1>3, CheckType DEF InFlight, Idle
  <2>5. QED BY <1>3, <2>1, <2>2, <2>3, <2>4, CheckType DEF TargetsExist
<1>4. ASSUME NEW r \in Requests, Commit(r)
      PROVE  AccountInv'
  <2>1. request[r] # Idle
    BY <1>4 DEF Commit, Idle
  <2>2. user[request[r].target] \in Rows
    BY <2>1 DEF TargetsExist
  <2>3. /\ request[r].target \in Accounts
        /\ user'[request[r].target] \in Rows
        /\ request' = [request EXCEPT ![r] = Idle]
    BY <1>4, <2>2, CommitType DEF InFlight
  <2>4. /\ user' \in [Accounts -> Rows \cup {NoRow}]
        /\ \A a \in Accounts : user[a] \in Rows => user'[a] \in Rows
    BY <1>4, <2>3 DEF Commit, TypeOK
  <2>5. TypeOK'
    BY <2>3, <2>4 DEF TypeOK
  <2>6. \A s \in Requests : request'[s] # Idle =>
            request'[s] = request[s] /\ request[s].target \in Accounts
    BY <2>3 DEF TypeOK, InFlight
  <2>7. QED BY <2>4, <2>5, <2>6 DEF TargetsExist
<1>5. CASE UNCHANGED vars
  BY <1>5 DEF vars, TypeOK, TargetsExist
<1>6. QED BY <1>1, <1>2, <1>3, <1>4, <1>5 DEF Next

(* Type correctness, whatever overlaps.                                     *)
THEOREM AccountsTypeCorrect == Spec => []TypeOK
<1>1. Init => AccountInv
  BY InitTypeOK DEF Init, AccountInv, TargetsExist
<1>2. AccountInv /\ [Next]_vars => AccountInv'
  BY AccountInvStep
<1>3. AccountInv => TypeOK
  BY DEF AccountInv
<1>4. QED BY <1>1, <1>2, <1>3, PTL DEF Spec
-----------------------------------------------------------------------------
(* One request at a time: what it loaded and checked still holds when it    *)
(* commits.                                                                 *)

LoadedIsCurrent ==
    \A r \in Requests : request[r] # Idle => user[request[r].target] = request[r].loaded

GuardStillHolds ==
    \A r \in Requests :
        /\ request[r].phase = "checked"
        /\ NeedsAnotherAdmin(request[r].change, request[r].loaded)
        => AnotherActiveAdmin(request[r].target)

SerialInv ==
    AccountInv /\ LoadedIsCurrent /\ GuardStillHolds /\ SomeActiveAdmin /\ ColumnsAgree

(* The first administrator satisfies the serial invariant.                  *)
LEMMA SerialInit == Init => SerialInv
<1>1. SUFFICES ASSUME Init
               PROVE  SerialInv
  OBVIOUS
<1>2. AccountInv
  BY <1>1, InitTypeOK DEF Init, AccountInv, TargetsExist
<1>3. LoadedIsCurrent /\ GuardStillHolds
  BY <1>1 DEF Init, LoadedIsCurrent, GuardStillHolds, Idle
<1>4. SomeActiveAdmin /\ ColumnsAgree
  BY <1>1 DEF Init, UserInit, Created, SomeActiveAdmin, ColumnsAgree, IsActiveAdmin, NoRow
<1>5. QED BY <1>2, <1>3, <1>4 DEF SerialInv

(* A new account takes no administrator away and is nobody's target.        *)
LEMMA SerialInsert ==
    ASSUME SerialInv, NEW a \in Accounts,
           Register(a) \/ \E actor \in Accounts, role \in PlatformRoles :
                             CreateUser(actor, a, role)
    PROVE  LoadedIsCurrent' /\ GuardStillHolds' /\ SomeActiveAdmin' /\ ColumnsAgree'
<1>1. PICK row \in Rows : /\ row.is_active <=> row.account_status = "active"
                         /\ user' = [user EXCEPT ![a] = row]
  BY InsertType DEF SerialInv, AccountInv
<1>2. user[a] = NoRow /\ UNCHANGED request
  BY InsertType DEF SerialInv, AccountInv
<1>3. user \in [Accounts -> Rows \cup {NoRow}]
  BY DEF SerialInv, AccountInv, TypeOK
<1>4. \A b \in Accounts : IsActiveAdmin(user[b]) => IsActiveAdmin(user'[b])
  BY <1>1, <1>2, <1>3, NoRowIsNoRow
<1>5. ASSUME NEW r \in Requests, request[r] # Idle
      PROVE  request[r].target \in Accounts \ {a}
  BY <1>2, <1>5, NoRowIsNoRow DEF SerialInv, AccountInv, TargetsExist, TypeOK, InFlight
<1>6. LoadedIsCurrent'
  BY <1>1, <1>2, <1>3, <1>5 DEF SerialInv, LoadedIsCurrent
<1>7. GuardStillHolds'
  BY <1>2, <1>4 DEF SerialInv, GuardStillHolds, AnotherActiveAdmin
<1>8. SomeActiveAdmin'
  BY <1>4 DEF SerialInv, SomeActiveAdmin
<1>9. ColumnsAgree'
  BY <1>1, <1>3 DEF SerialInv, ColumnsAgree
<1>10. QED BY <1>6, <1>7, <1>8, <1>9

(* The row a request loads is the row it will find.                         *)
LEMMA SerialReceive ==
    ASSUME SerialInv, OneAtATime, NEW r \in Requests, NEW actor \in Accounts,
           NEW target \in Accounts, NEW change \in Changes,
           Receive(r, actor, target, change)
    PROVE  LoadedIsCurrent' /\ GuardStillHolds' /\ SomeActiveAdmin' /\ ColumnsAgree'
<1>1. /\ UNCHANGED user
      /\ request' = [request EXCEPT ![r] =
                       [phase  |-> "loaded", target |-> target,
                        change |-> change, loaded |-> user[target]]]
  BY ReceiveType DEF SerialInv, AccountInv
<1>2. \A s \in Requests : s = r
  BY DEF OneAtATime
<1>3. \A s \in Requests : /\ request'[s].phase = "loaded"
                          /\ request'[s].loaded = user'[request'[s].target]
  BY <1>1, <1>2 DEF SerialInv, AccountInv, TypeOK
<1>4. LoadedIsCurrent'
  BY <1>3 DEF LoadedIsCurrent
<1>5. GuardStillHolds'
  BY <1>3 DEF GuardStillHolds
<1>6. SomeActiveAdmin' /\ ColumnsAgree'
  BY <1>1 DEF SerialInv, SomeActiveAdmin, ColumnsAgree
<1>7. QED BY <1>4, <1>5, <1>6

(* The count a request passed is still true.                                *)
LEMMA SerialCheck ==
    ASSUME SerialInv, OneAtATime, NEW r \in Requests, Check(r)
    PROVE  LoadedIsCurrent' /\ GuardStillHolds' /\ SomeActiveAdmin' /\ ColumnsAgree'
<1>1. UNCHANGED user /\ request[r] \in InFlight("loaded")
  BY CheckType DEF SerialInv, AccountInv
<1>2. \A s \in Requests : s = r
  BY DEF OneAtATime
<1>3. user[request[r].target] = request[r].loaded
  BY <1>1 DEF SerialInv, LoadedIsCurrent, InFlight, Idle
<1>4. CASE request' = [request EXCEPT ![r] = Idle]
  BY <1>1, <1>2, <1>4 DEF SerialInv, AccountInv, TypeOK, LoadedIsCurrent,
     GuardStillHolds, Idle, SomeActiveAdmin, ColumnsAgree
<1>5. CASE /\ NeedsAnotherAdmin(request[r].change, request[r].loaded) =>
                   AnotherActiveAdmin(request[r].target)
           /\ request' = [request EXCEPT ![r] = [@ EXCEPT !.phase = "checked"]]
  <2>1. /\ request'[r].target = request[r].target
        /\ request'[r].change = request[r].change
        /\ request'[r].loaded = request[r].loaded
    BY <1>1, <1>5 DEF SerialInv, AccountInv, TypeOK, InFlight
  <2>2. LoadedIsCurrent'
    BY <1>1, <1>2, <1>3, <2>1 DEF LoadedIsCurrent
  <2>3. GuardStillHolds'
    BY <1>1, <1>2, <1>5, <2>1 DEF GuardStillHolds, AnotherActiveAdmin
  <2>4. SomeActiveAdmin' /\ ColumnsAgree'
    BY <1>1 DEF SerialInv, SomeActiveAdmin, ColumnsAgree
  <2>5. QED BY <2>2, <2>3, <2>4
<1>6. QED BY <1>4, <1>5, CheckType DEF SerialInv, AccountInv

(* What a request commits is its own computation, and the guard it passed   *)
(* names an administrator it does not touch.                                *)
LEMMA SerialCommit ==
    ASSUME SerialInv, OneAtATime, NEW r \in Requests, Commit(r)
    PROVE  LoadedIsCurrent' /\ GuardStillHolds' /\ SomeActiveAdmin' /\ ColumnsAgree'
<1> DEFINE q == request[r]
           new == Changed(q.change, q.loaded)
<1>1. \A s \in Requests : s = r
  BY DEF OneAtATime
<1>2. q # Idle /\ q.phase = "checked"
  BY DEF Commit, Idle
<1>3. user[q.target] = q.loaded /\ user[q.target] \in Rows
  BY <1>2 DEF SerialInv, AccountInv, LoadedIsCurrent, TargetsExist
<1>4. /\ q \in InFlight("checked")
      /\ new \in Rows
      /\ request' = [request EXCEPT ![r] = Idle]
  BY <1>3, CommitType DEF SerialInv, AccountInv
<1>5. q.target \in Accounts /\ q.change \in Changes /\ q.loaded \in Rows
  BY <1>4 DEF InFlight
<1>6. user' = [user EXCEPT ![q.target] = new]
  BY <1>3, <1>4, <1>5, WrittenUncontended DEF Commit
<1>7. LoadedIsCurrent' /\ GuardStillHolds'
  BY <1>1, <1>4 DEF SerialInv, AccountInv, TypeOK, LoadedIsCurrent, GuardStillHolds, Idle
<1>8. user'[q.target] = new /\ \A a \in Accounts \ {q.target} : user'[a] = user[a]
  BY <1>5, <1>6 DEF SerialInv, AccountInv, TypeOK
<1>9. SomeActiveAdmin'
  <2>1. PICK a \in Accounts : IsActiveAdmin(user[a])
    BY DEF SerialInv, SomeActiveAdmin
  <2>2. CASE a # q.target
    BY <1>8, <2>1, <2>2 DEF SomeActiveAdmin
  <2>3. CASE a = q.target /\ IsActiveAdmin(new)
    BY <1>5, <1>8, <2>3 DEF SomeActiveAdmin
  <2>4. CASE a = q.target /\ ~IsActiveAdmin(new)
    <3>1. NeedsAnotherAdmin(q.change, q.loaded)
      BY <1>3, <1>5, <2>1, <2>4, GuardCoversLoss
    <3>2. PICK b \in Accounts \ {q.target} : IsActiveAdmin(user[b])
      BY <1>2, <3>1 DEF SerialInv, GuardStillHolds, AnotherActiveAdmin
    <3>3. QED BY <1>8, <3>2 DEF SomeActiveAdmin
  <2>5. QED BY <2>2, <2>3, <2>4
<1>10. ColumnsAgree'
  <2>1. new.is_active <=> new.account_status = "active"
    BY <1>3, <1>5, ChangedAgrees DEF SerialInv, ColumnsAgree
  <2>2. QED BY <1>8, <2>1 DEF SerialInv, ColumnsAgree
<1>11. QED BY <1>7, <1>9, <1>10

(* One request at a time preserves the serial invariant.                    *)
LEMMA SerialStep ==
    ASSUME SerialInv, OneAtATime, [Next]_vars
    PROVE  SerialInv'
<1>1. AccountInv'
  BY AccountInvStep DEF SerialInv
<1>2. LoadedIsCurrent' /\ GuardStillHolds' /\ SomeActiveAdmin' /\ ColumnsAgree'
  <2>1. CASE UNCHANGED vars
    BY <2>1 DEF vars, SerialInv, LoadedIsCurrent, GuardStillHolds, AnotherActiveAdmin,
       SomeActiveAdmin, ColumnsAgree
  <2>2. CASE Next
    BY <2>2, SerialReceive, SerialCheck, SerialCommit, SerialInsert DEF Next
  <2>3. QED BY <2>1, <2>2
<1>3. QED BY <1>1, <1>2 DEF SerialInv

(* DEPLOYMENT_PREFLIGHT.md:83 holds of requests that run one after another: *)
(* the guards are complete, and the only way to lose the last administrator *)
(* is the overlap that the race run finds.                                  *)
THEOREM SerialAdministrationKeepsAnAdmin ==
    ASSUME OneAtATime
    PROVE  Spec => []SomeActiveAdmin
<1>1. SerialInv => SomeActiveAdmin
  BY DEF SerialInv
<1>2. SerialInv /\ [Next]_vars => SerialInv'
  BY SerialStep
<1>3. QED BY <1>1, <1>2, SerialInit, PTL DEF Spec

(* Requests that run one after another are handlers from log-in check to    *)
(* commit with nothing in between, however the insert of a new account falls*)
(* among their steps: Receive, Check and Commit then add up to one step.    *)
THEOREM SerialAdministration ==
    ASSUME OneAtATime
    PROVE  Spec => SerialSpec
<1>1. Init => UserInit
  BY DEF Init
<1>2. SerialInv /\ [Next]_vars => SerialInv' /\ [HandlerStep]_user
  <2> SUFFICES ASSUME SerialInv, [Next]_vars PROVE SerialInv' /\ [HandlerStep]_user
    OBVIOUS
  <2>1. SerialInv'
    BY SerialStep
  <2>2. ASSUME NEW r \in Requests, Commit(r)
        PROVE  HandlerStep
    <3> DEFINE q == request[r]
               new == Changed(q.change, q.loaded)
    <3>1. q # Idle /\ q.phase = "checked"
      BY <2>2 DEF Commit, Idle
    <3>2. user[q.target] = q.loaded /\ user[q.target] \in Rows
      BY <3>1 DEF SerialInv, AccountInv, LoadedIsCurrent, TargetsExist
    <3>3. q \in InFlight("checked") /\ new \in Rows
      BY <2>2, <3>2, CommitType DEF SerialInv, AccountInv
    <3>4. q.target \in Accounts /\ q.change \in Changes /\ q.loaded \in Rows
      BY <3>3 DEF InFlight
    <3>5. user' = [user EXCEPT ![q.target] = Changed(q.change, @)]
      BY <2>2, <3>2, <3>3, <3>4, WrittenUncontended DEF Commit
    <3>6. NeedsAnotherAdmin(q.change, user[q.target]) => AnotherActiveAdmin(q.target)
      BY <3>1, <3>2 DEF SerialInv, GuardStillHolds
    <3>7. \E actor \in Accounts :
             /\ IsActiveAdmin(user[actor])
             /\ q.change.op = "deactivate_user" => q.target # actor
      <4>1. CASE q.change.op = "deactivate_user" /\ IsActiveAdmin(user[q.target])
        BY <3>6, <4>1 DEF NeedsAnotherAdmin, IsActiveAdmin, AnotherActiveAdmin
      <4>2. CASE ~(q.change.op = "deactivate_user" /\ IsActiveAdmin(user[q.target]))
        BY <4>2 DEF SerialInv, SomeActiveAdmin
      <4>3. QED BY <4>1, <4>2
    <3>8. user[q.target] # NoRow
      BY <3>2, NoRowIsNoRow
    <3> HIDE DEF q
    <3>9. QED BY <3>4, <3>5, <3>6, <3>7, <3>8 DEF HandlerStep
  <2>3. ASSUME NEW a \in Accounts, Register(a)
        PROVE  HandlerStep
    BY <2>3 DEF Register, HandlerStep
  <2>4. ASSUME NEW actor \in Accounts, NEW a \in Accounts, NEW role \in PlatformRoles,
               CreateUser(actor, a, role)
        PROVE  HandlerStep
    BY <2>4 DEF CreateUser, HandlerStep
  <2>5. ASSUME \/ \E r \in Requests, actor, target \in Accounts, change \in Changes :
                     Receive(r, actor, target, change)
               \/ \E r \in Requests : Check(r)
               \/ UNCHANGED vars
        PROVE  UNCHANGED user
    BY <2>5 DEF Receive, Check, vars
  <2>6. QED BY <2>1, <2>2, <2>3, <2>4, <2>5 DEF Next
<1>3. QED BY <1>1, <1>2, SerialInit, PTL DEF Spec, SerialSpec

(* Login and refresh read different columns; handled one at a time, the     *)
(* requests leave both saying the same.                                     *)
THEOREM SerialAdministrationKeepsColumnsAgreeing ==
    ASSUME OneAtATime
    PROVE  Spec => []ColumnsAgree
<1>1. SerialInv => ColumnsAgree
  BY DEF SerialInv
<1>2. SerialInv /\ [Next]_vars => SerialInv'
  BY SerialStep
<1>3. QED BY <1>1, <1>2, SerialInit, PTL DEF Spec
-----------------------------------------------------------------------------
(* Sessions.  A token is held while it is live or presented by a request in *)
(* flight; outside overlapped sessions there is at most one held token.     *)

Uses(r, t) == refresh[r] # Idle /\ refresh[r].old = t

Held(t) == token[t] = "live" \/ \E r \in Refreshes : Uses(r, t)

TokensIssued ==
    \A t \in Tokens :
        IF token[t] = "unissued" THEN t \notin ended /\ \A r \in Refreshes : ~Uses(r, t)
        ELSE session[t] \in Tokens /\ token[session[t]] # "unissued"

PhasesFit ==
    \A r \in Refreshes : refresh[r] # Idle =>
        IF refresh[r].old = NoToken THEN refresh[r].phase = "deleted"
        ELSE refresh[r].phase = "deleted" => token[refresh[r].old] = "gone"

SharedIsOverlapped ==
    \A r, o \in Refreshes, t \in Tokens :
        Uses(r, t) /\ Uses(o, t) /\ r # o => session[t] \in overlapped

HeldIsSingle ==
    \A t \in Tokens : Held(t) /\ session[t] \notin overlapped =>
        /\ session[t] \notin ended
        /\ \A u \in Tokens : Held(u) /\ session[u] = session[t] => u = t

SessionInv ==
    SessionTypeOK /\ TokensIssued /\ PhasesFit /\ SharedIsOverlapped /\ HeldIsSingle

(* The sessions leave administration as it is.                              *)
THEOREM SessionsImplementAdministration == SessionSpec => Spec
<1>1. SessionInit => Init
  BY DEF SessionInit
<1>2. [SessionNext]_<<vars, sessionVars>> => [Next]_vars
  BY DEF SessionNext, Administer, Authenticate, Find, Admit, Delete, Issue, Break, Logout,
     Expire, vars
<1>3. QED BY <1>1, <1>2, PTL DEF SessionSpec, Spec

(* An idle slot presents nothing.                                           *)
LEMMA IdlePresentsNothing == Idle \notin Presenting
  BY DEF Idle, Presenting

LEMMA SessionInitInv == SessionInit => SessionInv
  BY SessionsAssumption DEF SessionInit, SessionInv, SessionTypeOK, TokenStates, TokensIssued,
     PhasesFit, SharedIsOverlapped, HeldIsSingle, Held, Uses

(* Steps that take tokens out of use only: no token is presented that was   *)
(* not, none comes to life.                                                 *)
LEMMA SessionWindsDown ==
    ASSUME SessionInv, SessionTypeOK', PhasesFit', UNCHANGED <<session, ended, overlapped>>,
           \A r \in Refreshes, t \in Tokens : Uses(r, t)' => Uses(r, t),
           \A t \in Tokens : \/ token'[t] = token[t]
                             \/ token[t] # "unissued" /\ token'[t] = "gone"
    PROVE  SessionInv'
<1> USE DEF SessionInv
<1>1. TokensIssued'
  BY DEF TokensIssued
<1>2. SharedIsOverlapped'
  BY DEF SharedIsOverlapped
<1>3. \A t \in Tokens : Held(t)' => Held(t)
  BY DEF Held
<1>4. HeldIsSingle'
  BY <1>3 DEF HeldIsSingle
<1>5. QED BY <1>1, <1>2, <1>4

LEMMA SessionAuthenticate ==
    ASSUME SessionInv, NEW r \in Refreshes, Authenticate(r)
    PROVE  SessionInv'
<1>1. refresh'[r] \in Presenting
  BY DEF Authenticate, Presenting, SessionInv, SessionTypeOK
<1>2. SessionTypeOK'
  BY <1>1 DEF Authenticate, SessionInv, SessionTypeOK
<1>3. PhasesFit'
  BY DEF Authenticate, SessionInv, SessionTypeOK, PhasesFit
<1>4. \A o \in Refreshes, t \in Tokens : Uses(o, t)' => Uses(o, t)
  BY SessionsAssumption DEF Authenticate, SessionInv, SessionTypeOK, Uses
<1>5. QED BY <1>2, <1>3, <1>4, SessionWindsDown DEF Authenticate

LEMMA SessionAdmit ==
    ASSUME SessionInv, NEW r \in Refreshes, Admit(r)
    PROVE  SessionInv'
<1>1. refresh[r] \in Presenting
  BY DEF Admit, SessionInv, SessionTypeOK, Idle
<1>2. refresh'[r] = Idle \/ refresh'[r] = [refresh[r] EXCEPT !.phase = "admitted"]
  BY DEF Admit, SessionInv, SessionTypeOK
<1>3. refresh'[r] \in {Idle} \cup Presenting
  BY <1>1, <1>2 DEF Presenting
<1>4. \A o \in Refreshes \ {r} : refresh'[o] = refresh[o]
  BY DEF Admit, SessionInv, SessionTypeOK
<1>5. SessionTypeOK'
  BY <1>3 DEF Admit, SessionInv, SessionTypeOK
<1>6. \A t \in Tokens : Uses(r, t)' => Uses(r, t)
  BY <1>1, <1>2, IdlePresentsNothing DEF Uses, Presenting
<1>7. \A o \in Refreshes, t \in Tokens : Uses(o, t)' => Uses(o, t)
  BY <1>4, <1>6 DEF Uses
<1>8. refresh[r] # Idle /\ refresh[r].phase = "found"
  BY <1>1, IdlePresentsNothing DEF Admit
<1>9. PhasesFit'
  <2>1. refresh'[r] # Idle => refresh'[r].old = refresh[r].old /\ refresh'[r].phase # "deleted"
    BY <1>1, <1>2 DEF Presenting
  <2>2. refresh[r].old # NoToken
    BY <1>8 DEF SessionInv, PhasesFit
  <2>3. token' = token
    BY DEF Admit
  <2>4. QED BY <1>4, <2>1, <2>2, <2>3 DEF SessionInv, PhasesFit
<1>10. QED BY <1>5, <1>7, <1>9, SessionWindsDown DEF Admit

LEMMA SessionDelete ==
    ASSUME SessionInv, NEW r \in Refreshes, Delete(r)
    PROVE  SessionInv'
<1>1. refresh[r] \in Presenting /\ refresh[r] # Idle
  BY IdlePresentsNothing DEF Delete, SessionInv, SessionTypeOK, Idle
<1>2. refresh[r].old \in Tokens
  BY <1>1 DEF Delete, SessionInv, PhasesFit, Presenting
<1>3. refresh'[r] = [refresh[r] EXCEPT !.phase = "deleted"]
  BY DEF Delete, SessionInv, SessionTypeOK
<1>4. refresh'[r] \in Presenting /\ refresh'[r].old = refresh[r].old
  BY <1>1, <1>3 DEF Presenting
<1>5. \A o \in Refreshes \ {r} : refresh'[o] = refresh[o]
  BY DEF Delete, SessionInv, SessionTypeOK
<1>6. /\ token' = [token EXCEPT ![refresh[r].old] = "gone"]
      /\ token \in [Tokens -> TokenStates]
  BY DEF Delete, SessionInv, SessionTypeOK
<1>7. SessionTypeOK'
  BY <1>4, <1>6 DEF Delete, SessionInv, SessionTypeOK, TokenStates
<1>8. \A o \in Refreshes, t \in Tokens : Uses(o, t)' => Uses(o, t)
  BY <1>1, <1>4, <1>5 DEF Uses
<1>9. token[refresh[r].old] # "unissued"
  BY <1>1, <1>2 DEF SessionInv, TokensIssued, Uses
<1>10. \A t \in Tokens : \/ token'[t] = token[t]
                         \/ token[t] # "unissued" /\ token'[t] = "gone"
  BY <1>6, <1>9
<1>11. PhasesFit'
  <2>1. token'[refresh'[r].old] = "gone" /\ refresh'[r].old # NoToken
    BY <1>2, <1>4, <1>6, SessionsAssumption
  <2>2. ASSUME NEW o \in Refreshes \ {r}, refresh[o] # Idle, refresh[o].old # NoToken,
               refresh[o].phase = "deleted"
        PROVE  token'[refresh[o].old] = "gone"
    <3>1. refresh[o].old \in Tokens /\ token[refresh[o].old] = "gone"
      BY <2>2 DEF SessionInv, SessionTypeOK, PhasesFit, Presenting
    <3>2. QED BY <1>6, <3>1
  <2>3. QED BY <1>5, <2>1, <2>2 DEF SessionInv, PhasesFit
<1>12. QED BY <1>7, <1>8, <1>10, <1>11, SessionWindsDown DEF Delete

LEMMA SessionBreak ==
    ASSUME SessionInv, NEW r \in Refreshes, Break(r)
    PROVE  SessionInv'
<1>1. SessionTypeOK' /\ PhasesFit'
  BY DEF Break, SessionInv, SessionTypeOK, PhasesFit
<1>2. \A o \in Refreshes, t \in Tokens : Uses(o, t)' => Uses(o, t)
  BY DEF Break, SessionInv, SessionTypeOK, Uses
<1>3. QED BY <1>1, <1>2, SessionWindsDown DEF Break

LEMMA SessionExpire ==
    ASSUME SessionInv, NEW t \in Tokens, Expire(t)
    PROVE  SessionInv'
<1>1. SessionTypeOK'
  BY DEF Expire, SessionInv, SessionTypeOK, TokenStates
<1>2. \A u \in Tokens : \/ token'[u] = token[u]
                        \/ token[u] # "unissued" /\ token'[u] = "gone"
  BY DEF Expire, SessionInv, SessionTypeOK
<1>3. PhasesFit'
  <2>1. \A r \in Refreshes : refresh[r] # Idle => refresh[r].old \in Tokens \cup {NoToken}
    BY DEF SessionInv, SessionTypeOK, Presenting
  <2>2. QED BY <1>2, <2>1 DEF Expire, SessionInv, PhasesFit
<1>4. \A r \in Refreshes, u \in Tokens : Uses(r, u)' => Uses(r, u)
  BY DEF Expire, Uses
<1>5. QED BY <1>1, <1>2, <1>3, <1>4, SessionWindsDown DEF Expire

LEMMA SessionAdminister ==
    ASSUME SessionInv, Administer
    PROVE  SessionInv'
<1>1. \A r \in Refreshes :
         \/ refresh'[r] = refresh[r]
         \/ /\ refresh[r] \in Presenting
            /\ refresh'[r] = [refresh[r] EXCEPT !.stale = TRUE]
  BY DEF Administer, SessionInv, SessionTypeOK
<1>2. \A r \in Refreshes :
         /\ refresh'[r] \in {Idle} \cup Presenting
         /\ refresh'[r] # Idle => /\ refresh[r] # Idle
                                  /\ refresh'[r].old = refresh[r].old
                                  /\ refresh'[r].phase = refresh[r].phase
  <2>1. TAKE r \in Refreshes
  <2>2. CASE refresh'[r] = refresh[r]
    BY <2>2 DEF SessionInv, SessionTypeOK
  <2>3. CASE refresh[r] \in Presenting /\ refresh'[r] = [refresh[r] EXCEPT !.stale = TRUE]
    BY <2>3, IdlePresentsNothing DEF Presenting
  <2>4. QED BY <1>1, <2>2, <2>3
<1>3. SessionTypeOK'
  BY <1>2 DEF Administer, SessionInv, SessionTypeOK
<1>4. PhasesFit'
  BY <1>2 DEF Administer, SessionInv, PhasesFit
<1>5. \A r \in Refreshes, t \in Tokens : Uses(r, t)' => Uses(r, t)
  BY <1>2 DEF Uses
<1>6. QED BY <1>3, <1>4, <1>5, SessionWindsDown DEF Administer

(* A second use of a token makes its session an overlapped one.             *)
LEMMA SessionFind ==
    ASSUME SessionInv, NEW r \in Refreshes, NEW t \in Tokens, Find(r, t)
    PROVE  SessionInv'
<1> USE DEF SessionInv
<1>1. /\ refresh'[r] \in Presenting /\ refresh'[r] # Idle
      /\ refresh'[r].old = t /\ refresh'[r].phase = "found"
      /\ \A o \in Refreshes \ {r} : refresh'[o] = refresh[o]
  <2> DEFINE q == [phase |-> "found", old |-> t, stale |-> FALSE]
  <2>1. q \in Presenting /\ q.old = t /\ q.phase = "found"
    BY DEF Presenting
  <2>2. refresh'[r] = q /\ \A o \in Refreshes \ {r} : refresh'[o] = refresh[o]
    BY DEF Find, SessionTypeOK
  <2> HIDE DEF q
  <2>3. QED BY <2>1, <2>2, IdlePresentsNothing
<1>2. /\ session[t] \in Tokens /\ token[t] = "live" /\ refresh[r] = Idle
      /\ UNCHANGED <<token, session, ended>> /\ overlapped \subseteq overlapped'
      /\ UsersOf(t) # {} => session[t] \in overlapped'
      /\ overlapped' \subseteq overlapped \cup {session[t]}
  BY DEF Find, TokensIssued
<1>3. SessionTypeOK'
  BY <1>1, <1>2 DEF Find, SessionTypeOK
<1>4. t # NoToken
  BY SessionsAssumption
<1>5. \A o \in Refreshes, u \in Tokens : Uses(o, u)' <=> Uses(o, u) \/ (o = r /\ u = t)
  BY <1>1, <1>2 DEF Uses
<1>6. TokensIssued'
  BY <1>2, <1>5 DEF TokensIssued
<1>7. PhasesFit'
  BY <1>1, <1>2, <1>4 DEF PhasesFit
<1>8. SharedIsOverlapped'
  <2>1. \A o \in Refreshes : Uses(o, t) => session[t] \in overlapped'
    BY <1>2 DEF Uses, UsersOf
  <2>2. QED BY <1>2, <1>5, <2>1 DEF SharedIsOverlapped
<1>9. \A u \in Tokens : Held(u)' <=> Held(u)
  BY <1>2, <1>5 DEF Held
<1>10. HeldIsSingle'
  BY <1>2, <1>9 DEF HeldIsSingle
<1>11. QED BY <1>3, <1>6, <1>7, <1>8, <1>10

LEMMA SessionLogout ==
    ASSUME SessionInv, NEW t \in Tokens, Logout(t)
    PROVE  SessionInv'
<1> USE DEF SessionInv
<1>1. /\ session[t] \in Tokens /\ token[session[t]] # "unissued" /\ token[t] # "unissued"
      /\ UNCHANGED <<session, refresh>>
      /\ token'[t] = "gone" /\ \A u \in Tokens \ {t} : token'[u] = token[u]
  BY DEF Logout, TokensIssued, SessionTypeOK
<1>2. /\ ended' = ended \/ (token[t] = "live" /\ ended' = ended \cup {session[t]})
      /\ overlapped \subseteq overlapped'
      /\ UsersOf(t) # {} => session[t] \in overlapped'
  BY DEF Logout
<1>3. SessionTypeOK'
  BY <1>1 DEF Logout, SessionTypeOK, TokenStates
<1>4. \A o \in Refreshes, u \in Tokens : Uses(o, u)' <=> Uses(o, u)
  BY <1>1 DEF Uses
<1>5. TokensIssued'
  BY <1>1, <1>2, <1>4 DEF TokensIssued
<1>6. PhasesFit'
  <2>1. \A r \in Refreshes : refresh[r] # Idle => refresh[r].old \in Tokens \cup {NoToken}
    BY DEF SessionTypeOK, Presenting
  <2>2. QED BY <1>1, <2>1 DEF PhasesFit
<1>7. SharedIsOverlapped'
  BY <1>1, <1>2, <1>4 DEF SharedIsOverlapped
<1>8. \A u \in Tokens : Held(u)' => Held(u)
  BY <1>1, <1>4 DEF Held
<1>9. session[t] \notin overlapped' => ~Held(t)'
  BY <1>1, <1>2, <1>4 DEF Held, Uses, UsersOf
<1>10. HeldIsSingle'
  <2> SUFFICES ASSUME NEW u \in Tokens, Held(u)', session[u] \notin overlapped'
               PROVE  /\ session[u] \notin ended'
                      /\ \A w \in Tokens : Held(w)' /\ session[w] = session[u] => w = u
    BY <1>1 DEF HeldIsSingle
  <2>1. /\ session[u] \notin ended
        /\ \A w \in Tokens : Held(w) /\ session[w] = session[u] => w = u
    BY <1>2, <1>8 DEF HeldIsSingle
  <2>2. token[t] = "live" => session[u] # session[t]
    <3>1. SUFFICES ASSUME token[t] = "live", session[u] = session[t] PROVE FALSE
      OBVIOUS
    <3>2. Held(t)
      BY <3>1 DEF Held
    <3>3. t = u
      BY <2>1, <3>1, <3>2
    <3>4. QED BY <1>9, <3>1, <3>3
  <2>3. QED BY <1>2, <1>8, <2>1, <2>2
<1>11. QED BY <1>3, <1>5, <1>6, <1>7, <1>10

(* A new token takes the place of the one its request presented.            *)
LEMMA SessionIssue ==
    ASSUME SessionInv, NEW r \in Refreshes, NEW n \in Tokens, Issue(r, n)
    PROVE  SessionInv'
<1> USE DEF SessionInv
<1> DEFINE old == refresh[r].old
<1>1. refresh[r] \in Presenting /\ refresh[r] # Idle /\ refresh[r].phase = "deleted"
  BY IdlePresentsNothing DEF Issue, SessionTypeOK, Idle
<1>2. /\ refresh'[r] = Idle /\ \A o \in Refreshes \ {r} : refresh'[o] = refresh[o]
      /\ token[n] = "unissued" /\ token'[n] = "live"
      /\ \A u \in Tokens \ {n} : token'[u] = token[u] /\ session'[u] = session[u]
      /\ session'[n] = IF old = NoToken THEN n ELSE session[old]
      /\ UNCHANGED <<ended, overlapped>>
  BY DEF Issue, SessionTypeOK
<1>3. old # NoToken => /\ old \in Tokens /\ token[old] = "gone"
                       /\ session[old] \in Tokens /\ token[session[old]] # "unissued"
  BY <1>1 DEF PhasesFit, TokensIssued, Presenting
<1>4. session'[n] \in Tokens
  BY <1>2, <1>3
<1>5. SessionTypeOK'
  BY <1>4 DEF Issue, SessionTypeOK, TokenStates
<1>6. \A o \in Refreshes, u \in Tokens : Uses(o, u)' <=> Uses(o, u) /\ o # r
  BY <1>2 DEF Uses
<1>7. \A o \in Refreshes : ~Uses(o, n)
  BY <1>2 DEF TokensIssued
<1>8. TokensIssued'
  <2> SUFFICES ASSUME NEW u \in Tokens, token'[u] # "unissued"
               PROVE  session'[u] \in Tokens /\ token'[session'[u]] # "unissued"
    BY <1>2, <1>6 DEF TokensIssued
  <2>1. CASE u = n
    BY <1>2, <1>3, <1>4, <2>1
  <2>2. CASE u # n
    BY <1>2, <2>2 DEF TokensIssued
  <2>3. QED BY <2>1, <2>2
<1>9. PhasesFit'
  <2> SUFFICES ASSUME NEW o \in Refreshes \ {r}, refresh[o] # Idle
               PROVE  IF refresh[o].old = NoToken THEN refresh[o].phase = "deleted"
                      ELSE refresh[o].phase = "deleted" => token'[refresh[o].old] = "gone"
    BY <1>2 DEF PhasesFit
  <2>1. refresh[o].old \in Tokens \cup {NoToken} /\ refresh[o].old # n
    BY <1>7, SessionsAssumption DEF SessionTypeOK, Presenting, Uses
  <2>2. QED BY <1>2, <2>1 DEF PhasesFit
<1>10. SharedIsOverlapped'
  BY <1>2, <1>6, <1>7 DEF SharedIsOverlapped
<1>11. \A u \in Tokens \ {n} : Held(u)' => Held(u) /\ token[u] # "unissued"
  BY <1>2, <1>6 DEF Held, TokensIssued
<1>12. \A u \in Tokens \ {n} : Held(u)' /\ session[u] = session'[n] =>
          session[u] \in overlapped
  <2> SUFFICES ASSUME NEW u \in Tokens \ {n}, Held(u)', session[u] = session'[n]
               PROVE  session[u] \in overlapped
    OBVIOUS
  <2>1. session[u] # n
    BY <1>2, <1>11 DEF TokensIssued
  <2>2. old # NoToken /\ session[u] = session[old]
    BY <1>2, <2>1
  <2>3. Uses(r, old) /\ Held(old)
    BY <1>1 DEF Uses, Held
  <2>4. CASE u # old
    BY <1>3, <1>11, <2>2, <2>3, <2>4 DEF HeldIsSingle
  <2>5. CASE u = old
    <3>1. PICK o \in Refreshes : Uses(o, u)'
      BY <1>2, <1>3, <2>2, <2>5 DEF Held
    <3>2. QED BY <1>3, <1>6, <2>2, <2>3, <2>5, <3>1 DEF SharedIsOverlapped
  <2>6. QED BY <2>4, <2>5
<1>13. session'[n] \in ended => session'[n] \in overlapped
  <2>1. CASE old = NoToken
    BY <1>2, <2>1 DEF TokensIssued
  <2>2. CASE old # NoToken
    <3>1. Held(old)
      BY <1>1 DEF Uses, Held
    <3>2. QED BY <1>2, <1>3, <2>2, <3>1 DEF HeldIsSingle
  <2>3. QED BY <2>1, <2>2
<1>14. HeldIsSingle'
  <2> SUFFICES ASSUME NEW u \in Tokens, Held(u)', session'[u] \notin overlapped
               PROVE  /\ session'[u] \notin ended
                      /\ \A w \in Tokens : Held(w)' /\ session'[w] = session'[u] => w = u
    BY <1>2 DEF HeldIsSingle
  <2>1. CASE u = n
    BY <1>2, <1>12, <1>13, <2>1
  <2>2. CASE u # n
    BY <1>2, <1>11, <1>12, <2>2 DEF HeldIsSingle
  <2>3. QED BY <2>1, <2>2
<1>15. QED BY <1>5, <1>8, <1>9, <1>10, <1>14

LEMMA SessionStep ==
    ASSUME SessionInv, [SessionNext]_<<vars, sessionVars>>
    PROVE  SessionInv'
<1>1. CASE UNCHANGED <<vars, sessionVars>>
  BY <1>1 DEF sessionVars, SessionInv, SessionTypeOK, TokensIssued, PhasesFit,
     SharedIsOverlapped, HeldIsSingle, Held, Uses
<1>2. CASE SessionNext
  BY <1>2, SessionAdminister, SessionAuthenticate, SessionFind, SessionAdmit, SessionDelete,
     SessionIssue, SessionBreak, SessionLogout, SessionExpire DEF SessionNext
<1>3. QED BY <1>1, <1>2

(* Tokens and requests keep their types.                                    *)
THEOREM SessionsTypeCorrect == SessionSpec => []SessionTypeOK
<1>1. SessionInv => SessionTypeOK
  BY DEF SessionInv
<1>2. QED BY <1>1, SessionInitInv, SessionStep, PTL DEF SessionSpec

(* auth.py rotates: one token counts per session and none after logout,     *)
(* for any number of tokens and requests, failures included.                *)
THEOREM SessionsStaySingle == SessionSpec => []SessionsAreSingle
<1>1. SessionInv => SessionsAreSingle
  BY DEF SessionInv, SessionsAreSingle, HeldIsSingle, Held
<1>2. QED BY <1>1, SessionInitInv, SessionStep, PTL DEF SessionSpec

-----------------------------------------------------------------------------
(* An admitted request knows an active account unless it has been overtaken.*)
AdmittedIsActive ==
    \A r \in Refreshes :
        refresh[r] # Idle /\ refresh[r].phase \in {"admitted", "deleted"} =>
            refresh[r].stale \/ user[Holder].account_status = "active"

LEMMA AdmittedStep ==
    ASSUME SessionInv, ColumnsAgree, AdmittedIsActive,
           [SessionNext]_<<vars, sessionVars>>
    PROVE  AdmittedIsActive'
<1>1. CASE UNCHANGED <<vars, sessionVars>>
  BY <1>1 DEF vars, sessionVars, AdmittedIsActive
<1>2. CASE Administer
  <2> SUFFICES ASSUME NEW r \in Refreshes, refresh'[r] # Idle,
                      refresh'[r].phase \in {"admitted", "deleted"},
                      user'[Holder].account_status # "active"
               PROVE  refresh'[r].stale
    BY DEF AdmittedIsActive
  <2>1. CASE refresh'[r] = [refresh[r] EXCEPT !.stale = TRUE] /\ refresh[r] \in Presenting
    BY <2>1 DEF Presenting
  <2>2. CASE ~(refresh[r] # Idle /\ refresh[r].phase \in {"admitted", "deleted"})
    BY <1>2, <2>2 DEF Administer
  <2>3. QED BY <1>2, <2>1, <2>2 DEF Administer, SessionInv, SessionTypeOK
<1>3. ASSUME NEW r \in Refreshes, Authenticate(r)
      PROVE  AdmittedIsActive'
  BY <1>3 DEF Authenticate, AdmittedIsActive, SessionInv, SessionTypeOK
<1>4. ASSUME NEW r \in Refreshes, NEW t \in Tokens, Find(r, t)
      PROVE  AdmittedIsActive'
  BY <1>4 DEF Find, AdmittedIsActive, SessionInv, SessionTypeOK
<1>5. ASSUME NEW r \in Refreshes, Admit(r)
      PROVE  AdmittedIsActive'
  <2>1. user[Holder].is_active => user[Holder].account_status = "active"
    BY SessionsAssumption DEF ColumnsAgree
  <2>2. QED BY <1>5, <2>1 DEF Admit, AdmittedIsActive, SessionInv, SessionTypeOK
<1>6. ASSUME NEW r \in Refreshes, Delete(r)
      PROVE  AdmittedIsActive'
  <2>1. refresh[r] \in Presenting /\ refresh[r] # Idle /\ refresh[r].phase = "admitted"
    BY <1>6, IdlePresentsNothing DEF Delete, SessionInv, SessionTypeOK, Idle
  <2>2. refresh'[r].stale = refresh[r].stale /\ user' = user
    BY <1>6, <2>1 DEF Delete, SessionInv, SessionTypeOK, Presenting
  <2>3. \A o \in Refreshes \ {r} : refresh'[o] = refresh[o]
    BY <1>6 DEF Delete, SessionInv, SessionTypeOK
  <2>4. QED BY <2>1, <2>2, <2>3 DEF AdmittedIsActive
<1>7. ASSUME NEW r \in Refreshes, NEW t \in Tokens, Issue(r, t)
      PROVE  AdmittedIsActive'
  BY <1>7 DEF Issue, AdmittedIsActive, SessionInv, SessionTypeOK
<1>8. ASSUME NEW r \in Refreshes, Break(r)
      PROVE  AdmittedIsActive'
  BY <1>8 DEF Break, AdmittedIsActive, SessionInv, SessionTypeOK
<1>9. ASSUME NEW t \in Tokens, Logout(t) \/ Expire(t)
      PROVE  AdmittedIsActive'
  BY <1>9 DEF Logout, Expire, AdmittedIsActive
<1>10. QED BY <1>1, <1>2, <1>3, <1>4, <1>5, <1>6, <1>7, <1>8, <1>9 DEF SessionNext

(* refresh_tokens reads is_active alone and is right to: while accounts are *)
(* administered one request at a time, a token goes to an account that is   *)
(* active or was when its request was admitted.                             *)
THEOREM TokensGoToActiveAccounts ==
    ASSUME OneAtATime
    PROVE  SessionSpec => IssuedToActive
<1> DEFINE Inv == SessionInv /\ SerialInv /\ AdmittedIsActive
<1>1. SessionInit => Inv
  <2>1. SessionInit => AdmittedIsActive
    BY DEF SessionInit, AdmittedIsActive
  <2>2. QED BY <2>1, SessionInitInv, SerialInit DEF SessionInit
<1>2. Inv /\ [SessionNext]_<<vars, sessionVars>> => Inv'
  <2>1. [SessionNext]_<<vars, sessionVars>> => [Next]_vars
    BY DEF SessionNext, Administer, Authenticate, Find, Admit, Delete, Issue, Break, Logout,
       Expire, vars
  <2>2. SerialInv => ColumnsAgree
    BY DEF SerialInv
  <2>3. QED BY <2>1, <2>2, SessionStep, SerialStep, AdmittedStep
<1>3. Inv /\ [SessionNext]_<<vars, sessionVars>> =>
        [(\E t \in Tokens : token[t] # "live" /\ token'[t] = "live") =>
            \/ user[Holder].account_status = "active"
            \/ \E r \in Refreshes : refresh[r] # Idle /\ refresh[r].stale /\ refresh'[r] = Idle
        ]_<<vars, sessionVars>>
  <2> SUFFICES ASSUME Inv, SessionNext, NEW t \in Tokens, token[t] # "live", token'[t] = "live"
               PROVE  \/ user[Holder].account_status = "active"
                      \/ \E r \in Refreshes : refresh[r] # Idle /\ refresh[r].stale
                                              /\ refresh'[r] = Idle
    OBVIOUS
  <2>1. PICK r \in Refreshes, new \in Tokens : Issue(r, new)
    BY DEF SessionNext, Administer, Authenticate, Find, Admit, Delete, Break, Logout, Expire,
       SessionInv, SessionTypeOK
  <2>2. refresh[r] # Idle /\ refresh[r].phase = "deleted" /\ refresh'[r] = Idle
    BY <2>1, IdlePresentsNothing DEF Issue, SessionInv, SessionTypeOK, Idle
  <2>3. QED BY <2>2 DEF AdmittedIsActive
<1>4. QED BY <1>1, <1>2, <1>3, PTL DEF SessionSpec, IssuedToActive
=============================================================================
