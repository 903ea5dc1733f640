-------------------------- MODULE MembershipProofs --------------------------
(* Proofs about Membership, for every set of users and of platform admins,  *)
(* and about CaseTasks, for every set of users, task requests and slots.    *)
EXTENDS CaseTasks, FiniteSetTheorems, TLAPS

(* A new case has one member and an owner.                                  *)
LEMMA MembershipInitTypeOK == MembershipInit => MembershipTypeOK
  BY UsersAssumption DEF MembershipInit, MembershipTypeOK, MemberRoles, NotMember

(* Every request keeps roles and user references within their types.        *)
LEMMA MembershipNextTypeOK ==
    ASSUME MembershipTypeOK, [MembershipNext]_memberVars
    PROVE  MembershipTypeOK'
<1> USE DEF MembershipTypeOK, MemberRoles, NotMember
<1>1. ASSUME NEW u \in Users, NEW target \in Users, NEW r \in AddRoles,
             AddMember(u, target, r)
      PROVE  MembershipTypeOK'
  <2>1. PersistedRole(r) \in MemberRoles
    BY AddRolesAssumption DEF PersistedRole
  <2>2. QED BY <1>1, <2>1 DEF AddMember
<1>2. ASSUME NEW u \in Users, NEW target \in Users,
             NEW r \in MemberRoles \cup {NoRole}, NEW transfer \in BOOLEAN,
             UpdateMemberRole(u, target, r, transfer)
      PROVE  MembershipTypeOK'
  <2> DEFINE new == IF r = NoRole THEN role[target] ELSE r
  <2>1. new \in MemberRoles \cup {NotMember}
    OBVIOUS
  <2> HIDE DEF new
  <2>2. /\ role' \in [Users -> MemberRoles \cup {NotMember}]
        /\ ownerId' \in {ownerId, target}
        /\ reviewerId' = reviewerId
    BY <1>2, <2>1 DEF UpdateMemberRole, new
  <2>3. QED BY <2>2
<1>3. ASSUME NEW u \in Users, NEW target \in Users, RemoveMember(u, target)
      PROVE  MembershipTypeOK'
  BY <1>3 DEF RemoveMember
<1>4. ASSUME NEW u \in Users, NEW new \in Users \cup {NoUser},
             NEW assigned \in SUBSET Users, NEW watchers \in SUBSET Users,
             UpdateOwnership(u, new, assigned, watchers)
      PROVE  MembershipTypeOK'
  BY <1>4 DEF UpdateOwnership
<1>5. ASSUME NEW u \in Users, NEW new \in Users, CreateHandoff(u, new)
      PROVE  MembershipTypeOK'
  BY <1>5 DEF CreateHandoff
<1>6. ASSUME NEW u \in Users, NEW new \in Users, BulkAssignOwner(u, new)
      PROVE  MembershipTypeOK'
  BY <1>6 DEF BulkAssignOwner
<1>7. ASSUME NEW u \in Users, NEW r \in Users \cup {NoUser}, AssignReviewer(u, r)
      PROVE  MembershipTypeOK'
  BY <1>7 DEF AssignReviewer
<1>8. CASE UNCHANGED memberVars
  BY <1>8 DEF memberVars
<1>9. QED
  BY <1>1, <1>2, <1>3, <1>4, <1>5, <1>6, <1>7, <1>8, TransferRolesAssumption
     DEF MembershipNext, RosterStep, OwnershipStep

(* Type correctness of the membership rows.                                 *)
THEOREM MembershipTypeCorrect == MembershipSpec => []MembershipTypeOK
<1>1. QED BY MembershipInitTypeOK, MembershipNextTypeOK, PTL DEF MembershipSpec
-----------------------------------------------------------------------------
(* What any one request does to ownership, in the four forms the theorems   *)
(* below need.  The first three hold of every request the API accepts.      *)

OwnerDemotedStep == ownerId' # ownerId => ownerId \notin Owners'

LastOwnerStep == Owners' = {} /\ ownerId \in Owners => ownerId' # ownerId

SingleOwnerStep ==
    SingleOwner =>
        \/ SingleOwner'
        \/ ownerId' = ownerId /\ ownerId \in Owners'
        \/ ownerId' # ownerId /\ Owners' = {}

\* Clients as MembersPage.tsx: nobody is added as owner, and whoever a case is
\* transferred to is named owner in the same request.
GovernedClients == "owner" \notin AddRoles /\ TransferRoles \subseteq {"owner"}

(* The guard of removal and demotion leaves an owner besides the one it is  *)
(* asked about.                                                             *)
LEMMA NotLastOwnerLeavesOne ==
    ASSUME NotLastOwner, NEW u
    PROVE  \E o \in Owners : o # u
<1>1. SUFFICES ASSUME \A o \in Owners : o = u
               PROVE  FALSE
  OBVIOUS
<1>2. IsFiniteSet({u}) /\ Cardinality({u}) = 1
  BY FS_Singleton
<1>3. Owners \in SUBSET {u}
  BY <1>1
<1>4. Cardinality(Owners) <= 1 /\ IsFiniteSet(Owners)
  BY <1>2, <1>3, FS_Subset
<1>5. Cardinality(Owners) \in Nat
  BY <1>4, FS_CardinalityType
<1>6. QED BY <1>4, <1>5 DEF NotLastOwner

(* Changing a member's role: the one request in which the guard on the last *)
(* owner and the demotion of the others act together.                       *)
LEMMA UpdateMemberRoleOwnership ==
    ASSUME MembershipTypeOK, NEW u \in Users, NEW target \in Users,
           NEW r \in MemberRoles \cup {NoRole}, NEW transfer \in BOOLEAN,
           UpdateMemberRole(u, target, r, transfer)
    PROVE  /\ OwnerDemotedStep
           /\ LastOwnerStep
           /\ SingleOwnerStep
           /\ SingleOwner /\ (transfer => r = "owner") => SingleOwner'
<1> DEFINE new == IF r = NoRole THEN role[target] ELSE r
           moving == (transfer \/ new = "owner") /\ ownerId # target
<1> HIDE DEF new
<1>1. /\ role' = [v \in Users |->
                     IF v = target THEN new
                     ELSE IF moving /\ role[v] = "owner" THEN "analyst"
                     ELSE role[v]]
      /\ ownerId' = IF moving THEN target ELSE ownerId
      /\ role[target] = "owner" /\ new # "owner" => \E o \in Owners : o # target
  BY NotLastOwnerLeavesOne DEF UpdateMemberRole, new
<1>2. QED
  BY <1>1 DEF MembershipTypeOK, OwnerDemotedStep, LastOwnerStep, SingleOwnerStep,
              SingleOwner, Owners, NoRole, new

(* Adding a member disturbs single ownership only by adding an owner.       *)
LEMMA AddMemberOwnership ==
    ASSUME MembershipTypeOK, NEW u \in Users, NEW target \in Users,
           NEW r \in AddRoles, AddMember(u, target, r)
    PROVE  /\ OwnerDemotedStep
           /\ LastOwnerStep
           /\ SingleOwnerStep
           /\ SingleOwner /\ r # "owner" => SingleOwner'
<1>1. /\ role' = [role EXCEPT ![target] = PersistedRole(r)]
      /\ ownerId' = ownerId
      /\ role[target] = "none"
      /\ r # "owner" => PersistedRole(r) # "owner"
  BY DEF AddMember, IsMember, NotMember, PersistedRole
<1>2. QED
  BY <1>1 DEF MembershipTypeOK, OwnerDemotedStep, LastOwnerStep, SingleOwnerStep,
              SingleOwner, Owners

(* Removing a member never takes the last owner.                            *)
LEMMA RemoveMemberOwnership ==
    ASSUME MembershipTypeOK, NEW u \in Users, NEW target \in Users,
           RemoveMember(u, target)
    PROVE  /\ OwnerDemotedStep
           /\ LastOwnerStep
           /\ SingleOwnerStep
           /\ SingleOwner => SingleOwner'
<1>1. /\ role' = [role EXCEPT ![target] = NotMember]
      /\ ownerId' = ownerId
      /\ role[target] = "owner" => \E o \in Owners : o # target
  BY NotLastOwnerLeavesOne DEF RemoveMember
<1>2. QED
  BY <1>1 DEF MembershipTypeOK, OwnerDemotedStep, LastOwnerStep, SingleOwnerStep,
              SingleOwner, Owners, NotMember

(* The three requests that only ever move ownership as a whole.             *)
LEMMA OwnershipStepOwnership ==
    ASSUME MembershipTypeOK, NEW u \in Users, OwnershipStep(u)
    PROVE  /\ OwnerDemotedStep
           /\ LastOwnerStep
           /\ SingleOwnerStep
           /\ SingleOwner => SingleOwner'
<1> USE DEF MembershipTypeOK, OwnerDemotedStep, LastOwnerStep, SingleOwnerStep,
            SingleOwner, Owners
<1>1. ASSUME NEW new \in Users \cup {NoUser}, NEW assigned \in SUBSET Users,
             NEW watchers \in SUBSET Users, UpdateOwnership(u, new, assigned, watchers)
      PROVE  /\ OwnerDemotedStep
             /\ LastOwnerStep
             /\ SingleOwner => SingleOwner'
  BY <1>1 DEF UpdateOwnership
<1>2. ASSUME NEW new \in Users, CreateHandoff(u, new)
      PROVE  /\ OwnerDemotedStep
             /\ LastOwnerStep
             /\ SingleOwner => SingleOwner'
  BY <1>2 DEF CreateHandoff
<1>3. ASSUME NEW new \in Users, BulkAssignOwner(u, new)
      PROVE  /\ OwnerDemotedStep
             /\ LastOwnerStep
             /\ SingleOwner => SingleOwner'
  BY <1>3 DEF BulkAssignOwner, IsMember, NotMember
<1>4. QED BY <1>1, <1>2, <1>3 DEF OwnershipStep

(* Every request, and the stutter.                                          *)
LEMMA MembershipNextOwnership ==
    ASSUME MembershipTypeOK, [MembershipNext]_memberVars
    PROVE  /\ OwnerDemotedStep
           /\ LastOwnerStep
           /\ SingleOwnerStep
           /\ GovernedClients /\ SingleOwner => SingleOwner'
<1>1. ASSUME NEW u \in Users, RosterStep(u)
      PROVE  /\ OwnerDemotedStep
             /\ LastOwnerStep
             /\ SingleOwnerStep
             /\ GovernedClients /\ SingleOwner => SingleOwner'
  <2>1. CASE \E target \in Users, r \in AddRoles : AddMember(u, target, r)
    BY <2>1, AddMemberOwnership DEF GovernedClients
  <2>2. CASE \E target \in Users, r \in MemberRoles :
                 UpdateMemberRole(u, target, r, FALSE)
    BY <2>2, UpdateMemberRoleOwnership
  <2>3. CASE \E target \in Users, r \in TransferRoles :
                 UpdateMemberRole(u, target, r, TRUE)
    BY <2>3, UpdateMemberRoleOwnership, TransferRolesAssumption DEF GovernedClients
  <2>4. CASE \E target \in Users : RemoveMember(u, target)
    BY <2>4, RemoveMemberOwnership
  <2>5. QED BY <1>1, <2>1, <2>2, <2>3, <2>4 DEF RosterStep
<1>2. ASSUME UNCHANGED <<role, ownerId>>
      PROVE  /\ OwnerDemotedStep
             /\ LastOwnerStep
             /\ SingleOwnerStep
             /\ SingleOwner => SingleOwner'
  BY <1>2 DEF OwnerDemotedStep, LastOwnerStep, SingleOwnerStep, SingleOwner, Owners
<1>3. CASE \E u \in Users : OwnershipStep(u)
  BY <1>3, OwnershipStepOwnership
<1>4. CASE \E u \in Users, r \in Users \cup {NoUser} : AssignReviewer(u, r)
  BY <1>2, <1>4 DEF AssignReviewer
<1>5. CASE UNCHANGED memberVars
  BY <1>2, <1>5 DEF memberVars
<1>6. QED BY <1>1, <1>3, <1>4, <1>5 DEF MembershipNext
-----------------------------------------------------------------------------
(* Every transfer of ownership demotes the outgoing owner.                  *)
THEOREM OutgoingOwnerIsDemoted == MembershipSpec => OutgoingOwnerDemoted
<1>1. MembershipTypeOK /\ [MembershipNext]_memberVars => OwnerDemotedStep
  BY MembershipNextOwnership
<1>2. QED
  BY <1>1, MembershipTypeCorrect, PTL
     DEF MembershipSpec, OutgoingOwnerDemoted, OwnerDemotedStep

(* While owner_id names an owner row, a request that keeps owner_id keeps   *)
(* an owner.                                                                *)
THEOREM LastOwnerIsKept == MembershipSpec => LastOwnerKept
<1>1. MembershipTypeOK /\ [MembershipNext]_memberVars => LastOwnerStep
  BY MembershipNextOwnership
<1>2. QED
  BY <1>1, MembershipTypeCorrect, PTL DEF MembershipSpec, LastOwnerKept, LastOwnerStep

(* A single owner is lost in two ways only.                                 *)
THEOREM SingleOwnerIsLostOneOfTwoWays == MembershipSpec => SingleOwnerLostOneOfTwoWays
<1>1. MembershipTypeOK /\ [MembershipNext]_memberVars => SingleOwnerStep
  BY MembershipNextOwnership
<1>2. QED
  BY <1>1, MembershipTypeCorrect, PTL
     DEF MembershipSpec, SingleOwnerLostOneOfTwoWays, SingleOwnerStep

(* With the clients the product ships, a case always has exactly the owner  *)
(* owner_id names, for any number of users; in particular the ownerless     *)
(* case of the run membership_ownerless cannot arise.                       *)
THEOREM GovernedCasesHaveOneOwner ==
    ASSUME GovernedClients
    PROVE  MembershipSpec => []SingleOwner
<1>1. MembershipInit => SingleOwner
  BY DEF MembershipInit, SingleOwner, Owners, NotMember
<1>2. MembershipTypeOK /\ SingleOwner /\ [MembershipNext]_memberVars => SingleOwner'
  BY MembershipNextOwnership, GovernedClients
<1>3. QED BY <1>1, <1>2, MembershipTypeCorrect, PTL DEF MembershipSpec
-----------------------------------------------------------------------------
(* Task requests beside the membership requests.                            *)

Stamped(t) == t.status = "completed" <=> t.done = "yes"

\* What a task request in flight may rely on until it is overtaken.
KnowsTask(r) ==
    LET q == edit[r]
    IN  q # NoEdit =>
          /\ "members" \notin q.late /\ q.write.assignee \in Users =>
                IsMember(q.write.assignee)
          /\ q.kind = "create" => Stamped(q.write)
          /\ q.kind = "patch" =>
                /\ task # NoTask
                /\ "task" \notin q.late \cup overtook => Stamped(AfterWrite(task, q.write))

TasksInv ==
    /\ MembershipTypeOK
    /\ TasksTypeOK
    /\ CompletionIsStamped
    /\ AssigneeIsTold
    /\ \A r \in EditSlots : KnowsTask(r)

(* The kinds of values do not overlap.                                      *)
LEMMA TaskKinds ==
    /\ NoTask \notin Tasks
    /\ NoEdit \notin Creates \cup Edits
    /\ NoUser \notin Users
    /\ Unset \notin TaskStatuses \cup {"yes", "no", NoUser} \cup Users
  BY UsersAssumption, PatchesAssumption
     DEF NoTask, Tasks, TaskStatuses, NoEdit, Creates, Edits

(* What update_task writes, by columns.                                     *)
LEMMA PatchedColumns ==
    ASSUME NEW t \in Tasks, NEW p \in Patches
    PROVE  /\ Patched(t, p) \in TaskWrites
           /\ Patched(t, p).assignee \in {p.assignee, Unset}
           /\ Stamped(t) => Stamped(AfterWrite(t, Patched(t, p)))
<1> DEFINE w == Patched(t, p)
<1>1. /\ w.status = IF p.status = t.status THEN Unset ELSE p.status
      /\ w.done = IF p.status = Unset THEN Unset
                  ELSE IF p.status = "completed" THEN "yes"
                  ELSE IF t.done = "no" THEN Unset ELSE "no"
      /\ w.assignee = IF p.assignee = t.assignee THEN Unset ELSE p.assignee
      /\ w.archived = IF p.archived = "yes" THEN "yes"
                      ELSE IF p.archived = t.archived THEN Unset ELSE p.archived
      /\ w = [status |-> w.status, done |-> w.done, assignee |-> w.assignee,
              archived |-> w.archived]
  BY TaskKinds DEF Patched, TaskStatuses
<1>2. w \in TaskWrites
  BY <1>1 DEF TaskWrites, Patches
<1>3. /\ AfterWrite(t, w).status = Given(t.status, w.status)
      /\ AfterWrite(t, w).done = Given(t.done, w.done)
  BY DEF AfterWrite, Tasks
<1>4. Stamped(t) => Stamped(AfterWrite(t, w))
  BY <1>1, <1>3, TaskKinds DEF Stamped, Given, Tasks, Patches, TaskStatuses
<1>5. QED BY <1>1, <1>2, <1>4

(* Columns are merged column by column.                                     *)
LEMMA AfterWriteColumns ==
    ASSUME NEW t \in Tasks, NEW w \in TaskWrites
    PROVE  /\ AfterWrite(t, w) \in Tasks
           /\ AfterWrite(t, w).assignee = Given(t.assignee, w.assignee)
  BY DEF AfterWrite, Given, Tasks, TaskWrites

LEMMA TasksInitInv == TasksInit => TasksInv
  BY MembershipInitTypeOK
     DEF TasksInit, TasksInv, TasksTypeOK, CompletionIsStamped, AssigneeIsTold, KnowsTask

(* A request that is received knows what it has just read.                  *)
LEMMA ReceiveInv ==
    ASSUME TasksInv, NEW r \in EditSlots, NEW q \in Creates \cup Edits,
           Receive(r, q),
           q.late = {},
           q.write.assignee \in Users => IsMember(q.write.assignee),
           q.kind = "create" => Stamped(q.write),
           q.kind = "patch" =>
               /\ task # NoTask
               /\ "task" \notin overtook => Stamped(AfterWrite(task, q.write))
    PROVE  TasksInv'
<1>1. UNCHANGED <<role, ownerId, reviewerId, task, told, overtook>>
  BY DEF Receive, memberVars
<1>2. edit' = [edit EXCEPT ![r] = q]
  BY DEF Receive
<1>3. MembershipTypeOK' /\ TasksTypeOK'
  BY <1>1, <1>2 DEF TasksInv, TasksTypeOK, MembershipTypeOK
<1>4. CompletionIsStamped' /\ AssigneeIsTold'
  BY <1>1 DEF TasksInv, CompletionIsStamped, AssigneeIsTold
<1>5. ASSUME NEW o \in EditSlots
      PROVE  KnowsTask(o)'
  <2>1. CASE o = r
    BY <1>1, <1>2, <2>1 DEF KnowsTask, TasksInv, TasksTypeOK, IsMember
  <2>2. CASE o # r
    BY <1>1, <1>2, <2>2 DEF KnowsTask, TasksInv, TasksTypeOK, IsMember
  <2>3. QED BY <2>1, <2>2
<1>6. QED BY <1>3, <1>4, <1>5 DEF TasksInv

LEMMA CreateTaskInv ==
    ASSUME TasksInv, NEW r \in EditSlots, NEW u \in Users, NEW n \in NewTasks,
           CreateTask(r, u, n)
    PROVE  TasksInv'
<1> DEFINE q == [kind |-> "create", write |-> NewTask(u, n), late |-> {}]
<1>1. n.status \in TaskStatuses /\ n.assignee \in Users \cup {NoUser}
  BY PatchesAssumption
<1>2. NewTask(u, n) \in Tasks /\ Stamped(NewTask(u, n)) /\ NewTask(u, n).assignee = n.assignee
  BY <1>1 DEF NewTask, Tasks, Stamped
<1>3. q \in Creates
  BY <1>2 DEF Creates
<1>4. Receive(r, q) /\ (n.assignee \in Users => IsMember(n.assignee))
  BY TaskKinds DEF CreateTask, MayCreate, Assignable
<1> HIDE DEF q
<1>5. q.kind = "create" /\ q.late = {} /\ q.write = NewTask(u, n)
  BY DEF q
<1>6. QED BY <1>2, <1>3, <1>4, <1>5, ReceiveInv

LEMMA UpdateTaskInv ==
    ASSUME TasksInv, NEW r \in EditSlots, NEW u \in Users, NEW p \in TaskPatches,
           UpdateTask(r, u, p)
    PROVE  TasksInv'
<1> DEFINE w == Patched(task, p)
           q == [kind |-> "patch", write |-> w, late |-> {}]
<1>1. task \in Tasks /\ task # NoTask /\ p \in Patches
  BY PatchesAssumption DEF UpdateTask, MayPatch, TasksInv, TasksTypeOK
<1>2. /\ w \in TaskWrites
      /\ w.assignee \in {p.assignee, Unset}
      /\ Stamped(task) => Stamped(AfterWrite(task, w))
  BY <1>1, PatchedColumns
<1>3. /\ p.assignee # Unset => Assignable(p.assignee)
      /\ Receive(r, q)
  BY DEF UpdateTask, MayPatch
<1> HIDE DEF w
<1>4. w.assignee \in Users => IsMember(w.assignee)
  BY <1>2, <1>3, TaskKinds DEF Assignable
<1>5. "task" \notin overtook => Stamped(AfterWrite(task, w))
  BY <1>1, <1>2 DEF TasksInv, CompletionIsStamped, Stamped
<1>6. q \in Edits
  BY <1>2 DEF Edits
<1> HIDE DEF q
<1>7. q.kind = "patch" /\ q.late = {} /\ q.write = w
  BY DEF q
<1>8. QED BY <1>1, <1>3, <1>4, <1>5, <1>6, <1>7, ReceiveInv

LEMMA DeleteTaskInv ==
    ASSUME TasksInv, NEW r \in EditSlots, NEW u \in Users, DeleteTask(r, u)
    PROVE  TasksInv'
<1> DEFINE w == Patched(task, Archiving)
           q == [kind |-> "patch", write |-> w, late |-> {}]
<1>1. /\ task \in Tasks /\ task # NoTask
      /\ Archiving \in Patches /\ Archiving.assignee = Unset
  BY DEF DeleteTask, MayArchive, Archiving, TasksInv, TasksTypeOK, Patches
<1>2. /\ w \in TaskWrites /\ w.assignee = Unset
      /\ Stamped(task) => Stamped(AfterWrite(task, w))
  BY <1>1, PatchedColumns
<1>3. Receive(r, q)
  BY DEF DeleteTask
<1> HIDE DEF w
<1>4. "task" \notin overtook => Stamped(AfterWrite(task, w))
  BY <1>1, <1>2 DEF TasksInv, CompletionIsStamped, Stamped
<1>5. q \in Edits
  BY <1>2 DEF Edits
<1> HIDE DEF q
<1>6. /\ q.kind = "patch" /\ q.late = {} /\ q.write = w
  BY DEF q
<1>7. QED BY <1>1, <1>2, <1>3, <1>4, <1>5, <1>6, TaskKinds, ReceiveInv

(* A commit either writes what its request knows, or is on record as        *)
(* overtaken; it overtakes the others when it changes the task.             *)
LEMMA CommitTaskInv ==
    ASSUME TasksInv, NEW r \in EditSlots, CommitTask(r)
    PROVE  TasksInv'
<1> DEFINE q == edit[r]
<1> USE TaskKinds
<1>1. /\ q \in Creates \cup Edits
      /\ KnowsTask(r)
      /\ q.kind = "create" => q \in Creates
      /\ q.kind # "create" => q \in Edits /\ q.kind = "patch" /\ task \in Tasks
  BY DEF CommitTask, TasksInv, TasksTypeOK, Creates, Edits
<1>2. /\ task' = IF q.kind = "create" THEN q.write ELSE AfterWrite(task, q.write)
      /\ told' = told \cup AlertFor(q.write.assignee)
      /\ overtook' = overtook \cup q.late
      /\ UNCHANGED <<role, ownerId, reviewerId>>
  BY DEF CommitTask, memberVars
<1>3. edit' = [o \in EditSlots |->
                 IF o = r THEN NoEdit
                 ELSE IF edit[o] # NoEdit /\ task' # task
                 THEN [edit[o] EXCEPT !.late = @ \cup {"task"}]
                 ELSE edit[o]]
  BY DEF CommitTask
<1>4. task' \in Tasks
  <2>1. CASE q.kind = "create"
    BY <1>1, <1>2, <2>1 DEF Creates
  <2>2. CASE q.kind # "create"
    BY <1>1, <1>2, <2>2, AfterWriteColumns DEF Edits
  <2>3. QED BY <2>1, <2>2
<1>5. MembershipTypeOK' /\ TasksTypeOK'
  <2>1. told' \subseteq Users /\ overtook' \subseteq {"task", "members"}
    BY <1>1, <1>2 DEF TasksInv, TasksTypeOK, Creates, Edits, Tasks, TaskWrites, AlertFor
  <2>2. ASSUME NEW o \in EditSlots
        PROVE  edit'[o] \in {NoEdit} \cup Creates \cup Edits
    BY <1>3 DEF TasksInv, TasksTypeOK, Creates, Edits
  <2>3. QED BY <1>2, <1>3, <1>4, <2>1, <2>2 DEF TasksInv, TasksTypeOK, MembershipTypeOK
<1>6. CompletionIsStamped'
  <2>1. CASE q.kind = "create"
    BY <1>1, <1>2, <2>1 DEF KnowsTask, CompletionIsStamped, Stamped
  <2>2. CASE q.kind # "create"
    BY <1>1, <1>2, <2>2 DEF KnowsTask, CompletionIsStamped, Stamped
  <2>3. QED BY <2>1, <2>2
<1>7. AssigneeIsTold'
  <2>1. CASE q.kind = "create"
    BY <1>1, <1>2, <1>4, <2>1 DEF AlertFor, AssigneeIsTold, Tasks
  <2>2. CASE q.kind # "create"
    <3>1. task'.assignee = Given(task.assignee, q.write.assignee)
      BY <1>1, <1>2, <2>2, AfterWriteColumns DEF Edits
    <3>2. QED BY <1>1, <1>2, <1>4, <2>2, <3>1
             DEF AlertFor, AssigneeIsTold, Given, Tasks, TasksInv
  <2>3. QED BY <2>1, <2>2
<1>8. ASSUME NEW o \in EditSlots, edit'[o] # NoEdit
      PROVE  KnowsTask(o)'
  <2>1. /\ o # r /\ edit[o] # NoEdit
        /\ edit[o] \in Creates \cup Edits
        /\ KnowsTask(o)
    BY <1>3, <1>8 DEF TasksInv, TasksTypeOK
  <2>2. CASE task' # task
    <3>1. edit'[o] = [edit[o] EXCEPT !.late = @ \cup {"task"}]
      BY <1>3, <2>1, <2>2
    <3>2. /\ edit'[o].write = edit[o].write
          /\ edit'[o].kind = edit[o].kind /\ edit'[o].late = edit[o].late \cup {"task"}
      BY <2>1, <3>1 DEF Creates, Edits
    <3>3. QED BY <1>2, <1>4, <2>1, <3>2 DEF KnowsTask, IsMember
  <2>3. CASE task' = task
    BY <1>2, <1>3, <2>1, <2>3 DEF KnowsTask, IsMember
  <2>4. QED BY <2>2, <2>3
<1>9. \A o \in EditSlots : KnowsTask(o)'
  BY <1>8 DEF KnowsTask
<1>10. QED BY <1>5, <1>6, <1>7, <1>9 DEF TasksInv

LEMMA AbortTaskInv ==
    ASSUME TasksInv, NEW r \in EditSlots, AbortTask(r)
    PROVE  TasksInv'
<1>1. /\ UNCHANGED <<role, ownerId, reviewerId, task, told, overtook>>
      /\ edit' = [edit EXCEPT ![r] = NoEdit]
  BY DEF AbortTask, memberVars
<1>2. MembershipTypeOK' /\ TasksTypeOK' /\ CompletionIsStamped' /\ AssigneeIsTold'
  BY <1>1 DEF TasksInv, TasksTypeOK, MembershipTypeOK, CompletionIsStamped, AssigneeIsTold
<1>3. ASSUME NEW o \in EditSlots
      PROVE  KnowsTask(o)'
  BY <1>1 DEF KnowsTask, TasksInv, TasksTypeOK, IsMember
<1>4. QED BY <1>2, <1>3 DEF TasksInv

(* A membership request leaves the task alone and overtakes every task      *)
(* request when it changes the roster.                                      *)
LEMMA MembersChangeInv ==
    ASSUME TasksInv, MembersChange
    PROVE  TasksInv'
<1>1. MembershipTypeOK'
  BY MembershipNextTypeOK DEF TasksInv, MembersChange
<1>2. /\ UNCHANGED <<task, told, overtook>>
      /\ edit' = [r \in EditSlots |->
                    IF edit[r] # NoEdit /\ role' # role
                    THEN [edit[r] EXCEPT !.late = @ \cup {"members"}]
                    ELSE edit[r]]
  BY DEF MembersChange
<1>3. ASSUME NEW o \in EditSlots
      PROVE  edit'[o] \in {NoEdit} \cup Creates \cup Edits
  BY <1>2, TaskKinds DEF TasksInv, TasksTypeOK, Creates, Edits
<1>4. TasksTypeOK' /\ CompletionIsStamped' /\ AssigneeIsTold'
  BY <1>2, <1>3 DEF TasksInv, TasksTypeOK, CompletionIsStamped, AssigneeIsTold
<1>5. ASSUME NEW o \in EditSlots, edit'[o] # NoEdit
      PROVE  KnowsTask(o)'
  <2>1. /\ edit[o] # NoEdit /\ edit[o] \in Creates \cup Edits /\ KnowsTask(o)
    BY <1>2, <1>5 DEF TasksInv, TasksTypeOK
  <2>2. CASE role' # role
    <3>1. edit'[o] = [edit[o] EXCEPT !.late = @ \cup {"members"}]
      BY <1>2, <2>1, <2>2
    <3>2. /\ edit'[o].write = edit[o].write
          /\ edit'[o].kind = edit[o].kind /\ edit'[o].late = edit[o].late \cup {"members"}
      BY <2>1, <3>1 DEF Creates, Edits
    <3>3. QED BY <1>2, <2>1, <3>2 DEF KnowsTask
  <2>3. CASE role' = role
    BY <1>2, <2>1, <2>3 DEF KnowsTask, IsMember
  <2>4. QED BY <2>2, <2>3
<1>6. \A o \in EditSlots : KnowsTask(o)'
  BY <1>5 DEF KnowsTask
<1>7. QED BY <1>1, <1>4, <1>6 DEF TasksInv

LEMMA TasksNextInv ==
    ASSUME TasksInv, [TasksNext]_taskVars
    PROVE  TasksInv'
<1>1. CASE UNCHANGED taskVars
  BY <1>1 DEF taskVars, memberVars, TasksInv, TasksTypeOK, MembershipTypeOK,
              CompletionIsStamped, AssigneeIsTold, KnowsTask, IsMember
<1>2. QED
  BY <1>1, MembersChangeInv, CreateTaskInv, UpdateTaskInv, DeleteTaskInv,
     CommitTaskInv, AbortTaskInv DEF TasksNext
-----------------------------------------------------------------------------
(* The inductive invariant, in every state however the requests overlap.    *)
THEOREM TasksInvariant == TasksSpec => []TasksInv
<1>1. QED BY TasksInitInv, TasksNextInv, PTL DEF TasksSpec

(* The tasks' requests leave the rows of Membership alone: every theorem    *)
(* about MembershipSpec above is one about TasksSpec.                       *)
THEOREM TasksImplementMembership == TasksSpec => MembershipSpec
<1>1. TasksInit => MembershipInit
  BY DEF TasksInit
<1>2. [TasksNext]_taskVars => [MembershipNext]_memberVars
  BY DEF TasksNext, taskVars, MembersChange, CreateTask, UpdateTask, DeleteTask, Receive,
         CommitTask, AbortTask
<1>3. QED BY <1>1, <1>2, PTL DEF TasksSpec, MembershipSpec

(* Completion and its time agree, but for a request that was overtaken.     *)
THEOREM TaskCompletionIsStamped == TasksSpec => []CompletionIsStamped
<1>1. TasksInv => CompletionIsStamped
  BY DEF TasksInv
<1>2. QED BY <1>1, TasksInvariant, PTL

(* Whoever has a task has been told.                                        *)
THEOREM AssigneesAreTold == TasksSpec => []AssigneeIsTold
<1>1. TasksInv => AssigneeIsTold
  BY DEF TasksInv
<1>2. QED BY <1>1, TasksInvariant, PTL

(* Only a commit changes the task, and it is its request's.                 *)
LEMMA TaskChangesByCommit ==
    ASSUME [TasksNext]_taskVars, task' # task
    PROVE  \E r \in EditSlots : CommitTask(r)
  BY DEF TasksNext, taskVars, MembersChange, CreateTask, UpdateTask, DeleteTask, Receive,
         AbortTask

(* A task is given to members, but for a roster that changed under way.     *)
THEOREM TasksGoToMembers == TasksSpec => GivenToMembers
<1> DEFINE Given1 == task' # task /\ (task # NoTask => task'.assignee # task.assignee) =>
                        \/ task'.assignee = NoUser \/ IsMember(task'.assignee)
                        \/ "members" \in overtook'
<1>1. TasksInv /\ [TasksNext]_taskVars => Given1
  <2>1. SUFFICES ASSUME TasksInv, [TasksNext]_taskVars, task' # task,
                        task # NoTask => task'.assignee # task.assignee
                 PROVE  \/ task'.assignee = NoUser \/ IsMember(task'.assignee)
                        \/ "members" \in overtook'
    OBVIOUS
  <2>2. PICK r \in EditSlots : CommitTask(r)
    BY <2>1, TaskChangesByCommit
  <2>3. /\ edit[r] # NoEdit /\ KnowsTask(r)
        /\ overtook' = overtook \cup edit[r].late
    BY <2>1, <2>2 DEF CommitTask, TasksInv
  <2>4. CASE edit[r].kind = "create"
    <3>1. edit[r] \in Creates /\ task' = edit[r].write
      BY <2>1, <2>2, <2>4 DEF CommitTask, TasksInv, TasksTypeOK, Creates, Edits
    <3>2. QED BY <2>3, <3>1 DEF KnowsTask, Creates, Tasks, IsMember
  <2>5. CASE edit[r].kind # "create"
    <3>1. /\ edit[r] \in Edits /\ task \in Tasks /\ task # NoTask
          /\ task' = AfterWrite(task, edit[r].write)
      BY <2>1, <2>2, <2>5 DEF CommitTask, TasksInv, TasksTypeOK, Creates, Edits
    <3>2. task'.assignee = Given(task.assignee, edit[r].write.assignee)
      BY <3>1, AfterWriteColumns DEF Edits
    <3>3. QED BY <2>1, <2>3, <3>1, <3>2 DEF KnowsTask, Given, Edits, TaskWrites, IsMember
  <2>6. QED BY <2>4, <2>5
<1>2. QED BY <1>1, TasksInvariant, PTL DEF TasksSpec, GivenToMembers

\* What a request in flight asks for is what its handler allows and makes of
\* the task as it is.
Asks(q) ==
    \E u \in Users :
        \/ \E n \in NewTasks :
              q.kind = "create" /\ MayCreate(u, n) /\ q.write = NewTask(u, n)
        \/ \E p \in TaskPatches :
              q.kind = "patch" /\ MayPatch(u, p) /\ q.write = Patched(task, p)
        \/ q.kind = "patch" /\ MayArchive(u) /\ q.write = Patched(task, Archiving)

AsksInv == \A r \in EditSlots : edit[r] # NoEdit /\ edit[r].late = {} => Asks(edit[r])

AtomicTaskStep ==
    \/ HandlerStep
    \/ \E r \in EditSlots : Overtaken(r) /\ edit'[r] = NoEdit
    \/ UNCHANGED <<task, told>>

(* The next state's requests, one value at a time.                          *)
LEMMA AsksByValue ==
    ASSUME \A o \in EditSlots : \A q :
               q = edit'[o] /\ q # NoEdit => (q.late = {} => Asks(q)')
    PROVE  AsksInv'
  BY DEF AsksInv, Asks

(* A request may ask for the same as long as task and roster stay.          *)
LEMMA AsksStands ==
    ASSUME NEW q, task' = task, role' = role, Asks(q)
    PROVE  Asks(q)'
<1>1. ASSUME NEW u, NEW n, MayCreate(u, n) PROVE MayCreate(u, n)'
  BY <1>1 DEF MayCreate, HasRole, Assignable, IsMember
<1>2. ASSUME NEW u, NEW p, MayPatch(u, p) PROVE MayPatch(u, p)'
  BY <1>2 DEF MayPatch, MayUpdateTask, HasRole, Assignable, IsMember
<1>3. ASSUME NEW u, MayArchive(u) PROVE MayArchive(u)'
  BY <1>3 DEF MayArchive, MayDeleteTask, HasRole
<1>4. PICK u \in Users :
        \/ \E n \in NewTasks :
              q.kind = "create" /\ MayCreate(u, n) /\ q.write = NewTask(u, n)
        \/ \E p \in TaskPatches :
              q.kind = "patch" /\ MayPatch(u, p) /\ q.write = Patched(task, p)
        \/ q.kind = "patch" /\ MayArchive(u) /\ q.write = Patched(task, Archiving)
  BY DEF Asks
<1>5. \/ \E n \in NewTasks :
            q.kind = "create" /\ MayCreate(u, n)' /\ q.write = NewTask(u, n)
      \/ \E p \in TaskPatches :
            q.kind = "patch" /\ MayPatch(u, p)' /\ q.write = Patched(task', p)
      \/ q.kind = "patch" /\ MayArchive(u)' /\ q.write = Patched(task', Archiving)
  BY <1>1, <1>2, <1>3, <1>4
<1>6. QED BY <1>5 DEF Asks

(* A request that is received asks for what its handler has just allowed.   *)
LEMMA ReceiveAsks ==
    ASSUME TasksInv, AsksInv, NEW r \in EditSlots, NEW q, Receive(r, q), Asks(q)
    PROVE  AsksInv' /\ AtomicTaskStep
<1>1. /\ UNCHANGED <<role, task, told>>
      /\ edit' = [edit EXCEPT ![r] = q]
      /\ edit \in [EditSlots -> {NoEdit} \cup Creates \cup Edits]
  BY DEF Receive, memberVars, TasksInv, TasksTypeOK
<1>2. ASSUME NEW o \in EditSlots, NEW x, x = edit'[o], x # NoEdit
      PROVE  x.late = {} => Asks(x)'
  <2>1. x.late = {} => Asks(x)
    BY <1>1, <1>2 DEF AsksInv
  <2>2. QED BY <1>1, <2>1, AsksStands
<1>3. QED BY <1>1, <1>2, AsksByValue DEF AtomicTaskStep

LEMMA CreateTaskAsks ==
    ASSUME TasksInv, AsksInv, NEW r \in EditSlots, NEW u \in Users, NEW n \in NewTasks,
           CreateTask(r, u, n)
    PROVE  AsksInv' /\ AtomicTaskStep
<1> DEFINE q == [kind |-> "create", write |-> NewTask(u, n), late |-> {}]
<1>1. Asks(q)
  BY DEF Asks, CreateTask
<1>2. QED BY <1>1, ReceiveAsks DEF CreateTask

LEMMA UpdateTaskAsks ==
    ASSUME TasksInv, AsksInv, NEW r \in EditSlots, NEW u \in Users, NEW p \in TaskPatches,
           UpdateTask(r, u, p)
    PROVE  AsksInv' /\ AtomicTaskStep
<1> DEFINE q == [kind |-> "patch", write |-> Patched(task, p), late |-> {}]
<1>1. Asks(q)
  BY DEF Asks, UpdateTask
<1>2. QED BY <1>1, ReceiveAsks DEF UpdateTask

LEMMA DeleteTaskAsks ==
    ASSUME TasksInv, AsksInv, NEW r \in EditSlots, NEW u \in Users, DeleteTask(r, u)
    PROVE  AsksInv' /\ AtomicTaskStep
<1> DEFINE q == [kind |-> "patch", write |-> Patched(task, Archiving), late |-> {}]
<1>1. Asks(q)
  BY DEF Asks, DeleteTask
<1>2. QED BY <1>1, ReceiveAsks DEF DeleteTask

(* A commit that was not overtaken is its handler at this moment.           *)
LEMMA CommitIsHandler ==
    ASSUME TasksInv, AsksInv, NEW r \in EditSlots, CommitTask(r), edit[r].late = {}
    PROVE  HandlerStep
<1> DEFINE q == edit[r]
<1>1. /\ task' = IF q.kind = "create" THEN q.write ELSE AfterWrite(task, q.write)
      /\ told' = told \cup AlertFor(q.write.assignee)
      /\ Asks(q)
  BY DEF CommitTask, AsksInv
<1>2. PICK u \in Users :
        \/ \E n \in NewTasks :
              q.kind = "create" /\ MayCreate(u, n) /\ q.write = NewTask(u, n)
        \/ \E p \in TaskPatches :
              q.kind = "patch" /\ MayPatch(u, p) /\ q.write = Patched(task, p)
        \/ q.kind = "patch" /\ MayArchive(u) /\ q.write = Patched(task, Archiving)
  BY <1>1 DEF Asks
<1> HIDE DEF q
<1>3. ASSUME NEW n \in NewTasks, q.kind = "create", MayCreate(u, n), q.write = NewTask(u, n)
      PROVE  HandlerStep
  <2>1. q.write.assignee = n.assignee
    BY <1>3 DEF NewTask
  <2>2. task' = NewTask(u, n) /\ told' = told \cup AlertFor(n.assignee)
    BY <1>1, <1>3, <2>1
  <2>3. QED BY <1>3, <2>2 DEF HandlerStep
<1>4. ASSUME NEW p \in TaskPatches, q.kind = "patch", MayPatch(u, p),
             q.write = Patched(task, p)
      PROVE  HandlerStep
  <2>1. /\ task' = AfterWrite(task, Patched(task, p))
        /\ told' = told \cup AlertFor(Patched(task, p).assignee)
    BY <1>1, <1>4
  <2>2. QED BY <1>4, <2>1 DEF HandlerStep
<1>5. ASSUME q.kind = "patch", MayArchive(u), q.write = Patched(task, Archiving)
      PROVE  HandlerStep
  <2>1. task \in Tasks /\ Archiving \in Patches /\ Archiving.assignee = Unset
    BY <1>5 DEF MayArchive, Archiving, TasksInv, TasksTypeOK, Patches
  <2>2. AlertFor(q.write.assignee) = {}
    BY <1>5, <2>1, PatchedColumns DEF AlertFor
  <2>3. task' = AfterWrite(task, Patched(task, Archiving)) /\ told' = told
    BY <1>1, <1>5, <2>2
  <2>4. QED BY <1>5, <2>3 DEF HandlerStep
<1>6. QED BY <1>2, <1>3, <1>4, <1>5

(* A commit that changes the task overtakes every other request on it.      *)
LEMMA CommitTaskAsks ==
    ASSUME TasksInv, AsksInv, NEW r \in EditSlots, CommitTask(r)
    PROVE  AsksInv' /\ AtomicTaskStep
<1>1. /\ edit[r] # NoEdit /\ edit'[r] = NoEdit
      /\ role' = role
      /\ edit' = [o \in EditSlots |->
                    IF o = r THEN NoEdit
                    ELSE IF edit[o] # NoEdit /\ task' # task
                    THEN [edit[o] EXCEPT !.late = @ \cup {"task"}]
                    ELSE edit[o]]
  BY DEF CommitTask, memberVars
<1>2. edit \in [EditSlots -> {NoEdit} \cup Creates \cup Edits]
  BY DEF TasksInv, TasksTypeOK
<1>3. AtomicTaskStep
  BY <1>1, CommitIsHandler DEF AtomicTaskStep, Overtaken
<1>4. ASSUME NEW o \in EditSlots, NEW q, q = edit'[o], q # NoEdit
      PROVE  q.late = {} => Asks(q)'
  <2>1. /\ o # r /\ edit[o] # NoEdit
        /\ edit[o] \in Creates \cup Edits
        /\ edit[o].late = {} => Asks(edit[o])
    BY <1>1, <1>2, <1>4 DEF AsksInv
  <2>2. CASE task' # task
    <3>1. q = [edit[o] EXCEPT !.late = @ \cup {"task"}]
      BY <1>1, <1>4, <2>1, <2>2
    <3>2. QED BY <2>1, <3>1 DEF Creates, Edits
  <2>3. CASE task' = task
    <3>1. q = edit[o]
      BY <1>1, <1>4, <2>1, <2>3
    <3>2. QED BY <1>1, <2>1, <2>3, <3>1, AsksStands
  <2>4. QED BY <2>2, <2>3
<1>5. QED BY <1>3, <1>4, AsksByValue

LEMMA AbortTaskAsks ==
    ASSUME TasksInv, AsksInv, NEW r \in EditSlots, AbortTask(r)
    PROVE  AsksInv' /\ AtomicTaskStep
<1>1. /\ UNCHANGED <<role, task, told>>
      /\ edit' = [edit EXCEPT ![r] = NoEdit]
      /\ edit \in [EditSlots -> {NoEdit} \cup Creates \cup Edits]
  BY DEF AbortTask, memberVars, TasksInv, TasksTypeOK
<1>2. ASSUME NEW o \in EditSlots, NEW q, q = edit'[o], q # NoEdit
      PROVE  q.late = {} => Asks(q)'
  <2>1. q.late = {} => Asks(q)
    BY <1>1, <1>2 DEF AsksInv
  <2>2. QED BY <1>1, <2>1, AsksStands
<1>3. QED BY <1>1, <1>2, AsksByValue DEF AtomicTaskStep

(* A change of the roster overtakes every task request that had read it.    *)
LEMMA MembersChangeAsks ==
    ASSUME TasksInv, AsksInv, MembersChange
    PROVE  AsksInv' /\ AtomicTaskStep
<1>1. /\ UNCHANGED <<task, told>>
      /\ edit' = [r \in EditSlots |->
                    IF edit[r] # NoEdit /\ role' # role
                    THEN [edit[r] EXCEPT !.late = @ \cup {"members"}]
                    ELSE edit[r]]
      /\ edit \in [EditSlots -> {NoEdit} \cup Creates \cup Edits]
  BY DEF MembersChange, TasksInv, TasksTypeOK
<1>2. ASSUME NEW o \in EditSlots, NEW q, q = edit'[o], q # NoEdit
      PROVE  q.late = {} => Asks(q)'
  <2>1. /\ edit[o] # NoEdit /\ edit[o] \in Creates \cup Edits
        /\ edit[o].late = {} => Asks(edit[o])
    BY <1>1, <1>2 DEF AsksInv
  <2>2. CASE role' # role
    <3>1. q = [edit[o] EXCEPT !.late = @ \cup {"members"}]
      BY <1>1, <1>2, <2>1, <2>2
    <3>2. QED BY <2>1, <3>1 DEF Creates, Edits
  <2>3. CASE role' = role
    <3>1. q = edit[o]
      BY <1>1, <1>2, <2>1, <2>3
    <3>2. QED BY <1>1, <2>1, <2>3, <3>1, AsksStands
  <2>4. QED BY <2>2, <2>3
<1>3. QED BY <1>1, <1>2, AsksByValue DEF AtomicTaskStep

LEMMA AsksStep ==
    ASSUME TasksInv, AsksInv, [TasksNext]_taskVars
    PROVE  AsksInv' /\ AtomicTaskStep
<1>1. ASSUME UNCHANGED taskVars
      PROVE  AsksInv' /\ AtomicTaskStep
  <2>1. UNCHANGED <<role, task, told, edit>>
    BY <1>1 DEF taskVars, memberVars
  <2>2. ASSUME NEW o \in EditSlots, NEW q, q = edit'[o], q # NoEdit
        PROVE  q.late = {} => Asks(q)'
    BY <2>1, <2>2, AsksStands DEF AsksInv
  <2>3. QED BY <2>1, <2>2, AsksByValue DEF AtomicTaskStep
<1>2. QED
  BY <1>1, MembersChangeAsks, CreateTaskAsks, UpdateTaskAsks, DeleteTaskAsks,
     CommitTaskAsks, AbortTaskAsks DEF TasksNext

(* Overlapping task requests are the task handlers one after another, each  *)
(* with the permission and the assignee's membership as they are when it    *)
(* commits, save for requests that were overtaken (case_management.py).     *)
THEOREM TaskRequestsAreAtomic == TasksSpec => AtomicUnlessOvertaken
<1>1. TasksInit => AsksInv
  BY DEF TasksInit, AsksInv
<1>2. TasksInv /\ AsksInv /\ [TasksNext]_taskVars =>
        /\ AsksInv'
        /\ [HandlerStep \/ \E r \in EditSlots : Overtaken(r) /\ edit'[r] = NoEdit
            ]_<<task, told>>
  BY AsksStep DEF AtomicTaskStep
<1>3. QED BY <1>1, <1>2, TasksInvariant, PTL DEF TasksSpec, AtomicUnlessOvertaken
=============================================================================
