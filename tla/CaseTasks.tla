------------------------------ MODULE CaseTasks ------------------------------
(* A task of a case whose members change (services/case_management.py).      *)
(*                                                                          *)
(* The requests on the task overlap, with each other and with the requests   *)
(* of Membership, which take effect one at a time: a task request loads the  *)
(* task and the roster, decides, and commits the columns it changed.         *)
(* EditSlots holds one slot per task request in flight.  The lock of a       *)
(* closed review is CaseRequests' subject and left out here.                 *)
EXTENDS Membership

CONSTANTS
    EditSlots,        \* slots for task requests in flight
    TaskPatches,      \* the PATCH bodies clients send
    NewTasks,         \* status and assignee clients create a task with
    Unset             \* a field left out, a column left alone

TaskStatuses == {"todo", "in_progress", "blocked", "validation", "completed"}

Patches == [status: TaskStatuses \cup {Unset}, assignee: Users \cup {NoUser, Unset},
            archived: {"yes", "no", Unset}]

ASSUME PatchesAssumption ==
    /\ Unset \notin TaskStatuses \cup {"yes", "no", NoUser} \cup Users
    /\ TaskPatches \subseteq Patches
    /\ NewTasks \subseteq [status: TaskStatuses, assignee: Users \cup {NoUser}]

\* done: completed_at is set.
Tasks == [status: TaskStatuses, done: {"yes", "no"}, assignee: Users \cup {NoUser},
          creator: Users, archived: {"yes", "no"}]

NoTask == [status |-> "absent"]

TaskWrites == [status: TaskStatuses \cup {Unset}, done: {"yes", "no", Unset},
               assignee: Users \cup {NoUser, Unset}, archived: {"yes", "no", Unset}]

VARIABLES
    task,       \* the investigation_tasks row, or NoTask
    told,       \* the users with a "task_assigned" notification about it
    edit,       \* slot -> the task request in flight there, or NoEdit
    overtook    \* history: what a commit had read before it was changed by others

taskVars == <<memberVars, task, told, edit, overtook>>

NoEdit == [kind |-> "none"]

\* late: what has changed since the request read it.
Creates == [kind: {"create"}, write: Tasks, late: SUBSET {"task", "members"}]

Edits == [kind: {"patch"}, write: TaskWrites, late: SUBSET {"task", "members"}]

-----------------------------------------------------------------------------
\* _ensure_valid_task_transition
TaskTransitions ==
    [todo        |-> {"in_progress", "blocked", "completed"},
     in_progress |-> {"todo", "blocked", "validation", "completed"},
     blocked     |-> {"todo", "in_progress"},
     validation  |-> {"in_progress", "blocked", "completed"},
     completed   |-> {}]

\* _ensure_task_mutation_allowed
MayUpdateTask(u, t) ==
    \/ HasRole(u, CASE_ADMIN_ROLES)
    \/ HasRole(u, MUTATION_ROLES) /\ u \in {t.assignee, t.creator}

\* _ensure_task_delete_allowed
MayDeleteTask(u, t) ==
    \/ HasRole(u, CASE_ADMIN_ROLES)
    \/ HasRole(u, MUTATION_ROLES) /\ u = t.creator

\* Mutant: any account can be given the task.
AssignableAnyone(u) == TRUE

\* _ensure_assignment_member; unassigning needs nobody.
Assignable(u) == u # NoUser => IsMember(u)

\* Mutant: a task created as completed gets no completion time.
NewTaskUnstamped(u, n) ==
    [status |-> n.status, done |-> "no", assignee |-> n.assignee, creator |-> u,
     archived |-> "no"]

NewTask(u, n) ==
    [status |-> n.status, done |-> IF n.status = "completed" THEN "yes" ELSE "no",
     assignee |-> n.assignee, creator |-> u, archived |-> "no"]

Given(old, new) == IF new = Unset THEN old ELSE new

\* The columns an update flushes: those that differ, and completed_at at every
\* status "completed" and archived_at at every archived true, each a new time.
Patched(t, p) ==
    LET Changed(old, new) == IF new = old THEN Unset ELSE new
    IN  [status   |-> Changed(t.status, p.status),
         done     |-> CASE p.status = Unset -> Unset
                        [] p.status = "completed" -> "yes"
                        [] OTHER -> Changed(t.done, "no"),
         assignee |-> Changed(t.assignee, p.assignee),
         archived |-> IF p.archived = "yes" THEN "yes" ELSE Changed(t.archived, p.archived)]

AfterWrite(t, w) ==
    [t EXCEPT !.status = Given(@, w.status), !.done = Given(@, w.done),
              !.assignee = Given(@, w.assignee), !.archived = Given(@, w.archived)]

\* Mutant: only the first assignee of a task is told.
AlertForFirst(u) == IF told = {} THEN {u} \ {Unset, NoUser} ELSE {}

\* notify_task_assigned
AlertFor(u) == {u} \ {Unset, NoUser}

\* What the handlers ask before they write.
MayCreate(u, n) ==
    /\ task = NoTask
    /\ HasRole(u, MUTATION_ROLES)
    /\ Assignable(n.assignee)

MayPatch(u, p) ==
    /\ task # NoTask
    /\ MayUpdateTask(u, task)
    /\ p.assignee # Unset => Assignable(p.assignee)
    /\ p.status \in {Unset, task.status} \cup TaskTransitions[task.status]

MayArchive(u) ==
    /\ task # NoTask
    /\ MayDeleteTask(u, task)
    /\ task.archived = "no"

Archiving == [status |-> Unset, assignee |-> Unset, archived |-> "yes"]

-----------------------------------------------------------------------------
TasksInit ==
    /\ MembershipInit
    /\ task = NoTask
    /\ told = {}
    /\ edit = [r \in EditSlots |-> NoEdit]
    /\ overtook = {}

Receive(r, q) ==
    /\ edit[r] = NoEdit
    /\ edit' = [edit EXCEPT ![r] = q]
    /\ UNCHANGED <<memberVars, task, told, overtook>>

CreateTask(r, u, n) ==
    /\ MayCreate(u, n)
    /\ Receive(r, [kind |-> "create", write |-> NewTask(u, n), late |-> {}])

UpdateTask(r, u, p) ==
    /\ MayPatch(u, p)
    /\ Receive(r, [kind |-> "patch", write |-> Patched(task, p), late |-> {}])

\* DELETE archives.
DeleteTask(r, u) ==
    /\ MayArchive(u)
    /\ Receive(r, [kind |-> "patch", write |-> Patched(task, Archiving), late |-> {}])

\* The commit of slot r.  The look-up of the dedupe key, one per task and user,
\* first flushes the row and so waits for another assignment of the task: what
\* that one has told is found and not told again.  A second task is another row.
CommitTask(r) ==
    LET q == edit[r]
    IN  /\ q # NoEdit
        /\ q.kind = "create" <=> task = NoTask
        /\ task' = IF q.kind = "create" THEN q.write ELSE AfterWrite(task, q.write)
        /\ told' = told \cup AlertFor(q.write.assignee)
        /\ overtook' = overtook \cup q.late
        /\ edit' = [o \in EditSlots |->
              IF o = r THEN NoEdit
              ELSE IF edit[o] # NoEdit /\ task' # task
              THEN [edit[o] EXCEPT !.late = @ \cup {"task"}]
              ELSE edit[o]]
        /\ UNCHANGED memberVars

AbortTask(r) ==
    /\ edit[r] # NoEdit
    /\ edit' = [edit EXCEPT ![r] = NoEdit]
    /\ UNCHANGED <<memberVars, task, told, overtook>>

\* A membership request, under the task requests that have read the roster.
\* Removing a member leaves the task assigned to him.
MembersChange ==
    /\ MembershipNext
    /\ edit' = [r \in EditSlots |->
          IF edit[r] # NoEdit /\ role' # role
          THEN [edit[r] EXCEPT !.late = @ \cup {"members"}]
          ELSE edit[r]]
    /\ UNCHANGED <<task, told, overtook>>

TasksNext ==
    \/ MembersChange
    \/ \E r \in EditSlots :
          \/ \E u \in Users :
                \/ \E n \in NewTasks : CreateTask(r, u, n)
                \/ \E p \in TaskPatches : UpdateTask(r, u, p)
                \/ DeleteTask(r, u)
          \/ CommitTask(r)
          \/ AbortTask(r)

TasksSpec == TasksInit /\ [][TasksNext]_taskVars

\* A handler from look-up to commit, with nothing in between.
HandlerStep ==
    \E u \in Users :
        \/ \E n \in NewTasks :
              /\ MayCreate(u, n)
              /\ task' = NewTask(u, n)
              /\ told' = told \cup AlertFor(n.assignee)
        \/ \E p \in TaskPatches :
              /\ MayPatch(u, p)
              /\ task' = AfterWrite(task, Patched(task, p))
              /\ told' = told \cup AlertFor(Patched(task, p).assignee)
        \/ /\ MayArchive(u)
           /\ task' = AfterWrite(task, Patched(task, Archiving))
           /\ told' = told

\* The task or the roster has changed since the request in slot r looked.
Overtaken(r) == edit[r] # NoEdit /\ edit[r].late # {}
-----------------------------------------------------------------------------
TasksTypeOK ==
    /\ task \in Tasks \cup {NoTask}
    /\ told \subseteq Users
    /\ edit \in [EditSlots -> {NoEdit} \cup Creates \cup Edits]
    /\ overtook \subseteq {"task", "members"}

(* completed_at is set exactly while the status is completed: update_task   *)
(* moves the two together.  Of two overlapping status changes the second to *)
(* commit leaves the time of a completion it never saw, since clearing an   *)
(* empty column writes nothing: that is the one exception.                  *)
CompletionIsStamped ==
    task # NoTask /\ "task" \notin overtook => (task.status = "completed" <=> task.done = "yes")

(* "Task assignee must be an investigation member" (case_management.py:840):*)
(* whoever a task is given to is a member at that moment, unless the roster *)
(* has changed since the request looked.                                    *)
GivenToMembers ==
    [][task' # task /\ (task # NoTask => task'.assignee # task.assignee) =>
          \/ task'.assignee = NoUser \/ IsMember(task'.assignee)
          \/ "members" \in overtook']_taskVars

(* Whoever changes the task may do so at that moment, and the change and its*)
(* alert are what update_task, create_task or delete_task make of the task  *)
(* as it is; only a request whose caller, assignee or task has changed since*)
(* it looked stores something else.                                         *)
AtomicUnlessOvertaken ==
    [][HandlerStep \/ \E r \in EditSlots : Overtaken(r) /\ edit'[r] = NoEdit
      ]_<<task, told>>

(* Whoever has the task has been told so: the notification is in the        *)
(* transaction of the assignment, and its dedupe key never loses it, however*)
(* assignments overlap and however often the task changes hands.            *)
AssigneeIsTold == task # NoTask /\ task.assignee # NoUser => task.assignee \in told
=============================================================================
