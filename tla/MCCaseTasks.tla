----------------------------- MODULE MCCaseTasks -----------------------------
(* One case, three accounts, one of them a platform admin, and every role   *)
(* the API accepts: a case can have an owner, a former owner and a bystander*)
(* at once.  Beside it one task, edited while an ordinary roster changes.   *)
EXTENDS CaseTasks, TLC

Symmetry == Permutations(Users \ PlatformAdmins) \cup Permutations(EditSlots)

\* A PATCH changes one field, as the client's board, form and menu do.
OneField ==
    {p \in [status: {"in_progress", "completed", Unset},
            assignee: Users \cup {NoUser, Unset}, archived: {Unset}] :
        (p.status = Unset) # (p.assignee = Unset)}

FreshTasks ==
    [status: {"todo"}, assignee: Users \cup {NoUser}]
    \cup [status: {"completed"}, assignee: {NoUser}]

\* Task requests are followed until one has been overtaken or the task is
\* archived (which changes nothing about its edits), on cases with one owner,
\* analysts and viewers; the platform admin is no member then.
TasksOnOrdinaryCases ==
    /\ overtook = {}
    /\ task # NoTask => task.archived = "no"
    /\ task # NoTask \/ (\E r \in EditSlots : edit[r] # NoEdit) =>
          /\ SingleOwner
          /\ reviewerId = NoUser
          /\ \A u \in Users : role[u] # "admin"
          /\ \A u \in PlatformAdmins : ~IsMember(u)
=============================================================================
