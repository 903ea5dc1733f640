---------------------------- MODULE CaseRequests ----------------------------
(* Requests on one case that overlap.                                       *)
(*                                                                          *)
(* CaseWorkflow gives every handler of CaseHandlers the committed case.     *)
(* Here a handler gets the case its request has loaded, and its commit      *)
(* writes the columns that differ from it, whatever has been committed in   *)
(* between: nothing is locked and no version is compared (db/session.py).   *)
(* Who may send what is reduced to two callers, an analyst and a case admin *)
(* (Membership says who they are).                                          *)
EXTENDS CaseHandlers, Integers

CONSTANTS
    StatusTargets,    \* statuses and
    StageTargets,     \* stages clients ask for
    Requests,         \* slots for requests in flight
    Unset             \* a column a request leaves alone

ASSUME RequestsAssumption ==
    /\ StatusTargets \subseteq Statuses
    /\ StageTargets \subseteq Stages
    /\ Unset \notin Statuses \cup Stages \cup ReviewStatuses \cup ClosureStatuses
    /\ Unset \notin BOOLEAN

Callers == {"analyst", "case_admin"}

Ops == {"move", "submit_review", "approve_review", "decline_review", "close_review",
        "submit_closure", "approve_closure", "close_closure", "waive_closure",
        "reopen_closure"}

Writes == [status: Statuses \cup {Unset}, stage: Stages \cup {Unset},
           review: ReviewStatuses \cup {Unset}, reviewOverride: BOOLEAN \cup {Unset},
           closure: ClosureStatuses \cup {Unset}]

VARIABLES
    exists,     \* the investigations row is there
    case,       \* the workflow columns
    content,    \* the latest edit of tasks, notes, evidence or findings
    request,    \* slot -> the request in flight there, or Idle
    raced,      \* history: a request changed or purged a case that had changed
                \* since it loaded it
    granted,    \* history: what was approved since it was last submitted
    waived      \* history: the latest closing of the closure was an override

vars == <<exists, case, content, request, raced, granted, waived>>

Idle == [phase |-> "idle"]

Deciding == [phase: {"deciding"}, op: Ops, write: Writes, stale: BOOLEAN]

Purging == [phase: {"purging"}, stale: BOOLEAN]

\* A content edit in flight, and the last one that was stored.
Editing == [phase: {"editing"}, caller: Callers, stale: BOOLEAN]

Contents == [edits: {0, 1}, caller: Callers, late: BOOLEAN]

Differing(loaded, new) ==
    LET Diff(a, b) == IF a = b THEN Unset ELSE b
    IN  [status         |-> Diff(loaded.status, new.status),
         stage          |-> Diff(loaded.stage, new.stage),
         review         |-> Diff(loaded.review, new.review),
         reviewOverride |-> Diff(loaded.reviewOverride, new.reviewOverride),
         closure        |-> Diff(loaded.closure, new.closure)]

Applied(now, write) ==
    LET Merge(a, b) == IF b = Unset THEN a ELSE b
    IN  [status         |-> Merge(now.status, write.status),
         stage          |-> Merge(now.stage, write.stage),
         review         |-> Merge(now.review, write.review),
         reviewOverride |-> Merge(now.reviewOverride, write.reviewOverride),
         closure        |-> Merge(now.closure, write.closure)]

GrantedAfter(op) ==
    CASE op \in {"submit_review", "decline_review"} -> granted \ {"review"}
      [] op = "approve_review"  -> granted \cup {"review"}
      [] op = "submit_closure"  -> granted \ {"closure"}
      [] op = "approve_closure" -> granted \cup {"closure"}
      [] OTHER -> granted

WaivedAfter(op) ==
    CASE op = "waive_closure" -> TRUE
      [] op = "close_closure" -> FALSE
      [] OTHER -> waived

\* Mutant: the lock forgets to ask for the role.
MayMutateUnlocked(caller) == TRUE

\* ensure_investigation_permission with MUTATION_ROLES, on the committed case.
MayMutate(caller) == case.review = "closed" => caller = "case_admin"

-----------------------------------------------------------------------------
Init ==
    /\ exists = TRUE
    /\ case = NewCase
    /\ content = [edits |-> 0, caller |-> "case_admin", late |-> FALSE]
    /\ request = [r \in Requests |-> Idle]
    /\ raced = FALSE
    /\ granted = {}
    /\ waived = FALSE

\* The handler has loaded the case, found nothing against it and set its columns.
Decide(r, op, outcomes) ==
    /\ exists
    /\ request[r] = Idle
    /\ \E new \in outcomes :
          request' = [request EXCEPT ![r] =
              [phase |-> "deciding", op |-> op, write |-> Differing(case, new),
               stale |-> FALSE]]
    /\ UNCHANGED <<exists, case, content, raced, granted, waived>>

ReceiveMove(r) ==
    \/ \E target \in StatusTargets :
          Decide(r, "move", PutStatus(case, target) \cup PatchStatus(case, target))
    \/ \E target \in StageTargets : Decide(r, "move", UpdateStage(case, target))
    \/ Decide(r, "move", ArchiveInvestigation(case))

ReceiveReview(r, caller) ==
    \/ MayMutate(caller) /\ Decide(r, "submit_review", SubmitCaseReview(case))
    \/ Decide(r, "approve_review", DecideCaseReview(case, "approve"))
    \/ \E decision \in {"reject", "request_changes"} :
          Decide(r, "decline_review", DecideCaseReview(case, decision))
    \/ \E override \in BOOLEAN : Decide(r, "close_review", CloseCase(case, override))

\* blocked: the checklist has a required item pending or blocked (ClosureChecklist).
ReceiveClosure(r, caller) ==
    \/ MayMutate(caller) /\ Decide(r, "submit_closure", SubmitCaseClosure(case))
    \/ Decide(r, "approve_closure", ApproveCaseClosure(case))
    \/ \E blocked \in BOOLEAN :
          \/ Decide(r, "close_closure", CloseCaseClosure(case, blocked, FALSE))
          \/ Decide(r, "waive_closure", CloseCaseClosure(case, blocked, TRUE))
    \/ Decide(r, "reopen_closure", ReopenCaseClosure(case))

\* Mutant: any case may be purged.
ReceivePurgeAnytime(r) ==
    /\ exists
    /\ request[r] = Idle
    /\ request' = [request EXCEPT ![r] = [phase |-> "purging", stale |-> FALSE]]
    /\ UNCHANGED <<exists, case, content, raced, granted, waived>>

\* purge_archived_investigation
ReceivePurge(r) ==
    /\ exists
    /\ request[r] = Idle
    /\ case.status = "archived"
    /\ request' = [request EXCEPT ![r] = [phase |-> "purging", stale |-> FALSE]]
    /\ UNCHANGED <<exists, case, content, raced, granted, waived>>

\* Any of the handlers that edit what the case contains.
ReceiveEdit(r, caller) ==
    /\ exists
    /\ request[r] = Idle
    /\ MayMutate(caller)
    /\ request' = [request EXCEPT ![r] =
          [phase |-> "editing", caller |-> caller, stale |-> FALSE]]
    /\ UNCHANGED <<exists, case, content, raced, granted, waived>>

\* Slot r is done; the other requests have been overtaken if it changed the case.
Finish(r, changed) ==
    request' = [o \in Requests |->
        IF o = r \/ request[o] = Idle THEN Idle
        ELSE [request[o] EXCEPT !.stale = @ \/ changed]]

CommitDecision(r) ==
    /\ exists
    /\ request[r].phase = "deciding"
    /\ LET q == request[r]
       IN  /\ case' = Applied(case, q.write)
           /\ raced' = (raced \/ q.stale)
           /\ granted' = GrantedAfter(q.op)
           /\ waived' = WaivedAfter(q.op)
           /\ Finish(r, Applied(case, q.write) # case)
    /\ UNCHANGED <<exists, content>>

\* The DELETE does not look at the status again.
CommitPurge(r) ==
    /\ exists
    /\ request[r].phase = "purging"
    /\ exists' = FALSE
    /\ raced' = (raced \/ request[r].stale)
    /\ Finish(r, FALSE)
    /\ UNCHANGED <<case, content, granted, waived>>

CommitEdit(r) ==
    /\ exists
    /\ request[r].phase = "editing"
    /\ content' = [edits |-> 1 - content.edits, caller |-> request[r].caller,
                   late |-> request[r].stale]
    /\ Finish(r, FALSE)
    /\ UNCHANGED <<exists, case, raced, granted, waived>>

\* A lost client, a failing session, or a row that is gone at the flush.
Abort(r) ==
    /\ request[r] # Idle
    /\ request' = [request EXCEPT ![r] = Idle]
    /\ UNCHANGED <<exists, case, content, raced, granted, waived>>

Next ==
    \E r \in Requests :
        \/ ReceiveMove(r)
        \/ \E caller \in Callers :
              ReceiveReview(r, caller) \/ ReceiveClosure(r, caller) \/ ReceiveEdit(r, caller)
        \/ ReceivePurge(r)
        \/ CommitDecision(r)
        \/ CommitPurge(r)
        \/ CommitEdit(r)
        \/ Abort(r)

Spec == Init /\ [][Next]_vars

\* The request in slot r decided on a case that has changed since.
Overtaken(r) == request[r] # Idle /\ request[r].stale

\* CaseWorkflow for the case admin who sends the requests and owns the case.
Workflow == INSTANCE CaseWorkflow
    WITH Users <- {"case_admin"}, PlatformAdmins <- {}, NoUser <- "nobody",
         AddRoles <- {}, TransferRoles <- {},
         role <- [u \in {"case_admin"} |-> "owner"],
         ownerId <- "case_admin", reviewerId <- "nobody"

\* The requests of CaseWorkflow, one after another.
SerialSpec == Workflow!Spec
-----------------------------------------------------------------------------
TypeOK ==
    /\ exists \in BOOLEAN
    /\ case \in Cases
    /\ content \in Contents
    /\ request \in [Requests -> {Idle} \cup Deciding \cup Purging \cup Editing]
    /\ raced \in BOOLEAN
    /\ granted \subseteq {"review", "closure"}
    /\ waived \in BOOLEAN

(* A review that is closed stays closed unless a request that loaded it     *)
(* earlier commits later (submit_case_review checks the row it loaded).     *)
ClosedReviewStays ==
    [][case.review = "closed" => case'.review = "closed" \/ raced']_vars

(* Closed means approved since the last submission or overridden, for the   *)
(* review and for the closure, as long as no stale request has committed.   *)
ClosingsAreEarned ==
    ~raced => /\ case.review = "closed" => "review" \in granted \/ case.reviewOverride
              /\ case.closure = "closed" => "closure" \in granted \/ waived

Lifecycle == INSTANCE ClosureLifecycle
    WITH closure <- case.closure, granted <- "closure" \in granted

(* However the requests overlap, the closure moves as ClosureLifecycle says *)
(* until a stale request commits: staleness is the only way out of it.      *)
LifecycleUnlessRaced ==
    [][Lifecycle!LifecycleNext \/ raced']_<<case.closure, "closure" \in granted, waived>>

(* Every change of the workflow columns is one request of CaseWorkflow on   *)
(* the case as it is at that moment, although it was decided on the case as *)
(* it was loaded and writes single columns; only a request that was         *)
(* overtaken does what CaseWorkflow would not.                              *)
AtomicUnlessOvertaken ==
    [][\/ \E r \in Requests : Overtaken(r) /\ request'[r] = Idle
       \/ Workflow!UserStep("case_admin")
      ]_<<exists, case, granted, waived>>

(* Only an archived case is purged (purge_archived_investigation), unless   *)
(* it was restored while the purge was on its way.                          *)
PurgedFromArchive ==
    [][exists /\ ~exists' => case.status = "archived" \/ raced']_vars

(* "Closed cases become read-only for non-owner analysts and viewers"       *)
(* (CASE_REVIEW_WORKFLOW.md:22): what an analyst still changes in a case    *)
(* with a closed review is an edit that was on its way when it was closed.  *)
LateEditsOnly ==
    [][content' # content /\ case.review = "closed" =>
          content'.caller = "case_admin" \/ content'.late]_vars
=============================================================================
