# AI OSINT platform: TLA+ models and proofs

The repository is a case-management platform for OSINT investigations: a
FastAPI backend over PostgreSQL and Redis, and a React client. This directory
models the part of the backend that decides *who may do what to a case, and
when a case counts as reviewed, closed and archived*, checks the models with
TLC on small instances, and proves the main theorems with TLAPS for every size
of the instance.

Source lines below are relative to `src/backend/app/` unless they name a
document.

## 1. The system

### How requests run

Every endpoint runs its handler in one database session (`db/session.py`
`get_db`): the handler loads rows, decides, writes through the ORM, and the
session commits when the handler returns or rolls back when it raises. Nothing
sets an isolation level or locks a row, so PostgreSQL runs them at READ
COMMITTED, and an UPDATE sets exactly the columns that differ from what was
loaded. Two consequences shape the models:

* A request that raises changes nothing. (The audit middleware writes a denial
  in a session of its own; no handler reads it.) A failed guard is therefore no
  step of the models.
* A request that overlaps another one can act on rows that have changed since it
  loaded them. `CaseWorkflow`, `Membership` and `ClosureChecklist` take requests
  one at a time; `CaseTasks`, `CaseRequests`, `PlaybookRuns`, `FindingReview`,
  `Reports`, `UserAdmin` and `Sessions` let them overlap.

Redis is outside the session: a `get`, `delete` or `setex` takes effect at once
and stays when the request fails (`Sessions`).

Nothing runs by itself. The Celery application (`src/backend/workers`) has
retry and late-acknowledgement settings but no task, and no handler starts one.

### Inventory

| Component | State it keeps | Operations | Hard behaviour | What makes it correct |
|---|---|---|---|---|
| Membership and ownership (`investigation.py`, `collaboration.py`, `operations.py`) | `investigation_members.role`, `investigations.owner_id`, `reviewer_id` | add, change, remove member; ownership PATCH, handoff, bulk assign owner, assign reviewer | four services move ownership in four ways; last-owner guard | one owner, the one `owner_id` names; an outgoing owner is demoted |
| Case workflow (`investigation.py`) | `investigations.status`, `stage` | PUT, PATCH status, PATCH stage, archive, purge | two transition tables, handlers that bypass them | a case is completed by validation or a closing; the archive is left on purpose |
| Case review (`case_review.py`) | `case_reviews.review_status`, override reason | submit, decide, close | different people, any order; closing locks the case | a closed review was approved or overridden, and stays closed |
| Case closure (`case_closure.py`) | `case_closures.status`, rating, checklist rows | generate, edit item, update, submit, approve, close, reopen | checklist rows go stale; overrides; reopening | closing needs a fresh approval and a complete checklist, or an override |
| User administration (`user.py`, `auth.py` register) | `users.role`, `is_active`, `account_status` | PUT, DELETE, status, role, create, register | check-then-act across requests | an active administrator remains; the two status columns agree |
| Sessions (`auth.py`) | refresh tokens in Redis | login, refresh, logout, change password | get-then-delete rotation, failing half way | a session has one token, a disabled account gets none |
| Tasks, notes, evidence (`case_management.py`) | task status, assignee, archive marks | create, update, assign, delete | an edit on its way when the case is locked, the assignee removed or the task completed | a closed review locks the content for analysts; completion and its time agree; tasks are given to members, who are told |
| Findings and playbooks (`playbook.py`, `case_review.py`, `findings_service.py`) | finding status, remediation, validation, history; runs, steps | status, remediation, validate; start, step, move a run | three services write one row; look-up-then-insert; the last step closes the run | outcome and remediation agree, the history tells them; a finished run is closed |
| Reports (`report.py`, `reporting_center.py`, `case_review.py`) | status, archive stamp, content, approval | create, retry, archive, restore, submit, decide | archive and retry share the metadata; overlapping verdicts | archive, approval and content fit together |
| Notifications (`notification.py`, `data_quality.py`) | rows by dedupe key, read marks | create, rebuild, read, dismiss, archive | look-up-then-insert on a unique key; recipients that change | whoever was to be told at the last look has been told |
| Engagements (`engagement.py`), data quality (`data_quality.py`) | authorization, scope items; issues | create, update, archive; scan | first matching scope item; rescans | not modelled (section 7) |
| Recon, analytics, search, AI text, backup and health, demo data | – | lookups, read-only queries, file I/O | – | not modelled (section 7) |

The components meet in the case: membership decides who passes the permission
test of every case handler (`ensure_investigation_permission`); the review's
status feeds back into that test (a closed review locks the case below case
admin); both closings write the workflow columns; findings, tasks, reports and
engagements feed the closure checklist.

## 2. Modules

```
CaseRoles ── Membership ──┬── CaseTasks ─────(implements)─── Membership
                          │
                          ├── CaseWorkflow ────(implements)─── ClosureLifecycle
CaseHandlers ─────────────┤                                        │      │
                          └── CaseRequests ─(implements, until ────┘      │
ClosureChecklist              a stale commit; CaseWorkflow, when          │
      │                       requests run one after another)             │
      └──────────────────────(implements)─────────────────────────────────┘
UserAdmin ── Sessions ─(implements)─ UserAdmin
PlaybookRuns      FindingReview      Reports
```

| Module | Models |
|---|---|
| `CaseRoles` | platform and case roles, the role sets of `investigation.py:96-105` |
| `Membership` | members, `owner_id`, `reviewer_id`; one action per member or ownership request |
| `CaseTasks` | a task of the case, with requests in flight, beside the requests of `Membership` |
| `CaseHandlers` | what each request does to the workflow columns: a handler is an operator from the case it loaded to the set of cases it may leave, empty when it raises. No variables, so that requests can be applied to the committed case (`CaseWorkflow`) or to the one a request loaded (`CaseRequests`) |
| `CaseWorkflow` | one case under its members: `Membership` together with `CaseHandlers`, the permission tests, purge |
| `ClosureLifecycle` | the abstract promise of a closure: submit, approve, close, reopen |
| `ClosureChecklist` | the checklist rows against the records they are computed from, and what closing does with them |
| `UserAdmin` | accounts and administrators' requests in phases (loaded, checked, committed) |
| `Sessions` | the refresh tokens of one account in Redis, composed with `UserAdmin` |
| `CaseRequests` | two or more requests in flight on one case: the handlers of `CaseHandlers` on stale rows, purge, edits of the content |
| `PlaybookRuns` | the runs of one playbook on one finding, with their steps |
| `FindingReview` | one finding under the status, remediation and validation handlers of three services, and what four views of it call unresolved |
| `Reports` | one report: generation, archive, approval, and the alerts of its submission |
| `MC…` | the instance for TLC: symmetry sets; values are in the `.cfg` files |
| `…Proofs` | the theorems, one module per component |

### Correspondence

* **Membership.** `role[u]` is the membership row (`"none"` without one). The
  actions carry the service functions' names. A platform admin passes every
  role test without a row (`HasRole`, `CanSee`). A `collaborator` asked for is
  stored as `analyst` (`PersistedRole`). `UpdateOwnership` takes the whole
  PATCH: new owner, assigned analysts and watchers in one step, and it is
  refused when its own response cannot be built (`_ownership_response` raises
  for an owner without a row, which rolls the request back).
* **CaseWorkflow.** `case` is a record of the columns of three tables. The
  review and closure rows are created on first use with their defaults, so a
  missing row and a fresh one are the same value. `granted` and `waived` are
  history variables: which approvals were given since the last submission, and
  whether the latest closing carried an override reason. No guard reads them.
  Whether the checklist blocks a closing is a free choice here; `ClosureChecklist`
  says when it does, and `AgreesWithHandlers` there that the two models of a
  closing are otherwise the same.
* **ClosureChecklist.** One Boolean per checklist key says whether its records
  are stored (`present`), plus what decides the others: an engagement, the
  worst severity, and whether a critical or high finding is unresolved. `item`
  is the stored status of each row. `RefreshedStatus` is the body of
  `_refresh_checklist` with its sticky rule (`case_closure.py:817`). A refused
  closing rolls its refresh back, so `CloseClosure` has no effect then.
  `ChangeRecords` stands for every other request that adds or removes records,
  with no assumption on their order.
* **UserAdmin.** A request is received when its sender is an active
  administrator; it has then loaded its target. `Check` is the count of other
  administrators, `Commit` the UPDATE of the changed columns (`Written`).
  `Requests` is the number of requests in flight: one slot means that requests
  run one after another.
* **CaseTasks.** `task` is one row of `investigation_tasks`; `done` stands for
  `completed_at`. A slot of `edit` is a request on the task between what it
  loaded and its commit; requests of `Membership` commit in between (`MembersChange`).
  `late` collects which of the two, the task or the roster, has changed since,
  and `overtook` what commits have overrun; as below, no guard reads either.
  `told` are the users with an alert about the task, whose dedupe key is the
  task and the user. An assignment flushes the task before it looks that key
  up, so of two that overlap the second waits for the row and finds the alert:
  a commit adds the assignee to `told` and never fails on it. Links to findings, runs and evidence, due dates and texts
  are left out, and so is the lock of a closed review, which `CaseRequests` has.
* **Overlapping requests** (`CaseRequests`, `PlaybookRuns`, `FindingReview`,
  `Reports`). A slot of `request` holds what a request has decided: `Differing`
  computes the columns the ORM will write from the row it loaded, `Applied`
  writes them over the row as it is then. A *forced* column is one that a
  handler flushes even when the end value equals the loaded one. `stale` in a
  slot says that the row has changed since it was loaded; `raced` is history,
  set when a stale request changes something. No guard reads either, they only
  let a property say "unless requests overlapped", and the mutants show that
  the rest of each property is not vacuous. `Abort` is a session that rolls
  back or a client that goes away.
* **One after another.** Each model with overlapping requests also says what its
  handlers do with nothing in between: `HandlerStep` is one handler from look-up
  to commit on the rows as they are (`Handled` where the rows are one record;
  for `CaseRequests` it is a request of `CaseWorkflow`), and `SerialSpec` are
  such steps alone. `Overtaken(r)` is a slot whose rows have changed since it
  looked, and `AtomicUnlessOvertaken` the statement that only the commit of such
  a slot is no handler step. `UserAdmin` keeps no overtaken mark; there the
  serial specification is compared for one request at a time only.
* **CaseRequests.** The permission tests are reduced to two callers, an analyst
  and a case admin. `content` is the latest edit of tasks, notes, evidence or
  findings, with who made it and whether the review was closed by then; the
  columns of those rows are not modelled. `granted` and `waived` are as in
  `CaseWorkflow`.
* **PlaybookRuns.** A step request loads the run, flushes its own step and reads
  the others (`_complete_run_if_ready`), and commits: three steps of the model,
  `ReceiveStep`, `FlushStep`, `Commit`. The row lock taken by the flush is part
  of it: a second writer of the same step waits. `raced` collects the runs on which one request overtook another.
* **FindingReview.** `review_history` is a JSON list written back as a whole; the
  model keeps what its last entries say of the status and the validation, and
  how many entries follow the one about the status: `case_review.py:1027` keeps
  the last fifty (`HistoryLimit`) whenever it appends, `findings_service.py`
  keeps all. An old status entry can therefore go (`"cut"`).
  `ClosureBlocked`, `ReviewBlocked`, `OperationsUnresolved` and
  `SummaryUnresolved` are the four places that call a finding unresolved.
* **Reports.** Generation only reads the case, so that it succeeds or fails is a
  free choice. `status_before` is the metadata key the archive uses. `inbox`
  holds one alert per user, since its dedupe key is fixed by report and user;
  an alert that was read, dismissed or archived is `handled`. `recipients` are
  the owner, the reviewer and the active administrators, whom
  `_reviewer_recipient_ids` (`notification.py:1070`) looks up anew in every
  submission and every rebuild. Who they are is decided by other components, so
  they change to any non-empty set at any time (`ChangeRecipients`), and `late`
  (history) holds those who became one after the last look that was committed.
  A submission is three steps of the model: it loads the report
  (`ReceiveSubmit`), flushes the row, which locks it, and looks for the alerts
  that are missing (`FlushSubmit`), and commits. While it is flushed
  (`RowLocked`) other writers of the row wait, so an overlapping second
  submission finds the alerts of the first. A rebuild (`ReceiveRebuild`) only
  reads the report, adds whatever alert is missing, and can collide with either:
  the unique index then refuses the one that comes second (`Deliverable`).
  The code looks and inserts recipient by recipient; the model looks at all of
  them in one step and inserts at the commit, when others can see it.
* **Sessions.** A session is a login and the tokens it was rotated to. `Find`,
  `Admit`, `Delete` and `Issue` are the four awaits of `refresh_tokens`;
  `Break` ends a request at any of them and leaves Redis as it is. `ended` and
  `overlapped` are history.

## 3. Runs

| Run | Instance | Distinct states | Shows |
|---|---|---|---|
| `membership` | 3 users, one of them platform admin, all roles; a task with 2 requests in flight | 79,865 | `OutgoingOwnerDemoted`, `SingleOwnerLostOneOfTwoWays`, `LastOwnerKept`; `CompletionIsStamped`, `GivenToMembers`, `AssigneeIsTold` |
| `case_workflow` | 2 users, the role choices of the web client | 67,968 | `ClosureEarned`, `ReviewEarned`, `SingleOwner`, `ReviewClosedIsFinal`, `CompletionIsGoverned`, `ArchiveLeftOnlyByRestoreOrReview`, `StageArchivedWithCase`, `ImplementsLifecycle` |
| `closure_checklist` | one item of each kind, three severities | 135,744 | `UnwaivedClosingHasNoOpenRisk`, `UnwaivedClosingIsComplete`, `ClosingAssessesRisk` |
| `case_requests` | 2 requests in flight | 1,620,184 | `ClosingsAreEarned`, `ClosedReviewStays`, `AtomicUnlessOvertaken`, `PurgedFromArchive`, `LateEditsOnly` |
| `playbook_runs` | 2 runs, 2 steps, 2 requests in flight | 2,863,236 | `FinishedRunsAreClosed`, `OneRunUnderWay`, `ClosedRunsAreFrozen`, `AtomicUnlessOvertaken` |
| `finding_review` | 2 requests in flight, a history cut at 3 entries | 1,211,492 | `OutcomeMatchesRemediation`, `RemediatedIsVerified`, `HistoryTellsDecisions`, `ClosureIsStrictest`, `ResolutionIsKept` |
| `reports` | up to 3 requests in flight, 2 users with changing roles | 1,086,021 | `ContentMatchesStatus`, `ArchiveIsWhole`, `VerdictsAreWhole`, `PendingIsAlerted`, `RefusedByRebuildOnly` |
| `sessions` | 2 accounts, one administrator's request, 3 tokens, 2 refreshes in flight | 1,156,557 | `SomeActiveAdmin`, `ColumnsAgree`, `SessionsAreSingle`, `IssuedToActive` |
| `membership_ownerless` | as `membership`, transfers without a role | – | violates `NeverOwnerless` |
| `closed_case_read_only` | as `case_workflow` | – | violates `ClosedCaseReadOnly` |
| `last_admin_race` | 3 accounts, two administrators' requests in flight | – | violates `SomeActiveAdmin` |
| `reports_generated` | 1 request in flight, 1 user | – | violates `ReviewItemMeansGenerated` |

Every module's type invariant is proved and left out of the runs. So are
`LifecycleUnlessRaced`, `AgreesWithHandlers`, the `ImplementsLifecycle` of
`ClosureChecklist` and the `AtomicUnlessOvertaken` of `CaseTasks`,
`FindingReview` and `Reports`. TLC agrees with the last four on the instances
above (with `Reports` for two requests in flight); it visits half of the instance of `closure_checklist` in five
minutes with `AgreesWithHandlers`, and finds no violation there.

**What the violations show.**

* `membership_ownerless`: `PATCH …/members/{id}` with `transfer_ownership` and
  a role other than owner moves `owner_id` to the member and demotes every
  owner, without raising anybody (`investigation.py:1108-1123`). The case is
  left without an owner row, although the service says "Cannot remove or demote
  the last owner" (`investigation.py:1319`). The web client always sends
  `role: "owner"` with a transfer, so it does not do this; the API does.
* `closed_case_read_only`: `CASE_REVIEW_WORKFLOW.md:22` says that closed cases
  become read-only for analysts. Only a closed *review* locks; closing the
  closure record completes the case and leaves it writable.
* `last_admin_race`: `DEPLOYMENT_PREFLIGHT.md:83` says that the backend
  prevents disabling or demoting the last active administrator. Two overlapping
  requests about two different administrators both count one other and both
  commit. The theorem `SerialAdministrationKeepsAnAdmin` shows that the overlap
  is the only cause.
* `reports_generated`: `CASE_REVIEW_WORKFLOW.md:35` lists "Reports were
  generated" among the checks of a review. The item passes with any report row,
  a failed generation included; the closure checklist counts ready and archived
  reports only.

### Bounds, and why they are enough

No module has a counter; every state space is finite once the constants are.

* `membership`: the handlers distinguish caller, target, current owner and
  "every other owner". Three users give all of them distinct holders, with a
  platform admin who is no member as a fourth role. All roles the API accepts
  are in play. The theorems hold for any number of users. The task is followed
  on ordinary cases only (`TasksOnOrdinaryCases`: one owner, analysts and
  viewers, no reviewer, the platform admin no member, though he sends task
  requests too), until a request has been overtaken or the task is archived; the states reached by those steps are
  checked. Its statuses are open, in progress and completed: the properties do
  not tell the other two from the second. A PATCH changes one field, as the
  client's do; the proofs allow every body.
* `case_workflow`: the workflow handlers look at one user; two are needed for a
  hand-over of ownership between two requests. `AddRoles` and `TransferRoles`
  are what `MembersPage.tsx` sends; the run is about cases whose ownership is
  intact (`SingleOwner` is one of its invariants), the `membership` runs about
  all others. `CHECK_DEADLOCK FALSE`: a purged case is gone and nothing follows.
* `closure_checklist`: items of one kind have equal definitions and do not
  interact, so one of each kind (presence, engagement, blocking) stands for all
  twelve; the severities reach an unassessed, a harmless and a blocking rating;
  `HandRatings` holds the one rating that the closing treats differently.
* `sessions`: the guards of administration look at the target and at "another
  one", so two accounts show every case of them; `last_admin_race` has three,
  and the theorems hold for any number. Three tokens are a login, its rotation,
  and a second rotation of the same token. The constraint `OverlapInPairs` stops
  at states with two refreshes and an administrator's request in flight at
  once: those states are checked and not explored further.
* `case_requests`: two requests are enough for one to overtake another. The
  constraint `BeforeTheRace` stops after the first stale commit, where every
  property is about the history alone; the state reached by it is checked, and
  the proofs do not have the bound. `StatusTargets` and `StageTargets` keep the
  targets that differ for the properties (leaving the archive, the archived
  stage); archiving, review and closure set the others. `CHECK_DEADLOCK FALSE`:
  a purge ends the case.
* `playbook_runs`: two steps, one of them required, make "the last two steps at
  once" and "a skipped optional step" possible, two runs two starts at once.
  `ArchiveTargets` is empty there; archiving a run touches no column the
  properties read, and the proofs cover it.
* `finding_review`: two requests, and one status of each kind the views tell
  apart; the remediation and validation values are all in play. A
  `HistoryLimit` of 3 lets entries follow a status entry without and with
  cutting it. `BeforeTheRace` stops after the first stale commit, as in
  `case_requests`.
* `reports`: three requests, because a wrong restored status takes an archive,
  a retry and a restore that overlap; the constraint `InFlightBound` explores
  three in flight only while the approval has not begun, and two otherwise: a
  submission and a rebuild, or two of either. Two users, because an alert is
  somebody's and because one must be able to become a recipient while the
  other is told.

Users, accounts, tokens and request slots are symmetric where nothing names one
of them; platform admins are excluded from the symmetry set.

### Fairness

None is assumed and no liveness is claimed: every request waits for a person,
nothing in the code retries or schedules one, and a session may roll back at any
point. What must eventually happen without a person does not exist in this code;
the nearest to it, the run that is closed by its last step, is an invariant
(`FinishedRunsAreClosed`), which is stronger than the liveness property, and the
one way it fails (two last steps at once) leaves the run open until somebody
touches it again.

## 4. Mutants

Every property of a passing run comes with a mutant: an operator `…Anytime`,
`…KeepsOwner`, `…Sticky` and the like beside the definition it would replace,
marked `\* Mutant:`, which is a plausible mistake in that handler. Replacing the
definition by its mutant makes TLC report the property violated.

## 5. Proofs

All theorems are checked by `tlapm` without further assumptions than the named
`ASSUME`s on the constants, except where a theorem states one itself.

* **`MembershipProofs`.** Type correctness; `OutgoingOwnerDemoted`,
  `LastOwnerKept` and `SingleOwnerLostOneOfTwoWays` as action properties of any
  request, by one lemma per group of requests. The guard `NotLastOwner` is a
  cardinality, so the one lemma that needs finite-set facts says what it gives:
  an owner besides the one asked about. `GovernedCasesHaveOneOwner` assumes
  `GovernedClients` (nobody is added as owner, transfers name the owner role)
  and proves `SingleOwner` invariant; without the assumption the run
  `membership_ownerless` refutes it. The same module proves `CaseTasks`:
  `TasksImplementMembership` carries these theorems over to the composition,
  and the properties of the task follow from `TasksInv`, in which
  `KnowsTask` says what a request in flight may rely on until the task or the
  roster changes under it. The alerts need no such condition: the
  commit that assigns somebody tells him, and alerts are never deleted.
  `TaskRequestsAreAtomic` needs `AsksInv` besides: a request that nothing has
  overtaken asks for what its handler would allow now, the caller's permission
  and the assignee's membership included.
* **`CaseWorkflowProofs`.** `CaseWorkflow` implements `Membership`, hence keeps
  `SingleOwner`. `ClosureEarned` and `ReviewEarned` are not inductive: a closing
  is earned because *approved* was, so `GovernanceInv` adds `ApprovalsOnRecord`
  (an approved status is an approval on record). Lemmas about `CaseHandlers`
  say which columns each handler leaves alone and what it requires; one step
  lemma (`GovernedStep`) then gives the invariant, `ReviewClosedIsFinal` and
  the refinement of `ClosureLifecycle` together. The three properties of status,
  stage and archive need the types only: `Moved` states them of a handler's
  input and output, and each handler is looked at once.
* **`ClosureChecklistProofs`.** Only `CloseClosure` closes, and what it requires
  of the refreshed rows forces the records: for any set of items, severities
  and hand-set ratings. Also the refinement of `ClosureLifecycle`, from
  "approved implies granted". `ChecklistAgreesWithHandlers` puts the module under
  any status, stage and review of a case and shows each of its four requests to
  be that of `CaseHandlers`, with "blocked" computed from the rows.
* **`UserAdminProofs`.** Type correctness however many requests overlap (rows
  are never deleted, so the target of a request in flight has a row). For
  requests that run one after another (`OneAtATime`) the invariant `SerialInv`
  says that what a request loaded is still there and that the administrator it
  counted still is one; with the lemma that the guard is asked whenever an
  active administrator would stop being one, `SomeActiveAdmin` and
  `ColumnsAgree` follow. The same invariant gives `SerialAdministration`: load,
  count and commit, with registrations between them, implement the handlers one
  after another. `SessionsImplementAdministration` carries all of that
  over to the composition. `SessionsStaySingle` needs to know what a refresh
  in flight has done to its token: between `Delete` and `Issue` the session has
  no live token unless two requests used one. `TokensGoToActiveAccounts` rests
  on `ColumnsAgree`, since the refresh reads one column and the promise is
  about the other.
* **`CaseRequestsProofs`, `PlaybookRunsProofs`, `FindingReviewProofs`,
  `ReportsProofs`.** One argument four times. The invariant says of every
  request in flight that it still `Knows` what it read, unless it is stale. For
  `CaseRequests`: its columns written over the current case are a step of its
  handler. For `FindingReview`: the row it will leave is what its handler makes of the
  current one, and handlers keep a `Good` row good. For `Reports`: the row it
  will leave is `Good`.
  For `PlaybookRuns`: the run it loaded is still live, the start still finds
  none, and a flush that sees every step finished completes the run. A commit
  then keeps the promise, or it sets `raced`. What the handlers keep is shown
  once per handler, on rows and without the overlap. Four properties hold whether requests race or not
  and have a reason of their own: a ready report has content because every
  write of `ready` comes with content or over a row that has it and no request
  takes content away; a pending report is alerted because whoever is a recipient
  and not `late` either has the alert or is covered by what the submission or
  rebuild in flight has looked at (`Tells`), the report becomes pending only in
  a commit that carries the missing alerts, and alerts are never deleted; two
  submissions do not collide (`SubmissionsMakeWay`) because at most one is
  flushed and a commit that adds an alert to its list can then only be a
  rebuild's; the closing gate is the
  strictest view by the types alone. For `OneRunUnderWay` the invariant says that
  any two runs under way and not raced are equal; the cardinality is computed in
  the last step only.

* **Serializability**, in the same four modules. The properties above say what
  cannot go wrong without an overlap; these theorems say that without one
  nothing does. `FindingRequestsAreAtomic`, `CaseRequestsAreAtomic`,
  `ReportRequestsAreAtomic` and `RunRequestsAreAtomic` prove
  `AtomicUnlessOvertaken`: a commit that nothing has overtaken leaves the row that
  its handler makes of the row *as it is*, although it writes single columns
  decided earlier. The invariants are of the same kind. In `CaseRequests` and
  `FindingReview`, `Knows` says it already (`Handled` between the row and what
  the request will leave); `Reports` adds `Decided`, in which a submission or
  a rebuild also carries an alert for every recipient without one, as long as
  the recipients are those it looked at; `PlaybookRuns` adds `Stands`,
  which follows a step request through its flush and its look at the other
  steps. `SerialFindingReview`, `SerialCaseRequests`, `SerialReports` and
  `SerialRuns` assume a single slot and prove `Spec => SerialSpec` with no
  exception left, and that `raced` never becomes true; `SerialReports` assumes
  `RosterWaits` too, that the recipients change between requests and not under
  one. `SerialCaseRequests` ends
  in `Workflow!Spec`, so every theorem about `CaseWorkflow` holds of its
  histories.

Every property of a passing run is also a theorem; `SingleOwner` is one under
`GovernedClients`, `SomeActiveAdmin`, `ColumnsAgree` and `IssuedToActive` under
`OneAtATime`, as in their runs. What stays with TLC are the counterexamples of
the four violations and the reachability behind the runs (every action fires).
Liveness, ENABLED and induction over data are out of the prover's reach; no
module uses a recursive operator.

## 6. Hazards

`PROJECT.json` lists what is hard to test in this code, each at its line, with
the properties that cover it or why none does.

## 7. Not modelled, and why

* **Engagements and scope.** Engagements and authorization evidence are rows
  that are edited freely; no handler guards a transition. `match_scope_value`
  is a search of the scope items in the order of their status names
  (`in_scope`, `out_of_scope`, `pending_review`), so a broad in-scope domain
  wins over an out-of-scope item for one of its hosts. A model of it would take
  domains and networks as relations and ask which item decides.
* **Notes and evidence** beyond the permission test and the lock: single
  handlers that set what they are given. **Deliverables** and package manifests,
  and **report templates**: rows with look-up-then-insert races like those of
  playbook runs.
* **Data quality issues**: advice computed over all tables; no handler decides on
  an issue. **Escalations** and the **audit trail** are appended and listed. The
  checklist's "audit trail available" is a presence in `ClosureChecklist`.
* **Who is told and who decides** are not the same people, and `PendingIsAlerted`
  is about the former. A case member with the role admin may decide on a report
  (`case_review.py:833`) and is never a recipient; whoever becomes owner,
  reviewer or administrator while a report is pending may decide at once and has
  no alert until an administrator rebuilds them (that is `late`); a recipient who
  handled the alert of an earlier submission gets no new one, its key exists.
  No document promises otherwise, so these are stated here and in the model and
  not reported as findings.
* **Login throttling, passwords, access tokens.** The counter of failed logins
  only makes a login fail, which the model allows anyway; changing a password
  leaves the refresh tokens alone; access tokens are not stored.
* **Recon** stores what outside services answer, inside one request;
  **threat-intelligence connectors**, **AI text** and **report rendering** are
  outside calls or formatting. **Workers** have no task. **Analytics, search,
  dashboards and executive views** read the state modelled here and change
  nothing. **Backup, health and local monitoring** are file and network I/O; the
  **demo seeder** writes fixed rows.
* Overlap of *membership* requests with each other (two checks of the last owner
  that pass each other) is not modelled; `last_admin_race` shows the same
  pattern for administrators.

What would come next: `Membership` with requests in flight under
`CaseRequests` in place of the two callers, and `ClosureChecklist` with its
records driven by `FindingReview` and `Reports`.
