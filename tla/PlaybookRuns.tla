---------------------------- MODULE PlaybookRuns ----------------------------
(* The runs of one playbook on one finding (services/playbook.py).          *)
(*                                                                          *)
(* Requests overlap: each loads the run, decides, and commits the columns   *)
(* it changed, at READ COMMITTED and without locking what it read.  A step  *)
(* request flushes its own step and then reads the other steps to see       *)
(* whether the run is finished, so it has one phase more.  Requests holds   *)
(* one slot per request in flight.                                          *)
EXTENDS Naturals, FiniteSets

CONSTANTS
    Runs,             \* identities of playbook_runs rows
    Steps,            \* the steps of the playbook
    RequiredSteps,    \* those with required = true
    RunTargets,       \* statuses clients ask of a run, besides leaving it out
    StepTargets,      \* statuses clients ask of a step
    ArchiveTargets,   \* "yes" and "no" where clients archive and restore runs
    Requests          \* slots for requests in flight

ASSUME StepsAssumption == RequiredSteps \subseteq Steps /\ Steps # {}

RunStatuses == {"open", "in_progress", "blocked", "completed", "cancelled"}

LiveStatuses == {"open", "in_progress", "blocked"}

StepStatuses == {"pending", "in_progress", "completed", "skipped"}

ASSUME TargetsAssumption ==
    /\ RunTargets \subseteq RunStatuses
    /\ StepTargets \subseteq StepStatuses
    /\ ArchiveTargets \subseteq {"yes", "no"}

Unset == "unset"   \* a field the client leaves out, a column a request leaves alone

Rows == [status: RunStatuses, archived: {"yes", "no"}, step: [Steps -> StepStatuses]]

NoRow == [status |-> "absent"]

VARIABLES
    run,        \* playbook_runs with their playbook_run_steps, or NoRow
    request,    \* slot -> the request in flight there, or Idle
    raced       \* history: runs written by a request that had read them, or
                \* looked for them, before another request changed what it saw

vars == <<run, request, raced>>

Idle == [phase |-> "idle"]

\* What a request will write: the columns that differ from the row it loaded.
Writes == [status: RunStatuses \cup {Unset}, archived: {"yes", "no", Unset},
           step: [Steps -> StepStatuses \cup {Unset}]]

\* stale: another request has changed what this one read.
Starting == [phase: {"starting"}, stale: BOOLEAN]

Updating == [phase: {"updating"}, run: Runs, write: Writes, stale: BOOLEAN]

Stepping == [phase: {"stepping", "flushed"}, run: Runs, step: Steps, write: Writes,
             stale: BOOLEAN]

-----------------------------------------------------------------------------
(* The handlers, as functions of the row they loaded: the rows they may      *)
(* leave in their session, none when they raise.                             *)

RUN_TRANSITIONS ==
    [open        |-> {"in_progress", "blocked", "cancelled"},
     in_progress |-> {"blocked", "completed", "cancelled"},
     blocked     |-> {"in_progress", "cancelled"},
     completed   |-> {},
     cancelled   |-> {}]

\* Cancelling and archiving are for case admins, the rest for every role that
\* may change the case.  Naming the status a run has leaves it alone.
UpdateRun(row, caseAdmin, status, archived) ==
    IF /\ status = "cancelled" \/ archived # Unset => caseAdmin
       /\ status \in {Unset, row.status} \cup RUN_TRANSITIONS[row.status]
    THEN {[row EXCEPT !.status = IF status = Unset THEN @ ELSE status,
                      !.archived = IF archived = Unset THEN @ ELSE archived]}
    ELSE {}

\* Mutant: the steps of a closed run can still be edited.
UpdateStepAnytime(row, s, status) ==
    IF status = "skipped" => s \notin RequiredSteps
    THEN {[row EXCEPT !.step[s] = status]}
    ELSE {}

UpdateStep(row, s, status) ==
    IF row.status \in LiveStatuses /\ (status = "skipped" => s \notin RequiredSteps)
    THEN {[row EXCEPT !.step[s] = status,
                      !.status = IF @ = "open" /\ status = "in_progress"
                                 THEN "in_progress" ELSE @]}
    ELSE {}

Differing(loaded, new) ==
    [status   |-> IF new.status = loaded.status THEN Unset ELSE new.status,
     archived |-> IF new.archived = loaded.archived THEN Unset ELSE new.archived,
     step     |-> [s \in Steps |-> IF new.step[s] = loaded.step[s]
                                   THEN Unset ELSE new.step[s]]]

\* The row as the UPDATEs leave it, or as the writing session reads it back.
Applied(now, write) ==
    [status   |-> IF write.status = Unset THEN now.status ELSE write.status,
     archived |-> IF write.archived = Unset THEN now.archived ELSE write.archived,
     step     |-> [s \in Steps |-> IF write.step[s] = Unset
                                   THEN now.step[s] ELSE write.step[s]]]

Finished(step) == \A s \in Steps : step[s] \in {"completed", "skipped"}

\* Mutant: keeps to the table, which completes only a run in progress.
CompleteRunIfReadyByTable(row, write) ==
    IF Finished(Applied(row, write).step) /\ Applied(row, write).status = "in_progress"
    THEN [write EXCEPT !.status = "completed"] ELSE write

\* _complete_run_if_ready: its own step flushed, the others as they are
\* committed; from whatever live status, past the table.
CompleteRunIfReady(row, write) ==
    IF Finished(Applied(row, write).step) THEN [write EXCEPT !.status = "completed"]
    ELSE write

Progress(row) == <<row.status, row.step>>

-----------------------------------------------------------------------------
LiveRuns == {n \in Runs : run[n].status \in LiveStatuses}

Init ==
    /\ run = [n \in Runs |-> NoRow]
    /\ request = [r \in Requests |-> Idle]
    /\ raced = {}

\* Requests in flight that read what a commit changes.
Touches(q, n) ==
    \/ q.phase = "starting"
    \/ q.phase \in {"updating", "stepping", "flushed"} /\ q.run = n

\* The commit of slot r leaves run n as `row`; marks the requests it overtakes.
Store(r, n, row) ==
    /\ run' = [run EXCEPT ![n] = row]
    /\ raced' = IF request[r].stale THEN raced \cup {n} ELSE raced
    /\ request' = [o \in Requests |->
          IF o = r THEN Idle
          ELSE IF Touches(request[o], n) /\ (run[n] = NoRow \/ Progress(row) # Progress(run[n]))
          THEN [request[o] EXCEPT !.stale = TRUE]
          ELSE request[o]]

\* Mutant: a start does not look for a run that is already under way.
ReceiveStartBlindly(r) ==
    /\ request[r] = Idle
    /\ request' = [request EXCEPT ![r] = [phase |-> "starting", stale |-> FALSE]]
    /\ UNCHANGED <<run, raced>>

\* start_playbook_run, the look-up.  A live run found is returned and changes
\* nothing; two make scalar_one_or_none raise.
ReceiveStart(r) ==
    /\ request[r] = Idle
    /\ LiveRuns = {}
    /\ request' = [request EXCEPT ![r] = [phase |-> "starting", stale |-> FALSE]]
    /\ UNCHANGED <<run, raced>>

NewRun == [status |-> "open", archived |-> "no", step |-> [s \in Steps |-> "pending"]]

\* No index forbids a second live run.
CommitStart(r, n) ==
    /\ request[r].phase = "starting"
    /\ run[n] = NoRow
    /\ Store(r, n, NewRun)

\* A PATCH that asks for what is there already returns at once.
ReceiveUpdate(r, n, caseAdmin, status, archived) ==
    /\ request[r] = Idle
    /\ run[n] # NoRow
    /\ \E new \in UpdateRun(run[n], caseAdmin, status, archived) \ {run[n]} :
          request' = [request EXCEPT ![r] =
              [phase |-> "updating", run |-> n,
               write |-> Differing(run[n], new), stale |-> FALSE]]
    /\ UNCHANGED <<run, raced>>

ReceiveStep(r, n, s, status) ==
    /\ request[r] = Idle
    /\ run[n] # NoRow
    /\ \E new \in UpdateStep(run[n], s, status) :
          request' = [request EXCEPT ![r] =
              [phase |-> "stepping", run |-> n, step |-> s,
               write |-> Differing(run[n], new), stale |-> FALSE]]
    /\ UNCHANGED <<run, raced>>

\* The first flush of update_playbook_run_step and the read after it.  A
\* second UPDATE of one step row waits for the first to commit.
FlushStep(r) ==
    /\ request[r].phase = "stepping"
    /\ \A o \in Requests : request[o].phase = "flushed" =>
          <<request[o].run, request[o].step>> # <<request[r].run, request[r].step>>
    /\ LET q == request[r]
       IN  request' = [request EXCEPT ![r] =
              [q EXCEPT !.phase = "flushed",
                        !.write = CompleteRunIfReady(run[q.run], q.write)]]
    /\ UNCHANGED <<run, raced>>

Commit(r) ==
    /\ request[r].phase \in {"updating", "flushed"}
    /\ LET q == request[r]
       IN  Store(r, q.run, Applied(run[q.run], q.write))

\* The client goes away or the session fails: everything is rolled back.
Abort(r) ==
    /\ request[r] # Idle
    /\ request' = [request EXCEPT ![r] = Idle]
    /\ UNCHANGED <<run, raced>>

Next ==
    \E r \in Requests :
        \/ ReceiveStart(r)
        \/ \E n \in Runs : CommitStart(r, n)
        \/ \E n \in Runs, caseAdmin \in BOOLEAN, status \in RunTargets \cup {Unset},
              archived \in ArchiveTargets \cup {Unset} :
              ReceiveUpdate(r, n, caseAdmin, status, archived)
        \/ \E n \in Runs, s \in Steps, status \in StepTargets : ReceiveStep(r, n, s, status)
        \/ FlushStep(r)
        \/ Commit(r)
        \/ Abort(r)

Spec == Init /\ [][Next]_vars

\* The step request on a run that nobody else touches: the step, then
\* _complete_run_if_ready.
StepTaken(row, s, status) ==
    {IF Finished(new.step) THEN [new EXCEPT !.status = "completed"] ELSE new :
        new \in UpdateStep(row, s, status)}

\* What a handler may leave of run n when nobody else touches the runs; a case
\* admin may ask for whatever any caller may.
Handled(n, row) ==
    \/ run[n] = NoRow /\ LiveRuns = {} /\ row = NewRun
    \/ /\ run[n] # NoRow
       /\ \/ \E status \in RunTargets \cup {Unset}, archived \in ArchiveTargets \cup {Unset} :
                row \in UpdateRun(run[n], TRUE, status, archived)
          \/ \E s \in Steps, status \in StepTargets : row \in StepTaken(run[n], s, status)

HandlerStep ==
    \E n \in Runs : Handled(n, run'[n]) /\ run' = [run EXCEPT ![n] = run'[n]]

\* The handlers one after another.
SerialSpec == run = [n \in Runs |-> NoRow] /\ [][HandlerStep]_run

\* The request in slot r read what has changed since.
Overtaken(r) == request[r] # Idle /\ request[r].stale
-----------------------------------------------------------------------------
TypeOK ==
    /\ run \in [Runs -> Rows \cup {NoRow}]
    /\ request \in [Requests -> {Idle} \cup Starting \cup Updating \cup Stepping]
    /\ raced \subseteq Runs

(* A run whose steps are all completed or skipped is closed, although it is *)
(* the last step's own request that has to notice: _complete_run_if_ready.  *)
(* Two requests that finish the last two steps at once each see the other's *)
(* step pending and leave the run open; that is the one exception.          *)
FinishedRunsAreClosed ==
    \A n \in Runs \ raced :
        run[n] # NoRow /\ Finished(run[n].step) => run[n].status \notin LiveStatuses

(* "Closed playbook runs cannot be changed" (playbook.py:341): neither the  *)
(* status nor a step of a completed or cancelled run changes, unless the    *)
(* request loaded the run before it was closed.                             *)
ClosedRunsAreFrozen ==
    [][\A n \in Runs : run[n] # NoRow /\ run[n].status \notin LiveStatuses =>
          Progress(run'[n]) = Progress(run[n]) \/ n \in raced']_vars

(* Every change of the runs is what one handler makes of the runs as they   *)
(* are at that moment, although a start looks first and inserts later and a *)
(* step request reads the other steps half way; only a request that was     *)
(* overtaken leaves what no handler would.                                  *)
AtomicUnlessOvertaken ==
    [][HandlerStep \/ \E r \in Requests : Overtaken(r) /\ request'[r] = Idle]_run

(* One finding has one run of a playbook under way, which later starts are  *)
(* given back; a second one comes only from starts that looked before the   *)
(* other's insert was committed.                                            *)
OneRunUnderWay == Cardinality(LiveRuns \ raced) <= 1
=============================================================================
