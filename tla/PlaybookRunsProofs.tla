------------------------- MODULE PlaybookRunsProofs -------------------------
(* Proofs about PlaybookRuns, for any runs, steps and number of requests.   *)
EXTENDS PlaybookRuns, TLAPS, FiniteSetTheorems

\* What a request in flight still knows of the rows it read; nothing once stale.
Knows(r) ==
    LET q == request[r]
    IN  /\ q.phase \in {"updating", "stepping", "flushed"} => run[q.run] # NoRow
        /\ q # Idle /\ ~q.stale =>
             /\ q.phase = "starting" => LiveRuns = {}
             /\ q.phase = "updating" =>
                  /\ \A s \in Steps : q.write.step[s] = Unset
                  /\ q.write.status # Unset => run[q.run].status \in LiveStatuses
             /\ q.phase \in {"stepping", "flushed"} => run[q.run].status \in LiveStatuses
             /\ q.phase = "flushed" /\ Finished(Applied(run[q.run], q.write).step) =>
                  q.write.status = "completed"

OnlyOneLive == \A m, n \in LiveRuns \ raced : m = n

RunsInv ==
    /\ TypeOK
    /\ \A r \in Requests : Knows(r)
    /\ FinishedRunsAreClosed
    /\ OnlyOneLive

(* The sets of rows and requests do not overlap.                            *)
LEMMA Kinds ==
    /\ NoRow \notin Rows
    /\ NoRow.status \notin LiveStatuses
    /\ Idle.phase = "idle"
    /\ Idle \notin Starting \cup Updating \cup Stepping
  BY DEF NoRow, Rows, RunStatuses, LiveStatuses, Idle, Starting, Updating, Stepping

(* A handler computes a row and never reopens a closed one.                 *)
LEMMA HandlerTypes ==
    ASSUME NEW row \in Rows
    PROVE  /\ \A caseAdmin \in BOOLEAN, status \in RunTargets \cup {Unset},
                 archived \in ArchiveTargets \cup {Unset} :
                \A new \in UpdateRun(row, caseAdmin, status, archived) :
                   /\ new \in Rows
                   /\ new.step = row.step
                   /\ new.status # row.status => row.status \in LiveStatuses
           /\ \A s \in Steps, status \in StepTargets :
                \A new \in UpdateStep(row, s, status) :
                   new \in Rows /\ row.status \in LiveStatuses
<1>1. ASSUME NEW caseAdmin \in BOOLEAN, NEW status \in RunTargets \cup {Unset},
             NEW archived \in ArchiveTargets \cup {Unset},
             NEW new \in UpdateRun(row, caseAdmin, status, archived)
      PROVE  /\ new \in Rows
             /\ new.step = row.step
             /\ new.status # row.status => row.status \in LiveStatuses
  <2>1. status \in {Unset, row.status} \cup RUN_TRANSITIONS[row.status]
    BY <1>1 DEF UpdateRun
  <2>2. new = [row EXCEPT !.status = IF status = Unset THEN @ ELSE status,
                          !.archived = IF archived = Unset THEN @ ELSE archived]
    BY <1>1 DEF UpdateRun
  <2>3. new \in Rows /\ new.step = row.step
    BY <2>2, TargetsAssumption DEF Rows
  <2>4. new.status # row.status => row.status \in LiveStatuses
    BY <2>1, <2>2 DEF Rows, RunStatuses, LiveStatuses, RUN_TRANSITIONS
  <2>5. QED BY <2>3, <2>4
<1>2. ASSUME NEW s \in Steps, NEW status \in StepTargets,
             NEW new \in UpdateStep(row, s, status)
      PROVE  new \in Rows /\ row.status \in LiveStatuses
  <2>1. status \in StepStatuses
    BY TargetsAssumption
  <2>2. row.status \in LiveStatuses
    BY <1>2 DEF UpdateStep
  <2>3. [row.step EXCEPT ![s] = status] \in [Steps -> StepStatuses]
    BY <2>1 DEF Rows
  <2>4. new = [row EXCEPT !.step = [@ EXCEPT ![s] = status],
                          !.status = IF @ = "open" /\ status = "in_progress"
                                     THEN "in_progress" ELSE @]
    BY <1>2 DEF UpdateStep, Rows
  <2>5. QED BY <2>2, <2>3, <2>4 DEF Rows, RunStatuses
<1>3. QED BY <1>1, <1>2

(* What a request will write.                                               *)
LEMMA DifferingTypes ==
    ASSUME NEW loaded \in Rows, NEW new \in Rows
    PROVE  /\ Differing(loaded, new) \in Writes
           /\ new.step = loaded.step =>
                \A s \in Steps : Differing(loaded, new).step[s] = Unset
           /\ Differing(loaded, new).status # Unset => new.status # loaded.status
<1>1. Differing(loaded, new) \in Writes
  BY DEF Differing, Writes, Rows
<1>2. QED BY <1>1 DEF Differing, Rows

(* What the row then is.                                                    *)
LEMMA WriteTypes ==
    ASSUME NEW row \in Rows, NEW write \in Writes
    PROVE  Applied(row, write) \in Rows /\ CompleteRunIfReady(row, write) \in Writes
<1>1. (IF write.status = Unset THEN row.status ELSE write.status) \in RunStatuses
  BY DEF Writes, Rows
<1>2. (IF write.archived = Unset THEN row.archived ELSE write.archived) \in {"yes", "no"}
  BY DEF Writes, Rows, Unset
<1>3. [s \in Steps |-> IF write.step[s] = Unset THEN row.step[s] ELSE write.step[s]]
         \in [Steps -> StepStatuses]
  BY DEF Writes, Rows
<1>4. Applied(row, write) \in Rows
  BY <1>1, <1>2, <1>3 DEF Applied, Rows
<1>5. CompleteRunIfReady(row, write) \in Writes
  BY DEF CompleteRunIfReady, Writes, RunStatuses
<1>6. QED BY <1>4, <1>5

(* A flushed request that finished the steps will complete the run.         *)
LEMMA CompletionNoticed ==
    ASSUME NEW row \in Rows, NEW write \in Writes
    PROVE  LET w == CompleteRunIfReady(row, write)
           IN  Finished(Applied(row, w).step) => w.status = "completed"
<1> DEFINE w == CompleteRunIfReady(row, write)
<1>1. w.step = write.step
  BY DEF CompleteRunIfReady, Writes
<1>2. Applied(row, w).step = Applied(row, write).step
  BY <1>1 DEF Applied
<1>3. CASE Finished(Applied(row, write).step)
  BY <1>3 DEF CompleteRunIfReady, Writes
<1>4. CASE ~Finished(Applied(row, write).step)
  BY <1>2, <1>4
<1>5. QED BY <1>3, <1>4
-----------------------------------------------------------------------------
\* What a commit has to bring with it unless its request is stale.
Sound(r, n, row) ==
    ~request[r].stale /\ n \notin raced /\ row.status \in LiveStatuses =>
        ~Finished(row.step) /\ (n \in LiveRuns \/ LiveRuns = {})

(* Requests in flight lose what they know when a commit changes it.         *)
LEMMA StoreKeepsKnowledge ==
    ASSUME RunsInv, NEW r \in Requests, NEW n \in Runs, NEW row \in Rows,
           request[r] # Idle, Store(r, n, row), NEW o \in Requests
    PROVE  Knows(o)'
<1> DEFINE q == request[o]
<1>1. q \in {Idle} \cup Starting \cup Updating \cup Stepping /\ run \in [Runs -> Rows \cup {NoRow}]
  BY DEF RunsInv, TypeOK
<1>2. run' = [run EXCEPT ![n] = row] /\ run'[n] = row /\ row # NoRow
  BY <1>1, Kinds DEF Store
<1>3. CASE o = r
  <2>1. request'[o] = Idle
    BY <1>3 DEF Store
  <2>2. QED BY <2>1, Kinds DEF Knows
<1>4. ASSUME o # r, Touches(q, n), run[n] = NoRow \/ Progress(row) # Progress(run[n])
      PROVE  Knows(o)'
  <2>1. request'[o] = [q EXCEPT !.stale = TRUE]
    BY <1>4 DEF Store
  <2>2. q \in Starting \cup Updating \cup Stepping
    BY <1>1, <1>4, Kinds DEF Touches
  <2>3. request'[o].stale /\ request'[o].phase = q.phase
        /\ (q \in Updating \cup Stepping => request'[o].run = q.run)
    BY <2>1, <2>2 DEF Starting, Updating, Stepping
  <2>4. q.phase \in {"updating", "stepping", "flushed"} => q \in Updating \cup Stepping
    BY <2>2 DEF Starting
  <2>5. q.phase \in {"updating", "stepping", "flushed"} => run'[q.run] # NoRow
    BY <1>1, <1>2, <2>4 DEF RunsInv, Knows, Updating, Stepping
  <2>6. QED BY <2>3, <2>4, <2>5 DEF Knows
<1>5. ASSUME o # r, ~Touches(q, n) \/ (run[n] # NoRow /\ Progress(row) = Progress(run[n]))
      PROVE  Knows(o)'
  <2>1. request'[o] = q
    BY <1>5 DEF Store
  <2>2. q.phase = "starting" => LiveRuns' = LiveRuns
    <3>1. q.phase = "starting" => row.status = run[n].status
      BY <1>5 DEF Touches, Progress
    <3>2. QED BY <1>1, <1>2, <3>1 DEF LiveRuns
  <2>3. q.phase \in {"updating", "stepping", "flushed"} =>
           /\ q.run \in Runs
           /\ q \in Updating \cup Stepping
           /\ run'[q.run] # NoRow
           /\ run'[q.run].status = run[q.run].status
           /\ run'[q.run].step = run[q.run].step
    BY <1>1, <1>2, <1>5, Kinds DEF Touches, Progress, RunsInv, Knows, Starting, Updating, Stepping
  <2>4. q.phase \in {"updating", "stepping", "flushed"} =>
           Applied(run'[q.run], q.write).step = Applied(run[q.run], q.write).step
    BY <2>3 DEF Applied
  <2>5. Knows(o)
    BY DEF RunsInv
  <2>6. QED BY <2>1, <2>2, <2>3, <2>4, <2>5 DEF Knows
<1>6. QED BY <1>3, <1>4, <1>5

(* A sound commit keeps the invariant.                                      *)
LEMMA StoreStep ==
    ASSUME RunsInv, NEW r \in Requests, NEW n \in Runs, NEW row \in Rows,
           request[r] # Idle, Store(r, n, row), Sound(r, n, row)
    PROVE  RunsInv'
<1>1. run' = [run EXCEPT ![n] = row] /\ run \in [Runs -> Rows \cup {NoRow}]
      /\ raced \subseteq Runs /\ raced \subseteq raced' /\ (request[r].stale => n \in raced')
      /\ raced' \subseteq raced \cup {n}
  BY DEF RunsInv, TypeOK, Store
<1>2. TypeOK'
  <2>1. ASSUME NEW o \in Requests
        PROVE  request'[o] \in {Idle} \cup Starting \cup Updating \cup Stepping
    <3>1. request[o] \in {Idle} \cup Starting \cup Updating \cup Stepping
      BY DEF RunsInv, TypeOK
    <3>2. Touches(request[o], n) =>
             [request[o] EXCEPT !.stale = TRUE] \in Starting \cup Updating \cup Stepping
      BY <3>1, Kinds DEF Touches, Starting, Updating, Stepping
    <3>3. QED BY <3>1, <3>2 DEF Store
  <2>2. request' \in [Requests -> {Idle} \cup Starting \cup Updating \cup Stepping]
    BY <2>1 DEF Store
  <2>3. run' \in [Runs -> Rows \cup {NoRow}]
    BY <1>1
  <2>4. QED BY <1>1, <2>2, <2>3 DEF TypeOK
<1>3. \A o \in Requests : Knows(o)'
  BY StoreKeepsKnowledge
<1>4. FinishedRunsAreClosed'
  BY <1>1, Kinds DEF FinishedRunsAreClosed, Sound, RunsInv
<1>5. OnlyOneLive'
  <2> SUFFICES ASSUME NEW a \in LiveRuns' \ raced', NEW b \in LiveRuns' \ raced'
               PROVE  a = b
    BY DEF OnlyOneLive
  <2>1. a # n => a \in LiveRuns \ raced
    BY <1>1 DEF LiveRuns
  <2>2. b # n => b \in LiveRuns \ raced
    BY <1>1 DEF LiveRuns
  <2>3. a = n \/ b = n => ~request[r].stale /\ n \notin raced /\ row.status \in LiveStatuses
    BY <1>1 DEF LiveRuns
  <2>4. a = n \/ b = n => n \in LiveRuns \/ LiveRuns = {}
    BY <2>3 DEF Sound
  <2>5. QED BY <2>1, <2>2, <2>3, <2>4 DEF RunsInv, OnlyOneLive
<1>6. QED BY <1>2, <1>3, <1>4, <1>5 DEF RunsInv

(* A request that is received knows what it has just read.                  *)
LEMMA ReceiveStepKeeps ==
    ASSUME RunsInv, NEW r \in Requests, NEW q \in Starting \cup Updating \cup Stepping,
           request' = [request EXCEPT ![r] = q], UNCHANGED <<run, raced>>,
           Knows(r)'
    PROVE  RunsInv'
<1>1. TypeOK'
  BY DEF RunsInv, TypeOK
<1>2. ASSUME NEW o \in Requests, o # r
      PROVE  Knows(o)'
  <2>1. request'[o] = request[o]
    BY <1>2 DEF RunsInv, TypeOK
  <2>2. Knows(o)
    BY DEF RunsInv
  <2>3. QED BY <2>1, <2>2 DEF Knows, LiveRuns, Applied
<1>3. FinishedRunsAreClosed' /\ OnlyOneLive'
  BY DEF RunsInv, FinishedRunsAreClosed, OnlyOneLive, LiveRuns
<1>4. QED BY <1>1, <1>2, <1>3 DEF RunsInv

(* Every action keeps the invariant and leaves closed runs alone.           *)
LEMMA RunsInvStep ==
    ASSUME RunsInv, [Next]_vars
    PROVE  /\ RunsInv'
           /\ \A n \in Runs : run[n] # NoRow /\ run[n].status \notin LiveStatuses =>
                 Progress(run'[n]) = Progress(run[n]) \/ n \in raced'
<1> DEFINE Frozen == \A n \in Runs : run[n] # NoRow /\ run[n].status \notin LiveStatuses =>
                        Progress(run'[n]) = Progress(run[n]) \/ n \in raced'
<1>0. run \in [Runs -> Rows \cup {NoRow}] /\ raced \subseteq Runs
      /\ request \in [Requests -> {Idle} \cup Starting \cup Updating \cup Stepping]
  BY DEF RunsInv, TypeOK
<1>1. ASSUME NEW r \in Requests, ReceiveStart(r)
      PROVE  RunsInv' /\ Frozen
  <2> DEFINE q == [phase |-> "starting", stale |-> FALSE]
  <2>1. q \in Starting /\ request' = [request EXCEPT ![r] = q] /\ UNCHANGED <<run, raced>>
    BY <1>1 DEF ReceiveStart, Starting
  <2>2. Knows(r)'
    BY <1>0, <1>1, <2>1 DEF Knows, ReceiveStart, LiveRuns
  <2>3. QED BY <2>1, <2>2, ReceiveStepKeeps
<1>2. ASSUME NEW r \in Requests, NEW n \in Runs, CommitStart(r, n)
      PROVE  RunsInv' /\ Frozen
  <2>1. NewRun \in Rows /\ ~Finished(NewRun.step)
    BY StepsAssumption DEF NewRun, Rows, RunStatuses, StepStatuses, Finished
  <2>2. request[r] # Idle /\ Store(r, n, NewRun) /\ run[n] = NoRow
    BY <1>2 DEF CommitStart, Idle
  <2>3. Sound(r, n, NewRun)
    BY <1>2, <2>1, <2>2 DEF Sound, RunsInv, Knows, CommitStart
  <2>4. Frozen
    BY <1>0, <2>2 DEF Store
  <2>5. QED BY <2>1, <2>2, <2>3, <2>4, StoreStep
<1>3. ASSUME NEW r \in Requests, NEW n \in Runs, NEW caseAdmin \in BOOLEAN,
             NEW status \in RunTargets \cup {Unset}, NEW archived \in ArchiveTargets \cup {Unset},
             ReceiveUpdate(r, n, caseAdmin, status, archived)
      PROVE  RunsInv' /\ Frozen
  <2>1. PICK new \in UpdateRun(run[n], caseAdmin, status, archived) :
           request' = [request EXCEPT ![r] = [phase |-> "updating", run |-> n,
                          write |-> Differing(run[n], new), stale |-> FALSE]]
    BY <1>3 DEF ReceiveUpdate
  <2> DEFINE q == [phase |-> "updating", run |-> n,
                   write |-> Differing(run[n], new), stale |-> FALSE]
  <2>2. run[n] \in Rows /\ UNCHANGED <<run, raced>>
    BY <1>0, <1>3 DEF ReceiveUpdate
  <2>3. /\ new \in Rows
        /\ new.step = run[n].step
        /\ new.status # run[n].status => run[n].status \in LiveStatuses
    BY <2>1, <2>2, HandlerTypes
  <2>4. q \in Updating
    BY <2>2, <2>3, DifferingTypes DEF Updating
  <2>5. Knows(r)'
    <3>1. /\ \A s \in Steps : q.write.step[s] = Unset
          /\ q.write.status # Unset => run[n].status \in LiveStatuses
      BY <2>2, <2>3, DifferingTypes
    <3>2. request'[r] = q
      BY <1>0, <2>1
    <3>3. QED BY <2>2, <3>1, <3>2, Kinds DEF Knows
  <2>6. QED BY <2>1, <2>2, <2>4, <2>5, ReceiveStepKeeps
<1>4. ASSUME NEW r \in Requests, NEW n \in Runs, NEW s \in Steps, NEW status \in StepTargets,
             ReceiveStep(r, n, s, status)
      PROVE  RunsInv' /\ Frozen
  <2>1. PICK new \in UpdateStep(run[n], s, status) :
           request' = [request EXCEPT ![r] = [phase |-> "stepping", run |-> n, step |-> s,
                          write |-> Differing(run[n], new), stale |-> FALSE]]
    BY <1>4 DEF ReceiveStep
  <2> DEFINE q == [phase |-> "stepping", run |-> n, step |-> s,
                   write |-> Differing(run[n], new), stale |-> FALSE]
  <2>2. run[n] \in Rows /\ UNCHANGED <<run, raced>>
    BY <1>0, <1>4 DEF ReceiveStep
  <2>3. new \in Rows /\ run[n].status \in LiveStatuses
    BY <2>1, <2>2, HandlerTypes
  <2>4. q \in Stepping
    BY <2>2, <2>3, DifferingTypes DEF Stepping
  <2>5. Knows(r)'
    <3>1. request'[r] = q
      BY <1>0, <2>1
    <3>2. QED BY <2>2, <2>3, <3>1, Kinds DEF Knows
  <2>6. QED BY <2>1, <2>2, <2>4, <2>5, ReceiveStepKeeps
<1>5. ASSUME NEW r \in Requests, FlushStep(r)
      PROVE  RunsInv' /\ Frozen
  <2> DEFINE q == request[r]
             w == CompleteRunIfReady(run[q.run], q.write)
             flushed == [q EXCEPT !.phase = "flushed", !.write = w]
  <2>1. q \in Stepping /\ q.phase = "stepping" /\ request' = [request EXCEPT ![r] = flushed]
        /\ UNCHANGED <<run, raced>>
    BY <1>0, <1>5, Kinds DEF FlushStep, Starting, Updating
  <2>2. run[q.run] \in Rows /\ q.write \in Writes
    BY <1>0, <2>1 DEF RunsInv, Knows, Stepping
  <2>3. w \in Writes /\ (Finished(Applied(run[q.run], w).step) => w.status = "completed")
    BY <2>2, WriteTypes, CompletionNoticed
  <2>4. flushed \in Stepping
    BY <2>1, <2>3 DEF Stepping
  <2>5. Knows(r)'
    <3>1. /\ request'[r] = flushed
          /\ flushed.phase = "flushed" /\ flushed.run = q.run
          /\ flushed.stale = q.stale /\ flushed.write = w
      BY <1>0, <2>1 DEF Stepping
    <3>2. Knows(r)
      BY DEF RunsInv
    <3>3. q # Idle
      BY <2>1, Kinds
    <3>4. QED BY <2>1, <2>2, <2>3, <3>1, <3>2, <3>3, Kinds DEF Knows, Applied
  <2>6. QED BY <2>1, <2>4, <2>5, ReceiveStepKeeps
<1>6. ASSUME NEW r \in Requests, Commit(r)
      PROVE  RunsInv' /\ Frozen
  <2> DEFINE q == request[r]
             row == Applied(run[q.run], q.write)
  <2>1. /\ q \in Updating \cup Stepping
        /\ q.phase \in {"updating", "flushed"}
        /\ Store(r, q.run, row)
    BY <1>0, <1>6, Kinds DEF Commit, Starting
  <2>2. q # Idle /\ q.run \in Runs /\ q.write \in Writes /\ q.stale \in BOOLEAN
    BY <2>1, Kinds DEF Updating, Stepping
  <2>3. Knows(r) /\ run[q.run] \in Rows
    BY <1>0, <2>1, <2>2 DEF RunsInv, Knows
  <2>4. row \in Rows
    BY <2>2, <2>3, WriteTypes
  <2>5. ASSUME ~q.stale
        PROVE  /\ row.status \in LiveStatuses => run[q.run].status \in LiveStatuses
               /\ run[q.run].status \notin LiveStatuses => Progress(row) = Progress(run[q.run])
               /\ q.run \notin raced /\ row.status \in LiveStatuses => ~Finished(row.step)
    <3>1. CASE q.phase = "updating"
      <4>1. /\ \A s \in Steps : q.write.step[s] = Unset
            /\ q.write.status # Unset => run[q.run].status \in LiveStatuses
        BY <2>2, <2>3, <2>5, <3>1 DEF Knows
      <4>2. row.step = run[q.run].step
        BY <2>3, <4>1 DEF Applied, Rows
      <4>3. row.status = run[q.run].status \/ run[q.run].status \in LiveStatuses
        BY <4>1 DEF Applied
      <4>4. QED BY <2>2, <2>3, <4>2, <4>3, Kinds DEF RunsInv, FinishedRunsAreClosed, Progress
    <3>2. CASE q.phase = "flushed"
      <4>1. run[q.run].status \in LiveStatuses
            /\ (Finished(row.step) => q.write.status = "completed")
        BY <2>2, <2>3, <2>5, <3>2 DEF Knows
      <4>2. q.write.status = "completed" => row.status = "completed"
        BY DEF Applied, Unset
      <4>3. QED BY <4>1, <4>2 DEF LiveStatuses
    <3>3. QED BY <2>1, <3>1, <3>2
  <2>6. Sound(r, q.run, row)
    BY <2>2, <2>5 DEF Sound, LiveRuns
  <2>7. RunsInv'
    BY <2>1, <2>2, <2>4, <2>6, StoreStep
  <2>8. Frozen
    <3>1. q.stale => q.run \in raced'
      BY <2>1 DEF Store
    <3>2. run' = [run EXCEPT ![q.run] = row]
      BY <2>1 DEF Store
    <3>3. QED BY <1>0, <2>2, <2>4, <2>5, <3>1, <3>2
  <2>9. QED BY <2>7, <2>8
<1>7. ASSUME NEW r \in Requests, Abort(r)
      PROVE  RunsInv' /\ Frozen
  <2>1. TypeOK'
    BY <1>7 DEF RunsInv, TypeOK, Abort
  <2>2. ASSUME NEW o \in Requests
        PROVE  Knows(o)'
    <3>1. request'[o] = request[o] \/ request'[o] = Idle
      BY <1>0, <1>7 DEF Abort
    <3>2. Knows(o) /\ UNCHANGED run
      BY <1>7 DEF RunsInv, Abort
    <3>3. QED BY <3>1, <3>2, Kinds DEF Knows, LiveRuns, Applied
  <2>3. FinishedRunsAreClosed' /\ OnlyOneLive'
    BY <1>7 DEF RunsInv, FinishedRunsAreClosed, OnlyOneLive, LiveRuns, Abort
  <2>4. QED BY <1>7, <2>1, <2>2, <2>3 DEF RunsInv, Abort
<1>8. CASE UNCHANGED vars
  <2>1. RunsInv'
    BY <1>8 DEF RunsInv, TypeOK, Knows, FinishedRunsAreClosed, OnlyOneLive, LiveRuns, Applied, vars
  <2>2. QED BY <1>8, <2>1 DEF vars
<1>9. QED BY <1>1, <1>2, <1>3, <1>4, <1>5, <1>6, <1>7, <1>8 DEF Next

(* No run and no request is there at first.                                 *)
LEMMA RunsInvInit == Init => RunsInv
<1> SUFFICES ASSUME Init PROVE RunsInv
  OBVIOUS
<1>1. TypeOK
  BY DEF Init, TypeOK
<1>2. LiveRuns = {} /\ FinishedRunsAreClosed
  BY Kinds DEF Init, LiveRuns, FinishedRunsAreClosed
<1>3. QED BY <1>1, <1>2, Kinds DEF RunsInv, Init, Knows, OnlyOneLive

(* The invariant of every reachable state.                                  *)
LEMMA RunsInvariant == Spec => []RunsInv
<1>1. RunsInv /\ [Next]_vars => RunsInv'
  BY RunsInvStep
<1>2. QED BY RunsInvInit, <1>1, PTL DEF Spec
-----------------------------------------------------------------------------
\* The step of the playbook that a request asks for, flushed but not completed.
StepAsked(row, new, s, status) ==
    /\ row.status \in LiveStatuses
    /\ status = "skipped" => s \notin RequiredSteps
    /\ new.step = [row.step EXCEPT ![s] = status]
    /\ new.status = IF row.status = "open" /\ status = "in_progress"
                    THEN "in_progress" ELSE row.status

\* The same after _complete_run_if_ready.
StepDone(row, new, s, status) ==
    /\ row.status \in LiveStatuses
    /\ status = "skipped" => s \notin RequiredSteps
    /\ new.step = [row.step EXCEPT ![s] = status]
    /\ new.status = IF Finished(new.step) THEN "completed"
                    ELSE IF row.status = "open" /\ status = "in_progress"
                    THEN "in_progress" ELSE row.status

\* What request q is about to write is what its handler would do with the row.
\* It depends on the progress of the row alone, which is what makes q stale.
Fits(q, row) ==
    /\ q.phase = "updating" =>
          /\ q.write.status \in RunTargets \cup {Unset}
          /\ q.write.archived \in ArchiveTargets \cup {Unset}
          /\ \A s \in Steps : q.write.step[s] = Unset
          /\ q.write.status # Unset => q.write.status \in RUN_TRANSITIONS[row.status]
    /\ q.phase = "stepping" =>
          /\ q.write.archived = Unset
          /\ \E status \in StepTargets : StepAsked(row, Applied(row, q.write), q.step, status)
    /\ q.phase = "flushed" =>
          /\ q.write.archived = Unset
          /\ \E status \in StepTargets : StepDone(row, Applied(row, q.write), q.step, status)

Stands(r) ==
    LET q == request[r]
    IN  q.phase \in {"updating", "stepping", "flushed"} /\ ~q.stale => Fits(q, run[q.run])

StandingInv == RunsInv /\ \A r \in Requests : Stands(r)

\* The runs change by one handler or by an overtaken request.
Atomic ==
    \/ HandlerStep
    \/ \E r \in Requests : Overtaken(r) /\ request'[r] = Idle
    \/ UNCHANGED run

(* Rows with the same columns are the same.                                 *)
LEMMA SameRow ==
    ASSUME NEW a \in Rows, NEW b \in Rows,
           a.status = b.status, a.archived = b.archived, a.step = b.step
    PROVE  a = b
  BY DEF Rows

(* What fits a row fits every row with the same status and steps.           *)
LEMMA FitsProgress ==
    ASSUME NEW row \in Rows, NEW now \in Rows, Progress(now) = Progress(row), NEW q, Fits(q, row)
    PROVE  Fits(q, now)
<1>1. now.status = row.status /\ now.step = row.step
  BY DEF Progress
<1>2. /\ Applied(now, q.write).status = Applied(row, q.write).status
      /\ Applied(now, q.write).step = Applied(row, q.write).step
  BY <1>1 DEF Applied
<1>3. QED BY <1>1, <1>2 DEF Fits, StepAsked, StepDone

(* A PATCH of the run fits the run it read.                                 *)
LEMMA UpdatesFit ==
    ASSUME NEW row \in Rows, NEW caseAdmin \in BOOLEAN,
           NEW status \in RunTargets \cup {Unset}, NEW archived \in ArchiveTargets \cup {Unset},
           NEW new \in UpdateRun(row, caseAdmin, status, archived),
           NEW q, q.phase = "updating", q.write = Differing(row, new)
    PROVE  Fits(q, row)
<1>1. /\ status \in {Unset, row.status} \cup RUN_TRANSITIONS[row.status]
      /\ new.status = (IF status = Unset THEN row.status ELSE status)
      /\ new.archived = (IF archived = Unset THEN row.archived ELSE archived)
      /\ new.step = row.step
  BY DEF UpdateRun, Rows
<1>2. /\ q.write.status = (IF new.status = row.status THEN Unset ELSE new.status)
      /\ q.write.archived = (IF new.archived = row.archived THEN Unset ELSE new.archived)
      /\ \A s \in Steps : q.write.step[s] = Unset
  BY <1>1 DEF Differing
<1>3. QED BY <1>1, <1>2 DEF Fits

(* A step request fits the run it read.                                     *)
LEMMA StepsFit ==
    ASSUME NEW row \in Rows, NEW s \in Steps, NEW status \in StepTargets,
           NEW new \in UpdateStep(row, s, status),
           NEW q, q.phase = "stepping", q.step = s, q.write = Differing(row, new)
    PROVE  Fits(q, row)
<1>1. new \in Rows
  BY HandlerTypes
<1>2. /\ row.status \in LiveStatuses /\ (status = "skipped" => s \notin RequiredSteps)
      /\ new = [row EXCEPT !.step = [@ EXCEPT ![s] = status],
                           !.status = IF @ = "open" /\ status = "in_progress"
                                      THEN "in_progress" ELSE @]
  BY DEF UpdateStep, Rows
<1>3. /\ new.step = [row.step EXCEPT ![s] = status] /\ new.archived = row.archived
      /\ new.status = (IF row.status = "open" /\ status = "in_progress"
                       THEN "in_progress" ELSE row.status)
  BY <1>2 DEF Rows
<1> DEFINE w == Differing(row, new)
<1>4. w.archived = Unset
  BY <1>3 DEF Differing
<1>5. Applied(row, w).status = new.status
  <2>1. new.status # Unset
    BY <1>1 DEF Rows, RunStatuses, Unset
  <2>2. w.status = (IF new.status = row.status THEN Unset ELSE new.status)
    BY DEF Differing
  <2>3. Applied(row, w).status = (IF w.status = Unset THEN row.status ELSE w.status)
    BY DEF Applied
  <2>4. QED BY <2>1, <2>2, <2>3
<1>6. Applied(row, w).step = new.step
  <2>1. /\ DOMAIN new.step = Steps /\ new.step = [t \in Steps |-> new.step[t]]
    BY <1>1 DEF Rows
  <2>2. ASSUME NEW t \in Steps
        PROVE  (IF w.step[t] = Unset THEN row.step[t] ELSE w.step[t]) = new.step[t]
    <3>1. new.step[t] # Unset
      BY <1>1 DEF Rows, StepStatuses, Unset
    <3>2. w.step[t] = (IF new.step[t] = row.step[t] THEN Unset ELSE new.step[t])
      BY DEF Differing
    <3>3. QED BY <3>1, <3>2
  <2>3. QED BY <2>1, <2>2 DEF Applied
<1>7. StepAsked(row, Applied(row, w), s, status)
  BY <1>2, <1>3, <1>5, <1>6 DEF StepAsked
<1>8. QED BY <1>4, <1>7 DEF Fits

(* And once more when it has looked whether the run is finished.            *)
LEMMA FlushesFit ==
    ASSUME NEW row \in Rows, NEW p, p.phase = "stepping", p.write \in Writes, Fits(p, row),
           NEW q, q.phase = "flushed", q.step = p.step,
           q.write = CompleteRunIfReady(row, p.write)
    PROVE  Fits(q, row)
<1>1. PICK status \in StepTargets : StepAsked(row, Applied(row, p.write), p.step, status)
  BY DEF Fits
<1>2. /\ q.write.step = p.write.step /\ q.write.archived = p.write.archived
      /\ q.write.status = (IF Finished(Applied(row, p.write).step) THEN "completed"
                           ELSE p.write.status)
  BY DEF CompleteRunIfReady, Writes
<1>3. Applied(row, q.write).step = Applied(row, p.write).step
  BY <1>2 DEF Applied
<1>4. Applied(row, q.write).status = (IF Finished(Applied(row, p.write).step) THEN "completed"
                                      ELSE Applied(row, p.write).status)
  BY <1>2 DEF Applied, Unset
<1>5. StepDone(row, Applied(row, q.write), q.step, status)
  BY <1>1, <1>3, <1>4 DEF StepAsked, StepDone
<1>6. QED BY <1>2, <1>5 DEF Fits

(* A write that fits is a handler's outcome.                                *)
LEMMA FittingIsHandled ==
    ASSUME NEW n \in Runs, run[n] \in Rows, NEW q, q.phase \in {"updating", "flushed"},
           q.write \in Writes, q.phase = "flushed" => q.step \in Steps, Fits(q, run[n])
    PROVE  Handled(n, Applied(run[n], q.write))
<1> DEFINE row == run[n]
           w == q.write
           new == Applied(row, w)
<1>0. run[n] # NoRow /\ new \in Rows
  BY Kinds, WriteTypes
<1>1. CASE q.phase = "updating"
  <2>1. /\ w.status \in RunTargets \cup {Unset} /\ w.archived \in ArchiveTargets \cup {Unset}
        /\ \A s \in Steps : w.step[s] = Unset
        /\ w.status # Unset => w.status \in RUN_TRANSITIONS[row.status]
    BY <1>1 DEF Fits
  <2>2. new.step = row.step
    BY <2>1 DEF Applied, Rows
  <2>3. new = [row EXCEPT !.status = IF w.status = Unset THEN @ ELSE w.status,
                          !.archived = IF w.archived = Unset THEN @ ELSE w.archived]
    <3> DEFINE up == [row EXCEPT !.status = IF w.status = Unset THEN @ ELSE w.status,
                                 !.archived = IF w.archived = Unset THEN @ ELSE w.archived]
    <3>1. /\ up \in Rows /\ up.step = row.step
          /\ up.status = (IF w.status = Unset THEN row.status ELSE w.status)
          /\ up.archived = (IF w.archived = Unset THEN row.archived ELSE w.archived)
      BY <2>1, TargetsAssumption DEF Rows
    <3>2. /\ new.status = (IF w.status = Unset THEN row.status ELSE w.status)
          /\ new.archived = (IF w.archived = Unset THEN row.archived ELSE w.archived)
      BY DEF Applied
    <3>3. new.status = up.status /\ new.archived = up.archived /\ new.step = up.step
      BY <2>2, <3>1, <3>2
    <3> HIDE DEF up, new
    <3>4. new = up
      BY <1>0, <3>1, <3>3, SameRow
    <3>5. QED BY <3>4 DEF up
  <2>4. new \in UpdateRun(row, TRUE, w.status, w.archived)
    BY <2>1, <2>3 DEF UpdateRun
  <2>5. QED BY <1>0, <2>1, <2>4 DEF Handled
<1>2. CASE q.phase = "flushed"
  <2>1. PICK status \in StepTargets : StepDone(row, new, q.step, status)
    BY <1>2 DEF Fits
  <2>2. new.archived = row.archived
    BY <1>2 DEF Fits, Applied
  <2> DEFINE mid == [row EXCEPT !.step = [@ EXCEPT ![q.step] = status],
                                !.status = IF @ = "open" /\ status = "in_progress"
                                           THEN "in_progress" ELSE @]
             done == IF Finished(mid.step) THEN [mid EXCEPT !.status = "completed"] ELSE mid
  <2>3. mid \in UpdateStep(row, q.step, status)
    BY <2>1 DEF StepDone, UpdateStep, Rows
  <2>4. done \in StepTaken(row, q.step, status)
    BY <2>3 DEF StepTaken
  <2>5. /\ mid.step = [row.step EXCEPT ![q.step] = status] /\ mid.archived = row.archived
        /\ mid.status = (IF row.status = "open" /\ status = "in_progress"
                         THEN "in_progress" ELSE row.status)
        /\ mid \in [status: RunStatuses, archived: {"yes", "no"}, step: [Steps -> StepStatuses]]
    <3>1. status \in StepStatuses
      BY TargetsAssumption
    <3>2. [row.step EXCEPT ![q.step] = status] \in [Steps -> StepStatuses]
      BY <3>1 DEF Rows
    <3>3. QED BY <3>2 DEF Rows, RunStatuses
  <2>6. /\ done.step = mid.step /\ done.archived = mid.archived
        /\ done.status = (IF Finished(mid.step) THEN "completed" ELSE mid.status)
        /\ done \in Rows
    BY <2>5 DEF Rows, RunStatuses
  <2>7. done = new
    <3>1. new.step = done.step
      BY <2>1, <2>5, <2>6 DEF StepDone
    <3>2. new.status = done.status
      BY <2>1, <2>5, <2>6 DEF StepDone
    <3>3. new.archived = done.archived
      BY <2>2, <2>5, <2>6
    <3> HIDE DEF new, done
    <3>4. QED BY <1>0, <2>6, <3>1, <3>2, <3>3, SameRow
  <2>8. new \in StepTaken(row, q.step, status) /\ q.step \in Steps
    BY <1>2, <2>4, <2>7
  <2>9. QED BY <1>0, <2>8 DEF Handled
<1>3. QED BY <1>1, <1>2
-----------------------------------------------------------------------------
(* Requests that a commit does not overtake stand as before.                *)
LEMMA StoreKeepsStanding ==
    ASSUME StandingInv, NEW r \in Requests, NEW n \in Runs, NEW row \in Rows,
           request[r] # Idle, Store(r, n, row), NEW o \in Requests
    PROVE  Stands(o)'
<1> DEFINE q == request[o]
<1>1. q \in {Idle} \cup Starting \cup Updating \cup Stepping /\ run \in [Runs -> Rows \cup {NoRow}]
  BY DEF StandingInv, RunsInv, TypeOK
<1>2. run' = [run EXCEPT ![n] = row]
  BY DEF Store
<1>3. CASE o = r
  <2>1. request'[o] = Idle
    BY <1>3 DEF Store
  <2>2. QED BY <2>1, Kinds DEF Stands
<1>4. ASSUME o # r, Touches(q, n), run[n] = NoRow \/ Progress(row) # Progress(run[n])
      PROVE  Stands(o)'
  <2>1. request'[o] = [q EXCEPT !.stale = TRUE]
    BY <1>4 DEF Store
  <2>2. q \in Starting \cup Updating \cup Stepping
    BY <1>1, <1>4, Kinds DEF Touches
  <2>3. request'[o].stale
    BY <2>1, <2>2 DEF Starting, Updating, Stepping
  <2>4. QED BY <2>3 DEF Stands
<1>5. ASSUME o # r, ~Touches(q, n) \/ (run[n] # NoRow /\ Progress(row) = Progress(run[n]))
      PROVE  Stands(o)'
  <2>1. request'[o] = q
    BY <1>5 DEF Store
  <2>2. SUFFICES ASSUME q.phase \in {"updating", "stepping", "flushed"}, ~q.stale
                 PROVE  Fits(q, run'[q.run])
    BY <2>1 DEF Stands
  <2>3. q.run \in Runs /\ run[q.run] \in Rows
    BY <1>1, <2>2, Kinds DEF StandingInv, RunsInv, Knows, Starting, Updating, Stepping
  <2>4. Fits(q, run[q.run])
    BY <2>2 DEF StandingInv, Stands
  <2>5. CASE q.run # n
    BY <1>1, <1>2, <2>3, <2>4, <2>5
  <2>6. CASE q.run = n
    <3>1. Progress(row) = Progress(run[n])
      BY <1>5, <2>2, <2>6 DEF Touches
    <3>2. run'[n] = row
      BY <1>1, <1>2
    <3>3. QED BY <2>3, <2>4, <2>6, <3>1, <3>2, FitsProgress
  <2>7. QED BY <2>5, <2>6
<1>6. QED BY <1>3, <1>4, <1>5

(* A request that is received or flushed stands if what it writes fits.     *)
LEMMA EntryKeepsStanding ==
    ASSUME StandingInv, NEW r \in Requests, NEW q,
           request' = [request EXCEPT ![r] = q], UNCHANGED <<run, raced>>,
           q.phase \in {"updating", "stepping", "flushed"} /\ ~q.stale => Fits(q, run[q.run]),
           NEW o \in Requests
    PROVE  Stands(o)'
<1>1. request'[o] = IF o = r THEN q ELSE request[o]
  BY DEF StandingInv, RunsInv, TypeOK
<1>2. CASE o = r
  BY <1>1, <1>2 DEF Stands
<1>3. CASE o # r
  <2>1. Stands(o) /\ request'[o] = request[o]
    BY <1>1, <1>3 DEF StandingInv
  <2>2. QED BY <2>1 DEF Stands
<1>4. QED BY <1>2, <1>3

(* Every step keeps the requests standing and is atomic.                    *)
LEMMA StandingInvStep ==
    ASSUME StandingInv, [Next]_vars
    PROVE  StandingInv' /\ Atomic
<1>0. run \in [Runs -> Rows \cup {NoRow}]
      /\ request \in [Requests -> {Idle} \cup Starting \cup Updating \cup Stepping]
  BY DEF StandingInv, RunsInv, TypeOK
<1> DEFINE Goal == (\A o \in Requests : Stands(o)') /\ Atomic
<1>1. ASSUME NEW r \in Requests, ReceiveStart(r)
      PROVE  Goal
  <2> DEFINE q == [phase |-> "starting", stale |-> FALSE]
  <2>1. request' = [request EXCEPT ![r] = q] /\ UNCHANGED <<run, raced>> /\ q.phase = "starting"
    BY <1>1 DEF ReceiveStart
  <2>2. QED BY <2>1, EntryKeepsStanding DEF Atomic
<1>2. ASSUME NEW r \in Requests, NEW n \in Runs, CommitStart(r, n)
      PROVE  Goal
  <2>1. NewRun \in Rows
    BY DEF NewRun, Rows, RunStatuses, StepStatuses
  <2>2. Store(r, n, NewRun) /\ request[r].phase = "starting" /\ request[r] # Idle /\ run[n] = NoRow
    BY <1>2 DEF CommitStart, Idle
  <2>3. \A o \in Requests : Stands(o)'
    BY <2>1, <2>2, StoreKeepsStanding
  <2>4. /\ run' = [run EXCEPT ![n] = NewRun] /\ run'[n] = NewRun /\ request'[r] = Idle
        /\ run' = [run EXCEPT ![n] = run'[n]]
    BY <1>0, <2>2 DEF Store
  <2>5. CASE request[r].stale
    BY <2>2, <2>3, <2>4, <2>5 DEF Atomic, Overtaken
  <2>6. CASE ~request[r].stale
    <3>1. LiveRuns = {}
      BY <2>2, <2>6 DEF StandingInv, RunsInv, Knows
    <3>2. HandlerStep
      BY <2>2, <2>4, <3>1 DEF HandlerStep, Handled
    <3>3. QED BY <2>3, <3>2 DEF Atomic
  <2>7. QED BY <2>5, <2>6
<1>3. ASSUME NEW r \in Requests, NEW n \in Runs, NEW caseAdmin \in BOOLEAN,
             NEW status \in RunTargets \cup {Unset}, NEW archived \in ArchiveTargets \cup {Unset},
             ReceiveUpdate(r, n, caseAdmin, status, archived)
      PROVE  Goal
  <2>1. PICK new \in UpdateRun(run[n], caseAdmin, status, archived) :
           request' = [request EXCEPT ![r] = [phase |-> "updating", run |-> n,
                          write |-> Differing(run[n], new), stale |-> FALSE]]
    BY <1>3 DEF ReceiveUpdate
  <2> DEFINE q == [phase |-> "updating", run |-> n,
                   write |-> Differing(run[n], new), stale |-> FALSE]
  <2>2. run[n] \in Rows /\ UNCHANGED <<run, raced>>
    BY <1>0, <1>3 DEF ReceiveUpdate
  <2>3. q.phase = "updating" /\ q.run = n /\ q.write = Differing(run[n], new)
    OBVIOUS
  <2>4. Fits(q, run[q.run])
    BY <2>2, <2>3, UpdatesFit
  <2>5. QED BY <2>1, <2>2, <2>4, EntryKeepsStanding DEF Atomic
<1>4. ASSUME NEW r \in Requests, NEW n \in Runs, NEW s \in Steps, NEW status \in StepTargets,
             ReceiveStep(r, n, s, status)
      PROVE  Goal
  <2>1. PICK new \in UpdateStep(run[n], s, status) :
           request' = [request EXCEPT ![r] = [phase |-> "stepping", run |-> n, step |-> s,
                          write |-> Differing(run[n], new), stale |-> FALSE]]
    BY <1>4 DEF ReceiveStep
  <2> DEFINE q == [phase |-> "stepping", run |-> n, step |-> s,
                   write |-> Differing(run[n], new), stale |-> FALSE]
  <2>2. run[n] \in Rows /\ UNCHANGED <<run, raced>>
    BY <1>0, <1>4 DEF ReceiveStep
  <2>3. q.phase = "stepping" /\ q.run = n /\ q.step = s /\ q.write = Differing(run[n], new)
    OBVIOUS
  <2>4. Fits(q, run[q.run])
    BY <2>2, <2>3, StepsFit
  <2>5. QED BY <2>1, <2>2, <2>4, EntryKeepsStanding DEF Atomic
<1>5. ASSUME NEW r \in Requests, FlushStep(r)
      PROVE  Goal
  <2> DEFINE p == request[r]
             q == [p EXCEPT !.phase = "flushed",
                            !.write = CompleteRunIfReady(run[p.run], p.write)]
  <2>1. p \in Stepping /\ p.phase = "stepping" /\ request' = [request EXCEPT ![r] = q]
        /\ UNCHANGED <<run, raced>>
    BY <1>0, <1>5, Kinds DEF FlushStep, Starting, Updating
  <2>2. run[p.run] \in Rows /\ p.write \in Writes
    BY <1>0, <2>1 DEF StandingInv, RunsInv, Knows, Stepping
  <2>3. /\ q.phase = "flushed" /\ q.run = p.run /\ q.step = p.step /\ q.stale = p.stale
        /\ q.write = CompleteRunIfReady(run[p.run], p.write)
    BY <2>1 DEF Stepping
  <2>4. ~q.stale => Fits(q, run[q.run])
    <3>1. ~p.stale => Fits(p, run[p.run])
      BY <2>1 DEF StandingInv, Stands
    <3>2. QED BY <2>1, <2>2, <2>3, <3>1, FlushesFit
  <2>5. QED BY <2>1, <2>4, EntryKeepsStanding DEF Atomic
<1>6. ASSUME NEW r \in Requests, Commit(r)
      PROVE  Goal
  <2> DEFINE q == request[r]
             row == Applied(run[q.run], q.write)
  <2>1. /\ q \in Updating \cup Stepping
        /\ q.phase \in {"updating", "flushed"}
        /\ Store(r, q.run, row)
    BY <1>0, <1>6, Kinds DEF Commit, Starting
  <2>2. q # Idle /\ q.run \in Runs /\ q.write \in Writes /\ q.stale \in BOOLEAN
        /\ (q.phase = "flushed" => q.step \in Steps)
    BY <2>1, Kinds DEF Updating, Stepping
  <2>3. run[q.run] \in Rows
    BY <1>0, <2>1, <2>2 DEF StandingInv, RunsInv, Knows
  <2>4. row \in Rows
    BY <2>2, <2>3, WriteTypes
  <2>5. \A o \in Requests : Stands(o)'
    BY <2>1, <2>2, <2>4, StoreKeepsStanding
  <2>6. /\ run'[q.run] = row /\ run' = [run EXCEPT ![q.run] = run'[q.run]] /\ request'[r] = Idle
    BY <1>0, <2>1, <2>2 DEF Store
  <2>7. CASE q.stale
    BY <2>2, <2>5, <2>6, <2>7 DEF Atomic, Overtaken
  <2>8. CASE ~q.stale
    <3>1. Fits(q, run[q.run])
      BY <2>1, <2>8 DEF StandingInv, Stands
    <3>2. Handled(q.run, row)
      BY <2>1, <2>2, <2>3, <3>1, FittingIsHandled
    <3>3. HandlerStep
      BY <2>2, <2>6, <3>2 DEF HandlerStep
    <3>4. QED BY <2>5, <3>3 DEF Atomic
  <2>9. QED BY <2>7, <2>8, <2>2
<1>7. ASSUME NEW r \in Requests, Abort(r)
      PROVE  Goal
  <2>1. Idle.phase = "idle" /\ request' = [request EXCEPT ![r] = Idle] /\ UNCHANGED <<run, raced>>
    BY <1>7, Kinds DEF Abort
  <2>2. QED BY <2>1, EntryKeepsStanding DEF Atomic
<1>8. ASSUME UNCHANGED vars
      PROVE  Goal
  BY <1>8 DEF StandingInv, Stands, Atomic, vars
<1>9. Goal
  BY <1>1, <1>2, <1>3, <1>4, <1>5, <1>6, <1>7, <1>8 DEF Next
<1>10. RunsInv'
  BY RunsInvStep DEF StandingInv
<1>11. QED BY <1>9, <1>10 DEF StandingInv

(* Requests in flight stand in every reachable state.                       *)
LEMMA StandingInvariant == Spec => []StandingInv
<1>1. Init => StandingInv
  BY RunsInvInit, Kinds DEF Init, StandingInv, Stands
<1>2. StandingInv /\ [Next]_vars => StandingInv'
  BY StandingInvStep
<1>3. QED BY <1>1, <1>2, PTL DEF Spec
-----------------------------------------------------------------------------
(* Rows, requests and history keep their types.                             *)
THEOREM RunsTypeCorrect == Spec => []TypeOK
<1>1. RunsInv => TypeOK
  BY DEF RunsInv
<1>2. QED BY RunsInvariant, <1>1, PTL

(* Whatever requests overlap, a run nobody raced on is closed once its      *)
(* steps are finished (update_playbook_run_step, _complete_run_if_ready).   *)
THEOREM FinishedRunsGetClosed == Spec => []FinishedRunsAreClosed
<1>1. RunsInv => FinishedRunsAreClosed
  BY DEF RunsInv
<1>2. QED BY RunsInvariant, <1>1, PTL

(* A closed run changes only by a request that loaded it before another     *)
(* one changed it (update_playbook_run, update_playbook_run_step).          *)
THEOREM ClosedRunsStayFrozen == Spec => ClosedRunsAreFrozen
<1>1. RunsInv /\ [Next]_vars =>
        [\A n \in Runs : run[n] # NoRow /\ run[n].status \notin LiveStatuses =>
            Progress(run'[n]) = Progress(run[n]) \/ n \in raced']_vars
  BY RunsInvStep
<1>2. QED BY RunsInvariant, <1>1, PTL DEF Spec, ClosedRunsAreFrozen

(* Starts that do not overlap never put a second run under way              *)
(* (start_playbook_run), whatever else happens to the runs.                 *)
THEOREM OneRunIsUnderWay == Spec => []OneRunUnderWay
<1>1. RunsInv => OneRunUnderWay
  <2> SUFFICES ASSUME RunsInv PROVE Cardinality(LiveRuns \ raced) <= 1
    BY DEF OneRunUnderWay
  <2>1. CASE LiveRuns \ raced = {}
    BY <2>1, FS_EmptySet
  <2>2. ASSUME NEW n \in LiveRuns \ raced
        PROVE  Cardinality(LiveRuns \ raced) <= 1
    <3>1. LiveRuns \ raced = {n}
      BY <2>2 DEF RunsInv, OnlyOneLive
    <3>2. Cardinality({n}) = 1
      BY FS_Singleton, Zenon
    <3>3. QED BY <3>1, <3>2
  <2>3. QED BY <2>1, <2>2
<1>2. QED BY RunsInvariant, <1>1, PTL

(* Starts, PATCHes and steps that overlap change the runs one handler at a  *)
(* time, save for those that were overtaken: the look-up of a start, the    *)
(* flush of a step and the commit could as well be one step                 *)
(* (start_playbook_run, update_playbook_run, update_playbook_run_step).     *)
THEOREM RunRequestsAreAtomic == Spec => AtomicUnlessOvertaken
<1>1. StandingInv /\ [Next]_vars =>
        [HandlerStep \/ \E r \in Requests : Overtaken(r) /\ request'[r] = Idle]_run
  BY StandingInvStep DEF Atomic
<1>2. QED BY StandingInvariant, <1>1, PTL DEF Spec, AtomicUnlessOvertaken

(* With requests that run one after another the model implements the        *)
(* handlers alone, and no run is an exception to the properties above.      *)
THEOREM SerialRuns ==
    ASSUME \A r, s \in Requests : r = s
    PROVE  Spec => SerialSpec /\ [](raced = {})
<1> DEFINE Inv == StandingInv /\ raced = {} /\ \A r \in Requests : ~Overtaken(r)
<1>1. Init => Inv
  BY RunsInvInit, Kinds DEF Init, StandingInv, Stands, Overtaken
<1>2. Inv /\ [Next]_vars => Inv' /\ [HandlerStep]_run
  <2> SUFFICES ASSUME Inv, [Next]_vars PROVE Inv' /\ [HandlerStep]_run
    OBVIOUS
  <2>1. StandingInv' /\ Atomic
    BY StandingInvStep
  <2>2. request \in [Requests -> {Idle} \cup Starting \cup Updating \cup Stepping]
    BY DEF StandingInv, RunsInv, TypeOK
  <2> DEFINE Alone == raced' = {} /\ \A r \in Requests : ~Overtaken(r)'
  <2>3. ASSUME NEW r \in Requests, NEW n, NEW row, Store(r, n, row), request[r] # Idle
        PROVE  Alone
    <3>1. ~request[r].stale /\ request'[r] = Idle
      BY <2>3 DEF Store, Overtaken
    <3>2. QED BY <2>3, <3>1 DEF Store, Overtaken
  <2>4. ASSUME NEW r \in Requests, NEW q, q = Idle \/ ~q.stale,
               request' = [request EXCEPT ![r] = q], UNCHANGED raced
        PROVE  Alone
    BY <2>2, <2>4 DEF Overtaken
  <2>5. ASSUME NEW r \in Requests, FlushStep(r)
        PROVE  Alone
    <3>1. request[r] \in Stepping /\ request[r] # Idle /\ ~request[r].stale
      BY <2>2, <2>5, Kinds DEF FlushStep, Starting, Updating, Overtaken
    <3> DEFINE q == [request[r] EXCEPT !.phase = "flushed",
                        !.write = CompleteRunIfReady(run[request[r].run], request[r].write)]
    <3>2. request' = [request EXCEPT ![r] = q] /\ UNCHANGED raced
      BY <2>5 DEF FlushStep
    <3>3. ~q.stale
      BY <3>1 DEF Stepping
    <3>4. QED BY <2>4, <3>2, <3>3
  <2>6. ASSUME NEW r \in Requests, NEW n \in Runs, CommitStart(r, n)
        PROVE  Alone
    BY <2>3, <2>6 DEF CommitStart, Idle
  <2>7. ASSUME NEW r \in Requests, Commit(r)
        PROVE  Alone
    BY <2>3, <2>7 DEF Commit, Idle
  <2>8. ASSUME NEW r \in Requests, ReceiveStart(r) \/ Abort(r)
        PROVE  Alone
    BY <2>4, <2>8 DEF ReceiveStart, Abort
  <2>9. ASSUME NEW r \in Requests, NEW n \in Runs, NEW caseAdmin, NEW status, NEW archived,
               ReceiveUpdate(r, n, caseAdmin, status, archived)
        PROVE  Alone
    BY <2>2, <2>9 DEF ReceiveUpdate, Overtaken
  <2>10. ASSUME NEW r \in Requests, NEW n \in Runs, NEW s, NEW status, ReceiveStep(r, n, s, status)
         PROVE  Alone
    BY <2>2, <2>10 DEF ReceiveStep, Overtaken
  <2>11. ASSUME UNCHANGED vars
         PROVE  Alone
    BY <2>11 DEF vars, Overtaken
  <2>12. Alone
    BY <2>5, <2>6, <2>7, <2>8, <2>9, <2>10, <2>11 DEF Next
  <2>13. HandlerStep \/ UNCHANGED run
    BY <2>1 DEF Atomic
  <2>14. QED BY <2>1, <2>12, <2>13
<1>3. Init => run = [n \in Runs |-> NoRow]
  BY DEF Init
<1>4. Inv => raced = {}
  OBVIOUS
<1>5. QED BY <1>1, <1>2, <1>3, <1>4, PTL DEF Spec, SerialSpec
=============================================================================
