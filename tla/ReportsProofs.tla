---------------------------- MODULE ReportsProofs ----------------------------
(* Proofs about Reports, for any number of requests in flight, any users    *)
(* and any changes of who owns, reviews and administers.                    *)
EXTENDS Reports, TLAPS

\* What requests that do not overlap keep of the row.
Good(p) ==
    /\ p.status = "ready" => p.content = "rendered"
    /\ p.status = "failed" => p.content = "null"
    /\ p.archived_at = "set" <=> p.status = "archived"
    /\ p.status = "archived" =>
          p.status_before = IF p.content = "rendered" THEN "ready" ELSE "failed"
    /\ p.approval = "rejected" <=> p.reason = "given"

\* A row without content, and a write that leaves it without, whatever overlaps.
Empty(p) ==
    /\ p.status \in {"failed", "archived"}
    /\ p.status_before \in {"none", "failed"}
    /\ p.status = "archived" => p.status_before = "failed"

KeepsEmpty(p, w) ==
    /\ w.content = Unset
    /\ w.status \in {"failed", "archived", Unset}
    /\ w.status_before \in {"failed", Unset}
    /\ w.status = "archived" /\ w.status_before = Unset => p.status_before = "failed"

\* What is known of a request in flight.
Knows(r) ==
    request[r] # Idle =>
        LET w == request[r].write
        IN  /\ ~request[r].stale /\ ~raced => Good(Applied(report, w))
            /\ w.content \in {"rendered", Unset}
            /\ report.content = "null" => w.content = "rendered" \/ KeepsEmpty(report, w)

RowInv ==
    /\ TypeOK
    /\ report = NoReport => \A r \in Requests : request[r] = Idle
    /\ report # NoReport /\ ~raced => Good(report)
    /\ report # NoReport /\ report.content = "null" => Empty(report)
    /\ \A r \in Requests : Knows(r)

\* Only a submission that has looked makes a report pending.  Who has looked
\* has an alert for everyone seen, and whoever was not seen has one or came late.
Tells(r) ==
    LET q == request[r]
    IN  q # Idle =>
          /\ q.phase \in {"loaded", "alerting"} => q.write.approval # "pending_approval"
          /\ q.phase \in {"loaded", "submitting"} => q.looked = {} /\ q.alerts = {}
          /\ q.phase \in {"flushed", "alerting"} =>
                /\ q.alerts \subseteq q.looked
                /\ \A u \in q.looked : inbox[u] # "none" \/ u \in q.alerts
                /\ \A u \in recipients \ q.looked : inbox[u] # "none" \/ u \in late

OneFlushed ==
    \A r, s \in Requests :
        request[r].phase = "flushed" /\ request[s].phase = "flushed" => r = s

AlertsInv ==
    /\ PendingIsAlerted
    /\ OneFlushed
    /\ \A r \in Requests : Tells(r)

ReportsInv == RowInv /\ AlertsInv

(* Columns are merged column by column.                                     *)
LEMMA MergeTypes ==
    ASSUME NEW now \in Rows, NEW write \in Writes
    PROVE  Applied(now, write) \in Rows
  BY DEF Applied, Rows, Writes

(* A request that nothing has overtaken leaves the row it computed.         *)
LEMMA FlushesWhatItComputed ==
    ASSUME NEW p \in Rows, NEW new \in Rows, NEW forced
    PROVE  Differing(p, new, forced) \in Writes /\ Applied(p, Differing(p, new, forced)) = new
<1> DEFINE w == Differing(p, new, forced)
<1>1. w \in Writes
  BY DEF Differing, Rows, Writes
<1>2. /\ Applied(p, w).status = new.status
      /\ Applied(p, w).status_before = new.status_before
      /\ Applied(p, w).archived_at = new.archived_at
      /\ Applied(p, w).content = new.content
      /\ Applied(p, w).approval = new.approval
      /\ Applied(p, w).reason = new.reason
  BY ReportsAssumption DEF Applied, Differing, Rows, ReportStatuses
<1>3. Applied(p, w) \in Rows
  BY <1>1, MergeTypes
<1>4. QED BY <1>1, <1>2, <1>3 DEF Rows

\* What every handler does with the row p it loaded.
Handles(p, new, forced) ==
    /\ new \in Rows
    /\ Good(p) => Good(new)
    /\ p.content = "rendered" => new.content = "rendered"
    /\ p.content = "null" /\ Empty(p) =>
          \/ new.content = "rendered"
          \/ /\ Empty(new)
             /\ new.status_before \in {p.status_before, "failed"}
    /\ "status_before" \in forced \/ "content" \in forced => new.content = "rendered"
    /\ "approval" \notin forced

(* A new report has the content its generation gave it and awaits nobody.   *)
LEMMA CreatedRow ==
    ASSUME NEW new \in CreateReport
    PROVE  /\ new \in Rows /\ Good(new) /\ new.approval = "draft"
           /\ new.content = "null" => Empty(new)
<1> DEFINE bare == [status |-> "failed", status_before |-> "none", archived_at |-> "null",
                    content |-> "null", approval |-> "draft", reason |-> "null"]
           done == [status |-> "ready", status_before |-> "none", archived_at |-> "null",
                    content |-> "rendered", approval |-> "draft", reason |-> "null"]
<1>1. new = bare \/ new = done
  BY DEF CreateReport, Generated
<1>2. bare \in Rows /\ Good(bare) /\ Empty(bare) /\ bare.approval = "draft"
  BY DEF Rows, ReportStatuses, ApprovalStatuses, Good, Empty
<1>3. done \in Rows /\ Good(done) /\ done.content = "rendered" /\ done.approval = "draft"
  BY DEF Rows, ReportStatuses, ApprovalStatuses, Good
<1>4. CASE new = bare
  BY <1>2, <1>4
<1>5. CASE new = done
  BY <1>3, <1>5
<1>6. QED BY <1>1, <1>4, <1>5

(* A retry either fills the row or leaves it failed.                        *)
LEMMA RetryHandles ==
    ASSUME NEW p \in Rows
    PROVE  /\ \A new \in RetryReportReady(p) :
                 Handles(p, new, {"status", "status_before", "content"})
                 /\ new.approval = p.approval
           /\ \A new \in RetryReportFailed(p) :
                 Handles(p, new, {"status"}) /\ new.approval = p.approval
<1>1. ASSUME NEW new \in RetryReportReady(p)
      PROVE  Handles(p, new, {"status", "status_before", "content"}) /\ new.approval = p.approval
  <2>1. /\ p.status = "failed" /\ new \in Rows
        /\ new.status = "ready" /\ new.content = "rendered" /\ new.status_before = "none"
        /\ new.archived_at = "null" /\ new.approval = p.approval /\ new.reason = p.reason
    BY DEF RetryReportReady, Generated, Rows, ReportStatuses
  <2>2. QED BY <2>1 DEF Handles, Good, Empty
<1>2. ASSUME NEW new \in RetryReportFailed(p)
      PROVE  Handles(p, new, {"status"}) /\ new.approval = p.approval
  <2>1. /\ p.status = "failed" /\ new \in Rows
        /\ new.status = p.status /\ new.content = p.content
        /\ new.status_before = p.status_before /\ new.archived_at = "null"
        /\ new.approval = p.approval /\ new.reason = p.reason
    BY DEF RetryReportFailed, Rows
  <2>2. QED BY <2>1 DEF Handles, Good, Empty, Rows
<1>3. QED BY <1>1, <1>2

(* The archive remembers the status it takes away.                          *)
LEMMA ArchiveHandles ==
    ASSUME NEW p \in Rows
    PROVE  /\ \A new \in ArchiveReport(p) : Handles(p, new, {}) /\ new.approval = p.approval
           /\ \A new \in RestoreReport(p) : Handles(p, new, {}) /\ new.approval = p.approval
<1>0. Handles(p, p, {})
  BY DEF Handles
<1>1. ASSUME NEW new \in ArchiveReport(p), p.status # "archived"
      PROVE  Handles(p, new, {}) /\ new.approval = p.approval
  <2>1. /\ new \in Rows /\ new.status = "archived" /\ new.content = p.content
        /\ new.status_before = p.status /\ new.archived_at = "set"
        /\ new.approval = p.approval /\ new.reason = p.reason
    BY <1>1 DEF ArchiveReport, Rows, ReportStatuses
  <2>2. QED BY <1>1, <2>1 DEF Handles, Good, Empty, Rows, ReportStatuses
<1>2. ASSUME NEW new \in RestoreReport(p), p.status = "archived"
      PROVE  Handles(p, new, {}) /\ new.approval = p.approval
  <2>1. /\ new \in Rows /\ new.content = p.content
        /\ new.status = (IF p.status_before = "failed" THEN "failed" ELSE "ready")
        /\ new.status_before = p.status_before /\ new.archived_at = "null"
        /\ new.approval = p.approval /\ new.reason = p.reason
    BY <1>2 DEF RestoreReport, Rows, ReportStatuses
  <2>2. QED BY <1>2, <2>1 DEF Handles, Good, Empty, Rows
<1>3. QED BY <1>0, <1>1, <1>2 DEF ArchiveReport, RestoreReport

(* Approvals do not touch the content, and a verdict goes with its reason.  *)
LEMMA ApprovalHandles ==
    ASSUME NEW p \in Rows
    PROVE  /\ \A new \in SubmitReportApproval(p) : Handles(p, new, {})
           /\ \A decision \in {"approve", "reject"} :
                 \A new \in DecideReportApproval(p, decision) :
                    Handles(p, new, {}) /\ new.approval # "pending_approval"
<1>1. ASSUME NEW new \in SubmitReportApproval(p)
      PROVE  Handles(p, new, {})
  <2>1. /\ new \in Rows /\ new.content = p.content /\ new.status = p.status
        /\ new.status_before = p.status_before /\ new.archived_at = p.archived_at
        /\ new.approval = "pending_approval" /\ new.reason = "null"
    BY <1>1 DEF SubmitReportApproval, Rows, ApprovalStatuses
  <2>2. QED BY <2>1 DEF Handles, Good, Empty
<1>2. ASSUME NEW decision \in {"approve", "reject"},
             NEW new \in DecideReportApproval(p, decision)
      PROVE  Handles(p, new, {}) /\ new.approval # "pending_approval"
  <2>1. /\ new \in Rows /\ new.content = p.content /\ new.status = p.status
        /\ new.status_before = p.status_before /\ new.archived_at = p.archived_at
        /\ new.approval = (IF decision = "approve" THEN "approved" ELSE "rejected")
        /\ new.reason = (IF decision = "approve" THEN "null" ELSE "given")
    BY <1>2 DEF DecideReportApproval, Rows, ApprovalStatuses
  <2>2. QED BY <2>1 DEF Handles, Good, Empty
<1>3. QED BY <1>1, <1>2
-----------------------------------------------------------------------------
(* A row and the writes decided on it stand while nothing is committed.     *)
LEMMA RowStands ==
    ASSUME RowInv, UNCHANGED <<report, raced>>,
           \A o \in Requests :
              \/ request'[o] = Idle
              \/ /\ request[o] # Idle
                 /\ request'[o].write = request[o].write
                 /\ request'[o].stale = request[o].stale
    PROVE  /\ report' # NoReport /\ ~raced' => Good(report')
           /\ report' # NoReport /\ report'.content = "null" => Empty(report)'
           /\ \A o \in Requests : Knows(o)'
<1>1. ASSUME NEW o \in Requests PROVE Knows(o)'
  <2>1. CASE request'[o] = Idle
    BY <2>1 DEF Knows
  <2>2. CASE /\ request[o] # Idle
             /\ request'[o].write = request[o].write /\ request'[o].stale = request[o].stale
    <3>1. Knows(o)
      BY DEF RowInv
    <3>2. Applied(report', request'[o].write) = Applied(report, request[o].write)
      BY <2>2
    <3>3. QED BY <2>2, <3>1, <3>2 DEF Knows, KeepsEmpty
  <2>3. QED BY <2>1, <2>2
<1>2. QED BY <1>1 DEF RowInv, Empty

(* A request that is received knows the row it has just loaded.             *)
LEMMA ReceiveKeepsRow ==
    ASSUME RowInv, NEW r \in Requests, NEW new, NEW forced, NEW q \in InFlight,
           report # NoReport, UNCHANGED <<report, recipients, inbox, raced, late>>,
           request' = [request EXCEPT ![r] = q],
           q.write = Differing(report, new, forced), q.stale = FALSE,
           Handles(report, new, forced)
    PROVE  RowInv'
<1> DEFINE w == q.write
<1>1. report \in Rows /\ request \in [Requests -> {Idle} \cup InFlight]
  BY DEF RowInv, TypeOK
<1>2. TypeOK'
  BY <1>1 DEF RowInv, TypeOK
<1>3. new \in Rows /\ Applied(report, w) = new
  BY <1>1, FlushesWhatItComputed DEF Handles
<1>4. w.content \in {"rendered", Unset}
      /\ (report.content = "null" => w.content = "rendered" \/ KeepsEmpty(report, w))
  <2>1. Handles(report, new, forced)
    OBVIOUS
  <2>2. new \in Rows
    BY <2>1 DEF Handles
  <2>3. CASE report.content = "rendered"
    BY <2>1, <2>3 DEF Handles, Differing
  <2>4. CASE report.content = "null" /\ new.content = "rendered"
    BY <2>4 DEF Differing
  <2>5. CASE report.content = "null" /\ new.content # "rendered"
    <3>1. /\ Empty(report) /\ Empty(new) /\ new.content = "null"
          /\ new.status_before \in {report.status_before, "failed"}
          /\ "status_before" \notin forced /\ "content" \notin forced
      BY <1>1, <2>1, <2>2, <2>5 DEF Handles, RowInv, Rows
    <3>2. w.content = Unset
      BY <2>5, <3>1 DEF Differing
    <3>3. w.status \in {"failed", "archived", Unset} /\ (w.status = "archived" => new.status = "archived")
      BY <3>1, ReportsAssumption DEF Differing, Empty, ReportStatuses
    <3>4. w.status_before \in {"failed", Unset}
          /\ (w.status_before = Unset => new.status_before = report.status_before)
      BY <3>1, ReportsAssumption DEF Differing, ReportStatuses
    <3>5. QED BY <3>1, <3>2, <3>3, <3>4 DEF KeepsEmpty, Empty
  <2>6. QED BY <1>1, <2>3, <2>4, <2>5 DEF Rows
<1>5. ASSUME NEW o \in Requests PROVE Knows(o)'
  <2>1. CASE o = r
    <3>1. request'[o] = q
      BY <1>1, <2>1
    <3>2. ~raced => Good(new)
      BY DEF RowInv, Handles
    <3>3. Applied(report', request'[o].write) = new
      BY <1>3, <3>1
    <3>4. report'.content = "null" => w.content = "rendered" \/ KeepsEmpty(report', w)
      BY <1>4 DEF KeepsEmpty
    <3>5. QED BY <1>4, <3>1, <3>2, <3>3, <3>4 DEF Knows
  <2>2. CASE o # r
    <3>1. request'[o] = request[o] /\ Knows(o)
      BY <1>1, <2>2 DEF RowInv
    <3>2. Applied(report', request'[o].write) = Applied(report, request[o].write)
      BY <3>1
    <3>3. QED BY <3>1, <3>2 DEF Knows, KeepsEmpty
  <2>3. QED BY <2>1, <2>2
<1>6. QED BY <1>2, <1>5 DEF RowInv, Empty

(* Committing a request keeps the row.                                      *)
LEMMA CommitKeepsRow ==
    ASSUME RowInv, NEW r \in Requests, Commit(r)
    PROVE  RowInv'
<1> DEFINE w == request[r].write
<1>1. /\ request[r] \in InFlight /\ w \in Writes /\ request[r].stale \in BOOLEAN
      /\ request[r] # Idle
  BY DEF RowInv, TypeOK, Commit, InFlight, Idle
<1>2. report # NoReport /\ report \in Rows /\ raced \in BOOLEAN
      /\ request \in [Requests -> {Idle} \cup InFlight]
      /\ inbox \in [Users -> {"none"} \cup AlertStatuses]
      /\ recipients \in Rosters /\ late \subseteq recipients
  BY <1>1 DEF RowInv, TypeOK
<1>3. report' = Applied(report, w) /\ report' \in Rows
  BY <1>1, <1>2, MergeTypes DEF Commit
<1>4. raced' = (raced \/ (request[r].stale /\ report' # report)) /\ Knows(r)
  BY DEF Commit, RowInv
<1>5. report' # NoReport
  BY <1>3 DEF Rows, NoReport, ReportStatuses
<1>6. ~raced' => Good(report')
  BY <1>1, <1>2, <1>3, <1>4 DEF Knows, RowInv
<1>7. /\ report'.content = (IF w.content = Unset THEN report.content ELSE w.content)
      /\ report'.status = (IF w.status = Unset THEN report.status ELSE w.status)
      /\ report'.status_before =
            (IF w.status_before = Unset THEN report.status_before ELSE w.status_before)
  BY <1>3 DEF Applied
<1>8. report'.content = "null" =>
         /\ report.content = "null" /\ KeepsEmpty(report, w) /\ Empty(report)
         /\ Empty(report)' /\ (report.status_before = "failed" => report'.status_before = "failed")
  <2> SUFFICES ASSUME report'.content = "null"
               PROVE  /\ report.content = "null" /\ KeepsEmpty(report, w) /\ Empty(report)
                      /\ Empty(report)'
                      /\ (report.status_before = "failed" => report'.status_before = "failed")
    OBVIOUS
  <2>1. report.content = "null" /\ w.content # "rendered"
    BY <1>1, <1>4, <1>7, ReportsAssumption DEF Knows
  <2>2. KeepsEmpty(report, w) /\ Empty(report)
    BY <1>1, <1>2, <1>4, <2>1 DEF Knows, RowInv
  <2>3. QED BY <1>7, <2>1, <2>2 DEF KeepsEmpty, Empty
<1>9. ASSUME NEW o \in Requests
      PROVE  request'[o] \in {Idle} \cup InFlight /\ Knows(o)'
  <2>1. CASE o = r \/ request[o] = Idle
    BY <2>1 DEF Commit, Knows
  <2>2. CASE o # r /\ request[o] # Idle
    <3> DEFINE q == [request[o] EXCEPT !.stale = @ \/ report' # report]
               v == request[o].write
    <3>1. request[o] \in InFlight /\ request'[o] = q /\ Knows(o)
      BY <1>2, <2>2 DEF Commit, RowInv
    <3>2. /\ q \in InFlight /\ q.write = v
          /\ q.stale = (request[o].stale \/ report' # report)
      BY <3>1 DEF InFlight
    <3>3. ~q.stale /\ ~raced' => Good(Applied(report', v))
      <4> SUFFICES ASSUME ~q.stale, ~raced' PROVE Good(Applied(report', v))
        OBVIOUS
      <4>1. report' = report /\ ~raced /\ ~request[o].stale
        BY <1>4, <3>2
      <4>2. QED BY <2>2, <3>1, <4>1 DEF Knows
    <3>4. v.content \in {"rendered", Unset}
      BY <2>2, <3>1 DEF Knows
    <3>5. report'.content = "null" => v.content = "rendered" \/ KeepsEmpty(report, v)
      BY <1>8, <2>2, <3>1 DEF Knows
    <3>6. report'.content = "null" => v.content = "rendered" \/ KeepsEmpty(report', v)
      BY <1>8, <3>5 DEF KeepsEmpty
    <3>7. QED BY <3>1, <3>2, <3>3, <3>4, <3>6 DEF Knows
  <2>3. QED BY <2>1, <2>2
<1>10. request' \in [Requests -> {Idle} \cup InFlight]
  BY <1>9 DEF Commit
<1>11. TypeOK'
  BY <1>2, <1>3, <1>4, <1>10 DEF TypeOK, Commit, Alerted, AlertStatuses
<1>12. QED BY <1>5, <1>6, <1>8, <1>9, <1>11 DEF RowInv
-----------------------------------------------------------------------------
(* Loading a request keeps the row.                                         *)
LEMMA LoadKeepsRow ==
    ASSUME RowInv, NEW r \in Requests, NEW phase \in {"loaded", "submitting"},
           NEW outcomes, NEW forced, Receive(r, phase, outcomes, forced),
           \A new \in outcomes : Handles(report, new, forced)
    PROVE  RowInv'
<1>1. PICK new \in outcomes :
         request' = [request EXCEPT ![r] =
            [phase |-> phase, write |-> Differing(report, new, forced),
             looked |-> {}, alerts |-> {}, stale |-> FALSE]]
  BY DEF Receive
<1> DEFINE q == [phase |-> phase, write |-> Differing(report, new, forced),
                 looked |-> {}, alerts |-> {}, stale |-> FALSE]
<1>2. report # NoReport /\ report \in Rows
  BY DEF Receive, RowInv, TypeOK
<1>3. Handles(report, new, forced) /\ new \in Rows
  BY DEF Handles
<1>4. q \in InFlight
  BY <1>2, <1>3, FlushesWhatItComputed DEF InFlight
<1>5. q.write = Differing(report, new, forced) /\ q.stale = FALSE
  OBVIOUS
<1> HIDE DEF q
<1>6. request' = [request EXCEPT ![r] = q]
  BY <1>1 DEF q
<1>7. QED BY <1>2, <1>3, <1>4, <1>5, <1>6, ReceiveKeepsRow DEF Receive

(* Every step keeps the row.                                                *)
LEMMA RowInvStep ==
    ASSUME RowInv, [Next]_vars
    PROVE  RowInv'
<1>0. /\ report \in {NoReport} \cup Rows /\ request \in [Requests -> {Idle} \cup InFlight]
      /\ recipients \in Rosters /\ late \subseteq recipients
      /\ inbox \in [Users -> {"none"} \cup AlertStatuses]
  BY DEF RowInv, TypeOK
<1>a. WithoutAlert \subseteq Users /\ recipients \subseteq Users
  BY <1>0 DEF WithoutAlert, Rosters
<1>1. CASE Create
  <2>1. /\ report' \in Rows /\ Good(report')
        /\ report'.content = "null" => Empty(report')
    BY <1>1, CreatedRow DEF Create
  <2>2. \A r \in Requests : request[r] = Idle
    BY <1>1 DEF Create, RowInv
  <2>3. report' # NoReport
    BY <2>1 DEF Rows, NoReport, ReportStatuses
  <2>4. QED BY <1>1, <2>1, <2>2, <2>3 DEF Create, RowInv, TypeOK, Knows, Empty
<1>2. ASSUME NEW r \in Requests, ReceiveRetry(r)
      PROVE  RowInv'
  <2>1. report \in Rows
    BY <1>0, <1>2 DEF ReceiveRetry
  <2>2. QED BY <1>2, <2>1, RetryHandles, LoadKeepsRow DEF ReceiveRetry
<1>3. ASSUME NEW r \in Requests, ReceiveArchive(r) \/ ReceiveRestore(r)
      PROVE  RowInv'
  <2>1. report \in Rows
    BY <1>0, <1>3 DEF ReceiveArchive, ReceiveRestore
  <2>2. QED BY <1>3, <2>1, ArchiveHandles, LoadKeepsRow DEF ReceiveArchive, ReceiveRestore
<1>4. ASSUME NEW r \in Requests, NEW decision \in {"approve", "reject"},
             ReceiveDecision(r, decision)
      PROVE  RowInv'
  <2>1. report \in Rows
    BY <1>0, <1>4 DEF ReceiveDecision
  <2>2. QED BY <1>4, <2>1, ApprovalHandles, LoadKeepsRow DEF ReceiveDecision
<1>5. ASSUME NEW r \in Requests, ReceiveSubmit(r)
      PROVE  RowInv'
  <2>1. report \in Rows
    BY <1>0, <1>5 DEF ReceiveSubmit
  <2>2. QED BY <1>5, <2>1, ApprovalHandles, LoadKeepsRow DEF ReceiveSubmit
<1>6. ASSUME NEW r \in Requests, FlushSubmit(r)
      PROVE  RowInv'
  <2> DEFINE q == [request[r] EXCEPT !.phase = "flushed",
                                     !.looked = recipients, !.alerts = WithoutAlert]
  <2>1. request[r] \in InFlight /\ request' = [request EXCEPT ![r] = q]
    BY <1>0, <1>6 DEF FlushSubmit, Idle
  <2>2. q \in InFlight /\ q.write = request[r].write /\ q.stale = request[r].stale
    BY <1>a, <2>1 DEF InFlight
  <2>3. \A o \in Requests :
           \/ request'[o] = Idle
           \/ /\ request[o] # Idle
              /\ request'[o].write = request[o].write
              /\ request'[o].stale = request[o].stale
    BY <1>0, <1>6, <2>1, <2>2 DEF FlushSubmit, Idle
  <2>4. TypeOK'
    BY <1>0, <1>6, <2>1, <2>2 DEF FlushSubmit, RowInv, TypeOK
  <2>5. report' # NoReport
    BY <1>6 DEF FlushSubmit, RowInv, Idle
  <2>6. QED BY <1>6, <2>3, <2>4, <2>5, RowStands DEF FlushSubmit, RowInv
<1>7. ASSUME NEW r \in Requests, ReceiveRebuild(r)
      PROVE  RowInv'
  <2> DEFINE q == [phase |-> "alerting", write |-> Differing(report, report, {}),
                   looked |-> recipients, alerts |-> WithoutAlert, stale |-> FALSE]
  <2>1. report \in Rows /\ Handles(report, report, {})
    BY <1>0, <1>7 DEF ReceiveRebuild, Handles
  <2>2. q \in InFlight
    BY <1>a, <2>1, FlushesWhatItComputed DEF InFlight
  <2>3. q.write = Differing(report, report, {}) /\ q.stale = FALSE
    OBVIOUS
  <2> HIDE DEF q
  <2>4. request' = [request EXCEPT ![r] = q]
    BY <1>7 DEF ReceiveRebuild, q
  <2>5. QED BY <1>7, <2>1, <2>2, <2>3, <2>4, ReceiveKeepsRow DEF ReceiveRebuild
<1>8. ASSUME NEW r \in Requests, Commit(r)
      PROVE  RowInv'
  BY <1>8, CommitKeepsRow
<1>9. ASSUME NEW r \in Requests, Abort(r)
      PROVE  RowInv'
  <2>1. /\ \A o \in Requests : request'[o] \in {Idle, request[o]}
        /\ request' \in [Requests -> {Idle} \cup InFlight]
    BY <1>0, <1>9 DEF Abort
  <2>2. TypeOK'
    BY <1>9, <2>1 DEF Abort, RowInv, TypeOK
  <2>3. QED BY <1>9, <2>1, <2>2, RowStands DEF Abort, RowInv
<1>10. ASSUME UNCHANGED <<report, request, raced>>, TypeOK'
       PROVE  RowInv'
  BY <1>10, RowStands DEF RowInv
<1>11. ASSUME NEW u \in Users, HandleAlert(u)
       PROVE  RowInv'
  <2>1. inbox' \in [Users -> {"none"} \cup AlertStatuses]
    BY <1>0, <1>11 DEF HandleAlert, AlertStatuses
  <2>2. QED BY <1>10, <1>11, <2>1 DEF HandleAlert, RowInv, TypeOK
<1>12. ASSUME ChangeRecipients
       PROVE  RowInv'
  BY <1>10, <1>12 DEF ChangeRecipients, RowInv, TypeOK
<1>13. ASSUME UNCHANGED vars
       PROVE  RowInv'
  BY <1>10, <1>13 DEF vars, RowInv, TypeOK, InFlight, Rosters
<1>14. QED BY <1>1, <1>2, <1>3, <1>4, <1>5, <1>6, <1>7, <1>8, <1>9, <1>11, <1>12, <1>13 DEF Next
-----------------------------------------------------------------------------
\* No step takes an alert away, and whoever becomes a recipient is late.
NobodyForgotten ==
    /\ \A u \in Users : inbox[u] # "none" => inbox'[u] # "none"
    /\ \A u \in recipients' :
          u \in late' \/ inbox'[u] # "none" \/ u \in recipients \ late

\* The request in slot r is as it was, or gone.
Same(r) ==
    \/ request'[r] = Idle
    \/ /\ request[r] # Idle
       /\ request'[r].phase = request[r].phase
       /\ request'[r].write = request[r].write
       /\ request'[r].looked = request[r].looked
       /\ request'[r].alerts = request[r].alerts

(* What the requests in flight have seen stands while nobody is forgotten.  *)
LEMMA TellingStands ==
    ASSUME ReportsInv, NobodyForgotten
    PROVE  \A o \in Requests : Same(o) => Tells(o)'
<1> SUFFICES ASSUME NEW o \in Requests, Same(o), request'[o] # Idle
             PROVE  Tells(o)'
  BY DEF Tells
<1>1. Tells(o) /\ request[o] # Idle /\ recipients \subseteq Users
      /\ request[o] \in InFlight
  BY DEF ReportsInv, AlertsInv, RowInv, TypeOK, Rosters, Same
<1>2. request[o].looked \subseteq Users
  BY <1>1 DEF InFlight
<1>3. /\ request'[o].phase = request[o].phase
      /\ request'[o].write = request[o].write
      /\ request'[o].looked = request[o].looked
      /\ request'[o].alerts = request[o].alerts
  BY DEF Same
<1>4. ASSUME request[o].phase \in {"flushed", "alerting"}
      PROVE  /\ \A u \in request[o].looked : inbox'[u] # "none" \/ u \in request[o].alerts
             /\ \A u \in recipients' \ request[o].looked : inbox'[u] # "none" \/ u \in late'
  BY <1>1, <1>2, <1>4 DEF Tells, NobodyForgotten
<1>5. QED BY <1>1, <1>3, <1>4 DEF Tells

(* So does what has been told of a pending report.                          *)
LEMMA PendingStands ==
    ASSUME ReportsInv, NobodyForgotten,
           report' # NoReport /\ report'.approval = "pending_approval" =>
               report # NoReport /\ report.approval = "pending_approval"
    PROVE  PendingIsAlerted'
<1>1. recipients \subseteq Users
  BY DEF ReportsInv, RowInv, TypeOK, Rosters
<1>2. QED BY <1>1 DEF ReportsInv, AlertsInv, PendingIsAlerted, NobodyForgotten

(* Loading a request tells nobody.                                          *)
LEMMA LoadKeepsAlerts ==
    ASSUME ReportsInv, NEW r \in Requests, NEW phase \in {"loaded", "submitting"},
           NEW outcomes, NEW forced, Receive(r, phase, outcomes, forced),
           \A new \in outcomes : Handles(report, new, forced),
           phase = "loaded" => \A new \in outcomes :
               new.approval = "pending_approval" => report.approval = "pending_approval"
    PROVE  AlertsInv'
<1>1. PICK new \in outcomes :
         request' = [request EXCEPT ![r] =
            [phase |-> phase, write |-> Differing(report, new, forced),
             looked |-> {}, alerts |-> {}, stale |-> FALSE]]
  BY DEF Receive
<1>2. /\ report \in Rows /\ UNCHANGED <<report, recipients, inbox, late>>
      /\ request \in [Requests -> {Idle} \cup InFlight]
  BY DEF Receive, ReportsInv, RowInv, TypeOK
<1>3. NobodyForgotten
  BY <1>2 DEF NobodyForgotten
<1>4. PendingIsAlerted'
  BY <1>2, <1>3, PendingStands
<1>5. phase = "loaded" => Differing(report, new, forced).approval # "pending_approval"
  BY ReportsAssumption DEF Differing, Handles, ApprovalStatuses
<1>6. ASSUME NEW o \in Requests PROVE Tells(o)'
  <2>1. CASE o = r
    BY <1>1, <1>2, <1>5, <2>1 DEF Tells
  <2>2. CASE o # r
    BY <1>1, <1>2, <1>3, <2>2, TellingStands DEF Same
  <2>3. QED BY <2>1, <2>2
<1>7. OneFlushed'
  BY <1>1, <1>2 DEF OneFlushed, ReportsInv, AlertsInv
<1>8. QED BY <1>4, <1>6, <1>7 DEF AlertsInv

(* Looking sees everyone there is.                                          *)
LEMMA LookKeepsAlerts ==
    ASSUME ReportsInv, NEW r \in Requests, FlushSubmit(r) \/ ReceiveRebuild(r)
    PROVE  AlertsInv'
<1>1. /\ UNCHANGED <<report, recipients, inbox, late>>
      /\ request \in [Requests -> {Idle} \cup InFlight]
  BY DEF FlushSubmit, ReceiveRebuild, ReportsInv, RowInv, TypeOK
<1>2. NobodyForgotten
  BY <1>1 DEF NobodyForgotten
<1>3. PendingIsAlerted'
  BY <1>1, <1>2, PendingStands
<1>4. /\ request'[r].phase \in {"flushed", "alerting"}
      /\ request'[r].looked = recipients /\ request'[r].alerts = WithoutAlert
      /\ \A o \in Requests \ {r} : request'[o] = request[o]
      /\ request'[r].phase = "flushed" => ~RowLocked
  <2>1. CASE FlushSubmit(r)
    <3>1. request[r] \in InFlight
      BY <1>1, <2>1 DEF FlushSubmit, Idle
    <3>2. QED BY <1>1, <2>1, <3>1 DEF FlushSubmit, InFlight
  <2>2. CASE ReceiveRebuild(r)
    BY <1>1, <2>2 DEF ReceiveRebuild
  <2>3. QED BY <2>1, <2>2
<1>5. request'[r].phase = "alerting" => request'[r].write.approval # "pending_approval"
  <2>1. CASE FlushSubmit(r)
    <3>1. request[r] \in InFlight
      BY <1>1, <2>1 DEF FlushSubmit, Idle
    <3>2. QED BY <1>1, <2>1, <3>1 DEF FlushSubmit, InFlight
  <2>2. CASE ReceiveRebuild(r)
    BY <1>1, <2>2, ReportsAssumption DEF ReceiveRebuild, Differing, ApprovalStatuses
  <2>3. QED BY <2>1, <2>2
<1>6. ASSUME NEW o \in Requests PROVE Tells(o)'
  <2>1. CASE o = r
    BY <1>1, <1>4, <1>5, <2>1 DEF Tells, WithoutAlert
  <2>2. CASE o # r
    <3>1. request'[o] = request[o]
      BY <1>4, <2>2
    <3>2. QED BY <1>2, <3>1, TellingStands DEF Same
  <2>3. QED BY <2>1, <2>2
<1>7. OneFlushed'
  BY <1>4 DEF OneFlushed, RowLocked, ReportsInv, AlertsInv
<1>8. QED BY <1>3, <1>6, <1>7 DEF AlertsInv

(* A commit tells everyone it looked at, and only they stop being late.     *)
LEMMA CommitKeepsAlerts ==
    ASSUME ReportsInv, NEW r \in Requests, Commit(r)
    PROVE  AlertsInv'
<1> DEFINE q == request[r]
<1>1. /\ q \in InFlight /\ q # Idle /\ report # NoReport /\ report \in Rows
      /\ request \in [Requests -> {Idle} \cup InFlight]
      /\ recipients \subseteq Users /\ q.looked \subseteq Users /\ Tells(r)
  BY DEF Commit, ReportsInv, RowInv, AlertsInv, TypeOK, InFlight, Idle, Rosters
<1>2. /\ \A u \in Users : inbox'[u] = IF u \in q.alerts THEN "unread" ELSE inbox[u]
      /\ late' = late \ q.looked /\ recipients' = recipients
  BY DEF Commit, Alerted
<1>3. \A u \in q.looked : inbox'[u] # "none"
  BY <1>1, <1>2 DEF Tells, Commit
<1>4. NobodyForgotten
  BY <1>1, <1>2, <1>3 DEF NobodyForgotten
<1>5. PendingIsAlerted'
  <2>1. CASE q.phase \in {"loaded", "alerting"}
    <3>1. report'.approval = IF q.write.approval = Unset THEN report.approval
                             ELSE q.write.approval
      BY DEF Commit, Applied
    <3>2. report'.approval = "pending_approval" => report.approval = "pending_approval"
      BY <1>1, <2>1, <3>1 DEF Tells
    <3>3. QED BY <1>1, <1>4, <3>2, PendingStands
  <2>2. CASE q.phase = "flushed"
    <3>1. \A u \in recipients \ q.looked : inbox'[u] # "none" \/ u \in late'
      BY <1>1, <1>2, <2>2 DEF Tells
    <3>2. QED BY <1>2, <1>3, <3>1 DEF PendingIsAlerted
  <2>3. QED BY <2>1, <2>2 DEF Commit
<1>6. ASSUME NEW o \in Requests PROVE Same(o)
  <2>1. CASE o = r \/ request[o] = Idle
    BY <2>1 DEF Commit, Same
  <2>2. CASE o # r /\ request[o] # Idle
    <3>1. request[o] \in InFlight
          /\ request'[o] = [request[o] EXCEPT !.stale = @ \/ report' # report]
      BY <1>1, <2>2 DEF Commit
    <3>2. QED BY <2>2, <3>1 DEF InFlight, Same
  <2>3. QED BY <2>1, <2>2
<1>7. \A o \in Requests : Tells(o)'
  BY <1>4, <1>6, TellingStands
<1>8. OneFlushed'
  <2>1. \A o \in Requests : request'[o].phase = "flushed" => request[o].phase = "flushed"
    BY <1>6 DEF Same, Idle
  <2>2. QED BY <2>1 DEF OneFlushed, ReportsInv, AlertsInv
<1>9. QED BY <1>5, <1>7, <1>8 DEF AlertsInv

(* Every step keeps who has been told.                                      *)
LEMMA AlertsInvStep ==
    ASSUME ReportsInv, [Next]_vars
    PROVE  AlertsInv'
<1>0. /\ report \in {NoReport} \cup Rows /\ request \in [Requests -> {Idle} \cup InFlight]
      /\ recipients \in Rosters /\ inbox \in [Users -> {"none"} \cup AlertStatuses]
  BY DEF ReportsInv, RowInv, TypeOK
<1>1. CASE Create
  <2>1. report'.approval = "draft"
    BY <1>1, CreatedRow DEF Create
  <2>2. \A r \in Requests : request'[r] = Idle
    BY <1>1 DEF Create, ReportsInv, RowInv
  <2>3. QED BY <2>1, <2>2 DEF AlertsInv, PendingIsAlerted, OneFlushed, Tells, Idle
<1>2. ASSUME NEW r \in Requests, ReceiveRetry(r)
      PROVE  AlertsInv'
  <2>1. report \in Rows
    BY <1>0, <1>2 DEF ReceiveRetry
  <2>2. QED BY <1>2, <2>1, RetryHandles, LoadKeepsAlerts DEF ReceiveRetry
<1>3. ASSUME NEW r \in Requests, ReceiveArchive(r) \/ ReceiveRestore(r)
      PROVE  AlertsInv'
  <2>1. report \in Rows
    BY <1>0, <1>3 DEF ReceiveArchive, ReceiveRestore
  <2>2. QED BY <1>3, <2>1, ArchiveHandles, LoadKeepsAlerts DEF ReceiveArchive, ReceiveRestore
<1>4. ASSUME NEW r \in Requests, NEW decision \in {"approve", "reject"},
             ReceiveDecision(r, decision)
      PROVE  AlertsInv'
  <2>1. report \in Rows
    BY <1>0, <1>4 DEF ReceiveDecision
  <2>2. QED BY <1>4, <2>1, ApprovalHandles, LoadKeepsAlerts DEF ReceiveDecision
<1>5. ASSUME NEW r \in Requests, ReceiveSubmit(r)
      PROVE  AlertsInv'
  <2>1. report \in Rows
    BY <1>0, <1>5 DEF ReceiveSubmit
  <2>2. QED BY <1>5, <2>1, ApprovalHandles, LoadKeepsAlerts DEF ReceiveSubmit
<1>6. ASSUME NEW r \in Requests, FlushSubmit(r) \/ ReceiveRebuild(r)
      PROVE  AlertsInv'
  BY <1>6, LookKeepsAlerts
<1>7. ASSUME NEW r \in Requests, Commit(r)
      PROVE  AlertsInv'
  BY <1>7, CommitKeepsAlerts
<1>8. ASSUME NobodyForgotten, report' = report,
             \A o \in Requests : Same(o)
      PROVE  AlertsInv'
  <2>1. OneFlushed'
    <3>1. \A o \in Requests : request'[o].phase = "flushed" => request[o].phase = "flushed"
      BY <1>8 DEF Same, Idle
    <3>2. QED BY <3>1 DEF OneFlushed, ReportsInv, AlertsInv
  <2>2. QED BY <1>8, <2>1, TellingStands, PendingStands DEF AlertsInv
<1>9. ASSUME NEW r \in Requests, Abort(r)
      PROVE  AlertsInv'
  <2>1. \A o \in Requests : Same(o)
    BY <1>0, <1>9 DEF Abort, Same
  <2>2. NobodyForgotten
    BY <1>9 DEF Abort, NobodyForgotten
  <2>3. QED BY <1>8, <1>9, <2>1, <2>2 DEF Abort
<1>10. ASSUME NEW u \in Users, HandleAlert(u)
       PROVE  AlertsInv'
  <2>1. \A o \in Requests : Same(o)
    BY <1>10 DEF HandleAlert, Same
  <2>2. NobodyForgotten
    BY <1>0, <1>10 DEF HandleAlert, NobodyForgotten
  <2>3. QED BY <1>8, <1>10, <2>1, <2>2 DEF HandleAlert
<1>11. ASSUME ChangeRecipients
       PROVE  AlertsInv'
  <2>1. \A o \in Requests : Same(o)
    BY <1>11 DEF ChangeRecipients, Same
  <2>2. NobodyForgotten
    BY <1>11 DEF ChangeRecipients, NobodyForgotten
  <2>3. QED BY <1>8, <1>11, <2>1, <2>2 DEF ChangeRecipients
<1>12. ASSUME UNCHANGED vars
       PROVE  AlertsInv'
  <2>1. \A o \in Requests : Same(o)
    BY <1>12 DEF vars, Same
  <2>2. NobodyForgotten
    BY <1>12 DEF vars, NobodyForgotten
  <2>3. QED BY <1>8, <1>12, <2>1, <2>2 DEF vars
<1>13. QED BY <1>1, <1>2, <1>3, <1>4, <1>5, <1>6, <1>7, <1>9, <1>10, <1>11, <1>12 DEF Next

(* There is no report and nobody has been told of one.                      *)
LEMMA ReportsInvInit == Init => ReportsInv
<1> SUFFICES ASSUME Init PROVE ReportsInv
  OBVIOUS
<1>1. TypeOK
  BY DEF Init, TypeOK
<1>2. \A r \in Requests : request[r] = Idle
  BY DEF Init
<1>3. RowInv
  BY <1>1, <1>2 DEF Init, RowInv, Knows
<1>4. AlertsInv
  BY <1>2 DEF Init, AlertsInv, PendingIsAlerted, OneFlushed, Tells, Idle
<1>5. QED BY <1>3, <1>4 DEF ReportsInv

(* The invariant of every reachable state.                                  *)
LEMMA ReportsInvariant == Spec => []ReportsInv
<1>1. Init => ReportsInv
  BY ReportsInvInit
<1>2. ReportsInv /\ [Next]_vars => ReportsInv'
  BY RowInvStep, AlertsInvStep DEF ReportsInv
<1>3. QED BY <1>1, <1>2, PTL DEF Spec
-----------------------------------------------------------------------------
\* What a request that nothing has overtaken has decided still stands.
Decided(r) ==
    request[r] # Idle /\ ~request[r].stale =>
        LET new == Applied(report, request[r].write)
        IN  /\ request[r].phase = "loaded" => Revised(report, new)
            /\ request[r].phase \in {"submitting", "flushed"} =>
                  new \in SubmitReportApproval(report)
            /\ request[r].phase = "alerting" =>
                  new = report /\ report.approval = "pending_approval"

DecidedInv == ReportsInv /\ \A r \in Requests : Decided(r)

\* One handler, one inbox, one change of roles, or an overtaken request.
Atomic ==
    \/ HandlerStep
    \/ InboxStep
    \/ RosterStep
    \/ \E r \in Requests : Overtaken(r) /\ request'[r] = Idle
    \/ UNCHANGED <<report, recipients, inbox>>

(* What was decided stands while the report does.                           *)
LEMMA DecisionStands ==
    ASSUME NEW o \in Requests, Decided(o), report' = report,
           \/ request'[o] = Idle
           \/ /\ request[o] # Idle
              /\ request'[o].write = request[o].write
              /\ request'[o].stale = request[o].stale
              /\ \/ request'[o].phase = request[o].phase
                 \/ request[o].phase = "submitting" /\ request'[o].phase = "flushed"
    PROVE  Decided(o)'
<1>1. CASE request'[o] = Idle
  BY <1>1 DEF Decided
<1>2. CASE /\ request[o] # Idle
           /\ request'[o].write = request[o].write /\ request'[o].stale = request[o].stale
           /\ \/ request'[o].phase = request[o].phase
              \/ request[o].phase = "submitting" /\ request'[o].phase = "flushed"
  <2>1. Applied(report', request'[o].write) = Applied(report, request[o].write)
    BY <1>2
  <2>2. QED BY <1>2, <2>1 DEF Decided
<1>3. QED BY <1>1, <1>2

(* A request stands as it is received.                                      *)
LEMMA ReceiveDecides ==
    ASSUME DecidedInv, NEW r \in Requests, NEW new, NEW forced, NEW q,
           report \in Rows, new \in Rows,
           UNCHANGED <<report, recipients, inbox>>,
           request' = [request EXCEPT ![r] = q],
           q.write = Differing(report, new, forced),
           q.phase = "loaded" => Revised(report, new),
           q.phase \in {"submitting", "flushed"} => new \in SubmitReportApproval(report),
           q.phase = "alerting" => new = report /\ report.approval = "pending_approval"
    PROVE  (\A o \in Requests : Decided(o)') /\ Atomic
<1>1. request \in [Requests -> {Idle} \cup InFlight]
  BY DEF DecidedInv, ReportsInv, RowInv, TypeOK
<1>2. ASSUME NEW o \in Requests PROVE Decided(o)'
  <2>1. CASE o = r
    <3>1. request'[o] = q
      BY <1>1, <2>1
    <3>2. Applied(report', request'[o].write) = new
      BY <3>1, FlushesWhatItComputed
    <3>3. QED BY <3>1, <3>2 DEF Decided
  <2>2. CASE o # r
    <3>1. request'[o] = request[o] /\ Decided(o)
      BY <1>1, <2>2 DEF DecidedInv
    <3>2. Applied(report', request'[o].write) = Applied(report, request[o].write)
      BY <3>1
    <3>3. QED BY <3>1, <3>2 DEF Decided
  <2>3. QED BY <2>1, <2>2
<1>3. QED BY <1>2 DEF Atomic

LEMMA LoadDecides ==
    ASSUME DecidedInv, NEW r \in Requests, NEW phase \in {"loaded", "submitting"},
           NEW outcomes, NEW forced, Receive(r, phase, outcomes, forced),
           \A new \in outcomes :
              /\ new \in Rows
              /\ IF phase = "loaded" THEN Revised(report, new)
                                     ELSE new \in SubmitReportApproval(report)
    PROVE  (\A o \in Requests : Decided(o)') /\ Atomic
<1>1. PICK new \in outcomes :
         request' = [request EXCEPT ![r] =
            [phase |-> phase, write |-> Differing(report, new, forced),
             looked |-> {}, alerts |-> {}, stale |-> FALSE]]
  BY DEF Receive
<1> DEFINE q == [phase |-> phase, write |-> Differing(report, new, forced),
                 looked |-> {}, alerts |-> {}, stale |-> FALSE]
<1>2. report \in Rows /\ new \in Rows /\ UNCHANGED <<report, recipients, inbox>>
  BY DEF Receive, DecidedInv, ReportsInv, RowInv, TypeOK
<1>3. q.write = Differing(report, new, forced) /\ q.phase = phase
  OBVIOUS
<1> HIDE DEF q
<1>4. request' = [request EXCEPT ![r] = q]
  BY <1>1 DEF q
<1>5. QED BY <1>2, <1>3, <1>4, ReceiveDecides

(* A commit that was not overtaken does what was decided.                   *)
LEMMA CommitIsDecided ==
    ASSUME DecidedInv, NEW r \in Requests, Commit(r)
    PROVE  (\A o \in Requests : Decided(o)') /\ Atomic
<1> DEFINE q == request[r]
           new == Applied(report, q.write)
<1>1. /\ q \in InFlight /\ q # Idle /\ report # NoReport /\ Decided(r) /\ Tells(r)
      /\ request \in [Requests -> {Idle} \cup InFlight]
      /\ inbox \in [Users -> {"none"} \cup AlertStatuses]
      /\ recipients \subseteq Users
  BY DEF DecidedInv, ReportsInv, RowInv, AlertsInv, TypeOK, Commit, Idle, Rosters
<1>2. /\ report' = new
      /\ inbox' = Alerted(q.alerts)
      /\ Deliverable(r)
      /\ q.phase \in {"loaded", "flushed", "alerting"}
      /\ request'[r] = Idle
      /\ UNCHANGED recipients
  BY DEF Commit
<1>3. ASSUME NEW o \in Requests PROVE Decided(o)'
  <2>1. CASE o = r \/ request[o] = Idle
    BY <2>1 DEF Commit, Decided
  <2>2. CASE o # r /\ request[o] # Idle
    <3>1. request[o] \in InFlight /\ Decided(o)
          /\ request'[o] = [request[o] EXCEPT !.stale = @ \/ report' # report]
      BY <1>1, <2>2 DEF Commit, DecidedInv
    <3>2. /\ request'[o].write = request[o].write /\ request'[o].phase = request[o].phase
          /\ request'[o].stale = (request[o].stale \/ report' # report)
      BY <3>1 DEF InFlight
    <3>3. CASE report' = report
      <4>1. request'[o].stale = request[o].stale
        BY <3>1, <3>2, <3>3 DEF InFlight
      <4>2. QED BY <2>2, <3>1, <3>2, <3>3, <4>1, DecisionStands
    <3>4. CASE report' # report
      BY <3>2, <3>4 DEF Decided
    <3>5. QED BY <3>3, <3>4
  <2>3. QED BY <2>1, <2>2
<1>4. ASSUME Overtaken(r)
      PROVE  Atomic
  BY <1>2, <1>4 DEF Atomic
<1>5. ASSUME ~Overtaken(r)
      PROVE  Atomic
  <2>1. ~q.stale
    BY <1>1, <1>5 DEF Overtaken
  <2>2. CASE q.phase = "loaded"
    <3>1. Revised(report, report') /\ q.alerts = {}
      BY <1>1, <1>2, <2>1, <2>2 DEF Decided, Tells
    <3>2. inbox' = inbox
      BY <1>1, <1>2, <3>1 DEF Alerted
    <3>3. QED BY <1>1, <1>2, <3>1, <3>2 DEF Atomic, HandlerStep
  <2>3. CASE q.phase \in {"flushed", "alerting"}
    <3>1. q.looked = recipients
      BY <1>1, <1>5, <2>3 DEF Overtaken
    <3>2. q.alerts = WithoutAlert
      BY <1>1, <1>2, <2>3, <3>1 DEF Tells, Deliverable, WithoutAlert
    <3>3. inbox' = Alerted(WithoutAlert)
      BY <1>2, <3>2
    <3>4. CASE q.phase = "flushed"
      BY <1>1, <1>2, <2>1, <3>3, <3>4 DEF Atomic, HandlerStep, Decided
    <3>5. CASE q.phase = "alerting"
      BY <1>1, <1>2, <2>1, <3>3, <3>5 DEF Atomic, HandlerStep, Decided
    <3>6. QED BY <2>3, <3>4, <3>5
  <2>4. QED BY <1>2, <2>2, <2>3
<1>6. QED BY <1>3, <1>4, <1>5

(* Every step keeps what was decided and is atomic.                         *)
LEMMA DecidedInvStep ==
    ASSUME DecidedInv, [Next]_vars
    PROVE  DecidedInv' /\ Atomic
<1>0. /\ report \in {NoReport} \cup Rows /\ request \in [Requests -> {Idle} \cup InFlight]
      /\ recipients \in Rosters /\ \A o \in Requests : Decided(o)
  BY DEF DecidedInv, ReportsInv, RowInv, TypeOK
<1> DEFINE Goal == (\A o \in Requests : Decided(o)') /\ Atomic
<1>1. ASSUME Create
      PROVE  Goal
  <2>1. \A o \in Requests : request'[o] = Idle
    BY <1>1 DEF Create, DecidedInv, ReportsInv, RowInv
  <2>2. QED BY <1>1, <2>1 DEF Create, Decided, Atomic, HandlerStep
<1>2. ASSUME NEW r \in Requests, ReceiveRetry(r)
      PROVE  Goal
  <2>1. report \in Rows
    BY <1>0, <1>2 DEF ReceiveRetry
  <2>2. \A new \in RetryReportReady(report) \cup RetryReportFailed(report) :
           new \in Rows /\ Revised(report, new)
    BY <2>1, RetryHandles DEF Handles, Revised
  <2>3. QED BY <1>2, <2>2, LoadDecides DEF ReceiveRetry
<1>3. ASSUME NEW r \in Requests, ReceiveArchive(r) \/ ReceiveRestore(r)
      PROVE  Goal
  <2>1. report \in Rows
    BY <1>0, <1>3 DEF ReceiveArchive, ReceiveRestore
  <2>2. \A new \in ArchiveReport(report) \cup RestoreReport(report) :
           new \in Rows /\ Revised(report, new)
    BY <2>1, ArchiveHandles DEF Handles, Revised
  <2>3. QED BY <1>3, <2>2, LoadDecides DEF ReceiveArchive, ReceiveRestore
<1>4. ASSUME NEW r \in Requests, NEW decision \in {"approve", "reject"},
             ReceiveDecision(r, decision)
      PROVE  Goal
  <2>1. report \in Rows
    BY <1>0, <1>4 DEF ReceiveDecision
  <2>2. \A new \in DecideReportApproval(report, decision) :
           new \in Rows /\ Revised(report, new)
    BY <2>1, ApprovalHandles DEF Handles, Revised
  <2>3. QED BY <1>4, <2>2, LoadDecides DEF ReceiveDecision
<1>5. ASSUME NEW r \in Requests, ReceiveSubmit(r)
      PROVE  Goal
  <2>1. report \in Rows
    BY <1>0, <1>5 DEF ReceiveSubmit
  <2>2. \A new \in SubmitReportApproval(report) : new \in Rows
    BY <2>1, ApprovalHandles DEF Handles
  <2>3. QED BY <1>5, <2>2, LoadDecides DEF ReceiveSubmit
<1>6. ASSUME report' = report, UNCHANGED <<report, recipients, inbox>>
             \/ InboxStep \/ RosterStep,
             \A o \in Requests : request'[o] \in {Idle, request[o]}
      PROVE  Goal
  BY <1>0, <1>6, DecisionStands DEF Atomic
<1>7. ASSUME NEW r \in Requests, FlushSubmit(r)
      PROVE  Goal
  <2> DEFINE q == [request[r] EXCEPT !.phase = "flushed",
                                     !.looked = recipients, !.alerts = WithoutAlert]
  <2>1. request[r] \in InFlight /\ request[r] # Idle /\ request[r].phase = "submitting"
        /\ request' = [request EXCEPT ![r] = q]
    BY <1>0, <1>7 DEF FlushSubmit, Idle
  <2>2. q.write = request[r].write /\ q.stale = request[r].stale /\ q.phase = "flushed"
    BY <2>1 DEF InFlight
  <2> HIDE DEF q
  <2>3. ASSUME NEW o \in Requests PROVE Decided(o)'
    <3>1. CASE o = r
      BY <1>0, <1>7, <2>1, <2>2, <3>1, DecisionStands DEF FlushSubmit
    <3>2. CASE o # r
      BY <1>0, <1>7, <2>1, <3>2, DecisionStands DEF FlushSubmit
    <3>3. QED BY <3>1, <3>2
  <2>4. QED BY <1>7, <2>3 DEF FlushSubmit, Atomic
<1>8. ASSUME NEW r \in Requests, ReceiveRebuild(r)
      PROVE  Goal
  <2> DEFINE q == [phase |-> "alerting", write |-> Differing(report, report, {}),
                   looked |-> recipients, alerts |-> WithoutAlert, stale |-> FALSE]
  <2>1. report \in Rows /\ report.approval = "pending_approval"
        /\ UNCHANGED <<report, recipients, inbox>>
    BY <1>0, <1>8 DEF ReceiveRebuild
  <2>2. q.write = Differing(report, report, {}) /\ q.phase = "alerting"
    OBVIOUS
  <2> HIDE DEF q
  <2>3. request' = [request EXCEPT ![r] = q]
    BY <1>8 DEF ReceiveRebuild, q
  <2>4. QED BY <2>1, <2>2, <2>3, ReceiveDecides
<1>9. ASSUME NEW r \in Requests, Commit(r)
      PROVE  Goal
  BY <1>9, CommitIsDecided
<1>10. ASSUME NEW r \in Requests, Abort(r)
       PROVE  Goal
  <2>1. \A o \in Requests : request'[o] \in {Idle, request[o]}
    BY <1>0, <1>10 DEF Abort
  <2>2. QED BY <1>6, <1>10, <2>1 DEF Abort
<1>11. ASSUME NEW u \in Users, HandleAlert(u)
       PROVE  Goal
  <2>1. InboxStep
    BY <1>11 DEF HandleAlert, InboxStep
  <2>2. QED BY <1>6, <1>11, <2>1 DEF HandleAlert
<1>12. ASSUME ChangeRecipients
       PROVE  Goal
  <2>1. RosterStep
    BY <1>12 DEF ChangeRecipients, RosterStep
  <2>2. QED BY <1>6, <1>12, <2>1 DEF ChangeRecipients
<1>13. ASSUME UNCHANGED vars
       PROVE  Goal
  BY <1>6, <1>13 DEF vars
<1>14. Goal
  BY <1>1, <1>2, <1>3, <1>4, <1>5, <1>7, <1>8, <1>9, <1>10, <1>11, <1>12, <1>13 DEF Next
<1>15. ReportsInv'
  BY RowInvStep, AlertsInvStep DEF DecidedInv, ReportsInv
<1>16. QED BY <1>14, <1>15 DEF DecidedInv

LEMMA DecidedInvInit == Init => DecidedInv
  BY ReportsInvInit DEF Init, DecidedInv, Decided

(* What was decided stands in every reachable state.                        *)
LEMMA DecidedInvariant == Spec => []DecidedInv
<1>1. DecidedInv /\ [Next]_vars => DecidedInv'
  BY DecidedInvStep
<1>2. QED BY DecidedInvInit, <1>1, PTL DEF Spec
-----------------------------------------------------------------------------
(* The row, the inboxes and the requests in flight keep their types.        *)
THEOREM ReportsTypeCorrect == Spec => []TypeOK
<1>1. ReportsInv => TypeOK
  BY DEF ReportsInv, RowInv
<1>2. QED BY ReportsInvariant, <1>1, PTL

(* No overlap of retries, archivings and restores makes a report ready that *)
(* was never generated (_generate_report_content, restore_report).          *)
THEOREM ContentIsMatched == Spec => []ContentMatchesStatus
<1>1. ReportsInv => ContentMatchesStatus
  <2> SUFFICES ASSUME ReportsInv, report # NoReport
               PROVE  /\ report.status = "ready" => report.content = "rendered"
                      /\ report.status = "failed" /\ ~raced => report.content = "null"
    BY DEF ContentMatchesStatus
  <2>1. report \in Rows
    BY DEF ReportsInv, RowInv, TypeOK
  <2>2. QED BY <2>1 DEF ReportsInv, RowInv, Good, Empty, Rows
<1>2. QED BY ReportsInvariant, <1>1, PTL

(* The archive stamp and the remembered status fit the report unless        *)
(* requests overlapped (archive_report, restore_report).                    *)
THEOREM ArchiveStaysWhole == Spec => []ArchiveIsWhole
<1>1. ReportsInv => ArchiveIsWhole
  BY DEF ReportsInv, RowInv, Good, ArchiveIsWhole
<1>2. QED BY ReportsInvariant, <1>1, PTL

(* A rejection and its reason come and go together unless requests          *)
(* overlapped (submit_report_approval, decide_report_approval).             *)
THEOREM VerdictsStayWhole == Spec => []VerdictsAreWhole
<1>1. ReportsInv => VerdictsAreWhole
  BY DEF ReportsInv, RowInv, Good, VerdictsAreWhole
<1>2. QED BY ReportsInvariant, <1>1, PTL

(* Whoever was owner, reviewer or administrator when a submission or a      *)
(* rebuild last looked has been told of a pending report, however requests  *)
(* and changes of these roles overlap (notify_report_approval_pending,      *)
(* _reviewer_recipient_ids, create_notification).                           *)
THEOREM PendingReportsAreAlerted == Spec => []PendingIsAlerted
<1>1. ReportsInv => PendingIsAlerted
  BY DEF ReportsInv, AlertsInv
<1>2. QED BY ReportsInvariant, <1>1, PTL

(* A submission can be refused for its alerts only by a rebuild that came   *)
(* in between: the row it has flushed keeps other submissions waiting       *)
(* (submit_report_approval, rebuild_workflow_alerts).                       *)
THEOREM SubmissionsMakeWay == Spec => RefusedByRebuildOnly
<1> DEFINE Refused == \A r \in Requests :
              request[r].phase = "flushed" /\ Deliverable(r) /\ request'[r] # Idle =>
                  \/ Deliverable(r)'
                  \/ \E o \in Requests : request[o].phase = "alerting" /\ request'[o] = Idle
<1>1. ReportsInv /\ [Next]_vars => [Refused]_vars
  <2> SUFFICES ASSUME ReportsInv, [Next]_vars, NEW r \in Requests,
                      request[r].phase = "flushed", Deliverable(r), request'[r] # Idle
               PROVE  \/ Deliverable(r)'
                      \/ \E o \in Requests : request[o].phase = "alerting" /\ request'[o] = Idle
    OBVIOUS
  <2>1. /\ request \in [Requests -> {Idle} \cup InFlight] /\ request[r] # Idle
        /\ request[r] \in InFlight /\ request[r].alerts \subseteq Users
        /\ inbox \in [Users -> {"none"} \cup AlertStatuses] /\ report # NoReport
    BY DEF ReportsInv, RowInv, TypeOK, InFlight, Idle
  <2>2. ASSUME NEW o \in Requests, Commit(o)
        PROVE  \/ Deliverable(r)'
               \/ request[o].phase = "alerting" /\ request'[o] = Idle
    <3>1. o # r /\ Tells(o) /\ request[o] # Idle /\ request'[o] = Idle
      BY <2>2 DEF Commit, ReportsInv, AlertsInv, Idle
    <3>2. request'[r] = [request[r] EXCEPT !.stale = @ \/ report' # report]
      BY <2>1, <2>2, <3>1 DEF Commit
    <3>3. request'[r].alerts = request[r].alerts
      BY <2>1, <3>2 DEF InFlight
    <3>4. CASE request[o].phase = "loaded"
      <4>1. inbox' = inbox
        BY <2>1, <2>2, <3>1, <3>4 DEF Commit, Tells, Alerted
      <4>2. QED BY <3>3, <4>1 DEF Deliverable
    <3>5. CASE request[o].phase = "flushed"
      BY <3>1, <3>5 DEF ReportsInv, AlertsInv, OneFlushed
    <3>6. QED BY <2>2, <3>1, <3>4, <3>5 DEF Commit
  <2>3. ASSUME request'[r] = request[r], UNCHANGED inbox
        PROVE  Deliverable(r)'
    BY <2>3 DEF Deliverable
  <2>4. ASSUME NEW o \in Requests,
               ReceiveRetry(o) \/ ReceiveArchive(o) \/ ReceiveRestore(o) \/ ReceiveSubmit(o)
               \/ (\E decision \in {"approve", "reject"} : ReceiveDecision(o, decision))
        PROVE  Deliverable(r)'
    <3>1. o # r /\ UNCHANGED inbox /\ \E q : request' = [request EXCEPT ![o] = q]
      BY <2>1, <2>4 DEF ReceiveRetry, ReceiveArchive, ReceiveRestore, ReceiveSubmit,
         ReceiveDecision, Receive
    <3>2. QED BY <2>1, <2>3, <3>1
  <2>5. ASSUME NEW o \in Requests, FlushSubmit(o) \/ ReceiveRebuild(o) \/ Abort(o)
        PROVE  Deliverable(r)'
    <3>1. o # r /\ UNCHANGED inbox /\ \E q : request' = [request EXCEPT ![o] = q]
      BY <2>1, <2>5 DEF FlushSubmit, ReceiveRebuild, Abort
    <3>2. QED BY <2>1, <2>3, <3>1
  <2>6. ASSUME NEW u \in Users, HandleAlert(u)
        PROVE  Deliverable(r)'
    BY <2>1, <2>6 DEF HandleAlert, Deliverable
  <2>7. ASSUME Create \/ ChangeRecipients \/ UNCHANGED vars
        PROVE  Deliverable(r)'
    BY <2>3, <2>7 DEF Create, ChangeRecipients, vars
  <2>8. QED BY <2>2, <2>4, <2>5, <2>6, <2>7 DEF Next
<1>2. QED BY ReportsInvariant, <1>1, PTL DEF Spec, RefusedByRebuildOnly

(* However retries, archivings, submissions, decisions and rebuilds of the  *)
(* alerts overlap, the report and the inboxes change by one handler at a    *)
(* time, which alerts the recipients as they are then, save for the         *)
(* requests that were overtaken (reporting_center.py, case_review.py,       *)
(* notification.py).                                                        *)
THEOREM ReportRequestsAreAtomic == Spec => AtomicUnlessOvertaken
<1>1. DecidedInv /\ [Next]_vars =>
        [HandlerStep \/ InboxStep
         \/ \E r \in Requests : Overtaken(r) /\ request'[r] = Idle]_<<report, inbox>>
  BY DecidedInvStep DEF Atomic, RosterStep
<1>2. QED BY DecidedInvariant, <1>1, PTL DEF Spec, AtomicUnlessOvertaken

\* Who owns, reviews and administers changes between requests only.
RosterWaits == [][recipients' # recipients => \A r \in Requests : request[r] = Idle]_vars

(* With requests that run one after another, and roles that change between  *)
(* them, the model implements the handlers alone: submissions and rebuilds  *)
(* alert the recipients of the moment, and no property has its exception    *)
(* for overlapping requests.                                                *)
THEOREM SerialReports ==
    ASSUME \A r, s \in Requests : r = s
    PROVE  Spec /\ RosterWaits => SerialSpec /\ []~raced
<1> DEFINE Inv == DecidedInv /\ ~raced /\ \A r \in Requests : ~Overtaken(r)
           Waits == recipients' # recipients => \A r \in Requests : request[r] = Idle
<1>1. Init => Inv
  BY DecidedInvInit DEF Init, Overtaken
<1>2. Inv /\ [Next]_vars /\ [Waits]_vars =>
         Inv' /\ [HandlerStep \/ InboxStep \/ RosterStep]_<<report, recipients, inbox>>
  <2> SUFFICES ASSUME Inv, [Next]_vars, [Waits]_vars
               PROVE  /\ Inv'
                      /\ [HandlerStep \/ InboxStep \/ RosterStep]_<<report, recipients, inbox>>
    OBVIOUS
  <2>1. DecidedInv' /\ Atomic
    BY DecidedInvStep
  <2> DEFINE Alone == ~raced' /\ \A r \in Requests : ~Overtaken(r)'
  <2>2. request \in [Requests -> {Idle} \cup InFlight]
    BY DEF DecidedInv, ReportsInv, RowInv, TypeOK
  <2>3. ASSUME NEW r \in Requests, NEW phase \in {"loaded", "submitting"},
               NEW outcomes, NEW forced, Receive(r, phase, outcomes, forced)
        PROVE  Alone
    BY <2>2, <2>3 DEF Receive, Overtaken
  <2>4. ASSUME NEW r \in Requests, FlushSubmit(r)
        PROVE  Alone
    <3>1. request[r] \in InFlight /\ request[r] # Idle /\ ~request[r].stale
      BY <2>2, <2>4 DEF FlushSubmit, Idle, Overtaken
    <3>2. /\ request'[r].stale = request[r].stale /\ request'[r].looked = recipients
          /\ UNCHANGED <<recipients, raced>>
      BY <2>2, <2>4, <3>1 DEF FlushSubmit, InFlight
    <3>3. QED BY <3>1, <3>2 DEF Overtaken
  <2>5. ASSUME NEW r \in Requests, ReceiveRebuild(r)
        PROVE  Alone
    BY <2>2, <2>5 DEF ReceiveRebuild, Overtaken
  <2>6. ASSUME NEW r \in Requests, Commit(r)
        PROVE  Alone
    <3>1. ~request[r].stale /\ request'[r] = Idle
      BY <2>6 DEF Overtaken, Commit, Idle
    <3>2. QED BY <2>6, <3>1 DEF Commit, Overtaken
  <2>7. ASSUME NEW r \in Requests, Abort(r)
        PROVE  Alone
    BY <2>2, <2>7 DEF Abort, Overtaken
  <2>8. ASSUME ChangeRecipients
        PROVE  Alone
    BY <2>8 DEF ChangeRecipients, vars, Overtaken
  <2>9. ASSUME UNCHANGED <<recipients, request, raced>>
        PROVE  Alone
    BY <2>9 DEF Overtaken
  <2>10. Alone
    BY <2>3, <2>4, <2>5, <2>6, <2>7, <2>8, <2>9 DEF Next, vars, Create, ReceiveRetry,
       ReceiveArchive, ReceiveRestore, ReceiveDecision, ReceiveSubmit, HandleAlert
  <2>11. HandlerStep \/ InboxStep \/ RosterStep \/ UNCHANGED <<report, recipients, inbox>>
    BY <2>1 DEF Atomic
  <2>12. QED BY <2>1, <2>10, <2>11
<1>3. Init => report = NoReport /\ recipients \in Rosters /\ inbox = [u \in Users |-> "none"]
  BY DEF Init
<1>4. Inv => ~raced
  OBVIOUS
<1>5. QED BY <1>1, <1>2, <1>3, <1>4, PTL DEF Spec, SerialSpec, RosterWaits
=============================================================================
