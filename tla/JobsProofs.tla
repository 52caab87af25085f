------------------------------ MODULE JobsProofs ------------------------------
(***************************************************************************)
(* The table of jobs and its runner implement JobQueue, whatever jobs are  *)
(* enqueued, however often they are tried and whatever fails.              *)
(***************************************************************************)
EXTENDS Jobs, TLAPS, SequenceTheorems

\* Only the runner ends a claim, so its job runs until it says otherwise, and what
\* Fail read of the attempts is still so when it updates the row.
RunnerOwnsJob ==
    /\ runner.job # 0 => jobs[runner.job].status = "running"
    /\ runner.pc = "fail" => runner.attempts = jobs[runner.job].attempts

IInv == TypeOK /\ ActiveJobsClaimable /\ RunnerOwnsJob

\* Row j becomes row; the other rows stay.
Rewrites(j, row) ==
    /\ jobs' \in Seq(Job) /\ Len(jobs') = Len(jobs) /\ DOMAIN jobs' = DOMAIN jobs
    /\ jobs'[j] = row
    /\ \A i \in DOMAIN jobs : i # j => jobs'[i] = jobs[i]

\* What the store keeps of a row that it may hold.
Claimable(row) ==
    /\ row \in Job
    /\ row.status = "pending" => row.attempts < row.max
    /\ row.status = "running" => row.lease # "none"

-----------------------------------------------------------------------------
LEMMA RowsOfTable ==
    ASSUME TypeOK
    PROVE  /\ Len(jobs) \in Nat /\ DOMAIN jobs = 1..Len(jobs)
           /\ \A j \in DOMAIN jobs : jobs[j] \in Job
BY LenProperties, ElementOfSeq DEF TypeOK

LEMMA Rewriting ==
    ASSUME TypeOK, NEW j \in DOMAIN jobs, NEW row \in Job, jobs' = [jobs EXCEPT ![j] = row]
    PROVE  Rewrites(j, row)
<1>1. jobs \in Seq(Job) /\ j \in 1..Len(jobs) /\ DOMAIN jobs = 1..Len(jobs)
  BY RowsOfTable DEF TypeOK
<1>2. /\ [jobs EXCEPT ![j] = row] \in Seq(Job)
      /\ Len([jobs EXCEPT ![j] = row]) = Len(jobs)
      /\ \A i \in 1..Len(jobs) : [jobs EXCEPT ![j] = row][i] = IF i = j THEN row ELSE jobs[i]
  BY <1>1, ExceptSeq
<1>3. DOMAIN jobs' = 1..Len(jobs')
  BY <1>2, LenProperties
<1> QED
  BY <1>1, <1>2, <1>3 DEF Rewrites

\* A rewritten row keeps the table claimable when the new row is.
LEMMA RewritingKeeps ==
    ASSUME TypeOK, ActiveJobsClaimable, NEW j \in DOMAIN jobs, NEW row,
           Claimable(row), jobs' = [jobs EXCEPT ![j] = row]
    PROVE  Rewrites(j, row) /\ ActiveJobsClaimable'
<1>1. Rewrites(j, row)
  BY Rewriting DEF Claimable
<1>2. ASSUME NEW i \in DOMAIN jobs' PROVE Claimable(jobs'[i])
  BY <1>1, RowsOfTable DEF Rewrites, Claimable, ActiveJobsClaimable
<1> QED
  BY <1>1, <1>2 DEF ActiveJobsClaimable, Claimable

-----------------------------------------------------------------------------
(* What each statement of the store leaves in its row.                     *)

LEMMA ClaimRow ==
    ASSUME IInv, NEW j, Claim(j)
    PROVE  /\ j \in DOMAIN jobs /\ Active(j)
           /\ \E row : /\ Rewrites(j, row) /\ row.status = "running"
                       /\ row.resource = jobs[j].resource
           /\ ActiveJobsClaimable'
<1> DEFINE attempts == IF jobs[j].attempts < jobs[j].max THEN jobs[j].attempts + 1 ELSE jobs[j].attempts
           row == [jobs[j] EXCEPT !.status = "running", !.lease = "ahead", !.attempts = attempts]
<1>1. j \in DOMAIN jobs /\ Active(j) /\ jobs[j] \in Job
  BY RowsOfTable DEF IInv, Claim, NextDue, Due, Active
<1>2. attempts \in Nat
  BY <1>1 DEF Job
<1>3. jobs' = [jobs EXCEPT ![j] = row]
  BY DEF Claim
<1> HIDE DEF attempts
<1>4. Claimable(row) /\ row.status = "running" /\ row.resource = jobs[j].resource
  BY <1>1, <1>2 DEF Claimable, Job, Statuses, Leases
<1> HIDE DEF row
<1>5. Rewrites(j, row) /\ ActiveJobsClaimable'
  BY <1>1, <1>3, <1>4, RewritingKeeps DEF IInv
<1> QED
  BY <1>1, <1>4, <1>5

\* Every other statement leaves the attempts alone.
Settles(j, status, row) ==
    /\ Rewrites(j, row)
    /\ row.status = status
    /\ row.resource = jobs[j].resource /\ row.attempts = jobs[j].attempts

LEMMA RowUpdate ==
    ASSUME IInv, NEW j \in DOMAIN jobs, NEW status \in Statuses, NEW lease \in Leases,
           status = "running" => lease # "none",
           status = "pending" => jobs[j].attempts < jobs[j].max,
           jobs' = [jobs EXCEPT ![j] = [@ EXCEPT !.status = status, !.lease = lease]]
    PROVE  (\E row : Settles(j, status, row)) /\ ActiveJobsClaimable'
<1> DEFINE row == [jobs[j] EXCEPT !.status = status, !.lease = lease]
<1>1. jobs[j] \in Job
  BY RowsOfTable DEF IInv
<1>2. /\ Claimable(row) /\ row.status = status
      /\ row.resource = jobs[j].resource /\ row.attempts = jobs[j].attempts
  BY <1>1 DEF Claimable, Job
<1>3. jobs' = [jobs EXCEPT ![j] = row]
  OBVIOUS
<1> HIDE DEF row
<1>4. Rewrites(j, row) /\ ActiveJobsClaimable'
  BY <1>2, <1>3, RewritingKeeps DEF IInv
<1> QED
  BY <1>2, <1>4 DEF Settles

LEMMA LeaseUpdate ==
    ASSUME IInv, NEW j \in DOMAIN jobs, NEW lease \in Leases \ {"none"},
           jobs' = [jobs EXCEPT ![j] = [@ EXCEPT !.lease = lease]]
    PROVE  (\E row : Settles(j, jobs[j].status, row)) /\ ActiveJobsClaimable'
<1> DEFINE row == [jobs[j] EXCEPT !.lease = lease]
<1>1. jobs[j] \in Job
  BY RowsOfTable DEF IInv
<1>2. /\ Claimable(row) /\ row.status = jobs[j].status
      /\ row.resource = jobs[j].resource /\ row.attempts = jobs[j].attempts
  BY <1>1 DEF Claimable, Job, ActiveJobsClaimable, IInv
<1>3. jobs' = [jobs EXCEPT ![j] = row]
  OBVIOUS
<1> HIDE DEF row
<1>4. Rewrites(j, row) /\ ActiveJobsClaimable'
  BY <1>2, <1>3, RewritingKeeps DEF IInv
<1> QED
  BY <1>2, <1>4 DEF Settles

LEMMA EnqueueRow ==
    ASSUME TypeOK, ActiveJobsClaimable, NEW r \in Resources \union {Unnamed},
           NEW max \in MaxAttempts, NEW created \in Nat, Enqueue(r, max, created)
    PROVE  /\ jobs' \in Seq(Job) /\ Len(jobs') = Len(jobs) + 1
           /\ DOMAIN jobs' = 1..Len(jobs) + 1
           /\ \A i \in DOMAIN jobs : jobs'[i] = jobs[i]
           /\ jobs'[Len(jobs) + 1].status = "pending" /\ jobs'[Len(jobs) + 1].resource = r
           /\ ActiveJobsClaimable'
<1> DEFINE row == [resource |-> r, status |-> "pending", attempts |-> 0,
                   max |-> max, lease |-> "none", created |-> created]
<1>1. jobs' = Append(jobs, row) /\ jobs \in Seq(Job)
  BY DEF Enqueue, TypeOK
<1>2. Claimable(row) /\ row.status = "pending" /\ row.resource = r
  BY JobsAssumption DEF Claimable, Job, Statuses, Leases
<1> HIDE DEF row
<1>3. /\ jobs' \in Seq(Job) /\ Len(jobs') = Len(jobs) + 1
      /\ \A i \in 1..Len(jobs) : jobs'[i] = jobs[i]
      /\ jobs'[Len(jobs) + 1] = row
  BY <1>1, <1>2, AppendProperties DEF Claimable
<1>4. DOMAIN jobs' = 1..Len(jobs) + 1 /\ DOMAIN jobs = 1..Len(jobs) /\ Len(jobs) \in Nat
  BY <1>1, <1>3, LenProperties
<1>5. ASSUME NEW i \in DOMAIN jobs' PROVE Claimable(jobs'[i])
  <2>1. CASE i = Len(jobs) + 1
    BY <2>1, <1>2, <1>3
  <2>2. CASE i # Len(jobs) + 1
    BY <2>2, <1>3, <1>4, RowsOfTable DEF Claimable, ActiveJobsClaimable
  <2> QED
    BY <2>1, <2>2
<1> QED
  BY <1>2, <1>3, <1>4, <1>5 DEF ActiveJobsClaimable, Claimable

-----------------------------------------------------------------------------
\* The runner is well typed and its job runs, whatever row was written: another
\* row than the runner's, or its own without change of status and attempts.
LEMMA RunnerKeeps ==
    ASSUME IInv, ActiveJobsClaimable', faults' \in Nat, runner' = runner,
           jobs' \in Seq(Job), DOMAIN jobs \subseteq DOMAIN jobs',
           runner.job # 0 => /\ jobs'[runner.job].status = jobs[runner.job].status
                             /\ jobs'[runner.job].attempts = jobs[runner.job].attempts
    PROVE  IInv'
BY DEF IInv, TypeOK, Runner, RunnerOwnsJob

LEMMA PollingKeeps ==
    ASSUME ActiveJobsClaimable', faults' \in Nat, runner' = Polling, jobs' \in Seq(Job)
    PROVE  IInv'
BY DEF IInv, TypeOK, Runner, RunnerOwnsJob, Polling, Outcomes

LEMMA InitInv == Init => IInv
<1> SUFFICES ASSUME Init PROVE IInv
  OBVIOUS
<1>1. jobs \in Seq(Job) /\ DOMAIN jobs = {}
  BY EmptySeq DEF Init
<1> QED
  BY <1>1 DEF Init, IInv, TypeOK, ActiveJobsClaimable, RunnerOwnsJob, Runner, Polling, Outcomes

LEMMA SubmitStep ==
    ASSUME IInv, NEW r \in Resources \union {Unnamed}, NEW max \in MaxAttempts,
           NEW later \in BOOLEAN, Submit(r, max, later)
    PROVE  /\ \E created \in Nat : Enqueue(r, max, created)
           /\ UNCHANGED <<runner, faults>>
           /\ IInv'
<1> DEFINE last == IF jobs = <<>> THEN 0 ELSE jobs[Len(jobs)].created
<1>1. last \in Nat
  <2>1. CASE jobs = <<>>
    BY <2>1
  <2>2. CASE jobs # <<>>
    <3>1. jobs \in Seq(Job) /\ Len(jobs) \in 1..Len(jobs)
      BY <2>2, EmptySeq DEF IInv, TypeOK
    <3>2. jobs[Len(jobs)] \in Job
      BY <3>1, ElementOfSeq
    <3> QED
      BY <2>2, <3>2 DEF Job
  <2> QED
    BY <2>1, <2>2
<1>2. /\ Enqueue(r, max, IF later THEN last + 1 ELSE last)
      /\ UNCHANGED <<runner, faults>>
  BY DEF Submit
<1> HIDE DEF last
<1>3. PICK created \in Nat : Enqueue(r, max, created)
  BY <1>1, <1>2
<1>4. /\ jobs' \in Seq(Job) /\ DOMAIN jobs' = 1..Len(jobs) + 1 /\ ActiveJobsClaimable'
      /\ \A i \in DOMAIN jobs : jobs'[i] = jobs[i]
  BY <1>3, EnqueueRow DEF IInv
<1>5. DOMAIN jobs \subseteq DOMAIN jobs'
  BY <1>4, RowsOfTable DEF IInv
<1>6. IInv'
  BY <1>2, <1>4, <1>5, RunnerKeeps DEF IInv, TypeOK
<1> QED
  BY <1>2, <1>3, <1>6

LEMMA ClaimNextStep ==
    ASSUME IInv, NEW j \in DOMAIN jobs, ClaimNext(j)
    PROVE  IInv'
<1>1. PICK row : Rewrites(j, row) /\ row.status = "running"
  BY ClaimRow DEF ClaimNext
<1>2. ActiveJobsClaimable'
  BY ClaimRow DEF ClaimNext
<1>3. j \in Nat \ {0}
  BY RowsOfTable DEF IInv
<1> QED
  BY <1>1, <1>2, <1>3
     DEF ClaimNext, Rewrites, IInv, TypeOK, Runner, RunnerOwnsJob, Polling, Outcomes

LEMMA ClaimLostStep ==
    ASSUME IInv, NEW j \in DOMAIN jobs, ClaimLost(j)
    PROVE  IInv'
<1>1. PICK row : Rewrites(j, row)
  BY ClaimRow DEF ClaimLost
<1>2. ActiveJobsClaimable' /\ runner.job = 0 /\ runner' = runner /\ faults' \in Nat
  BY ClaimRow DEF ClaimLost, IInv, TypeOK
<1> QED
  BY <1>1, <1>2, RunnerKeeps DEF Rewrites

LEMMA HeartbeatStep ==
    ASSUME IInv, Heartbeat
    PROVE  (\E row : Settles(runner.job, "running", row)) /\ UNCHANGED runner /\ IInv'
<1>1. runner.job # 0 /\ runner.job \in DOMAIN jobs /\ jobs[runner.job].status = "running"
  BY DEF Heartbeat, RenewLease, IInv, TypeOK
<1>2. jobs' = [jobs EXCEPT ![runner.job] = [@ EXCEPT !.lease = "ahead"]] /\ "ahead" \in Leases \ {"none"}
  BY DEF Heartbeat, RenewLease, Leases
<1>3. /\ \E row : Settles(runner.job, jobs[runner.job].status, row)
      /\ ActiveJobsClaimable'
  BY <1>1, <1>2, LeaseUpdate
<1> QED
  BY <1>1, <1>3, RunnerKeeps DEF Heartbeat, Settles, Rewrites, IInv, TypeOK

LEMMA TickStep ==
    ASSUME IInv, NEW j \in DOMAIN jobs, Tick(j)
    PROVE  (\E row : Settles(j, jobs[j].status, row)) /\ UNCHANGED runner /\ IInv'
<1>1. (\E row : Settles(j, jobs[j].status, row)) /\ ActiveJobsClaimable'
  BY LeaseUpdate DEF Tick, Lapse, Leases
<1> QED
  BY <1>1, RunnerKeeps DEF Tick, Settles, Rewrites, IInv, TypeOK

LEMMA StoreOutcomeStep ==
    ASSUME IInv, StoreOutcome
    PROVE  /\ \E status \in {"succeeded", "failed"} : \E row : Settles(runner.job, status, row)
           /\ runner.job # 0 /\ runner' = Polling
           /\ IInv'
<1>1. runner.job # 0 /\ runner.job \in DOMAIN jobs
  BY DEF StoreOutcome, IInv, TypeOK
<1>2. PICK status \in {"succeeded", "failed"} :
        jobs' = [jobs EXCEPT ![runner.job] = [@ EXCEPT !.status = status, !.lease = "none"]]
  BY DEF StoreOutcome, Complete, FailPermanent
<1>3. (\E row : Settles(runner.job, status, row)) /\ ActiveJobsClaimable'
  BY <1>1, <1>2, RowUpdate DEF Statuses, Leases
<1> QED
  BY <1>1, <1>3, PollingKeeps DEF StoreOutcome, Settles, Rewrites, IInv, TypeOK

\* What Fail read is still so, hence a job to be tried again has an attempt left.
LEMMA StoreFailureStep ==
    ASSUME IInv, StoreFailure
    PROVE  /\ \E status \in {"pending", "failed"} : \E row : Settles(runner.job, status, row)
           /\ runner.job # 0 /\ runner' = Polling
           /\ IInv'
<1>1. /\ runner.job # 0 /\ runner.job \in DOMAIN jobs /\ jobs[runner.job] \in Job
      /\ runner.attempts = jobs[runner.job].attempts
  BY RowsOfTable DEF StoreFailure, IInv, TypeOK, RunnerOwnsJob
<1>2. /\ \E status \in {"pending", "failed"} : \E row : Settles(runner.job, status, row)
      /\ ActiveJobsClaimable'
  <2>1. CASE runner.attempts >= jobs[runner.job].max
    <3>1. jobs' = [jobs EXCEPT ![runner.job] = [@ EXCEPT !.status = "failed", !.lease = "none"]]
      BY <2>1 DEF StoreFailure, Fail
    <3> QED
      BY <1>1, <3>1, RowUpdate DEF Statuses, Leases
  <2>2. CASE ~(runner.attempts >= jobs[runner.job].max)
    <3>1. jobs' = [jobs EXCEPT ![runner.job] = [@ EXCEPT !.status = "pending", !.lease = "ahead"]]
      BY <2>2 DEF StoreFailure, Fail
    <3>2. jobs[runner.job].attempts < jobs[runner.job].max
      BY <1>1, <2>2 DEF Job
    <3> QED
      BY <1>1, <3>1, <3>2, RowUpdate DEF Statuses, Leases
  <2> QED
    BY <2>1, <2>2
<1> QED
  BY <1>1, <1>2, PollingKeeps DEF StoreFailure, Settles, Rewrites, IInv, TypeOK

\* Steps of the runner that leave the table alone.
LEMMA LocalStep ==
    ASSUME IInv,
           (\E outcome \in Outcomes : HandlerReturns(outcome)) \/ ReadAttempts \/ Lost
    PROVE  UNCHANGED jobs /\ IInv'
<1>1. UNCHANGED jobs /\ ActiveJobsClaimable'
  BY DEF HandlerReturns, ReadAttempts, Lost, IInv, ActiveJobsClaimable
<1>2. ASSUME NEW outcome \in Outcomes, HandlerReturns(outcome) PROVE IInv'
  BY <1>1, <1>2 DEF HandlerReturns, IInv, TypeOK, Runner, RunnerOwnsJob
<1>3. CASE ReadAttempts
  <2>1. jobs[runner.job].attempts \in Nat
    BY <1>3, RowsOfTable DEF ReadAttempts, IInv, TypeOK, Job
  <2> QED
    BY <1>1, <1>3, <2>1 DEF ReadAttempts, IInv, TypeOK, Runner, RunnerOwnsJob
<1>4. CASE Lost
  BY <1>1, <1>4, PollingKeeps DEF Lost, IInv, TypeOK
<1> QED
  BY <1>1, <1>2, <1>3, <1>4

LEMMA NextInv == IInv /\ [Next]_vars => IInv'
<1> SUFFICES ASSUME IInv, [Next]_vars PROVE IInv'
  OBVIOUS
<1>1. ASSUME NEW r \in Resources \union {Unnamed}, NEW max \in MaxAttempts,
             NEW later \in BOOLEAN, Submit(r, max, later)
      PROVE  IInv'
  BY <1>1, SubmitStep
<1>2. ASSUME NEW j \in DOMAIN jobs, ClaimNext(j) \/ ClaimLost(j) \/ Tick(j) PROVE IInv'
  BY <1>2, ClaimNextStep, ClaimLostStep, TickStep
<1>3. CASE StoreOutcome \/ StoreFailure \/ Heartbeat
  BY <1>3, StoreOutcomeStep, StoreFailureStep, HeartbeatStep
<1>4. CASE (\E outcome \in Outcomes : HandlerReturns(outcome)) \/ ReadAttempts \/ Lost
  BY <1>4, LocalStep
<1>5. CASE UNCHANGED vars
  BY <1>5 DEF vars, IInv, TypeOK, ActiveJobsClaimable, RunnerOwnsJob
<1> QED
  BY <1>1, <1>2, <1>3, <1>4, <1>5 DEF Next, RunnerStep

\* The inductive invariant of the table and its runner: their types, that active
\* jobs can be claimed, and that the runner's job runs.
THEOREM QueueInvariant == Spec => []IInv
BY InitInv, NextInv, PTL DEF Spec

\* Whatever is enqueued, tried, lost or reclaimed, every active job can be claimed
\* again: Claim, Fail and FailPermanent never leave a pending job without attempts
\* or a running one without a lease.
THEOREM ActiveClaimable == Spec => []ActiveJobsClaimable
<1>1. IInv => ActiveJobsClaimable
  BY DEF IInv
<1> QED
  BY <1>1, QueueInvariant, PTL

-----------------------------------------------------------------------------
(* Every step of the table and its runner is a step of the queue or none.  *)

Entries == [j \in DOMAIN jobs |-> EntryOf(jobs[j])]

\* Nothing that the queue sees changes.
QueueStutters == Entries' = Entries /\ runner'.job = runner.job

LEMMA EntryRows ==
    ASSUME TypeOK
    PROVE  /\ DOMAIN Entries = DOMAIN jobs
           /\ \A j \in DOMAIN jobs : /\ Entries[j] = EntryOf(jobs[j])
                                     /\ Entries[j].resource = jobs[j].resource
                                     /\ Entries[j].state = "open" <=> Active(j)
BY RowsOfTable DEF Entries, EntryOf, Active, Job, Statuses

\* A row that stays open, or whose status stays, leaves its entry alone.
LEMMA EntriesStay ==
    ASSUME TypeOK, NEW j \in DOMAIN jobs, NEW row, Rewrites(j, row),
           row.resource = jobs[j].resource,
           row.status = jobs[j].status \/ (Active(j) /\ row.status \in {"pending", "running"})
    PROVE  Entries' = Entries
<1>1. EntryOf(row) = EntryOf(jobs[j])
  BY DEF EntryOf, Active
<1>2. \A i \in DOMAIN jobs : EntryOf(jobs'[i]) = EntryOf(jobs[i])
  BY <1>1 DEF Rewrites
<1> QED
  BY <1>2 DEF Entries, Rewrites

LEMMA EntriesEnd ==
    ASSUME TypeOK, NEW j \in DOMAIN jobs, NEW status \in {"succeeded", "failed"},
           NEW row, Settles(j, status, row)
    PROVE  Entries' = [Entries EXCEPT ![j].state = status]
<1>1. EntryOf(row) = [EntryOf(jobs[j]) EXCEPT !.state = status]
  BY DEF EntryOf, Settles
<1>2. \A i \in DOMAIN jobs : EntryOf(jobs'[i]) = IF i = j THEN [EntryOf(jobs[j]) EXCEPT !.state = status]
                                                  ELSE EntryOf(jobs[i])
  BY <1>1 DEF Rewrites, Settles
<1> QED
  BY <1>2 DEF Entries, Rewrites, Settles

LEMMA EntriesAsk ==
    ASSUME IInv, NEW r \in Resources \union {Unnamed}, NEW max \in MaxAttempts,
           NEW created \in Nat, Enqueue(r, max, created)
    PROVE  Entries' = Append(Entries, [resource |-> r, state |-> "open"])
<1> DEFINE S == {EntryOf(row) : row \in Job} \union {[resource |-> r, state |-> "open"]}
           new == [resource |-> r, state |-> "open"]
           n == Len(jobs)
<1>1. /\ jobs \in Seq(Job) /\ n \in Nat /\ DOMAIN jobs = 1..n
      /\ jobs' \in Seq(Job) /\ DOMAIN jobs' = 1..n + 1
      /\ \A i \in 1..n : jobs'[i] = jobs[i]
      /\ EntryOf(jobs'[n + 1]) = new
  BY EnqueueRow, RowsOfTable DEF IInv, TypeOK, EntryOf
<1>2. /\ \A i \in 1..n : EntryOf(jobs[i]) \in S
      /\ \A i \in 1..n + 1 : EntryOf(jobs'[i]) \in S
      /\ new \in S
  <2>1. \A i \in 1..n : jobs[i] \in Job
    BY <1>1, RowsOfTable DEF IInv
  <2> QED
    BY <1>1, <2>1
<1> HIDE DEF S, new, n
<1>3. Entries \in Seq(S) /\ Len(Entries) = n
  <2>1. Entries = [i \in 1..n |-> EntryOf(jobs[i])]
    BY <1>1 DEF Entries
  <2>2. [i \in 1..n |-> EntryOf(jobs[i])] \in Seq(S)
    BY <1>1, <1>2, IsASeq
  <2> QED
    BY <1>1, <2>1, <2>2, LenProperties
<1>4. Entries' \in Seq(S) /\ Len(Entries') = n + 1
  <2>1. Entries' = [i \in 1..n + 1 |-> EntryOf(jobs'[i])]
    BY <1>1 DEF Entries
  <2>2. [i \in 1..n + 1 |-> EntryOf(jobs'[i])] \in Seq(S)
    BY <1>1, <1>2, IsASeq
  <2> QED
    BY <1>1, <2>1, <2>2, LenProperties
<1>5. /\ Append(Entries, new) \in Seq(S) /\ Len(Append(Entries, new)) = n + 1
      /\ \A i \in 1..n : Append(Entries, new)[i] = Entries[i]
      /\ Append(Entries, new)[n + 1] = new
  BY <1>2, <1>3, AppendProperties
<1>6. \A i \in 1..n + 1 : Entries'[i] = Append(Entries, new)[i]
  <2> SUFFICES ASSUME NEW i \in 1..n + 1 PROVE Entries'[i] = Append(Entries, new)[i]
    OBVIOUS
  <2>1. Entries'[i] = EntryOf(jobs'[i])
    BY <1>1 DEF Entries
  <2>2. CASE i = n + 1
    BY <1>1, <1>5, <2>1, <2>2
  <2>3. CASE i \in 1..n
    <3>1. Entries[i] = EntryOf(jobs[i]) /\ jobs'[i] = jobs[i]
      BY <1>1, <2>3 DEF Entries
    <3> QED
      BY <1>5, <2>1, <2>3, <3>1
  <2>4. i = n + 1 \/ i \in 1..n
    <3>1. n \in Nat
      BY <1>1
    <3> QED
      BY <3>1
  <2> QED
    BY <2>2, <2>3, <2>4
<1>7. Entries' = Append(Entries, new)
  BY <1>4, <1>5, <1>6, SeqEqual
<1> QED
  BY <1>7 DEF new

-----------------------------------------------------------------------------
LEMMA InitQueue == Init => Queue!Init
<1> SUFFICES ASSUME Init PROVE Queue!Init
  OBVIOUS
<1>1. DOMAIN jobs = {} /\ jobs = <<>>
  BY EmptySeq DEF Init
<1>2. [j \in DOMAIN jobs |-> EntryOf(jobs[j])] = <<>>
  BY <1>1
<1> QED
  BY <1>2 DEF Init, Polling, Queue!Init

\* Enqueueing is asking: the partial unique index is the queue's rule that a
\* resource has one open job.
LEMMA SubmitAsks ==
    ASSUME IInv, NEW r \in Resources \union {Unnamed}, NEW max \in MaxAttempts,
           NEW later \in BOOLEAN, Submit(r, max, later)
    PROVE  Queue!Ask(r)
<1>1. PICK created \in Nat : Enqueue(r, max, created)
  BY SubmitStep
<1>2. runner' = runner
  BY SubmitStep
<1>3. Entries' = Append(Entries, [resource |-> r, state |-> "open"])
  BY <1>1, EntriesAsk
<1>4. r = Unnamed \/ \A j \in DOMAIN Entries : Entries[j].resource = r => Entries[j].state # "open"
  BY <1>1, EntryRows DEF Enqueue, NoActiveJob, IInv
<1> QED
  BY <1>2, <1>3, <1>4 DEF Entries, Queue!Ask, Queue!Open

LEMMA ClaimStarts ==
    ASSUME IInv, NEW j \in DOMAIN jobs, ClaimNext(j)
    PROVE  Queue!Start(j)
<1>1. Active(j) /\ \E row : /\ Rewrites(j, row) /\ row.status = "running"
                           /\ row.resource = jobs[j].resource
  BY ClaimRow DEF ClaimNext
<1>2. Entries' = Entries
  BY <1>1, EntriesStay DEF IInv
<1>3. Entries[j].state = "open"
  BY <1>1, EntryRows DEF IInv
<1>4. runner.job = 0 /\ runner'.job = j
  BY DEF ClaimNext, Polling, IInv, TypeOK
<1> QED
  BY <1>2, <1>3, <1>4 DEF Entries, Queue!Start, Queue!Open

LEMMA ClaimLostStutters ==
    ASSUME IInv, NEW j \in DOMAIN jobs, ClaimLost(j)
    PROVE  QueueStutters
<1>1. Active(j) /\ \E row : /\ Rewrites(j, row) /\ row.status = "running"
                           /\ row.resource = jobs[j].resource
  BY ClaimRow DEF ClaimLost
<1>2. Entries' = Entries
  BY <1>1, EntriesStay DEF IInv
<1> QED
  BY <1>2 DEF ClaimLost, QueueStutters

\* A lease that is renewed or passes is not seen by the queue.
LEMMA LeaseStutters ==
    ASSUME IInv, Heartbeat \/ \E j \in DOMAIN jobs : Tick(j)
    PROVE  QueueStutters
<1>1. ASSUME NEW j \in DOMAIN jobs, Tick(j) PROVE QueueStutters
  <2>1. (\E row : Settles(j, jobs[j].status, row)) /\ UNCHANGED runner
    BY <1>1, TickStep
  <2>2. Entries' = Entries
    BY <2>1, EntriesStay DEF Settles, IInv
  <2> QED
    BY <2>1, <2>2 DEF QueueStutters
<1>2. CASE Heartbeat
  <2>1. /\ runner.job \in DOMAIN jobs /\ jobs[runner.job].status = "running"
        /\ \E row : Settles(runner.job, "running", row)
        /\ UNCHANGED runner
    BY <1>2, HeartbeatStep DEF Heartbeat, RenewLease, IInv, TypeOK
  <2>2. Entries' = Entries
    BY <2>1, EntriesStay DEF Settles, IInv
  <2> QED
    BY <2>1, <2>2 DEF QueueStutters
<1> QED
  BY <1>1, <1>2

\* The runner's job is open and stays so until the runner ends it.
LEMMA WorkedJobOpen ==
    ASSUME IInv, runner.job # 0
    PROVE  runner.job \in DOMAIN jobs /\ Active(runner.job) /\ Entries[runner.job].state = "open"
BY EntryRows DEF IInv, TypeOK, RunnerOwnsJob, Active

LEMMA SettlingEnds ==
    ASSUME IInv, NEW status \in {"succeeded", "failed"}, NEW row,
           Settles(runner.job, status, row), runner.job # 0, runner' = Polling
    PROVE  Queue!End(status)
<1>1. Entries' = [Entries EXCEPT ![runner.job].state = status]
  BY WorkedJobOpen, EntriesEnd DEF IInv
<1> QED
  BY <1>1, WorkedJobOpen DEF Entries, Polling, Queue!End, Queue!Open

LEMMA LosingDrops ==
    ASSUME IInv, runner.job # 0, runner' = Polling, Entries' = Entries
    PROVE  Queue!Drop
BY DEF Entries, Polling, Queue!Drop

LEMMA StoreOutcomeEnds == ASSUME IInv, StoreOutcome PROVE Queue!Next
<1>1. /\ \E status \in {"succeeded", "failed"} : \E row : Settles(runner.job, status, row)
      /\ runner.job # 0 /\ runner' = Polling
  BY StoreOutcomeStep
<1> QED
  BY <1>1, SettlingEnds DEF Queue!Next

LEMMA StoreFailureEndsOrDrops == ASSUME IInv, StoreFailure PROVE Queue!Next
<1>1. PICK status \in {"pending", "failed"} : \E row : Settles(runner.job, status, row)
  BY StoreFailureStep
<1>2. runner.job # 0 /\ runner' = Polling
  BY StoreFailureStep
<1>3. CASE status = "failed"
  BY <1>1, <1>2, <1>3, SettlingEnds DEF Queue!Next
<1>4. CASE status = "pending"
  <2>1. Entries' = Entries
    BY <1>1, <1>2, <1>4, WorkedJobOpen, EntriesStay DEF Settles, IInv
  <2> QED
    BY <1>2, <2>1, LosingDrops DEF Queue!Next
<1> QED
  BY <1>3, <1>4

LEMMA NextQueue ==
    ASSUME IInv, [Next]_vars
    PROVE  [Queue!Next]_<<[j \in DOMAIN jobs |-> EntryOf(jobs[j])], runner.job>>
<1>1. ASSUME NEW r \in Resources \union {Unnamed}, NEW max \in MaxAttempts,
             NEW later \in BOOLEAN, Submit(r, max, later)
      PROVE  Queue!Next
  BY <1>1, SubmitAsks DEF Queue!Next
<1>2. ASSUME NEW j \in DOMAIN jobs, ClaimNext(j) PROVE Queue!Next
  BY <1>2, ClaimStarts, EntryRows DEF Entries, Queue!Next, IInv
<1>3. CASE StoreOutcome \/ StoreFailure
  BY <1>3, StoreOutcomeEnds, StoreFailureEndsOrDrops
<1>4. CASE Lost
  <2>1. runner.job # 0 /\ runner' = Polling /\ jobs' = jobs
    BY <1>4 DEF Lost, IInv, TypeOK
  <2>2. Entries' = Entries
    BY <2>1 DEF Entries
  <2> QED
    BY <2>1, <2>2, LosingDrops DEF Queue!Next
<1>5. CASE \/ \E j \in DOMAIN jobs : ClaimLost(j) \/ Tick(j)
           \/ Heartbeat
  BY <1>5, ClaimLostStutters, LeaseStutters DEF QueueStutters, Entries
<1>6. CASE \/ \E outcome \in Outcomes : HandlerReturns(outcome)
           \/ ReadAttempts
           \/ UNCHANGED vars
  <2>1. jobs' = jobs /\ runner'.job = runner.job
    BY <1>6 DEF HandlerReturns, ReadAttempts, vars, IInv, TypeOK, Runner
  <2> QED
    BY <2>1
<1> QED
  BY <1>1, <1>2, <1>3, <1>4, <1>5, <1>6 DEF Next, RunnerStep

\* The jobs table and its runner implement the queue of JobQueue: one open job per
\* resource, one job worked on at a time, and an end that only the handler's word
\* brings and that is final.
THEOREM Implements == Spec => ImplementsQueue
BY InitQueue, QueueInvariant, NextQueue, PTL DEF Spec, ImplementsQueue, Queue!Spec

=============================================================================
