--------------------------------- MODULE Jobs ---------------------------------
(***************************************************************************)
(* The job runner (internal/platform/jobs/runner.go) over the table of     *)
(* JobStore.  The application starts one runner, which works on one job at *)
(* a time; requests and the hourly schedule enqueue at any moment.  A      *)
(* handler is any code that returns success, an error to be retried or a   *)
(* permanent error.                                                        *)
(***************************************************************************)
EXTENDS JobStore

CONSTANTS
    MaxAttempts,    \* the max_attempts that callers ask for
    MaxJobs,        \* bound on the jobs enqueued
    MaxFaults       \* bound on the crashes and database errors

ASSUME JobsAssumption ==
    /\ Unnamed \notin Resources
    /\ MaxAttempts \subseteq Nat \ {0}
    /\ MaxJobs \in Nat /\ MaxFaults \in Nat

Outcomes == {"ok", "retry", "permanent"}

VARIABLES
    runner,     \* the runner's local state: runOne
    faults      \* crashes and errors so far

vars == <<jobs, runner, faults>>

\* pc: polling, inside the handler, about to store its outcome, or inside Fail
\* between its SELECT and its UPDATE.  attempts is what the SELECT returned.
Runner == [pc : {"poll", "handle", "store", "fail"}, job : Nat,
           outcome : Outcomes, attempts : Nat]

Polling == [pc |-> "poll", job |-> 0, outcome |-> "ok", attempts |-> 0]

TypeOK ==
    /\ jobs \in Seq(Job)
    /\ runner \in Runner
    /\ runner.pc = "poll" <=> runner.job = 0
    /\ runner.job \in {0} \union DOMAIN jobs
    /\ faults \in Nat

Init == jobs = <<>> /\ runner = Polling /\ faults = 0

\* Enqueue, EnqueueUnique; the clock may have moved on since the last row.
Submit(r, max, later) ==
    LET last == IF jobs = <<>> THEN 0 ELSE jobs[Len(jobs)].created
    IN  /\ Len(jobs) < MaxJobs
        /\ Enqueue(r, max, IF later THEN last + 1 ELSE last)
        /\ UNCHANGED <<runner, faults>>

ClaimNext(j) ==
    /\ runner.pc = "poll"
    /\ Claim(j)
    /\ runner' = [Polling EXCEPT !.pc = "handle", !.job = j]
    /\ UNCHANGED faults

\* Claim commits and its Get fails: the row is running and nobody works on it.
ClaimLost(j) ==
    /\ runner.pc = "poll" /\ faults < MaxFaults
    /\ Claim(j)
    /\ faults' = faults + 1
    /\ UNCHANGED runner

\* renewLease, every third of a lease while the handler runs.
Heartbeat ==
    /\ runner.pc = "handle"
    /\ RenewLease(runner.job)
    /\ UNCHANGED <<runner, faults>>

\* The handler returns; a type without a handler fails permanently at once.
HandlerReturns(outcome) ==
    /\ runner.pc = "handle"
    /\ runner' = [runner EXCEPT !.pc = "store", !.outcome = outcome]
    /\ UNCHANGED <<jobs, faults>>

StoreOutcome ==
    /\ runner.pc = "store"
    /\ \/ runner.outcome = "ok" /\ Complete(runner.job)
       \/ runner.outcome = "permanent" /\ FailPermanent(runner.job)
    /\ runner' = Polling
    /\ UNCHANGED faults

ReadAttempts ==
    /\ runner.pc = "store" /\ runner.outcome = "retry"
    /\ runner' = [runner EXCEPT !.pc = "fail", !.attempts = jobs[runner.job].attempts]
    /\ UNCHANGED <<jobs, faults>>

StoreFailure ==
    /\ runner.pc = "fail"
    /\ Fail(runner.job, runner.attempts)
    /\ runner' = Polling
    /\ UNCHANGED faults

\* The outcome cannot be stored, or the process dies and starts again: the row
\* stays running until its lease passes.
Lost ==
    /\ runner.pc # "poll" /\ faults < MaxFaults
    /\ runner' = Polling
    /\ faults' = faults + 1
    /\ UNCHANGED jobs

Tick(j) == Lapse(j) /\ UNCHANGED <<runner, faults>>

RunnerStep ==
    \/ \E j \in DOMAIN jobs : ClaimNext(j)
    \/ \E outcome \in Outcomes : HandlerReturns(outcome)
    \/ StoreOutcome \/ ReadAttempts \/ StoreFailure

Next ==
    \/ \E r \in Resources \union {Unnamed}, max \in MaxAttempts, later \in BOOLEAN :
          Submit(r, max, later)
    \/ RunnerStep
    \/ Heartbeat
    \/ \E j \in DOMAIN jobs : ClaimLost(j) \/ Tick(j)
    \/ Lost

Spec == Init /\ [][Next]_vars

-----------------------------------------------------------------------------
\* No active job is beyond reach: a pending one has an attempt left and a running
\* one a lease that can pass.  A job that no claim ever picks would block its
\* resource for ever.
ActiveJobsClaimable ==
    \A j \in DOMAIN jobs :
        /\ jobs[j].status = "pending" => jobs[j].attempts < jobs[j].max
        /\ jobs[j].status = "running" => jobs[j].lease # "none"

\* The table and its runner are a job queue.
EntryOf(job) ==
    [resource |-> job.resource,
     state |-> IF job.status \in {"pending", "running"} THEN "open" ELSE job.status]

Queue == INSTANCE JobQueue WITH
    entries <- [j \in DOMAIN jobs |-> EntryOf(jobs[j])],
    working <- runner.job

ImplementsQueue == Queue!Spec

-----------------------------------------------------------------------------
(* Liveness: the runner polls, handlers return (their calls carry          *)
(* timeouts) and time passes.  Nothing is assumed of the heartbeat.        *)

Fairness == WF_vars(RunnerStep) /\ \A j \in 1..MaxJobs : WF_vars(j \in DOMAIN jobs /\ Tick(j))

FairSpec == Spec /\ Fairness

\* Every job ends, once crashes and database errors cease.
JobsEnd ==
    \A j \in 1..MaxJobs :
        j \in DOMAIN jobs ~> j \in DOMAIN jobs /\ jobs[j].status \in {"succeeded", "failed"}

=============================================================================
