------------------------------- MODULE JobStore -------------------------------
(***************************************************************************)
(* The table jobs (internal/platform/jobs/store.go), one operator for each *)
(* statement or transaction that changes it.  Rows are numbered in the     *)
(* order of their insertion; payload, progress and error text are left     *)
(* out, for no statement's condition reads them.                           *)
(***************************************************************************)
EXTENDS Integers, Sequences

CONSTANTS
    Resources,      \* type and resource key of a unique job
    Unnamed         \* no resource key

Statuses == {"pending", "running", "succeeded", "failed"}

\* lease_until: NULL, in the future, or passed.  A pending job's lease is the
\* time of its next attempt.
Leases == {"none", "ahead", "past"}

\* created_at counts seconds, so several rows may carry the same one.
Job == [resource : Resources \union {Unnamed}, status : Statuses, attempts : Nat,
        max : Nat \ {0}, lease : Leases, created : Nat]

VARIABLE jobs

Active(j) == jobs[j].status \in {"pending", "running"}

\* Mutant: the index covers pending rows only.
NoPendingJob(r) ==
    \A j \in DOMAIN jobs : jobs[j].resource = r => jobs[j].status # "pending"

\* enqueue's INSERT, when the partial unique index jobs_active_resource_idx lets
\* it pass; otherwise enqueue returns the active job and changes nothing.
NoActiveJob(r) == \A j \in DOMAIN jobs : jobs[j].resource = r => ~Active(j)

Enqueue(r, max, created) ==
    /\ r = Unnamed \/ NoActiveJob(r)
    /\ jobs' = Append(jobs, [resource |-> r, status |-> "pending", attempts |-> 0,
                             max |-> max, lease |-> "none", created |-> created])

\* Mutant: a running job is claimed only while it has attempts left.
DueWithAttempts(j) ==
    /\ jobs[j].attempts < jobs[j].max
    /\ \/ jobs[j].status = "pending" /\ jobs[j].lease # "ahead"
       \/ jobs[j].status = "running" /\ jobs[j].lease = "past"

Due(j) ==
    \/ /\ jobs[j].status = "pending" /\ jobs[j].lease # "ahead"
       /\ jobs[j].attempts < jobs[j].max
    \/ jobs[j].status = "running" /\ jobs[j].lease = "past"

\* Claim takes the oldest due row; ids order the rows of one second at random.
NextDue == {j \in DOMAIN jobs : Due(j) /\ \A i \in DOMAIN jobs : Due(i) => jobs[j].created <= jobs[i].created}

Claim(j) ==
    /\ j \in NextDue
    /\ jobs' = [jobs EXCEPT ![j] = [jobs[j] EXCEPT !.status = "running", !.lease = "ahead",
                 !.attempts = IF @ < jobs[j].max THEN @ + 1 ELSE @]]

RenewLease(j) ==
    /\ jobs[j].status = "running"
    /\ jobs' = [jobs EXCEPT ![j] = [@ EXCEPT !.lease = "ahead"]]

Complete(j) ==
    /\ jobs[j].status = "running"
    /\ jobs' = [jobs EXCEPT ![j] = [@ EXCEPT !.status = "succeeded", !.lease = "none"]]

FailPermanent(j) ==
    /\ jobs[j].status = "running"
    /\ jobs' = [jobs EXCEPT ![j] = [@ EXCEPT !.status = "failed", !.lease = "none"]]

\* Mutant: one attempt too many is planned.
FailLate(j, attempts) ==
    /\ jobs[j].status = "running"
    /\ jobs' = IF attempts > jobs[j].max
               THEN [jobs EXCEPT ![j] = [@ EXCEPT !.status = "failed", !.lease = "none"]]
               ELSE [jobs EXCEPT ![j] = [@ EXCEPT !.status = "pending", !.lease = "ahead"]]

\* Fail's UPDATE, with the attempts its SELECT returned; the retry is due later.
Fail(j, attempts) ==
    /\ jobs[j].status = "running"
    /\ jobs' = IF attempts >= jobs[j].max
               THEN [jobs EXCEPT ![j] = [@ EXCEPT !.status = "failed", !.lease = "none"]]
               ELSE [jobs EXCEPT ![j] = [@ EXCEPT !.status = "pending", !.lease = "ahead"]]

\* Time passes a lease.
Lapse(j) ==
    /\ jobs[j].lease = "ahead"
    /\ jobs' = [jobs EXCEPT ![j] = [@ EXCEPT !.lease = "past"]]

=============================================================================
