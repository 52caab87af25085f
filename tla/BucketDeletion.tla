--------------------------- MODULE BucketDeletion ---------------------------
(***************************************************************************)
(* Deleting a remote R2 bucket: the request that asks for it               *)
(* (httpapi/r2_bucket_deletion.go), the job that does it                   *)
(* (bucket_deletion_jobs.go) and the lifecycle of the registration         *)
(* (bucket_lifecycle.go).  Meanwhile uploads come and go, other tools use  *)
(* the bucket or recreate it under its name, answers are lost and the      *)
(* process restarts.  The module is about one bucket name, "here"; every   *)
(* other bucket of the pool is "there".                                    *)
(*                                                                         *)
(* Jobs come from JobQueue, which Jobs implements: one job of a resource   *)
(* is open at a time, and a job that did not end is worked on again.       *)
(***************************************************************************)
EXTENDS Integers, Sequences, FiniteSets

CONSTANTS
    Name,           \* the resource key of the bucket
    Unnamed,        \* the resource of a job that need not be unique
    Keys,           \* logical keys of objects
    External,       \* an object that another tool stores
    None,           \* no row, no request
    MaxJobs,        \* bound on the deletions asked for
    MaxBorn,        \* bound on the incarnations of the remote bucket
    MaxIds,         \* bound on the registrations
    MaxFaults       \* bound on crashes, lost answers and failing calls

ASSUME DeletionAssumption ==
    /\ Unnamed # Name
    /\ External \notin Keys
    /\ MaxBorn \in Nat \ {0} /\ MaxIds \in Nat \ {0}
    /\ MaxJobs \in Nat /\ MaxFaults \in Nat

Modes == {"empty_only", "empty_and_delete"}

VARIABLES
    entries,    \* the deletion jobs, as JobQueue keeps them
    working,    \* the job a handler works on, or 0
    payloads,   \* jobs.payload of each entry
    bucket,     \* the row of r2_physical_buckets with its maintenance lock
    drawn,      \* registrations so far
    remote,     \* the bucket in R2
    remade,     \* its incarnations so far
    rows,       \* where r2_objects says each key is
    intents,    \* r2_write_intents
    request,    \* the API request in progress: the registration it has read
    handler,    \* BucketDeletionJobs.Handle at work on the job "working"
    faults,
    harmed,     \* history: registrations whose bytes a deletion has touched
    unmarked    \* history: jobs whose last mark could not be stored

Queue == INSTANCE JobQueue WITH Resources <- {Name}

queueVars == <<entries, working>>
indexVars == <<rows, intents>>
history == <<harmed, unmarked>>
vars == <<queueVars, payloads, bucket, drawn, remote, remade,
          indexVars, request, handler, faults, history>>

\* born: ExpectedCreationDate; missing: RemoteMissingAtEnqueue; local, parent:
\* LocalBucketID and ParentJobID, 0 for none; mutated: RemoteMutated.
Payload == [born : 0..MaxBorn, missing : BOOLEAN, local : 0..MaxIds, mode : Modes,
            parent : 0..MaxJobs, mutated : BOOLEAN]

\* id 0: not registered.  lock: the job n of a lock "delete:n".
Registration == [id : 0..MaxIds, state : {"active", "deleting", "delete_failed"},
                 job : 0..MaxJobs, lock : 0..MaxJobs]

Unregistered == [id |-> 0, state |-> "active", job |-> 0, lock |-> 0]

\* born: the creation date, 0 while no such bucket exists.
RemoteBucket == [born : 0..MaxBorn, items : SUBSET (Keys \union {External})]

\* live: its handler runs.  stored: the upload has reached R2.
Intent == [to : {"here", "there"}, live : BOOLEAN, stored : BOOLEAN]

\* local and mutated: the payload in memory; fenced, missing and cleared as in
\* the code; before: remoteMutatedBeforeDelete; next: what follows verifyIdentity,
\* markRemoteMutated or the settling; result: the error, or what Handle returns.
Steps == {"idle", "discover", "verify", "fence", "mark", "settle", "list",
          "wipe", "confirm", "drop", "finalize", "fail", "return"}
Nexts == {"none", "fence", "wipe", "confirm", "gone", "absent", "drop",
          "settle", "abandon", "list", "finalize"}
Handler == [pc : Steps, next : Nexts, local : 0..MaxIds, mutated : BOOLEAN,
            fenced : BOOLEAN, missing : BOOLEAN, cleared : BOOLEAN,
            before : BOOLEAN, result : {"none", "retry", "permanent", "success", "failed"}]

Idle == [pc |-> "idle", next |-> "none", local |-> 0, mutated |-> FALSE,
         fenced |-> FALSE, missing |-> FALSE, cleared |-> FALSE,
         before |-> FALSE, result |-> "none"]

TypeOK ==
    /\ entries \in Seq(Queue!Entry) /\ working \in {0} \union DOMAIN entries
    /\ payloads \in Seq(Payload) /\ DOMAIN payloads = DOMAIN entries
    /\ bucket \in Registration /\ drawn \in 0..MaxIds
    /\ bucket.state # "active" => bucket.id # 0 /\ bucket.job \in DOMAIN entries
    /\ remote \in RemoteBucket /\ remade \in 0..MaxBorn
    /\ remote.born = 0 => remote.items = {}
    /\ rows \in [Keys -> {None, "here", "there"}]
    /\ \A k \in Keys : intents[k] # None => intents[k] \in Intent
    /\ request # None => request \in Registration
    /\ handler \in Handler /\ (handler.pc = "idle" <=> working = 0)
    /\ faults \in 0..MaxFaults
    /\ harmed \subseteq 1..MaxIds /\ unmarked \subseteq DOMAIN entries

\* A remote bucket, registered or not; if it is, it may hold an object of the
\* index.
Init ==
    /\ Queue!Init
    /\ payloads = <<>>
    /\ drawn \in 0..1 /\ bucket = [Unregistered EXCEPT !.id = drawn]
    /\ rows \in [Keys -> {None, "here"}]
    /\ drawn = 0 => \A k \in Keys : rows[k] = None
    /\ remote = [born |-> 1, items |-> {k \in Keys : rows[k] = "here"}] /\ remade = 1
    /\ intents = [k \in Keys |-> None]
    /\ request = None /\ handler = Idle
    /\ faults = 0 /\ harmed = {} /\ unmarked = {}

Fault == faults < MaxFaults /\ faults' = faults + 1

-----------------------------------------------------------------------------
(* The index and what uses it.                                             *)

\* deletionBlockingActivityQuery.
Touches(k) == intents[k] # None /\ (intents[k].to = "here" \/ rows[k] = "here")

Busy == \E k \in Keys : Touches(k)

\* BeginWrite: the bucket written to and the one of the previous version are
\* active, the former without a maintenance lock.
BeginWrite(k, to) ==
    /\ intents[k] = None
    /\ rows[k] = "here" => bucket.state = "active"
    /\ to = "here" => bucket.id # 0 /\ bucket.state = "active" /\ bucket.lock = 0
    /\ intents' = [intents EXCEPT ![k] = [to |-> to, live |-> TRUE, stored |-> FALSE]]
    /\ UNCHANGED <<queueVars, payloads, bucket, drawn, remote, remade, rows,
                   request, handler, faults, history>>

Live(k) == intents[k] # None /\ intents[k].live

\* The PUT reaches R2, or finds no bucket and fails.
Upload(k) ==
    /\ Live(k) /\ ~intents[k].stored
    /\ intents[k].to = "here" => remote.born # 0
    /\ intents' = [intents EXCEPT ![k].stored = TRUE]
    /\ remote' = IF intents[k].to = "here" THEN [remote EXCEPT !.items = @ \union {k}]
                 ELSE remote
    /\ UNCHANGED <<queueVars, payloads, bucket, drawn, remade, rows,
                   request, handler, faults, history>>

\* CommitWrite, AbortWrite: by the handler of the write, or by recovery, which
\* asks R2.
Settle(k, arrived) ==
    /\ rows' = IF arrived THEN [rows EXCEPT ![k] = intents[k].to] ELSE rows
    /\ intents' = [intents EXCEPT ![k] = None]

Found(k) == intents[k].stored /\ (intents[k].to = "here" => k \in remote.items)

FinishWrite(k) ==
    /\ \/ Live(k) /\ Settle(k, intents[k].stored)
       \/ intents[k] # None /\ ~Live(k) /\ working = 0 /\ Settle(k, Found(k))
    /\ UNCHANGED <<queueVars, payloads, bucket, drawn, remote, remade,
                   request, handler, faults, history>>

\* The handler returns and leaves its intent to recovery.
LeaveWrite(k) ==
    /\ Live(k)
    /\ intents' = [intents EXCEPT ![k].live = FALSE]
    /\ UNCHANGED <<queueVars, payloads, bucket, drawn, remote, remade, rows,
                   request, handler, faults, history>>

DeletionOpen == \E j \in DOMAIN entries : entries[j].state = "open"

\* CreateBucket: a trigger refuses it while the name is being deleted.
CreateBucket ==
    /\ bucket.id = 0 /\ drawn < MaxIds /\ ~DeletionOpen
    /\ bucket' = [Unregistered EXCEPT !.id = drawn + 1]
    /\ drawn' = drawn + 1
    /\ UNCHANGED <<queueVars, payloads, remote, remade, indexVars,
                   request, handler, faults, history>>

\* DeleteBucket, which only forgets the registration.
DeleteBucket ==
    /\ bucket.id # 0 /\ bucket.state = "active" /\ ~Busy
    /\ \A k \in Keys : rows[k] # "here"
    /\ bucket' = Unregistered
    /\ UNCHANGED <<queueVars, payloads, drawn, remote, remade, indexVars,
                   request, handler, faults, history>>

-----------------------------------------------------------------------------
(* Other tools with access to the account.                                 *)

PutExternal ==
    /\ remote.born # 0
    /\ remote' = [remote EXCEPT !.items = @ \union {External}]
    /\ UNCHANGED <<queueVars, payloads, bucket, drawn, remade, indexVars,
                   request, handler, faults, history>>

DropExternal ==
    /\ remote.born # 0
    /\ remote' = [born |-> 0, items |-> {}]
    /\ UNCHANGED <<queueVars, payloads, bucket, drawn, remade, indexVars,
                   request, handler, faults, history>>

\* R2 has no conditional deletion: that nobody drops and recreates the bucket
\* between a verification and the call it is for is assumed.
AboutToDelete ==
    handler.pc \in {"wipe", "drop"} \/ (handler.pc = "mark" /\ handler.next = "drop")

Recreate ==
    /\ remote.born = 0 /\ remade < MaxBorn /\ ~AboutToDelete
    /\ remote' = [born |-> remade + 1, items |-> {}]
    /\ remade' = remade + 1
    /\ UNCHANGED <<queueVars, payloads, bucket, drawn, indexVars,
                   request, handler, faults, history>>

-----------------------------------------------------------------------------
(* createR2BucketDeletion.                                                 *)

ReadRegistration ==
    /\ request = None /\ Len(entries) < MaxJobs
    /\ request' = [bucket EXCEPT !.lock = 0]
    /\ UNCHANGED <<queueVars, payloads, bucket, drawn, remote, remade,
                   indexVars, handler, faults, history>>

\* A failed deletion may be taken over by a new job.
Resumable(p) ==
    /\ entries[p].state = "failed"
    /\ payloads[p].local = request.id
    /\ payloads[p].mutated \/ request.state = "deleting"

\* The remote bucket, read now, is the one the failed job was about.
StillSame(p) ==
    remote.born = 0 \/ (~payloads[p].missing /\ remote.born = payloads[p].born)

NewPayload(mode) ==
    IF request.state = "active"
    THEN [born |-> remote.born, missing |-> remote.born = 0, local |-> request.id,
          mode |-> mode, parent |-> 0, mutated |-> FALSE]
    ELSE LET p == request.job
         IN  [payloads[p] EXCEPT !.local = request.id, !.mode = mode, !.parent = p]

EnqueueDeletion(mode) ==
    /\ request # None /\ Len(entries) < MaxJobs
    /\ IF request.state = "active" THEN remote.born # 0 \/ request.id # 0
       ELSE Resumable(request.job) /\ StillSame(request.job)
    /\ Queue!Ask(Name)
    /\ payloads' = Append(payloads, NewPayload(mode))
    /\ request' = None
    /\ UNCHANGED <<bucket, drawn, remote, remade, indexVars, handler,
                   faults, history>>

\* An error, or a job for this bucket that is open already.
RefuseRequest ==
    /\ request # None
    /\ request' = None
    /\ UNCHANGED <<queueVars, payloads, bucket, drawn, remote, remade,
                   indexVars, handler, faults, history>>

-----------------------------------------------------------------------------
(* The lifecycle transactions.                                             *)

Owned(local) ==
    /\ local # 0 /\ bucket.id = local
    /\ bucket.state = "deleting" /\ bucket.job = working

\* A bucket in use, or one that a failed deletion, the parent, left behind.
Deletable(parent) ==
    IF bucket.state = "active" THEN parent = 0
    ELSE parent # 0 /\ bucket.job = parent /\ entries[parent].state = "failed"

MayBegin(parent) ==
    /\ Deletable(parent)
    /\ bucket.lock \in {0} \union (IF bucket.state = "active" THEN {} ELSE {parent})

BeginBucketDeletion ==
    bucket' = [bucket EXCEPT !.state = "deleting", !.job = working,
                             !.lock = IF @ = 0 THEN 0 ELSE working]

\* Mutant: pending writes do not keep the bucket from being cleared.
MayAcquireBusy(local) == Owned(local) /\ bucket.lock \in {0, working}

MayAcquire(local) == Owned(local) /\ ~Busy /\ bucket.lock \in {0, working}

MarkBucketDeletionFailed ==
    bucket' = [bucket EXCEPT !.state = "delete_failed", !.lock = 0]

RestoreBucketActive ==
    bucket' = [bucket EXCEPT !.state = "active", !.job = 0, !.lock = 0]

FinalizeDeletedBucket ==
    /\ Owned(handler.local) /\ ~Busy /\ bucket.lock = working
    /\ bucket' = Unregistered
    /\ rows' = [k \in Keys |-> IF rows[k] = "here" THEN None ELSE rows[k]]

-----------------------------------------------------------------------------
(* BucketDeletionJobs.Handle.                                              *)

payload == payloads[working]

Doing(pc) == handler.pc = pc

Goto(pc, next) == handler' = [handler EXCEPT !.pc = pc, !.next = next]

Return(result) ==
    handler' = [Idle EXCEPT !.pc = "return", !.result = result]

\* fail knows the payload and the fence only.
ToFail(h, result) == [Idle EXCEPT !.pc = "fail", !.local = h.local, !.mutated = h.mutated,
                                  !.fenced = h.fenced, !.result = result]

Failing(result) == handler' = ToFail(handler, result)

\* What most steps leave alone.
Local == UNCHANGED <<queueVars, drawn, remade, request>>

\* Claim.
StartJob(j) ==
    /\ Queue!Start(j)
    /\ LET p == payloads[j]
           fenced == /\ p.local # 0 /\ bucket.id = p.local
                     /\ bucket.state = "deleting" /\ bucket.job = j
       IN  handler' = [Idle EXCEPT !.pc = IF p.local = 0 THEN "discover" ELSE "verify",
                                   !.next = "fence", !.local = p.local,
                                   !.mutated = p.mutated, !.fenced = fenced]
    /\ UNCHANGED <<payloads, bucket, drawn, remote, remade, indexVars, request,
                   faults, history>>

DiscoverLocalBucket ==
    /\ Doing("discover")
    /\ payloads' = [payloads EXCEPT ![working].local = bucket.id]
    /\ handler' = [handler EXCEPT !.pc = "verify", !.local = bucket.id,
                                  !.fenced = Owned(bucket.id)]
    /\ Local /\ UNCHANGED <<bucket, remote, indexVars, faults, history>>

\* Mutant: any bucket of that name will do.
IdentityChangedIfMissed == remote.born # 0 /\ payload.missing

IdentityChanged ==
    remote.born # 0 /\ (payload.missing \/ remote.born # payload.born)

\* verifyIdentity and what its caller makes of the answer.
VerifyChanged ==
    /\ Doing("verify") /\ IdentityChanged
    /\ Failing("permanent")
    /\ Local /\ UNCHANGED <<payloads, bucket, remote, indexVars, faults, history>>

VerifyMissing ==
    /\ Doing("verify") /\ remote.born = 0
    /\ CASE handler.next = "fence" ->
              IF handler.local # 0 /\ bucket.id # handler.local THEN Return("success")
              ELSE handler' = [handler EXCEPT !.pc = "fence", !.next = "none",
                                              !.missing = TRUE]
         [] handler.next \in {"wipe", "confirm", "gone"} -> Goto("verify", "drop")
         [] OTHER -> IF handler.fenced /\ handler.local # 0
                     THEN Goto("mark", "finalize") ELSE Return("success")
    /\ Local /\ UNCHANGED <<payloads, bucket, remote, indexVars, faults, history>>

VerifyPresent ==
    /\ Doing("verify") /\ remote.born # 0 /\ ~IdentityChanged
    /\ CASE handler.next \in {"gone", "absent"} -> Failing("retry")
         [] handler.next = "drop" ->
              handler' = [handler EXCEPT !.pc = "mark", !.before = handler.mutated]
         [] OTHER -> Goto(handler.next, "none")
    /\ Local /\ UNCHANGED <<payloads, bucket, remote, indexVars, faults, history>>

\* What follows once the bucket is fenced, or is not managed here.
AfterFence(h) ==
    CASE h.missing -> [h EXCEPT !.pc = "mark", !.next = "abandon", !.missing = FALSE]
      [] ~h.missing /\ payload.mode = "empty_only" ->
           [h EXCEPT !.pc = "settle", !.next = "list"]
      [] OTHER -> [h EXCEPT !.pc = "mark", !.next = "settle"]

Fence ==
    /\ Doing("fence")
    /\ IF handler.local = 0 \/ Owned(handler.local)
       THEN handler' = AfterFence([handler EXCEPT !.fenced = handler.local # 0])
            /\ UNCHANGED bucket
       ELSE /\ bucket.id = handler.local /\ MayBegin(payload.parent)
            /\ BeginBucketDeletion
            /\ handler' = AfterFence([handler EXCEPT !.fenced = TRUE])
    /\ Local /\ UNCHANGED <<payloads, remote, indexVars, faults, history>>

FenceRefused ==
    /\ Doing("fence") /\ handler.local # 0 /\ ~Owned(handler.local)
    /\ ~(bucket.id = handler.local /\ MayBegin(payload.parent))
    /\ handler' = ToFail([handler EXCEPT !.fenced = FALSE],
                         IF bucket.id # handler.local \/ Deletable(payload.parent)
                         THEN "retry" ELSE "permanent")
    /\ Local /\ UNCHANGED <<payloads, bucket, remote, indexVars, faults, history>>

AfterMark ==
    CASE handler.next = "settle" -> [handler EXCEPT !.pc = "settle", !.next = "wipe"]
      [] handler.next = "abandon" -> [handler EXCEPT !.pc = "settle", !.next = "absent"]
      [] OTHER -> [handler EXCEPT !.pc = handler.next, !.next = "none"]

\* Mutant: the mark stays in memory.
MarkInMemory ==
    /\ Doing("mark")
    /\ handler' = [AfterMark EXCEPT !.mutated = TRUE]
    /\ Local /\ UNCHANGED <<payloads, bucket, remote, indexVars, faults, history>>

MarkRemoteMutated ==
    /\ Doing("mark")
    /\ payloads' = [payloads EXCEPT ![working].mutated = TRUE]
    /\ handler' = [AfterMark EXCEPT !.mutated = TRUE]
    /\ unmarked' = unmarked \ {working}
    /\ Local /\ UNCHANGED <<bucket, remote, indexVars, faults, harmed>>

\* SetPayload fails; the payload in memory is marked all the same.
MarkFails ==
    /\ Doing("mark") /\ ~handler.mutated
    /\ Fault /\ unmarked' = unmarked \union {working}
    /\ handler' = ToFail([handler EXCEPT !.mutated = TRUE],
                         IF handler.next = "finalize" THEN "permanent" ELSE "retry")
    /\ Local /\ UNCHANGED <<payloads, bucket, remote, indexVars, harmed>>

\* settleLocal recovers the intents whose key nobody holds;
\* settleLocalAfterRemoteMissing drops every one.
SettleIntent(k) ==
    /\ Doing("settle") /\ handler.local # 0 /\ Touches(k)
    /\ \/ handler.next = "wipe" /\ ~intents[k].live /\ Settle(k, Found(k))
       \/ /\ handler.next = "absent"
          /\ intents' = [intents EXCEPT ![k] = None] /\ UNCHANGED rows
    /\ Local /\ UNCHANGED <<payloads, bucket, remote, handler, faults, history>>

AfterSettle ==
    IF handler.next = "list" THEN Goto("list", "none") ELSE Goto("verify", handler.next)

AcquireBucketDeletionMaintenance ==
    /\ Doing("settle")
    /\ IF handler.local = 0 THEN UNCHANGED bucket
       ELSE MayAcquire(handler.local) /\ bucket' = [bucket EXCEPT !.lock = working]
    /\ AfterSettle
    /\ Local /\ UNCHANGED <<payloads, remote, indexVars, faults, history>>

SettleBusy ==
    /\ Doing("settle") /\ handler.local # 0 /\ ~MayAcquire(handler.local)
    /\ Failing(IF ~Owned(handler.local) \/ (handler.next = "list" /\ Busy)
               THEN "permanent" ELSE "retry")
    /\ Local /\ UNCHANGED <<payloads, bucket, remote, indexVars, faults, history>>

\* Mutant: a listing that finds no bucket is believed.
ListTrusting ==
    /\ Doing("list")
    /\ \/ /\ remote.born # 0 /\ UNCHANGED faults
          /\ IF remote.items = {} THEN Goto("verify", "drop") ELSE Failing("permanent")
       \/ /\ IF remote.born = 0 THEN UNCHANGED faults ELSE Fault
          /\ IF handler.fenced THEN Goto("mark", "finalize") ELSE Return("success")
    /\ Local /\ UNCHANGED <<payloads, bucket, remote, indexVars, history>>

\* ListR2Objects before a deletion that must find the bucket empty.  R2 may say
\* that there is no such bucket although there is one.
List ==
    /\ Doing("list")
    /\ \/ /\ remote.born # 0 /\ UNCHANGED faults
          /\ IF remote.items = {} THEN Goto("verify", "drop") ELSE Failing("permanent")
       \/ /\ IF remote.born = 0 THEN UNCHANGED faults ELSE Fault
          /\ Goto("verify", "absent")
    /\ Local /\ UNCHANGED <<payloads, bucket, remote, indexVars, history>>

Harm == harmed' = harmed \union ({bucket.id} \ {0}) /\ UNCHANGED unmarked

\* One round of clearObjectsS3 or clearObjectsREST: list and delete a page.
Wipe ==
    /\ Doing("wipe") /\ remote.born # 0
    /\ IF remote.items = {}
       THEN /\ handler' = [handler EXCEPT !.pc = "verify", !.cleared = FALSE,
                   !.next = IF handler.cleared THEN "confirm" ELSE "drop"]
            /\ UNCHANGED <<remote, history>>
       ELSE /\ remote' = [remote EXCEPT !.items = {}] /\ Harm
            /\ handler' = [handler EXCEPT !.pc = "verify", !.next = "wipe",
                                          !.cleared = TRUE]
    /\ Local /\ UNCHANGED <<payloads, bucket, indexVars, faults>>

WipePartly ==
    /\ Doing("wipe") /\ remote.born # 0 /\ Fault
    /\ \E rest \in SUBSET remote.items : remote' = [remote EXCEPT !.items = rest]
    /\ remote' # remote => Harm
    /\ remote' = remote => UNCHANGED history
    /\ \E result \in {"retry", "permanent"} : Failing(result)
    /\ Local /\ UNCHANGED <<payloads, bucket, indexVars>>

\* A call of the round answers that there is no such bucket.
WipeNotFound ==
    /\ Doing("wipe")
    /\ IF remote.born = 0 THEN UNCHANGED faults ELSE Fault
    /\ Goto("verify", "gone") \/ Failing("retry")
    /\ Local /\ UNCHANGED <<payloads, bucket, remote, indexVars, history>>

\* confirmNoExternalWrites.
Confirm ==
    /\ Doing("confirm")
    /\ IF remote.born = 0 THEN Failing("retry")
       ELSE IF remote.items = {} THEN Goto("verify", "drop") ELSE Failing("permanent")
    /\ Local /\ UNCHANGED <<payloads, bucket, remote, indexVars, faults, history>>

\* DeleteR2Bucket; R2 keeps a bucket that is not empty.
DropAnswered ==
    /\ Doing("drop") /\ remote.born # 0 /\ remote.items = {}
    /\ remote' = [remote EXCEPT !.born = 0] /\ Harm
    /\ IF handler.fenced /\ handler.local # 0
       THEN Goto("mark", "finalize") ELSE Return("success")
    /\ Local /\ UNCHANGED <<payloads, bucket, indexVars, faults>>

\* isAmbiguousBucketDelete: a timeout or a 5xx, after or without effect.
DropUnanswered ==
    /\ Doing("drop") /\ Fault
    /\ \/ UNCHANGED <<remote, history>>
       \/ /\ remote.born # 0 /\ remote.items = {}
          /\ remote' = [remote EXCEPT !.born = 0] /\ Harm
    /\ Goto("verify", "absent")
    /\ Local /\ UNCHANGED <<payloads, bucket, indexVars>>

DropNotFound ==
    /\ Doing("drop")
    /\ IF remote.born = 0 THEN UNCHANGED faults ELSE Fault
    /\ Goto("verify", "absent")
    /\ Local /\ UNCHANGED <<payloads, bucket, remote, indexVars, history>>

\* R2 says for certain that the bucket is not empty: a deletion of empty
\* buckets that never touched anything takes its mark back, if it can.
DropRefused ==
    /\ Doing("drop") /\ remote.items # {}
    /\ LET clean == payload.mode = "empty_only" /\ ~handler.before
       IN  \/ /\ payloads' = [payloads EXCEPT ![working].mutated = @ /\ ~clean]
              /\ handler' = ToFail([handler EXCEPT !.mutated = @ /\ ~clean], "permanent")
              /\ UNCHANGED faults
           \/ clean /\ Fault /\ Failing("permanent") /\ UNCHANGED payloads
    /\ Local /\ UNCHANGED <<bucket, remote, indexVars, history>>

Finalize ==
    /\ Doing("finalize")
    /\ FinalizeDeletedBucket
    /\ Return("success")
    /\ Local /\ UNCHANGED <<payloads, remote, intents, faults, history>>

\* A statement or a call fails without effect, for good or not.  Every failure
\* of finalize is for good, none of the fence is, nor of its persist, which
\* precedes the first mark.
CallFails(result) ==
    /\ handler.pc \in Steps \ {"idle", "fail", "return"}
    /\ handler.pc = "mark" => handler.next \in {"settle", "abandon"}
    /\ handler.pc = "finalize" => result = "permanent"
    /\ handler.pc \in {"fence", "mark"} => result = "retry"
    /\ Fault
    /\ Failing(result)
    /\ Local /\ UNCHANGED <<payloads, bucket, remote, indexVars, history>>

\* Whether this attempt is the last one is left open: last.
Terminal(last) == handler.result = "permanent" \/ last

\* Mutant: whoever fails leaves the bucket marked as failed.
FailMarksAlways(last) ==
    /\ Doing("fail")
    /\ IF Terminal(last) /\ handler.fenced /\ Owned(handler.local)
       THEN MarkBucketDeletionFailed ELSE UNCHANGED bucket
    /\ Return(IF Terminal(last) THEN "failed" ELSE "retry")
    /\ Local /\ UNCHANGED <<payloads, remote, indexVars, faults, history>>

\* fail: an error that ends the job lifts the fence if nothing was touched.
Fail(last) ==
    /\ Doing("fail")
    /\ IF Terminal(last) /\ handler.fenced /\ Owned(handler.local)
       THEN IF handler.mutated THEN MarkBucketDeletionFailed ELSE RestoreBucketActive
       ELSE UNCHANGED bucket
    /\ Return(IF Terminal(last) THEN "failed" ELSE "retry")
    /\ Local /\ UNCHANGED <<payloads, remote, indexVars, faults, history>>

\* The fence cannot be updated: the job fails and leaves it standing.
FailLost ==
    /\ Doing("fail") /\ handler.fenced /\ handler.local # 0
    /\ Fault
    /\ Return("failed")
    /\ Local /\ UNCHANGED <<payloads, bucket, remote, indexVars, history>>

EndJob ==
    /\ Doing("return")
    /\ IF handler.result = "retry" THEN Queue!Drop
       ELSE Queue!End(IF handler.result = "success" THEN "succeeded" ELSE "failed")
    /\ handler' = Idle
    /\ UNCHANGED <<payloads, bucket, drawn, remote, remade, indexVars,
                   request, faults, history>>

\* The runner cannot store how the job ended.
OutcomeLost ==
    /\ Doing("return") /\ Fault
    /\ Queue!Drop
    /\ handler' = Idle
    /\ UNCHANGED <<payloads, bucket, drawn, remote, remade, indexVars,
                   request, history>>

\* Startup clears the maintenance locks.
Crash ==
    /\ Fault
    /\ working' = 0 /\ handler' = Idle /\ request' = None
    /\ bucket' = [bucket EXCEPT !.lock = 0]
    /\ intents' = [k \in Keys |-> IF intents[k] = None THEN None
                                  ELSE [intents[k] EXCEPT !.live = FALSE]]
    /\ UNCHANGED <<entries, payloads, drawn, remote, remade, rows, history>>

HandleStep ==
    \/ DiscoverLocalBucket
    \/ VerifyChanged \/ VerifyMissing \/ VerifyPresent
    \/ Fence \/ FenceRefused
    \/ MarkRemoteMutated \/ MarkFails
    \/ \E k \in Keys : SettleIntent(k)
    \/ AcquireBucketDeletionMaintenance \/ SettleBusy
    \/ List \/ Wipe \/ WipePartly \/ WipeNotFound \/ Confirm
    \/ DropAnswered \/ DropUnanswered \/ DropNotFound \/ DropRefused
    \/ Finalize
    \/ \E result \in {"retry", "permanent"} : CallFails(result)
    \/ \E last \in BOOLEAN : Fail(last)
    \/ FailLost

Next ==
    \/ \E k \in Keys : Upload(k) \/ FinishWrite(k) \/ LeaveWrite(k)
    \/ \E k \in Keys, to \in {"here", "there"} : BeginWrite(k, to)
    \/ CreateBucket \/ DeleteBucket
    \/ PutExternal \/ DropExternal \/ Recreate
    \/ ReadRegistration \/ RefuseRequest
    \/ \E mode \in Modes : EnqueueDeletion(mode)
    \/ \E j \in DOMAIN entries : StartJob(j)
    \/ HandleStep
    \/ EndJob \/ OutcomeLost
    \/ Crash

Spec == Init /\ [][Next]_vars

-----------------------------------------------------------------------------
(* Safety.                                                                 *)

\* A bucket is put back into use only if the deletion touched nothing: no
\* failure, retry or restart re-opens a bucket that is partly cleared or gone.
ActiveUnharmed == bucket.id # 0 /\ bucket.state = "active" => bucket.id \notin harmed

FencedQuiet ==
    handler.fenced /\ handler.pc \in {"list", "wipe", "confirm", "drop", "finalize"} =>
        /\ Owned(handler.local) /\ bucket.lock = working
        /\ ~Busy

\* The rows have their type, a fence names its job, and while objects are
\* deleted, the bucket is dropped or its rows are removed, no upload is pending
\* in it, none of its objects is being replaced, and the bucket stays fenced and
\* locked by this job.
FenceSound == TypeOK /\ FencedQuiet

\* A fence that job j left behind can be taken over: the request that retries the
\* deletion accepts its payload, and BeginBucketDeletion its lock.
Retriable(j) ==
    /\ entries[j].state = "failed"
    /\ payloads[j].local = bucket.id
    /\ payloads[j].mutated \/ bucket.state = "deleting"
    /\ bucket.lock \in {0, j}

\* The same but for jobs that could not store their mark.
FenceRetriedIfMarked ==
    bucket.state # "active" /\ entries[bucket.job].state # "open" =>
        Retriable(bucket.job) \/ bucket.job \in unmarked

\* A job that reports success has deleted the bucket it was asked to delete,
\* in R2 and in the index, whoever did it in which attempt.
SucceededMeansGone ==
    \A j \in DOMAIN entries : entries[j].state = "succeeded" =>
        /\ payloads[j].missing \/ remote.born # payloads[j].born
        /\ payloads[j].local # 0 => bucket.id # payloads[j].local

\* Only the incarnation that the administrator confirmed loses anything, and
\* only while its deletion job is open.
OnlyConfirmedDeleted ==
    [][remote' # remote /\ handler' # handler =>
         /\ working # 0 /\ entries[working].state = "open"
         /\ ~payload.missing /\ payload.born = remote.born]_vars

\* The index gives up objects only when the bucket that held them is gone.
RowsOutliveBytes ==
    [][\A k \in Keys : Doing("finalize") /\ rows[k] = "here" /\ rows'[k] = None =>
         payload.missing \/ remote.born # payload.born]_vars

=============================================================================
