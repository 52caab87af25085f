------------------------------ MODULE R2Writes ------------------------------
(***************************************************************************)
(* The write path of the R2 pool: request handlers (service.go), the job   *)
(* that recovers interrupted mutations, rebalances, adopts or scans        *)
(* buckets and deletes old copies (maintenance.go, cleanup.go), and the    *)
(* remote buckets they work on.  Every handler is a chain of transactions  *)
(* on the index and calls to R2; between any two of them another handler   *)
(* may run, a client may disconnect, and the process may crash.            *)
(*                                                                         *)
(* A call to R2 ends in one of five ways: it takes effect and is answered; *)
(* it takes effect and the answer is lost; it is refused for certain (412, *)
(* 429, 401/403); it fails and never takes effect; or, if LateArrivals, it *)
(* fails for the caller and takes effect later, if at all.                 *)
(***************************************************************************)
EXTENDS R2Index

CONSTANTS
    Clients,        \* concurrent S3, WebDAV or file-manager requests
    Job,            \* the goroutine of the job runner
    Chores,         \* the job kinds that run beside recovery
    Conds,          \* conditions that clients attach to their requests
    HomeKey,        \* physical key of an object indexed at the start
    StartKeys,      \* which key may be indexed at the start; None for none
    StrayPlaces,    \* places that hold bytes no row of the index knows
    OtherIds,       \* write ids this index did not draw: NoId for an upload of
                    \* another tool, others for one made under a lost index
    Figures,        \* what Cloudflare may report as the size of a bucket
    LateArrivals,   \* a request whose caller saw an error may still land
    MaxId,          \* bound on the UUIDs drawn
    MaxFaults       \* bound on crashes, lost answers and database errors

ChoreKinds == {"move", "cleanup", "adopt", "scan", "capacity"}
Procs == Clients \union {Job}

\* A stored version: the write id in its metadata (none if another tool wrote
\* it) and its bytes.
Remote == [id : Nat, etag : Contents]

\* A mutation in progress.  "recover" and "redelete" are the job resolving an
\* interrupted put or delete.  etag is what the upload answered or HEAD saw.
Operations == {"put", "move", "delete", "recover", "redelete"}
Steps == {"begun", "sending", "rejected", "published", "completing",
          "unsure", "seen", "removed", "confirm"}
Verdicts == {"none", "published", "previous", "absent", "ambiguous", "gone", "error"}
Request == [op : Operations, pc : Steps, key : Keys, id : Ids,
            seen : Verdicts, etag : Contents \union {None}]

\* What the job does to the buckets of an account, to one bucket, to one old copy
\* or to the mutations left behind.  held: the buckets it has locked so far; todo:
\* what it has listed and not yet looked at.
Chore == [kind : {"cleanup"}, pc : {"head", "delete", "confirm"},
          bucket : Buckets, key : Keys, todo : {{}}, bytes : {0}]
         \union
         [kind : {"adopt", "scan"}, pc : {"list", "import"}, bucket : Buckets,
          key : Keys \union {None}, todo : SUBSET Keys, bytes : Nat]
         \union
         [kind : {"capacity"}, account : Accounts, observed : [Buckets -> Figures],
          held : SUBSET Buckets]
         \union
         [kind : {"recover"}, todo : SUBSET Ids]

\* A request to R2 that is still on its way: a put, the DELETE of a handler or that
\* of a cleanup; match is the precondition of a put, see PutMatch.
Message == [kind : {"put", "delete", "cleanup"}, place : Places, id : Nat,
            etag : Contents \union {None}, match : Contents \union {None}]

ASSUME WritesAssumption ==
    /\ Job \notin Clients
    /\ Chores \subseteq ChoreKinds
    /\ Conds \subseteq Conditions
    /\ HomeKey \in [Keys -> Keys]
    /\ StartKeys \subseteq Keys \union {None}
    /\ StrayPlaces \subseteq Places
    /\ OtherIds \subseteq Nat
    /\ Figures \subseteq Nat
    /\ LateArrivals \in BOOLEAN
    /\ MaxId \in Nat /\ MaxFaults \in Nat
    /\ None \notin Remote /\ None \notin Request /\ None \notin Chore

VARIABLES
    remote,     \* the remote buckets: what each place holds
    late,       \* requests that may still reach R2
    req,        \* the mutation each process is in; also the per-key mutexes
    chore,      \* the bucket-wide work of the job
    serving,    \* startup is over and the listeners accept requests
    faults      \* faults so far

vars == <<indexVars, remote, late, req, chore, serving, faults>>

TypeOK ==
    /\ IndexTypeOK
    /\ remote \in [Places -> Remote \union {None}]
    /\ late \subseteq Message
    /\ req \in [Procs -> Request \union {None}]
    /\ chore \in Chore \union {None}
    /\ serving \in BOOLEAN
    /\ faults \in Nat

-----------------------------------------------------------------------------
(* Initial states: an index whose object, written by the manager or        *)
(* adopted, has its bytes, and possibly bytes that no row knows            *)
(* (StrayPlaces).                                                          *)

BytesAt(b) ==
    SumFunction([k \in Keys |->
        IF remote[<<b, k>>] = None THEN 0 ELSE SizeOf[remote[<<b, k>>].etag]])

\* The index knows the object first, with bytes c in bucket b; own and other are
\* the write ids stored with the object and with the stray bytes.
StartsWith(first, b, c, own, other) ==
    /\ objects = [k \in Keys |-> IF k = first
           THEN [id |-> 1, bucket |-> b, pkey |-> HomeKey[k], etag |-> c]
           ELSE None]
    /\ remote = [p \in Places |->
           IF first # None /\ p = <<b, HomeKey[first]>>
           THEN [id |-> own, etag |-> c]
           ELSE IF p \in StrayPlaces THEN [id |-> other, etag |-> c]
           ELSE None]

Init ==
    /\ \E first \in StartKeys, b \in Buckets, c \in Contents,
          own \in {1} \union OtherIds, other \in {NoId} \union OtherIds :
             StartsWith(first, b, c, own, other)
    /\ storage = [b \in Buckets |-> BytesAt(b)]
    /\ intents = [k \in Keys |-> None]
    /\ reserved = [b \in Buckets |-> 0]
    /\ cleanups = [p \in Places |-> None]
    /\ locked = [b \in Buckets |-> FALSE]
    /\ nextId = 2
    /\ late = {}
    /\ req = [p \in Procs |-> None]
    /\ chore = None
    /\ serving = FALSE
    /\ faults = 0

-----------------------------------------------------------------------------
(* Beginning a mutation.  The per-key mutex of writeActivity is held from  *)
(* here until the handler returns: it is the key of a request in progress. *)
(* recovery only tries the mutex and skips the key when it is taken.       *)

Fault == faults < MaxFaults /\ faults' = faults + 1

HeldKeys == {req[p].key : p \in {q \in Procs : req[q] # None}}

KeyFree(k) == k \notin HeldKeys

JobFree == req[Job] = None /\ chore = None

Start(p, op, pc, k, id) ==
    req' = [req EXCEPT ![p] = [op |-> op, pc |-> pc, key |-> k, id |-> id,
                               seen |-> "none", etag |-> None]]

Goto(p, pc) == req' = [req EXCEPT ![p].pc = pc]

Done(p) == req' = [req EXCEPT ![p] = None]

\* PutConditional up to its write intent.
BeginPut(p, k, body, cond, b) ==
    /\ serving /\ req[p] = None /\ KeyFree(k) /\ nextId <= MaxId
    /\ BeginWrite(k, body, cond, b)
    /\ Start(p, "put", "begun", k, nextId)
    /\ UNCHANGED <<remote, late, chore, serving, faults>>

\* DeleteConditional up to its write intent.
BeginDelete(p, k, cond) ==
    /\ serving /\ req[p] = None /\ KeyFree(k) /\ nextId <= MaxId
    /\ BeginDeleteWrite(k, cond)
    /\ Start(p, "delete", "begun", k, nextId)
    /\ UNCHANGED <<remote, late, chore, serving, faults>>

\* moveObject: the rebalance job rewrites an object into another bucket.
BeginMove(k, b) ==
    /\ "move" \in Chores /\ serving /\ JobFree /\ KeyFree(k) /\ nextId <= MaxId
    /\ objects[k] # None /\ objects[k].bucket # b
    /\ BeginWrite(k, objects[k].etag, "any", b)
    /\ Start(Job, "move", "begun", k, nextId)
    /\ UNCHANGED <<remote, late, chore, serving, faults>>

-----------------------------------------------------------------------------
(* A recovery pass (recoverInterruptedState): it lists the intents and goes *)
(* through them one by one.  One pass runs at every start, before the       *)
(* listeners open and for at most 30 seconds; any other is a job that the   *)
(* administrator asks for.  No schedule contains it.                        *)

Pending == {k \in Keys : intents[k] # None}

\* ListWriteIntents.
Pass == [kind |-> "recover", todo |-> {intents[k].id : k \in Pending}]

Recovering == chore # None /\ chore.kind = "recover"

\* HandleRecover, enqueued through the administration API.
BeginPass ==
    /\ serving /\ JobFree
    /\ chore' = Pass
    /\ UNCHANGED <<indexVars, remote, late, req, serving, faults>>

\* The pass is at a row that is still there.
Meets(k) == /\ Recovering /\ req[Job] = None
            /\ intents[k] # None /\ intents[k].id \in chore.todo

\* recoverWriteIntent takes up an intent.
TakeUp(k) ==
    /\ Start(Job, IF intents[k].op = "put" THEN "recover" ELSE "redelete",
             "unsure", k, intents[k].id)
    /\ chore' = [chore EXCEPT !.todo = @ \ {intents[k].id}]
    /\ UNCHANGED <<indexVars, remote, late, serving, faults>>

\* Mutant: recovery does not try the mutex of the key.
BeginRecoveryUnlocked(k) == Meets(k) /\ TakeUp(k)

\* Mutant: recovery only looks at intents that a handler held for it.
BeginRecoveryHeldOnly(k) ==
    Meets(k) /\ KeyFree(k) /\ intents[k].state = "recovery" /\ TakeUp(k)

BeginRecovery(k) == Meets(k) /\ KeyFree(k) /\ TakeUp(k)


\* The mutex of the key is taken, or the row is gone: the pass goes on.
SkipIntent(i) ==
    /\ Recovering /\ req[Job] = None /\ i \in chore.todo
    /\ \A k \in Pending : intents[k].id = i => ~KeyFree(k)
    /\ chore' = [chore EXCEPT !.todo = @ \ {i}]
    /\ UNCHANGED <<indexVars, remote, late, req, serving, faults>>

\* Every row has been looked at, or the 30 seconds are over, or a statement fails.
EndPass ==
    /\ Recovering /\ req[Job] = None
    /\ IF chore.todo = {} THEN UNCHANGED faults ELSE Fault
    /\ chore' = None
    /\ UNCHANGED <<indexVars, remote, late, req, serving>>

-----------------------------------------------------------------------------
(* Talking to R2.                                                          *)

\* physicalPutOptions: If-Match with the ETag of the version being replaced
\* in place, else If-None-Match: *, which None stands for.
PutMatch(k) == IF PreviousAtTarget(k) THEN objects[k].etag ELSE None

Outgoing(p) ==
    LET k == req[p].key
    IN  IF req[p].op \in {"put", "move"}
        THEN [kind |-> "put", place |-> TargetOf(k), id |-> req[p].id,
              etag |-> intents[k].body, match |-> PutMatch(k)]
        ELSE [kind |-> "delete", place |-> PlaceOf(objects[k]), id |-> NoId,
              etag |-> None, match |-> None]

\* R2 checks the precondition of a put and takes every delete.
Accepts(message) ==
    \/ message.kind # "put"
    \/ IF message.match = None THEN remote[message.place] = None
       ELSE /\ remote[message.place] # None
            /\ remote[message.place].etag = message.match

After(message) ==
    [remote EXCEPT ![message.place] =
        IF message.kind = "put" THEN [id |-> message.id, etag |-> message.etag]
        ELSE None]

\* ConsumeOperation, the target's credentials or the source of a move fail:
\* nothing was sent.
GiveUp(p) ==
    /\ req[p] # None /\ req[p].pc = "begun"
    /\ AbortWrite(req[p].key)
    /\ Done(p)
    /\ UNCHANGED <<remote, late, chore, serving, faults>>

\* A move reads its source, guarded by the indexed ETag, before it writes.
SendPut(p) ==
    /\ req[p] # None /\ req[p].pc = "begun" /\ req[p].op \in {"put", "move"}
    /\ LET k == req[p].key
           source == remote[PlaceOf(objects[k])]
       IN  /\ req[p].op = "move" => source # None /\ source.etag = intents[k].body
           /\ UpdateWriteState(k, "uploading", None)
    /\ Goto(p, "sending")
    /\ UNCHANGED <<remote, late, chore, serving, faults>>

SendDelete(p) ==
    /\ req[p] # None /\ req[p].pc = "begun" /\ req[p].op = "delete"
    /\ Goto(p, "sending")
    /\ UNCHANGED <<indexVars, remote, late, chore, serving, faults>>

Answered(p) ==
    /\ req[p] # None /\ req[p].pc = "sending" /\ Accepts(Outgoing(p))
    /\ remote' = After(Outgoing(p))
    /\ req' = [req EXCEPT
           ![p].pc = CASE req[p].op \in {"put", "move"} -> "published"
                       [] req[p].op = "delete" -> "removed"
                       [] OTHER -> "confirm",
           ![p].etag = Outgoing(p).etag]
    /\ UNCHANGED <<indexVars, late, chore, serving, faults>>

\* Without an answer a client's handler looks with HEAD; the recovery of a
\* delete holds the intent for its next run.
Unanswered(p) ==
    req' = [req EXCEPT ![p].pc = IF req[p].op = "redelete" THEN "seen" ELSE "unsure",
                       ![p].seen = IF req[p].op = "redelete" THEN "error" ELSE @]

AnswerLost(p) ==
    /\ req[p] # None /\ req[p].pc = "sending" /\ Accepts(Outgoing(p))
    /\ Fault
    /\ remote' = After(Outgoing(p))
    /\ Unanswered(p)
    /\ UNCHANGED <<indexVars, late, chore, serving>>

RequestFails(p) ==
    /\ req[p] # None /\ req[p].pc = "sending"
    /\ Fault
    /\ late' \in {late} \union (IF LateArrivals THEN {late \union {Outgoing(p)}} ELSE {})
    /\ Unanswered(p)
    /\ UNCHANGED <<indexVars, remote, chore, serving>>

\* isDefinitiveWriteRejection: the precondition failed, or R2 throttled the
\* request or rejected its credentials.
Refused(p) ==
    /\ req[p] # None /\ req[p].pc = "sending"
    /\ IF Accepts(Outgoing(p)) THEN Fault ELSE UNCHANGED faults
    /\ IF req[p].op = "redelete" THEN Unanswered(p) ELSE Goto(p, "rejected")
    /\ UNCHANGED <<indexVars, remote, late, chore, serving>>

AbortRejected(p) ==
    /\ req[p] # None /\ req[p].pc = "rejected"
    /\ AbortWrite(req[p].key)
    /\ Done(p)
    /\ UNCHANGED <<remote, late, chore, serving, faults>>

\* A request whose caller has given up reaches R2 after all, or never does.
LateArrival(message) ==
    /\ message \in late
    /\ late' = late \ {message}
    /\ remote' = IF Accepts(message) THEN After(message) ELSE remote
    /\ UNCHANGED <<indexVars, req, chore, serving, faults>>

-----------------------------------------------------------------------------
(* Committing what R2 confirmed.                                           *)

HoldForRecovery(p) ==
    /\ UpdateWriteState(req[p].key, "recovery", None)
    /\ Done(p)

MarkCompleting(p) ==
    /\ req[p] # None /\ req[p].pc = "published"
    /\ UpdateWriteState(req[p].key, "completing", req[p].etag)
    /\ Goto(p, "completing")
    /\ UNCHANGED <<remote, late, chore, serving, faults>>

CommitPut(p) ==
    /\ req[p] # None
    /\ \/ req[p].pc = "completing"
       \/ req[p].pc = "seen" /\ req[p].seen = "published"
    /\ CommitWrite(req[p].key, req[p].etag)
    /\ Done(p)
    /\ UNCHANGED <<remote, late, chore, serving, faults>>

CommitRemoval(p) ==
    /\ req[p] # None
    /\ \/ req[p].pc = "removed"
       \/ req[p].pc = "seen" /\ req[p].op \in {"delete", "redelete"}
                             /\ req[p].seen = "absent"
    /\ CommitDeleteWrite(req[p].key)
    /\ Done(p)
    /\ UNCHANGED <<remote, late, chore, serving, faults>>

\* The commit is refused by the index.
MustFail(p) == req[p].etag # None /\ ~CommitAllowed(req[p].key, req[p].etag)

\* MarkWriteCompleting or CommitWrite fails, often because the client hung up
\* and took its context along.  The intent is held, except by a move whose
\* CommitWrite failed and by recovery, which leave the row as it is.
CommitFails(p) ==
    /\ req[p] # None
    /\ \/ req[p].pc \in {"published", "completing"}
       \/ req[p].pc = "seen" /\ req[p].seen = "published"
    /\ IF req[p].pc # "published" /\ MustFail(p) THEN UNCHANGED faults ELSE Fault
    /\ IF req[p].op = "recover" \/ (req[p].op = "move" /\ req[p].pc = "completing")
       THEN Done(p) /\ UNCHANGED indexVars
       ELSE HoldForRecovery(p)
    /\ UNCHANGED <<remote, late, chore, serving>>

\* Mutant: a HEAD that fails counts as proof that nothing happened.
AbortVerdictsHasty(op) == {"previous", "absent", "gone", "error"}

\* What shows that the mutation did not happen: a put whose target holds the
\* previous version or nothing, a delete whose object is still there; and, for
\* recovery, that there is nothing left to delete.
AbortVerdicts(op) ==
    CASE op = "delete" -> {"previous"}
      [] op = "redelete" -> {"gone"}
      [] OTHER -> {"previous", "absent"}

\* CommitDeleteWrite or AbortWrite fails: the handler returns and the intent
\* keeps its row.
LeaveIntent(p) ==
    /\ req[p] # None
    /\ \/ req[p].pc \in {"begun", "rejected", "removed"}
       \/ /\ req[p].pc = "seen"
          /\ \/ req[p].seen \in AbortVerdicts(req[p].op)
             \/ req[p].op \in {"delete", "redelete"} /\ req[p].seen = "absent"
    /\ Fault
    /\ Done(p)
    /\ UNCHANGED <<indexVars, remote, late, chore, serving>>

-----------------------------------------------------------------------------
(* Resolving an answer that never came.                                    *)

\* classifyWriteIntentRemote.
Classify(k) ==
    LET seen == remote[TargetOf(k)]
        intent == intents[k]
        publishedMatch == intent.etag # None /\ seen.etag = intent.etag
        previousMatch == PreviousAtTarget(k) /\ seen.etag = objects[k].etag
    IN  IF intent.prev # NoId /\ ~HasPrevious(k) THEN "error"
        ELSE IF seen = None THEN IF PreviousAtTarget(k) THEN "ambiguous" ELSE "absent"
        ELSE IF seen.id = intent.id THEN "published"
        ELSE IF seen.id # NoId
             THEN IF PreviousAtTarget(k) /\ seen.id = objects[k].id
                  THEN "previous" ELSE "ambiguous"
        ELSE IF publishedMatch /\ ~previousMatch THEN "published"
        ELSE IF previousMatch /\ ~publishedMatch THEN "previous"
        ELSE "ambiguous"

\* remoteMatchesObjectVersion.
SameVersion(object, version) ==
    IF version.id # NoId THEN version.id = object.id ELSE version.etag = object.etag

\* What HEAD tells a delete (resolveAmbiguousDelete: present or absent) and
\* the recovery of a delete, which compares versions before it deletes again
\* and only wants to see the object gone afterwards.
DeleteVerdict(p) ==
    LET k == req[p].key
        there == remote[PlaceOf(objects[k])]
    IN  IF ~HasPrevious(k) THEN "gone"
        ELSE IF there = None THEN "absent"
        ELSE IF req[p].op = "delete" THEN "previous"
        ELSE IF req[p].pc = "confirm" THEN "error"
        ELSE IF SameVersion(objects[k], there) THEN "previous"
        ELSE "ambiguous"

Head(p) ==
    /\ req[p] # None /\ req[p].pc \in {"unsure", "confirm"}
    /\ LET k == req[p].key
           removing == intents[k].op = "delete"
       IN  req' = [req EXCEPT
               ![p].pc = "seen",
               ![p].seen = IF removing THEN DeleteVerdict(p) ELSE Classify(k),
               ![p].etag = IF ~removing /\ remote[TargetOf(k)] # None
                           THEN remote[TargetOf(k)].etag ELSE @]
    /\ UNCHANGED <<indexVars, remote, late, chore, serving, faults>>

HeadFails(p) ==
    /\ req[p] # None /\ req[p].pc \in {"unsure", "confirm"}
    /\ Fault
    /\ req' = [req EXCEPT ![p].pc = "seen", ![p].seen = "error"]
    /\ UNCHANGED <<indexVars, remote, late, chore, serving>>

\* The mutation did not happen.
AbortResolved(p) ==
    /\ req[p] # None /\ req[p].pc = "seen" /\ req[p].seen \in AbortVerdicts(req[p].op)
    /\ AbortWrite(req[p].key)
    /\ Done(p)
    /\ UNCHANGED <<remote, late, chore, serving, faults>>

HoldUnresolved(p) ==
    /\ req[p] # None /\ req[p].pc = "seen" /\ req[p].seen \in {"ambiguous", "error"}
    /\ HoldForRecovery(p)
    /\ UNCHANGED <<remote, late, chore, serving, faults>>

\* Recovery found the version it has to delete and deletes it again.
DeleteAgain(p) ==
    /\ req[p] # None /\ req[p].pc = "seen"
    /\ req[p].op = "redelete" /\ req[p].seen = "previous"
    /\ Goto(p, "sending")
    /\ UNCHANGED <<indexVars, remote, late, chore, serving, faults>>

-----------------------------------------------------------------------------
(* The job on a whole bucket: deleting an old copy, adopting what a bucket *)
(* holds (also the index rebuild), scanning it for orphans.  Each holds    *)
(* the bucket's maintenance lock from its first step to its last.          *)


EndChore(b) ==
    /\ ReleaseBucketMaintenance(b)
    /\ chore' = None

\* ProcessPhysicalCleanups: claim a cleanup and lock its bucket.  When the lock
\* is refused the row stays for the next run.
BeginCleanup(b, k) ==
    /\ "cleanup" \in Chores /\ serving /\ JobFree
    /\ cleanups[<<b, k>>] # None
    /\ AcquireBucketMaintenance(b)
    /\ chore' = [kind |-> "cleanup", pc |-> "head", bucket |-> b, key |-> k,
                 todo |-> {}, bytes |-> 0]
    /\ UNCHANGED <<remote, late, req, serving, faults>>

Cleaning(pc) == chore # None /\ chore.kind = "cleanup" /\ chore.pc = pc

CleanupPlace == <<chore.bucket, chore.key>>

\* Deleted upstream, before or by this cleanup: the bytes leave the ledger.
FinishCleanup ==
    /\ Cleaning("head") \/ Cleaning("confirm")
    /\ remote[CleanupPlace] = None
    /\ CompletePhysicalCleanup(CleanupPlace)
    /\ chore' = None
    /\ UNCHANGED <<remote, late, req, serving, faults>>

\* The place still holds the version that was replaced.
CheckCleanup ==
    /\ Cleaning("head")
    /\ remote[CleanupPlace] # None
    /\ remote[CleanupPlace].etag = cleanups[CleanupPlace]
    /\ chore' = [chore EXCEPT !.pc = "delete"]
    /\ UNCHANGED <<indexVars, remote, late, req, serving, faults>>

CleanupMessage == [kind |-> "cleanup", place |-> CleanupPlace, id |-> NoId,
                   etag |-> None, match |-> None]

DeleteOldCopy ==
    /\ Cleaning("delete")
    /\ remote' = After(CleanupMessage)
    /\ chore' = [chore EXCEPT !.pc = "confirm"]
    /\ UNCHANGED <<indexVars, late, req, serving, faults>>

\* Another version is there, or is back: RetryPhysicalCleanup.
RetryCleanup ==
    /\ \/ /\ Cleaning("head") /\ remote[CleanupPlace] # None
          /\ remote[CleanupPlace].etag # cleanups[CleanupPlace]
       \/ Cleaning("confirm") /\ remote[CleanupPlace] # None
    /\ EndChore(chore.bucket)
    /\ UNCHANGED <<remote, late, req, serving, faults>>

\* A call to R2 fails: a HEAD, or a DELETE that took effect, will take effect
\* later or never does.
CleanupFails ==
    /\ chore # None /\ chore.kind = "cleanup"
    /\ Fault
    /\ \/ UNCHANGED <<remote, late>>
       \/ Cleaning("delete") /\ remote' = After(CleanupMessage) /\ UNCHANGED late
       \/ /\ Cleaning("delete") /\ LateArrivals
          /\ late' = late \union {CleanupMessage} /\ UNCHANGED remote
    /\ EndChore(chore.bucket)
    /\ UNCHANGED <<req, serving>>

\* AdoptBucket and ScanOrphans.
BeginScan(kind, b) ==
    /\ kind \in Chores /\ kind \in {"adopt", "scan"} /\ serving /\ JobFree
    /\ AcquireBucketMaintenance(b)
    /\ chore' = [kind |-> kind, pc |-> "list", bucket |-> b, key |-> None,
                 todo |-> {}, bytes |-> 0]
    /\ UNCHANGED <<remote, late, req, serving, faults>>

Scanning(pc) == chore # None /\ chore.kind \in {"adopt", "scan"} /\ chore.pc = pc

\* ListRemote.  A scan only records findings about what it lists.
ListBucket ==
    /\ Scanning("list")
    /\ chore' = [chore EXCEPT
           !.pc = "import",
           !.todo = IF chore.kind = "scan" THEN {}
                    ELSE {k \in Keys : remote[<<chore.bucket, k>>] # None},
           !.bytes = BytesAt(chore.bucket)]
    /\ UNCHANGED <<indexVars, remote, late, req, serving, faults>>

\* Adoption reads the metadata of a listed object and inserts the row, unless
\* the logical key has one already.  It neither takes the key's mutex nor looks
\* at intents and cleanups.
ImportObject(k) ==
    /\ Scanning("import") /\ k \in chore.todo
    /\ remote[<<chore.bucket, k>>] # None
    /\ IF objects[k] = None
       THEN AdoptObject(chore.bucket, k, remote[<<chore.bucket, k>>].etag)
       ELSE UNCHANGED indexVars
    /\ chore' = [chore EXCEPT !.todo = @ \ {k}]
    /\ UNCHANGED <<remote, late, req, serving, faults>>

FinishScan ==
    /\ Scanning("import") /\ chore.todo = {}
    /\ FinishBucketScan(chore.bucket, chore.bytes)
    /\ chore' = None
    /\ UNCHANGED <<remote, late, req, serving, faults>>

\* A call fails, or a listed object is gone before its metadata is read.
ScanFails ==
    /\ Scanning("list") \/ Scanning("import")
    /\ IF Scanning("import") /\ \E k \in chore.todo : remote[<<chore.bucket, k>>] = None
       THEN UNCHANGED faults ELSE Fault
    /\ EndChore(chore.bucket)
    /\ UNCHANGED <<remote, late, req, serving>>

\* SyncAccountCapacity for one account.  Cloudflare reports the largest size of
\* the last three days, and behind time; it is asked before a bucket is locked, so
\* that writes still commit while the figures are under way: any figure may come.
BeginSync(a) ==
    /\ "capacity" \in Chores /\ serving /\ JobFree
    /\ \E observed \in [Buckets -> Figures] :
          chore' = [kind |-> "capacity", account |-> a, observed |-> observed, held |-> {}]
    /\ UNCHANGED <<indexVars, remote, late, req, serving, faults>>

Syncing == chore # None /\ chore.kind = "capacity"

ToLock == {b \in Buckets : AccountOf[b] = chore.account} \ chore.held

LockForSync(b) ==
    /\ Syncing /\ b \in ToLock
    /\ AcquireBucketMaintenance(b)
    /\ chore' = [chore EXCEPT !.held = @ \union {b}]
    /\ UNCHANGED <<remote, late, req, serving, faults>>

FinishSync ==
    /\ Syncing /\ ToLock = {}
    /\ ApplyAccountCapacity(chore.observed, chore.held)
    /\ chore' = None
    /\ UNCHANGED <<remote, late, req, serving, faults>>

\* A bucket has pending mutations, or a statement fails: the locks taken so far
\* are released and the account is left for the next run.
SyncFails ==
    /\ Syncing
    /\ IF \E b \in ToLock : Active(b) THEN UNCHANGED faults ELSE Fault
    /\ locked' = [b \in Buckets |-> IF b \in chore.held THEN FALSE ELSE locked[b]]
    /\ chore' = None
    /\ UNCHANGED <<objects, intents, storage, reserved, cleanups, nextId,
                   remote, late, req, serving>>

-----------------------------------------------------------------------------
(* The process.                                                            *)

\* Requests, mutexes and the job vanish; rows stay.  The start that follows
\* clears the maintenance locks, then makes its recovery pass.  What was being
\* sent may still arrive.
Crash ==
    /\ Fault
    /\ LET sending == {Outgoing(p) : p \in {q \in Procs : /\ req[q] # None
                                                          /\ req[q].pc = "sending"}}
       IN  late' \in {late \union sent : sent \in IF LateArrivals THEN SUBSET sending
                                                  ELSE {{}}}
    /\ req' = [p \in Procs |-> None]
    /\ chore' = Pass
    /\ locked' = [b \in Buckets |-> FALSE]
    /\ serving' = FALSE
    /\ UNCHANGED <<objects, intents, storage, reserved, cleanups, nextId, remote>>

\* After RecoverInterruptedBeforeServing; what it could not resolve stays fenced
\* and the listeners open all the same.
StartServing ==
    /\ ~serving /\ JobFree
    /\ serving' = TRUE
    /\ UNCHANGED <<indexVars, remote, late, req, chore, faults>>

ClientStep(p) ==
    \/ \E k \in Keys, body \in Contents, cond \in Conds, b \in Buckets :
          BeginPut(p, k, body, cond, b)
    \/ \E k \in Keys, cond \in Conds : BeginDelete(p, k, cond)

\* What a mutation in progress does next.
Proceed(p) ==
    \/ GiveUp(p) \/ SendPut(p) \/ SendDelete(p)
    \/ Answered(p) \/ AnswerLost(p) \/ RequestFails(p) \/ Refused(p)
    \/ AbortRejected(p)
    \/ MarkCompleting(p) \/ CommitPut(p) \/ CommitRemoval(p) \/ CommitFails(p)
    \/ LeaveIntent(p)
    \/ Head(p) \/ HeadFails(p) \/ AbortResolved(p) \/ HoldUnresolved(p)
    \/ DeleteAgain(p)

ChoreStep ==
    \/ FinishCleanup \/ CheckCleanup \/ DeleteOldCopy \/ RetryCleanup
    \/ CleanupFails
    \/ ListBucket \/ (\E k \in Keys : ImportObject(k)) \/ FinishScan \/ ScanFails
    \/ (\E b \in Buckets : LockForSync(b)) \/ FinishSync \/ SyncFails

RecoveryStep ==
    \/ \E k \in Keys : BeginRecovery(k)
    \/ \E i \in 1..MaxId : SkipIntent(i)
    \/ EndPass

BeginChore ==
    \/ \E k \in Keys, b \in Buckets : BeginMove(k, b) \/ BeginCleanup(b, k)
    \/ \E kind \in {"adopt", "scan"}, b \in Buckets : BeginScan(kind, b)
    \/ \E a \in Accounts : BeginSync(a)
    \/ BeginPass

Next ==
    \/ \E p \in Clients : ClientStep(p)
    \/ \E p \in Procs : Proceed(p)
    \/ BeginChore
    \/ ChoreStep
    \/ RecoveryStep
    \/ \E message \in late : LateArrival(message)
    \/ Crash
    \/ StartServing

Spec == Init /\ [][Next]_vars

-----------------------------------------------------------------------------
(* Safety.                                                                 *)

\* The reservation ledger of write_intents.go neither leaks nor forgets: a
\* bucket reserves exactly what its pending puts may still store, through every
\* commit, abort, crash and recovery.
ReservationsBalanced ==
    \A b \in Buckets :
        reserved[b] = SumFunction([k \in Keys |->
            IF intents[k] # None /\ intents[k].bucket = b THEN intents[k].reserved ELSE 0])

\* storage_bytes of a bucket covers every indexed object and every old copy
\* that is not confirmed deleted, also after the figures of Cloudflare, which are
\* older than what has been committed since, have replaced it.
StorageCoversRows ==
    \A b \in Buckets : storage[b] >= IndexedBytes(b) + PendingCleanupBytes(b)

\* "Capacity safety" of docs/operations.md: the bytes that really lie in a
\* bucket never exceed what the manager counts as stored or reserved there,
\* so that the quota check of selectWriteBucket bounds the real usage.
RemoteBytesCounted ==
    \A b \in Buckets : BytesAt(b) <= storage[b] + reserved[b]

\* What those counters are for: the real bytes of a bucket stay within
\* limits.StorageBytes and those of an account within
\* limits.AccountStorageBytes, whatever is in flight.
LimitsHold ==
    /\ \A b \in Buckets \ Overflow : BytesAt(b) <= BucketLimit
    /\ Overflow = {} =>
          \A a \in Accounts :
             SumFunction([b \in Buckets |-> IF AccountOf[b] = a THEN BytesAt(b) ELSE 0])
                 <= AccountLimit

\* An indexed object has its bytes: the version its row names, unless its own
\* pending mutation has already replaced or deleted them.
IndexedObjectStored ==
    \A k \in Keys : objects[k] # None =>
        LET there == remote[PlaceOf(objects[k])]
            kept == /\ there # None /\ there.etag = objects[k].etag
                    /\ there.id \in {NoId, objects[k].id}
        IN  \/ kept
            \/ /\ intents[k] # None /\ intents[k].prev = objects[k].id
               /\ IF intents[k].op = "delete" THEN there = None
                  ELSE /\ PreviousAtTarget(k) /\ there # None
                       /\ there.id = intents[k].id /\ there.etag = intents[k].body

\* A cleanup record fences its place: no pending put targets it, so nothing
\* new is stored there while a deletion may be under way.
CleanupFencesPuts ==
    \A k \in Keys, b \in Buckets :
        cleanups[<<b, k>>] # None =>
            ~ \E j \in Keys : /\ intents[j] # None /\ intents[j].op = "put"
                              /\ TargetOf(j) = <<b, k>>

\* ... and the place holds no indexed object, so that the cleanup deletes only
\* bytes no row refers to.
CleanupSparesObjects ==
    \A k \in Keys : objects[k] # None => cleanups[PlaceOf(objects[k])] = None

\* The row a handler opened stays its own until the handler closes it:
\* recovery never settles a mutation that is still in progress.
HandlerOwnsIntent ==
    \A p \in Procs : req[p] # None =>
        /\ intents[req[p].key] # None
        /\ intents[req[p].key].id = req[p].id

\* A bucket under maintenance has no pending mutation that writes to it or
\* deletes from it, however the locks, the intents and a restart interleave.
MaintenanceExcludesWrites ==
    \A k \in Keys : intents[k] # None => ~locked[intents[k].bucket]

\* Nothing changes the version under a pending mutation, so that the check
\* commitWriteAt makes on it cannot refuse bytes that are already stored.
PreviousIsCurrent ==
    \A k \in Keys : intents[k] # None => intents[k].prev = CurrentId(k)

(* Action properties.                                                      *)

\* Compare and swap: when a mutation takes effect in the index, the condition
\* its client attached still holds of the version it replaces, and the new
\* version is the bytes the client sent.
Settles(k) == /\ intents[k] # None /\ intents'[k] = None
              /\ objects'[k] # objects[k]

CommitMeetsRequest ==
    [][\A k \in Keys : Settles(k) =>
         /\ ConditionHolds(k, intents[k].cond)
         /\ IF intents[k].op = "delete" THEN objects'[k] = None
            ELSE objects'[k] # None /\ objects'[k].etag = intents[k].body]_vars

\* A DELETE that a cleanup sends never takes bytes a row refers to, whether it lands
\* while the cleanup waits for its answer or after the cleanup has given up.
CleanupLands(p) ==
    \/ Cleaning("delete") /\ CleanupPlace = p
    \/ \E message \in late : /\ message.kind = "cleanup" /\ message.place = p
                             /\ message \notin late'

CleanupDeletesOldCopiesOnly ==
    [][\A p \in Places :
         (CleanupLands(p) /\ remote[p] # None /\ remote'[p] = None)
         => \A k \in Keys : objects[k] # None => PlaceOf(objects[k]) # p]_vars

-----------------------------------------------------------------------------
(* Liveness.                                                               *)

(***************************************************************************)
(* Handlers run to their end, and so do the job's pieces of work and the    *)
(* start (goroutines are scheduled, calls return).  The runner claims jobs  *)
(* in the order of their creation, so the hourly cleanup gets its turn      *)
(* again and again however often other jobs take the runner: strong         *)
(* fairness for its first step.  Nothing makes a recovery pass begin while  *)
(* the process runs: no schedule contains one and nobody need ask for it.   *)
(***************************************************************************)
Fairness ==
    /\ \A p \in Procs : WF_vars(Proceed(p))
    /\ WF_vars(ChoreStep)
    /\ WF_vars(RecoveryStep)
    /\ WF_vars(StartServing)
    /\ \A k \in Keys, b \in Buckets : SF_vars(BeginCleanup(b, k))

FairSpec == Spec /\ Fairness


\* A mutation whose handler is gone: until a recovery pass settles it, its bucket
\* is busy.
Abandoned(b) == \E k \in Pending : intents[k].bucket = b /\ KeyFree(k)


=============================================================================
