----------------------------- MODULE Multipart -----------------------------
(***************************************************************************)
(* Uploads in parts: the sessions that S3 clients create, fill, complete   *)
(* and abort (internal/modules/r2/multipart.go, multipart_store.go), the   *)
(* chunked PUT that the service itself sends in parts (putChunked in       *)
(* service.go), the hourly expiry of sessions and their recovery after a   *)
(* crash (recoverWriteIntent in maintenance.go).                           *)
(*                                                                         *)
(* One physical bucket: a session never spans buckets, and what happens to *)
(* old copies in another bucket is the business of R2Writes.  Every        *)
(* operation on a key holds the key's activity mutex (beginWriteActivity), *)
(* expiry and recovery skip keys whose mutex is taken, so there is at most *)
(* one handler per key; what interleaves with it are the other keys, late  *)
(* requests, crashes and failing statements.                               *)
(*                                                                         *)
(* Data abstraction.  Bodies are told apart by their ETag; an object       *)
(* assembled from parts is the function from part numbers to bodies.  A    *)
(* session has the id of its write intent, and R2's upload id is that id   *)
(* too, once it is known: one CreateMultipartUpload is sent per intent.    *)
(* An upload whose id got lost is never touched again and is left out.     *)
(***************************************************************************)
EXTENDS Integers, FiniteSets, Functions

CONSTANTS
    Keys,       \* logical keys
    PartNos,    \* part numbers, 1..n
    Bodies,     \* bodies of parts, told apart by their ETag
    SizeOf,     \* their length
    Limit,      \* limits.StorageBytes of the bucket
    Overflow,   \* whether the bucket's overflow_until lies in the future
    MaxIds,     \* bound: ids drawn
    MaxFaults,  \* bound: failing statements and calls, lost answers, crashes
    LateOps,    \* requests without an answer that R2 may still serve later
    None        \* an absent row or object

Ids == 1..MaxIds
Nos == 1..Cardinality(PartNos)
Assembled == UNION {[S -> Bodies] : S \in SUBSET Nos}
NoParts == [n \in {} |-> None]

BytesOf(parts) ==
    SumFunction([n \in Nos |-> IF n \in DOMAIN parts THEN SizeOf[parts[n]] ELSE 0])

\* One part.
Part(n, body) == [m \in {n} |-> body]

\* The parts of an upload after more of them came.
WithParts(parts, more) ==
    [n \in DOMAIN parts \union DOMAIN more |->
        IF n \in DOMAIN more THEN more[n] ELSE parts[n]]

Object == [id : Ids, body : Assembled]

\* initial: the upstream upload id is stored in the row.
Intent == [id : Ids, prev : Ids \union {None}, reserved : Nat,
           state : {"reserved", "uploading", "completing", "consumed",
                    "aborting", "recovery"},
           known : BOOLEAN, internal : BOOLEAN]

\* r2_multipart_part_reservations: previous_size and requested_size.
Pending == [prev : Nat, req : Nat]

Session == [id : Ids, status : {"initiating", "active", "completing", "error"},
            known : BOOLEAN, parts : Assembled,
            pending : [Nos -> Pending \union {None}]]

\* The call or statement a handler is about to make, and why it makes it.
Steps == {"idle", "insert", "create", "activate", "failed", "markUploading", "chunk", "send",
          "keep", "markCompleting", "complete", "markEtag", "markConsumed", "markConflict",
          "markRecovering", "markAborting", "restore", "abort", "classify", "head", "commit",
          "release", "hold"}
Flows == {"none", "create", "unstarted", "putstart", "put", "putresolve", "part", "complete",
          "resolve", "consumed", "abort", "expire", "recover"}

\* A handler, with the parts it sends, names or has found stored.  sent counts the
\* chunks of a chunked PUT.
Handler == [pc : Steps, flow : Flows, want : Assembled, sent : Nat]

Idle == [pc |-> "idle", flow |-> "none", want |-> NoParts, sent |-> 0]

ASSUME MultipartAssumption ==
    /\ IsFiniteSet(Keys) /\ IsFiniteSet(PartNos) /\ PartNos = Nos /\ PartNos # {}
    /\ SizeOf \in [Bodies -> Nat]
    /\ Limit \in Nat /\ Overflow \in BOOLEAN
    /\ MaxIds \in Nat \ {0} /\ MaxFaults \in Nat
    /\ LateOps \subseteq {"part", "complete", "abort"}
    /\ None \notin Ids /\ None \notin Assembled
    /\ None \notin Object /\ None \notin Intent /\ None \notin Pending /\ None \notin Session

VARIABLES
    objects,    \* r2_objects
    intents,    \* r2_write_intents
    sessions,   \* r2_multipart_uploads with their parts and reservations
    storage,    \* storage_bytes of the bucket
    reserved,   \* reserved_storage_bytes of the bucket
    stored,     \* R2: the object at the key, with its write id
    uploads,    \* R2: the parts of an upload that is neither complete nor aborted
    late,       \* requests whose answer was lost and that R2 may still serve
    h,          \* the holder of each key's activity mutex
    nextId,     \* the next fresh UUID
    faults,     \* faults so far
    ended,      \* sessions whose client aborted them or left them to expire, or
                \* whose completion R2 refused for good (for a property)
    gone        \* the clients have left for good (for the liveness property)

index == <<objects, intents, sessions, storage, reserved>>
remote == <<stored, uploads, late>>
history == <<nextId, ended, gone>>
vars == <<objects, intents, sessions, storage, reserved, stored, uploads,
          late, h, nextId, faults, ended, gone>>

-----------------------------------------------------------------------------
(* Transactions of the index.                                              *)

StoredBytes ==
    SumFunction([k \in Keys |-> IF objects[k] = None THEN 0 ELSE BytesOf(objects[k].body)])

ReservedBytes ==
    SumFunction([k \in Keys |-> IF intents[k] = None THEN 0 ELSE intents[k].reserved])

Max0(n) == IF n > 0 THEN n ELSE 0

CurrentId(k) == IF objects[k] = None THEN None ELSE objects[k].id

\* The bucket's limit.  The account's limit, which its other buckets share, may
\* refuse more: a request that it refuses changes nothing, or is a refused Chunk.
Fits(bytes) == Overflow \/ storage + reserved + bytes <= Limit

\* BeginWrite; a size that is not known reserves nothing yet.
BeginWrite(k, size, internal) ==
    /\ intents[k] = None
    /\ nextId \in Ids
    /\ Fits(size)
    /\ intents' = [intents EXCEPT ![k] =
           [id |-> nextId, prev |-> CurrentId(k), reserved |-> size,
            state |-> "reserved", known |-> FALSE, internal |-> internal]]
    /\ reserved' = reserved + size
    /\ nextId' = nextId + 1
    /\ UNCHANGED <<objects, sessions, storage>>

\* The second statement of BeginMultipart.
InsertSession(k) ==
    /\ sessions' = [sessions EXCEPT ![k] =
           [id |-> intents[k].id, status |-> "initiating", known |-> FALSE,
            parts |-> NoParts, pending |-> [n \in Nos |-> None]]]
    /\ UNCHANGED <<objects, intents, storage, reserved>>

ActivateMultipart(k) ==
    /\ sessions' = [sessions EXCEPT ![k].status = "active", ![k].known = TRUE]
    /\ intents' = [intents EXCEPT ![k].state = "uploading", ![k].known = TRUE]
    /\ UNCHANGED <<objects, storage, reserved>>

\* Bytes a reservation holds above those of the part it replaces.
Contribution(pending) == IF pending = None THEN 0 ELSE Max0(pending.req - pending.prev)

SizeOfPart(k, n) ==
    IF n \in DOMAIN sessions[k].parts THEN SizeOf[sessions[k].parts[n]] ELSE 0

\* Mutant: counts the reservation that it replaces a second time.
AdjustmentAgain(k, n, size) ==
    LET old == sessions[k].pending[n]
    IN  Max0(size - (IF old = None THEN SizeOfPart(k, n) ELSE old.prev))

\* Mutant: gives bytes back that the part still stored needs.
AdjustmentEager(k, n, size) ==
    LET old == sessions[k].pending[n]
    IN  size - (IF old = None THEN SizeOfPart(k, n) ELSE old.prev) - Contribution(old)

\* What PrepareMultipartPart has to reserve, or to give back.
Adjustment(k, n, size) ==
    LET old == sessions[k].pending[n]
        prev == IF old = None THEN SizeOfPart(k, n) ELSE old.prev
    IN  Max0(size - prev) - Contribution(old)

PrepareMultipartPart(k, n, size) ==
    LET delta == Adjustment(k, n, size)
        prev == IF sessions[k].pending[n] = None THEN SizeOfPart(k, n)
                ELSE sessions[k].pending[n].prev
    IN  /\ sessions[k].status = "active"
        /\ delta > 0 => Fits(delta)
        /\ reserved' = Max0(reserved + delta)
        /\ intents' = [intents EXCEPT ![k].reserved = Max0(@ + delta)]
        /\ sessions' = [sessions EXCEPT ![k].pending[n] = [prev |-> prev, req |-> size]]
        /\ UNCHANGED <<objects, storage>>

\* CommitMultipartPart: the part is stored, a smaller one gives bytes back.
CommitMultipartPart(k, n, body) ==
    LET delta == -Max0(sessions[k].pending[n].prev - SizeOf[body])
    IN  /\ sessions[k].status = "active"
        /\ sessions[k].pending[n] # None /\ sessions[k].pending[n].req = SizeOf[body]
        /\ reserved' = Max0(reserved + delta)
        /\ intents' = [intents EXCEPT ![k].reserved = Max0(@ + delta)]
        /\ sessions' = [sessions EXCEPT ![k] =
               [@ EXCEPT !.parts = WithParts(sessions[k].parts, Part(n, body)),
                         !.pending[n] = None]]
        /\ UNCHANGED <<objects, storage>>

BeginCompleteMultipart(k) ==
    /\ sessions[k].status = "active"
    /\ \A n \in Nos : sessions[k].pending[n] = None
    /\ sessions' = [sessions EXCEPT ![k].status = "completing"]
    /\ UNCHANGED <<objects, intents, storage, reserved>>

ResetMultipart(k) ==
    /\ sessions[k].status = "completing"
    /\ sessions' = [sessions EXCEPT ![k].status = "active"]
    /\ intents' = [intents EXCEPT ![k].state = "uploading", ![k].known = @ \/ sessions[k].known]
    /\ UNCHANGED <<objects, storage, reserved>>

\* EnsureWriteReservation, before each chunk.
EnsureWriteReservation(k, total) ==
    LET delta == Max0(total - intents[k].reserved)
    IN  /\ delta > 0 => Fits(delta)
        /\ reserved' = reserved + delta
        /\ intents' = [intents EXCEPT ![k].reserved = @ + delta]
        /\ UNCHANGED <<objects, sessions, storage>>

\* updateWriteState.
UpdateWriteState(k, state, known) ==
    /\ intents' = [intents EXCEPT ![k].state = state, ![k].known = @ \/ known]
    /\ UNCHANGED <<objects, sessions, storage, reserved>>

\* CommitWrite refuses bytes that the intent has not reserved, and a version
\* other than the one the intent was opened on.
CommitAllowed(k, body) ==
    /\ BytesOf(body) <= intents[k].reserved
    /\ intents[k].prev = CurrentId(k)

CommitWrite(k, body) ==
    /\ CommitAllowed(k, body)
    /\ objects' = [objects EXCEPT ![k] = [id |-> intents[k].id, body |-> body]]
    /\ storage' = Max0(storage + BytesOf(body) -
                       (IF objects[k] = None THEN 0 ELSE BytesOf(objects[k].body)))
    /\ reserved' = Max0(reserved - intents[k].reserved)
    /\ sessions' = [sessions EXCEPT ![k] = None]
    /\ intents' = [intents EXCEPT ![k] = None]

\* AbortClientMultipart, and AbortWrite where there is no session: the
\* reservation goes with the rows.
Release(k) ==
    /\ reserved' = Max0(reserved - intents[k].reserved)
    /\ sessions' = [sessions EXCEPT ![k] = None]
    /\ intents' = [intents EXCEPT ![k] = None]
    /\ UNCHANGED <<objects, storage>>

FailMultipart(k) ==
    /\ sessions' = [sessions EXCEPT ![k].status = "error"]
    /\ UNCHANGED <<objects, intents, storage, reserved>>

-----------------------------------------------------------------------------
(* Handlers.                                                               *)

Fault == faults < MaxFaults /\ faults' = faults + 1

Goto(k, pc, flow) ==
    h' = [h EXCEPT ![k] = IF pc = "idle" THEN Idle
                          ELSE [@ EXCEPT !.pc = pc, !.flow = flow]]

Stay(k, pc) == Goto(k, pc, h[k].flow)

At(k, pc) == h[k].pc = pc

In(k, flows) == h[k].flow \in flows

Id(k) == intents[k].id

\* A transaction that succeeds, or a failing one that leaves the index alone.
Transaction(k, effect, next, otherwise) ==
    /\ \/ effect /\ Stay(k, next) /\ UNCHANGED faults
       \/ Fault /\ Stay(k, otherwise) /\ UNCHANGED index
    /\ UNCHANGED <<remote, history>>

\* Requests of clients.

Start(k, pc, flow, want) ==
    h' = [h EXCEPT ![k] = [pc |-> pc, flow |-> flow, want |-> want, sent |-> 0]]

Client(k) == At(k, "idle") /\ ~gone

StartCreate(k) ==
    /\ Client(k)
    /\ BeginWrite(k, 0, FALSE)
    /\ Start(k, "insert", "create", NoParts)
    /\ UNCHANGED <<remote, faults, ended, gone>>

\* putChunked: the declared size, when there is one, is reserved at once.
StartPut(k, want, declared) ==
    /\ Client(k)
    /\ BeginWrite(k, IF declared THEN BytesOf(want) ELSE 0, TRUE)
    /\ Start(k, "create", "putstart", want)
    /\ UNCHANGED <<remote, faults, ended, gone>>

StartPart(k, n, body) ==
    /\ Client(k) /\ sessions[k] # None
    /\ PrepareMultipartPart(k, n, SizeOf[body])
    /\ Start(k, "send", "part", Part(n, body))
    /\ UNCHANGED <<remote, faults, history>>

\* The client names parts by the ETags it was given (validateCompletedParts).
StartComplete(k, S) ==
    /\ Client(k) /\ sessions[k] # None
    /\ S # {} /\ S \subseteq DOMAIN sessions[k].parts
    /\ BeginCompleteMultipart(k)
    /\ Start(k, "markCompleting", "complete", [n \in S |-> sessions[k].parts[n]])
    /\ UNCHANGED <<remote, faults, history>>

StartAbort(k) ==
    /\ Client(k) /\ sessions[k] # None
    /\ Start(k, IF sessions[k].known THEN "markAborting" ELSE "release", "abort", NoParts)
    /\ ended' = ended \union {sessions[k].id}
    /\ UNCHANGED <<index, remote, faults, nextId, gone>>

\* Mutant: forgets the sessions that are being completed.
ExpirableIdle(k) == sessions[k] # None /\ sessions[k].status # "completing"

\* ListExpiredMultipart: a session without activity for a day.
Expirable(k) == sessions[k] # None

\* expireMultipartUpload
StartExpire(k) ==
    /\ At(k, "idle") /\ Expirable(k)
    /\ Start(k, IF sessions[k].status = "completing" THEN "head"
                ELSE IF sessions[k].known THEN "markAborting" ELSE "release",
             "expire", NoParts)
    /\ ended' = ended \union {sessions[k].id}
    /\ UNCHANGED <<index, remote, faults, nextId, gone>>

InUse(k) == sessions[k] # None /\ sessions[k].status = "active" /\ intents[k].state = "uploading"

Completing(k) == sessions[k] # None /\ sessions[k].status = "completing"

\* Mutant: takes every session for abandoned.
RecoverableAlways(k) == intents[k] # None

\* Recovery leaves a session alone whose client may still send parts.
Recoverable(k) == intents[k] # None /\ ~InUse(k)

StartRecover(k) ==
    /\ At(k, "idle") /\ Recoverable(k)
    /\ Start(k, IF /\ intents[k].known /\ ~Completing(k)
                   /\ \/ intents[k].state = "aborting"
                      \/ intents[k].internal /\ intents[k].state = "uploading"
                THEN "markAborting" ELSE "head", "recover", NoParts)
    /\ UNCHANGED <<index, remote, faults, history>>

-----------------------------------------------------------------------------
(* Statements of the handlers.                                             *)

Insert(k) == At(k, "insert") /\ Transaction(k, InsertSession(k), "create", "release")

Activate(k) ==
    /\ At(k, "activate")
    /\ \/ ActivateMultipart(k) /\ Stay(k, "idle") /\ UNCHANGED faults
       \/ Fault /\ Goto(k, "abort", "unstarted") /\ UNCHANGED index
    /\ UNCHANGED <<remote, history>>

CreateFailed(k) == At(k, "failed") /\ Transaction(k, FailMultipart(k), "hold", "hold")

KeepPart(k) ==
    LET n == CHOOSE n \in DOMAIN h[k].want : TRUE
    IN  /\ At(k, "keep")
        /\ Transaction(k, CommitMultipartPart(k, n, h[k].want[n]), "idle", "idle")

\* Reset, after a completion that R2 did not carry out.
Restore(k) ==
    /\ At(k, "restore")
    /\ Transaction(k, ResetMultipart(k), "idle", IF In(k, {"recover"}) THEN "idle" ELSE "hold")

Total(want, sent) == BytesOf([n \in 1..sent |-> want[n]])

\* The next chunk, which a limit may refuse, the end of a body that is what the
\* client announced, or of one that is not.
Chunk(k) ==
    LET i == h[k].sent + 1
    IN  /\ At(k, "chunk")
        /\ \/ /\ i \in DOMAIN h[k].want
              /\ \/ /\ EnsureWriteReservation(k, Total(h[k].want, i))
                    /\ Stay(k, "send") /\ UNCHANGED faults
                 \/ /\ Total(h[k].want, i) > intents[k].reserved
                    /\ Stay(k, "markAborting") /\ UNCHANGED <<index, faults>>
                 \/ Fault /\ Stay(k, "markAborting") /\ UNCHANGED index
           \/ /\ i \notin DOMAIN h[k].want
              /\ \E next \in {"markCompleting", "markAborting"} : Stay(k, next)
              /\ UNCHANGED <<index, faults>>
        /\ UNCHANGED <<remote, history>>

\* The state a handler gives its intent, by the step it is at.
StateAt == [markCompleting |-> "completing", markEtag |-> "completing",
            markUploading |-> "uploading", markConsumed |-> "consumed",
            markConflict |-> "aborting", markAborting |-> "aborting",
            markRecovering |-> "aborting", hold |-> "recovery"]

MarkKnows(k) == ~In(k, {"create", "recover"}) /\ h[k].pc \notin {"markCompleting", "markEtag"}

AfterMark == [markCompleting |-> "complete", markEtag |-> "commit",
              markUploading |-> "chunk", markConsumed |-> "head",
              markConflict |-> "release", markAborting |-> "abort",
              markRecovering |-> "head", hold |-> "idle"]

\* What a handler does when the state cannot be stored.
UnlessMarked(k) ==
    CASE At(k, "markCompleting") -> IF In(k, {"put"}) THEN "markAborting" ELSE "restore"
      [] At(k, "markEtag")       -> "hold"
      [] At(k, "markConflict")   -> "release"
      [] At(k, "markAborting") /\ In(k, {"expire", "put", "putresolve"}) -> "abort"
      [] OTHER -> "idle"

Mark(k) ==
    /\ h[k].pc \in DOMAIN StateAt \ {"markUploading"}
    /\ Transaction(k, UpdateWriteState(k, StateAt[h[k].pc], MarkKnows(k)),
                   AfterMark[h[k].pc], UnlessMarked(k))

MarkUploading(k) ==
    /\ At(k, "markUploading")
    /\ \/ UpdateWriteState(k, "uploading", TRUE) /\ Goto(k, "chunk", "put") /\ UNCHANGED faults
       \/ Fault /\ Goto(k, "abort", "unstarted") /\ UNCHANGED index
    /\ UNCHANGED <<remote, history>>

AbortRows(k) == At(k, "release") /\ Transaction(k, Release(k), "idle", "idle")

UnlessCommitted(k) ==
    IF In(k, {"resolve", "abort", "put", "putresolve"}) THEN "hold" ELSE "idle"

Commit(k) ==
    /\ At(k, "commit")
    /\ \/ CommitWrite(k, h[k].want) /\ Stay(k, "idle") /\ UNCHANGED faults
       \/ /\ IF CommitAllowed(k, h[k].want) THEN Fault ELSE UNCHANGED faults
          /\ Stay(k, UnlessCommitted(k))
          /\ UNCHANGED index
    /\ UNCHANGED <<remote, history>>

-----------------------------------------------------------------------------
(* Calls to R2.                                                            *)

Message(k, op) ==
    [op |-> op, key |-> k, id |-> Id(k), prev |-> intents[k].prev, body |-> h[k].want]

\* A completion needs the upload, the parts it names as they are stored, and
\* the version its If-Match or If-None-Match names (physicalPutOptions).
Accepted(m) ==
    /\ uploads[m.id] # None
    /\ \A n \in DOMAIN m.body : n \in DOMAIN uploads[m.id] /\ uploads[m.id][n] = m.body[n]
    /\ m.prev = (IF stored[m.key] = None THEN None ELSE stored[m.key].id)

\* What R2 does on a request.
Effect(m) ==
    CASE m.op = "part" ->
           /\ uploads' = IF uploads[m.id] = None THEN uploads
                         ELSE [uploads EXCEPT ![m.id] = WithParts(@, m.body)]
           /\ UNCHANGED stored
      [] m.op = "complete" ->
           IF Accepted(m)
           THEN /\ stored' = [stored EXCEPT ![m.key] = [id |-> m.id, body |-> m.body]]
                /\ uploads' = [uploads EXCEPT ![m.id] = None]
           ELSE UNCHANGED <<stored, uploads>>
      [] m.op = "abort" ->
           /\ uploads' = [uploads EXCEPT ![m.id] = None]
           /\ UNCHANGED stored

Serve(k, op, next, flow) ==
    /\ Effect(Message(k, op))
    /\ Goto(k, next, flow)
    /\ UNCHANGED <<late, faults>>

\* No answer comes: R2 served the request, or never will, or may do so later.
Unanswered(k, m, next, flow) ==
    /\ Fault
    /\ Goto(k, next, flow)
    /\ \/ Effect(m) /\ UNCHANGED late
       \/ /\ late' = IF m.op \in LateOps THEN late \union {m} ELSE late
          /\ UNCHANGED <<stored, uploads>>

\* R2 refuses for good, by a status that isDefinitiveWriteRejection knows.
Refused(k, next, flow) == Fault /\ Goto(k, next, flow) /\ UNCHANGED remote

LateEffect(m) ==
    /\ m \in late
    /\ Effect(m)
    /\ late' = late \ {m}
    /\ UNCHANGED <<index, h, faults, history>>

\* CreateMultipart: an upload whose answer is lost is never heard of again.
\* putChunked gives up its intent in either case.
RemoteCreate(k) ==
    /\ At(k, "create")
    /\ \/ /\ uploads' = [uploads EXCEPT ![Id(k)] = NoParts]
          /\ Stay(k, IF In(k, {"create"}) THEN "activate" ELSE "markUploading")
          /\ UNCHANGED <<stored, late, faults>>
       \/ Refused(k, "release", h[k].flow)
       \/ In(k, {"create"}) /\ Refused(k, "failed", "create")
    /\ UNCHANGED <<index, history>>

\* The part of a session, or the next chunk.
SentPart(k) ==
    [Message(k, "part") EXCEPT !.body =
        IF In(k, {"part"}) THEN h[k].want
        ELSE Part(h[k].sent + 1, h[k].want[h[k].sent + 1])]

RemotePart(k) ==
    LET failed == IF In(k, {"part"}) THEN "idle" ELSE "markAborting"
    IN  /\ At(k, "send")
        /\ \/ /\ uploads[Id(k)] # None
              /\ Effect(SentPart(k))
              /\ h' = [h EXCEPT ![k].pc = IF In(k, {"part"}) THEN "keep" ELSE "chunk",
                                ![k].sent = IF In(k, {"part"}) THEN 0 ELSE @ + 1]
              /\ UNCHANGED <<late, faults>>
           \/ uploads[Id(k)] = None /\ Stay(k, failed) /\ UNCHANGED <<remote, faults>>
           \/ Unanswered(k, SentPart(k), failed, h[k].flow)
        /\ UNCHANGED <<index, history>>

Resolving(k) == IF In(k, {"put"}) THEN "putresolve" ELSE "resolve"

\* CompleteMultipart.  R2 answers, has no such upload, does not accept the
\* parts, answers nothing, refuses (429, 401, 403), or refuses and drops the
\* upload (409, 412).
RemoteComplete(k) ==
    LET m == Message(k, "complete")
    IN  /\ At(k, "complete")
        /\ \/ Accepted(m) /\ Serve(k, "complete", "markEtag", h[k].flow) /\ UNCHANGED ended
           \/ /\ uploads[m.id] = None
              /\ IF In(k, {"put"}) THEN Goto(k, "head", "putresolve")
                 ELSE Goto(k, "markConsumed", "consumed")
              /\ UNCHANGED <<remote, faults, ended>>
           \/ /\ uploads[m.id] # None /\ ~Accepted(m)
              /\ Goto(k, "head", Resolving(k))
              /\ UNCHANGED <<remote, faults, ended>>
           \/ Unanswered(k, m, "head", Resolving(k)) /\ UNCHANGED ended
           \/ /\ Refused(k, IF In(k, {"put"}) THEN "markAborting" ELSE "restore", h[k].flow)
              /\ UNCHANGED ended
           \/ /\ uploads[m.id] # None /\ Fault
              /\ uploads' = [uploads EXCEPT ![m.id] = None]
              /\ Stay(k, IF In(k, {"put"}) THEN "markAborting" ELSE "markConflict")
              /\ ended' = ended \union {m.id}
              /\ UNCHANGED <<stored, late>>
        /\ UNCHANGED <<index, nextId, gone>>

\* AbortMultipart; that there is no such upload is as good.
RemoteAbort(k) ==
    /\ At(k, "abort")
    /\ \/ Serve(k, "abort",
                IF In(k, {"unstarted", "put"}) THEN "release" ELSE "classify", h[k].flow)
       \/ Unanswered(k, Message(k, "abort"),
                     IF In(k, {"expire", "consumed", "put"}) THEN "idle" ELSE "hold", h[k].flow)
    /\ UNCHANGED <<index, history>>

\* classifyWriteIntentRemote: whose version is at the key.
Verdict(k) ==
    CASE stored[k] = None -> IF intents[k].prev = None THEN "absent" ELSE "ambiguous"
      [] stored[k] # None /\ stored[k].id = Id(k) -> "published"
      [] stored[k] # None /\ stored[k].id = intents[k].prev -> "previous"
      [] OTHER -> "ambiguous"

\* What the HEAD of an upload that was not published leads to.
Unpublished(k) ==
    IF At(k, "classify") THEN "release" ELSE
    CASE In(k, {"resolve"}) -> "restore"
      [] In(k, {"consumed", "putresolve"}) -> "markAborting"
      [] In(k, {"expire"}) -> IF sessions[k].known THEN "markAborting" ELSE "release"
      [] In(k, {"recover"}) ->
           CASE Completing(k) /\ intents[k].state = "consumed" -> "markRecovering"
             [] Completing(k) /\ intents[k].state = "aborting" -> "markAborting"
             [] Completing(k) /\ intents[k].state \notin {"consumed", "aborting"} -> "restore"
             [] sessions[k] # None /\ ~Completing(k) ->
                  IF sessions[k].known THEN "markAborting" ELSE "idle"
             [] sessions[k] = None ->
                  IF intents[k].internal /\ intents[k].known THEN "markAborting" ELSE "release"

\* Mutant: takes a HEAD that fails for the proof that nothing was published.
UncertainReleases(k) == "release"

\* ... and one that fails or proves nothing.
Uncertain(k) ==
    IF \/ In(k, {"expire", "consumed"})
       \/ /\ In(k, {"recover"}) /\ At(k, "head")
          /\ Completing(k) /\ intents[k].state \in {"consumed", "aborting"}
    THEN "idle" ELSE "hold"

Head(k) ==
    /\ h[k].pc \in {"head", "classify"}
    /\ \/ /\ Verdict(k) = "published"
          /\ h' = [h EXCEPT ![k].pc = "commit", ![k].want = stored[k].body]
          /\ UNCHANGED faults
       \/ /\ Verdict(k) \in {"absent", "previous"}
          /\ Stay(k, Unpublished(k))
          /\ UNCHANGED faults
       \/ /\ IF Verdict(k) = "ambiguous" THEN UNCHANGED faults ELSE Fault
          /\ Stay(k, Uncertain(k))
    /\ UNCHANGED <<index, remote, history>>

-----------------------------------------------------------------------------
(* The process dies: handlers are gone, rows and R2 stay.                  *)
Crash ==
    /\ \E k \in Keys : ~At(k, "idle")
    /\ Fault
    /\ h' = [k \in Keys |-> Idle]
    /\ UNCHANGED <<index, remote, history>>

\* The clients go away, for the liveness property.
Leave == ~gone /\ gone' = TRUE /\ UNCHANGED <<index, remote, h, nextId, faults, ended>>

Step(k) ==
    \/ Insert(k) \/ Activate(k) \/ CreateFailed(k) \/ KeepPart(k)
    \/ Restore(k) \/ Chunk(k) \/ Mark(k) \/ MarkUploading(k)
    \/ AbortRows(k) \/ Commit(k)
    \/ RemoteCreate(k) \/ RemotePart(k) \/ RemoteComplete(k)
    \/ RemoteAbort(k) \/ Head(k)

Request(k) ==
    \/ StartCreate(k) \/ StartAbort(k)
    \/ \E n \in Nos, body \in Bodies : StartPart(k, n, body)
    \/ \E S \in SUBSET Nos : StartComplete(k, S)
    \/ \E n \in Nos, declared \in BOOLEAN :
          \E want \in [1..n -> Bodies] : StartPut(k, want, declared)

\* The object there may be when the first upload begins.
Init ==
    /\ objects \in [Keys -> {None} \union [id : {1}, body : [{1} -> Bodies]]]
    /\ intents = [k \in Keys |-> None]
    /\ sessions = [k \in Keys |-> None]
    /\ storage = StoredBytes
    /\ Overflow \/ storage <= Limit
    /\ reserved = 0
    /\ stored = objects
    /\ uploads = [id \in Ids |-> None]
    /\ late = {}
    /\ h = [k \in Keys |-> Idle]
    /\ nextId = 2
    /\ faults = 0
    /\ ended = {}
    /\ gone = FALSE

Next ==
    \/ \E k \in Keys : Step(k) \/ Request(k) \/ StartExpire(k) \/ StartRecover(k)
    \/ \E m \in late : LateEffect(m)
    \/ Crash
    \/ Leave

Spec == Init /\ [][Next]_vars

-----------------------------------------------------------------------------
(* Safety.                                                                 *)

\* The rows, R2's uploads and the handlers have their type.
TypeOK ==
    /\ objects \in [Keys -> Object \union {None}]
    /\ intents \in [Keys -> Intent \union {None}]
    /\ sessions \in [Keys -> Session \union {None}]
    /\ storage \in Nat /\ reserved \in Nat
    /\ stored \in [Keys -> Object \union {None}]
    /\ uploads \in [Ids -> Assembled \union {None}]
    /\ h \in [Keys -> Handler]
    /\ nextId \in 1..MaxIds + 1 /\ faults \in 0..MaxFaults

\* What the parts of a session need: for each the larger of the part stored and
\* the part on its way.
Held(k) ==
    SumFunction([n \in Nos |-> SizeOfPart(k, n) + Contribution(sessions[k].pending[n])])

PartsReserved ==
    /\ \A k \in Keys : sessions[k] # None => intents[k].reserved = Held(k)
    /\ reserved = ReservedBytes
    /\ Overflow \/ storage + reserved <= Limit

\* Rows have their type and the ledger of reservations is exact, whatever parts
\* are sent again, in whatever sizes, with whatever outcome: a session's intent
\* holds what its parts need, the bucket what the intents hold, and both are
\* within the limit unless the bucket may overflow.  The MAX(..., 0) of the
\* statements would hide a byte given back twice.
SessionsSound == TypeOK /\ PartsReserved

\* R2 and the index never drift apart unnoticed: the key holds the indexed
\* version, or the one of a pending intent that will index it.
StoredOrPending ==
    \A k \in Keys : stored[k] # objects[k] =>
        /\ stored[k] # None /\ intents[k] # None
        /\ stored[k].id = intents[k].id
        /\ objects[k] # None => intents[k].prev = objects[k].id

\* An object that R2 has assembled can be indexed: it fits in what its intent
\* still holds and replaces the version the intent was opened on.  No part is
\* sent again until it is known how the completion went.  The property needs
\* that R2 carries out no completion after its answer was given up: a restored
\* session may by then reserve less than the parts that R2 stores.
PublishedFits ==
    \A k \in Keys : (intents[k] # None /\ stored[k] # None /\ stored[k].id = intents[k].id)
                    => CommitAllowed(k, stored[k].body)

\* A session ends by its object's being indexed, by the client's abort, by its
\* expiry or by R2's refusal.  Neither crashes nor recovery nor failing
\* statements end a session whose client may still complete it.
OnlyEndedAborted ==
    [][\A k \in Keys :
         (/\ sessions[k] # None /\ sessions[k].status \in {"active", "completing"}
          /\ sessions'[k] = None /\ sessions[k].id \notin ended)
         => objects'[k] # None /\ objects'[k].id = sessions[k].id]_vars

-----------------------------------------------------------------------------
(* Liveness.                                                               *)

(***************************************************************************)
(* Handlers run to their end.  The hourly expiry skips a key whose mutex   *)
(* is taken; it is free again and again, and expiry gets it at some time:  *)
(* strong fairness.  Nothing makes a recovery begin: every start tries one *)
(* for half a minute, and no schedule contains it.                         *)
(***************************************************************************)
Fairness == \A k \in Keys : WF_vars(Step(k)) /\ SF_vars(StartExpire(k))

FairSpec == Spec /\ Fairness

\* Once the clients are gone, expiry ends every session and none comes back, also
\* if no recovery is ever run.  An intent without a session, of a chunked PUT that
\* was cut short or of a creation whose rows could not be released, has nobody
\* but a recovery: it may keep its key and its reservation for ever.
SessionsEnd == \A k \in Keys : gone ~> [](sessions[k] = None)

=============================================================================
