--------------------------- MODULE R2WritesProofs ---------------------------
(***************************************************************************)
(* What holds of the write path for every set of keys, buckets, accounts,  *)
(* contents and clients and any number of ids and faults, late arrivals    *)
(* included.                                                               *)
(*                                                                         *)
(* The argument.  IInv is inductive.  It says that the rows are well       *)
(* formed; that a delete names the object it deletes; that a bucket under  *)
(* maintenance has no intent (MaintenanceExcludesWrites); and that the     *)
(* handlers in progress work on distinct keys, each on an intent that is   *)
(* still there, has the id it drew and the operation it is about           *)
(* (HandlersInv).  Without the last part a handler could settle a row that *)
(* another one opened, and neither the locks nor the types would survive.  *)
(* The first part of the module has one lemma per transaction of R2Index   *)
(* (it preserves IndexInv) and one per action of R2Writes.  The second     *)
(* part reduces a step to what it does to the rows (IndexMoves), and from  *)
(* there proves the fence of a pending cleanup and that the version under  *)
(* a pending mutation cannot change.  The third part, which has a comment  *)
(* of its own, is about the byte counters, the commits and what is stored. *)
(***************************************************************************)
EXTENDS R2Writes, SumTheorems

\* A put carries bytes; a delete names the indexed object it removes.
IntentsWellFormed ==
    \A k \in Keys : intents[k] # None =>
        IF intents[k].op = "put" THEN intents[k].body \in Contents
        ELSE HasPrevious(k)

\* The part of the invariant that only the index can break.
IndexInv == RowsTypeOK /\ IntentsWellFormed /\ MaintenanceExcludesWrites

\* BeginWrite keeps the rows well formed and opens a well-formed intent.
LEMMA BeginWriteStep ==
    ASSUME IndexInv, NEW k \in Keys, NEW body \in Contents, NEW cond \in Conditions,
           NEW b \in Buckets, BeginWrite(k, body, cond, b)
    PROVE  IndexInv' /\ intents'[k] \in Intent
<1> USE IndexAssumption
<1>1. RowsTypeOK' /\ intents'[k] \in Intent
  <2>1. CurrentId(k) \in Nat
    BY DEF IndexInv, RowsTypeOK, CurrentId, Object, Ids, NoId
  <2>2. [id |-> nextId, bucket |-> b, prev |-> CurrentId(k),
            reserved |-> SizeOf[body], op |-> "put", state |-> "reserved",
            etag |-> None, body |-> body, cond |-> cond] \in Intent
    BY <2>1 DEF IndexInv, RowsTypeOK, Intent, WriteStates
  <2> QED
    BY <2>2 DEF IndexInv, RowsTypeOK, BeginWrite, Ids, NoId
<1>2. IntentsWellFormed'
  BY DEF IndexInv, RowsTypeOK, IntentsWellFormed, BeginWrite, HasPrevious, CurrentId, NoId
<1>3. MaintenanceExcludesWrites'
  BY DEF IndexInv, RowsTypeOK, MaintenanceExcludesWrites, BeginWrite, Eligible
<1> QED
  BY <1>1, <1>2, <1>3 DEF IndexInv

\* BeginDeleteWrite does too; the bucket of the object is not locked.
LEMMA BeginDeleteWriteStep ==
    ASSUME IndexInv, NEW k \in Keys, NEW cond \in Conditions, BeginDeleteWrite(k, cond)
    PROVE  IndexInv' /\ intents'[k] \in Intent
<1> USE IndexAssumption
<1>1. RowsTypeOK' /\ intents'[k] \in Intent
  <2>1. [id |-> nextId, bucket |-> objects[k].bucket, prev |-> objects[k].id,
            reserved |-> 0, op |-> "delete", state |-> "deleting",
            etag |-> None, body |-> None, cond |-> cond] \in Intent
    BY DEF IndexInv, RowsTypeOK, Intent, WriteStates, BeginDeleteWrite, Object, Ids
  <2> QED
    BY <2>1 DEF IndexInv, RowsTypeOK, BeginDeleteWrite, Ids, NoId
<1>2. IntentsWellFormed'
  BY DEF IndexInv, RowsTypeOK, IntentsWellFormed, BeginDeleteWrite, HasPrevious,
         CurrentId, NoId, Object, Ids
<1>3. MaintenanceExcludesWrites'
  BY DEF IndexInv, RowsTypeOK, MaintenanceExcludesWrites, BeginDeleteWrite
<1> QED
  BY <1>1, <1>2, <1>3 DEF IndexInv

\* A change of state leaves the identity and the operation of the intent.
LEMMA UpdateWriteStateStep ==
    ASSUME IndexInv, NEW k \in Keys, intents[k] # None, NEW state \in WriteStates,
           NEW etag \in Contents \union {None}, UpdateWriteState(k, state, etag)
    PROVE  /\ IndexInv'
           /\ intents'[k] \in Intent
           /\ intents'[k].id = intents[k].id /\ intents'[k].op = intents[k].op
           /\ \A j \in Keys : j # k => intents'[j] = intents[j]
<1> USE IndexAssumption
<1> DEFINE kept == IF etag = None THEN intents[k].etag ELSE etag
<1>1. /\ RowsTypeOK' /\ intents'[k] \in Intent
      /\ intents'[k].id = intents[k].id /\ intents'[k].op = intents[k].op
      /\ \A j \in Keys : j # k => intents'[j] = intents[j]
  <2>1. intents[k] \in Intent
    BY DEF IndexInv, RowsTypeOK
  <2>2. [intents[k] EXCEPT !.state = state, !.etag = kept] \in Intent
    BY <2>1 DEF Intent
  <2>3. intents' = [intents EXCEPT ![k] = [intents[k] EXCEPT !.state = state, !.etag = kept]]
    BY <2>1 DEF IndexInv, RowsTypeOK, UpdateWriteState, Intent
  <2> QED
    BY <2>1, <2>2, <2>3 DEF IndexInv, RowsTypeOK, UpdateWriteState, Intent
<1>2. IntentsWellFormed'
  BY DEF IndexInv, RowsTypeOK, IntentsWellFormed, UpdateWriteState, HasPrevious,
         CurrentId, Intent
<1>3. MaintenanceExcludesWrites'
  BY DEF IndexInv, RowsTypeOK, MaintenanceExcludesWrites, UpdateWriteState, Intent
<1> QED
  BY <1>1, <1>2, <1>3 DEF IndexInv

\* AbortWrite drops one intent.
LEMMA AbortWriteStep ==
    ASSUME IndexInv, NEW k \in Keys, AbortWrite(k)
    PROVE  IndexInv'
BY IndexAssumption DEF IndexInv, RowsTypeOK, IntentsWellFormed, HasPrevious, CurrentId,
    MaintenanceExcludesWrites, AbortWrite

\* The previous version that an intent names is an indexed object.
LEMMA PreviousExists ==
    ASSUME IndexInv, NEW k \in Keys, HasPrevious(k)
    PROVE  objects[k] \in Object
BY DEF IndexInv, RowsTypeOK, HasPrevious, CurrentId

\* CommitWrite replaces the object and closes the intent, and may record a
\* cleanup.
LEMMA CommitWriteStep ==
    ASSUME IndexInv, NEW k \in Keys, intents[k] # None, NEW etag \in Contents,
           CommitWrite(k, etag)
    PROVE  IndexInv'
<1> USE IndexAssumption
<1>1. RowsTypeOK'
  <2>1. intents[k] \in Intent
    BY DEF IndexInv, RowsTypeOK
  <2>2. [id |-> intents[k].id, bucket |-> intents[k].bucket, pkey |-> k, etag |-> etag]
            \in Object
    BY <2>1 DEF Object, Intent
  <2>3. cleanups' \in [Places -> Contents \union {None}]
    <3>1. CASE PreviousNeedsCleanup(k)
      <4>1. objects[k] \in Object
        BY <3>1, PreviousExists DEF PreviousNeedsCleanup
      <4> QED
        BY <3>1, <4>1 DEF IndexInv, RowsTypeOK, CommitWrite, Object
    <3>2. CASE ~PreviousNeedsCleanup(k)
      BY <3>2 DEF IndexInv, RowsTypeOK, CommitWrite
    <3> QED
      BY <3>1, <3>2
  <2> QED
    BY <2>2, <2>3 DEF IndexInv, RowsTypeOK, CommitWrite
<1>2. IntentsWellFormed'
  BY DEF IndexInv, RowsTypeOK, IntentsWellFormed, CommitWrite, HasPrevious, CurrentId
<1>3. MaintenanceExcludesWrites'
  BY DEF IndexInv, RowsTypeOK, MaintenanceExcludesWrites, CommitWrite
<1> QED
  BY <1>1, <1>2, <1>3 DEF IndexInv

\* CommitDeleteWrite removes the object and closes the intent.
LEMMA CommitDeleteWriteStep ==
    ASSUME IndexInv, NEW k \in Keys, CommitDeleteWrite(k)
    PROVE  IndexInv'
BY IndexAssumption DEF IndexInv, RowsTypeOK, IntentsWellFormed, HasPrevious, CurrentId,
    MaintenanceExcludesWrites, CommitDeleteWrite

\* AcquireBucketMaintenance only locks a bucket without pending mutations.
LEMMA AcquireStep ==
    ASSUME IndexInv, NEW b \in Buckets, AcquireBucketMaintenance(b)
    PROVE  IndexInv'
BY IndexAssumption DEF IndexInv, RowsTypeOK, IntentsWellFormed, HasPrevious, CurrentId,
    MaintenanceExcludesWrites, AcquireBucketMaintenance, Active, Intent

\* Releasing locks, one of them or all, excludes nothing.
\* b is the bucket, or the set of buckets.
LEMMA UnlockStep ==
    ASSUME IndexInv, NEW b, UNCHANGED <<objects, intents, cleanups, nextId>>,
           \/ locked' = [locked EXCEPT ![b] = FALSE]
           \/ locked' = [d \in Buckets |-> IF d \in b THEN FALSE ELSE locked[d]]
    PROVE  IndexInv'
BY IndexAssumption DEF IndexInv, RowsTypeOK, IntentsWellFormed, HasPrevious, CurrentId,
    MaintenanceExcludesWrites, Intent

\* CompletePhysicalCleanup forgets the old copy and unlocks.
LEMMA CompletePhysicalCleanupStep ==
    ASSUME IndexInv, NEW place, CompletePhysicalCleanup(place)
    PROVE  IndexInv'
BY IndexAssumption DEF IndexInv, RowsTypeOK, IntentsWellFormed, HasPrevious, CurrentId,
    MaintenanceExcludesWrites, Intent, CompletePhysicalCleanup

\* AdoptObject inserts a row where there is none; no delete is pending there.
LEMMA AdoptObjectStep ==
    ASSUME IndexInv, NEW b \in Buckets, NEW k \in Keys, NEW etag \in Contents,
           AdoptObject(b, k, etag)
    PROVE  IndexInv'
BY IndexAssumption DEF IndexInv, RowsTypeOK, IntentsWellFormed, HasPrevious, CurrentId,
    MaintenanceExcludesWrites, AdoptObject, Object, Ids, NoId

-----------------------------------------------------------------------------
(* The buckets, the job and the handlers.                                  *)

\* What lies in the buckets and what is still on its way.
RemoteOK ==
    /\ remote \in [Places -> Remote \union {None}]
    /\ late \subseteq Message
    /\ \A message \in late : message.kind = "put" => message.etag \in Contents

\* The work of the job on a bucket, on those of an account, or on the intents.  Only
\* adoption has objects to import.
ChoreOK ==
    chore # None =>
        /\ chore \in Chore
        /\ chore.kind # "recover" => chore.kind \in Chores
        /\ chore.kind \in {"cleanup", "scan"} => chore.todo = {}

\* The four kinds of work of the job, put together ...
LEMMA ChoreMade ==
    /\ \A b \in Buckets, k \in Keys, pc \in {"head", "delete", "confirm"} :
          [kind |-> "cleanup", pc |-> pc, bucket |-> b, key |-> k,
           todo |-> {}, bytes |-> 0] \in Chore
    /\ \A kind \in {"adopt", "scan"}, pc \in {"list", "import"}, b \in Buckets,
          k \in Keys \union {None}, todo \in SUBSET Keys, bytes \in Nat :
          [kind |-> kind, pc |-> pc, bucket |-> b, key |-> k,
           todo |-> todo, bytes |-> bytes] \in Chore
    /\ \A a \in Accounts, observed \in [Buckets -> Figures], held \in SUBSET Buckets :
          [kind |-> "capacity", account |-> a, observed |-> observed, held |-> held] \in Chore
    /\ \A todo \in SUBSET Ids : [kind |-> "recover", todo |-> todo] \in Chore
BY Zenon DEF Chore

\* ... and taken apart.
LEMMA ChoreParts ==
    ASSUME ChoreOK, chore # None
    PROVE  /\ chore.kind = "cleanup" =>
                 /\ chore = [kind |-> "cleanup", pc |-> chore.pc, bucket |-> chore.bucket,
                             key |-> chore.key, todo |-> {}, bytes |-> 0]
                 /\ chore.pc \in {"head", "delete", "confirm"}
                 /\ chore.bucket \in Buckets /\ chore.key \in Keys
           /\ chore.kind \in {"adopt", "scan"} =>
                 /\ chore = [kind |-> chore.kind, pc |-> chore.pc, bucket |-> chore.bucket,
                             key |-> chore.key, todo |-> chore.todo, bytes |-> chore.bytes]
                 /\ chore.pc \in {"list", "import"} /\ chore.bucket \in Buckets
                 /\ chore.key \in Keys \union {None} /\ chore.todo \in SUBSET Keys
                 /\ chore.bytes \in Nat
                 /\ chore.kind # "adopt" => chore.todo = {}
           /\ chore.kind = "capacity" =>
                 /\ chore = [kind |-> "capacity", account |-> chore.account,
                             observed |-> chore.observed, held |-> chore.held]
                 /\ chore.account \in Accounts /\ chore.observed \in [Buckets -> Figures]
                 /\ chore.held \in SUBSET Buckets
           /\ chore.kind = "recover" =>
                 /\ chore = [kind |-> "recover", todo |-> chore.todo]
                 /\ chore.todo \in SUBSET Ids
           /\ chore.kind \in {"cleanup", "adopt", "scan", "capacity", "recover"}
<1> DEFINE Cleanups == [kind : {"cleanup"}, pc : {"head", "delete", "confirm"},
                        bucket : Buckets, key : Keys, todo : {{}}, bytes : {0}]
           Scans == [kind : {"adopt", "scan"}, pc : {"list", "import"}, bucket : Buckets,
                     key : Keys \union {None}, todo : SUBSET Keys, bytes : Nat]
           Syncs == [kind : {"capacity"}, account : Accounts, observed : [Buckets -> Figures],
                     held : SUBSET Buckets]
           Passes == [kind : {"recover"}, todo : SUBSET Ids]
<1>1. \/ chore \in Cleanups \/ chore \in Scans \/ chore \in Syncs \/ chore \in Passes
  BY DEF ChoreOK, Chore
<1>2. CASE chore \in Cleanups
  BY <1>2
<1>3. CASE chore \in Scans
  BY <1>3 DEF ChoreOK
<1>4. CASE chore \in Syncs
  BY <1>4
<1>5. CASE chore \in Passes
  BY <1>5
<1> QED
  BY <1>1, <1>2, <1>3, <1>4, <1>5

\* r is the state of a handler of intent; once R2 is known to hold the bytes of a
\* put the handler knows their ETag.
Deleting == {"delete", "redelete"}

Awaits(r) == \/ r.pc \in {"published", "completing"}
             \/ r.pc = "seen" /\ r.seen = "published"

Handles(r, intent) ==
    /\ intent # None
    /\ intent.id = r.id
    /\ (r.op \in Deleting) <=> (intent.op = "delete")
    /\ r.op = "recover" => r.pc \in {"unsure", "seen"}
    /\ Awaits(r) => r.etag \in Contents

\* Every handler has an intent of its own, on a key of its own.
HandlersInv ==
    /\ req \in [Procs -> Request \union {None}]
    /\ \A p \in Procs : req[p] # None => Handles(req[p], intents[req[p].key])
    /\ \A p, q \in Procs :
          req[p] # None /\ req[q] # None /\ req[p].key = req[q].key => p = q

\* The inductive invariant.
IInv == IndexInv /\ RemoteOK /\ HandlersInv /\ ChoreOK

\* A handler that returns leaves the others on their own intents.
LEMMA HandlerEnds ==
    ASSUME HandlersInv, NEW p \in Procs, req[p] # None, Done(p),
           \A j \in Keys : j # req[p].key => intents'[j] = intents[j]
    PROVE  HandlersInv'
BY DEF HandlersInv, Done, Handles, Awaits, Request

\* A handler that moves on keeps its key, and its intent stays its own.
LEMMA HandlerContinues ==
    ASSUME HandlersInv, NEW p \in Procs, req[p] # None,
           NEW r \in Request, r.key = req[p].key, req' = [req EXCEPT ![p] = r],
           Handles(r, intents'[req[p].key]),
           \A j \in Keys : j # req[p].key => intents'[j] = intents[j]
    PROVE  HandlersInv'
<1>1. req' \in [Procs -> Request \union {None}]
  BY DEF HandlersInv
<1>2. \A q \in Procs : q # p /\ req[q] # None => req[q].key # req[p].key
  BY DEF HandlersInv
<1>3. \A q \in Procs : q # p => req'[q] = req[q]
  BY DEF HandlersInv
<1>4. req'[p] = r
  BY DEF HandlersInv
<1>5. ASSUME NEW q \in Procs, req'[q] # None
      PROVE  Handles(req'[q], intents'[req'[q].key])
  <2>1. CASE q = p
    BY <2>1, <1>4
  <2>2. CASE q # p
    <3>1. req[q] # None /\ req[q].key \in Keys /\ req[q].key # req[p].key
      BY <2>2, <1>5, <1>2, <1>3 DEF HandlersInv, Request
    <3> QED
      BY <2>2, <3>1, <1>3 DEF HandlersInv, Handles, Awaits
  <2> QED
    BY <2>1, <2>2
<1>6. ASSUME NEW q \in Procs, NEW s \in Procs, req'[q] # None, req'[s] # None,
             req'[q].key = req'[s].key
      PROVE  q = s
  BY <1>6, <1>2, <1>3, <1>4 DEF HandlersInv
<1> QED
  BY <1>1, <1>5, <1>6 DEF HandlersInv, Handles, Awaits

\* A handler that starts on a free key joins the others.
LEMMA HandlerStarts ==
    ASSUME HandlersInv, NEW p \in Procs, req[p] = None, NEW k \in Keys, KeyFree(k),
           NEW r \in Request, r.key = k, req' = [req EXCEPT ![p] = r],
           Handles(r, intents'[k]),
           \A j \in Keys : j # k => intents'[j] = intents[j]
    PROVE  HandlersInv'
<1>1. req' \in [Procs -> Request \union {None}]
  BY DEF HandlersInv
<1>2. \A q \in Procs : req[q] # None => req[q].key # k
  BY DEF KeyFree, HeldKeys
<1>3. \A q \in Procs : q # p => req'[q] = req[q]
  BY DEF HandlersInv
<1>4. req'[p] = r
  BY DEF HandlersInv
<1>5. ASSUME NEW q \in Procs, req'[q] # None
      PROVE  Handles(req'[q], intents'[req'[q].key])
  <2>1. CASE q = p
    BY <2>1, <1>4
  <2>2. CASE q # p
    <3>1. req[q] # None /\ req[q].key \in Keys /\ req[q].key # k
      BY <2>2, <1>5, <1>2, <1>3 DEF HandlersInv, Request
    <3> QED
      BY <2>2, <3>1, <1>3 DEF HandlersInv, Handles, Awaits
  <2> QED
    BY <2>1, <2>2
<1>6. ASSUME NEW q \in Procs, NEW s \in Procs, req'[q] # None, req'[s] # None,
             req'[q].key = req'[s].key
      PROVE  q = s
  BY <1>6, <1>2, <1>3, <1>4 DEF HandlersInv
<1> QED
  BY <1>1, <1>5, <1>6 DEF HandlersInv, Handles, Awaits

-----------------------------------------------------------------------------
\* What a handler sends is well formed; a put carries bytes.
LEMMA OutgoingIsMessage ==
    ASSUME IInv, NEW p \in Procs, req[p] # None, req[p].pc = "sending"
    PROVE  /\ Outgoing(p) \in Message
           /\ Outgoing(p).etag \in Contents \union {None}
           /\ req[p].op \in {"put", "move"} => Outgoing(p).etag \in Contents
<1> DEFINE k == req[p].key
<1> USE IndexAssumption
<1>1. req[p] \in Request /\ k \in Keys /\ Handles(req[p], intents[k])
  BY DEF IInv, HandlersInv, Request
<1>2. intents[k] \in Intent
  BY <1>1 DEF IInv, IndexInv, RowsTypeOK, Handles
<1>3. CASE req[p].op \in {"put", "move"}
  <2>1. intents[k].op = "put"
    BY <1>1, <1>2, <1>3 DEF Handles, Intent, Deleting
  <2>2. intents[k].body \in Contents
    BY <1>1, <2>1 DEF IInv, IndexInv, IntentsWellFormed, Handles
  <2>3. PutMatch(k) \in Contents \union {None}
    BY <1>1, PreviousExists DEF IInv, PutMatch, PreviousAtTarget, Object
  <2>4. TargetOf(k) \in Places
    BY <1>1, <1>2 DEF TargetOf, Places, Intent
  <2> QED
    BY <1>1, <1>3, <2>2, <2>3, <2>4 DEF Outgoing, Message, Request, Ids
<1>4. CASE req[p].op \notin {"put", "move"}
  <2>1. intents[k].op # "put"
    BY <1>1, <1>4 DEF Handles, Deleting, Request, Operations
  <2>2. objects[k] \in Object
    BY <1>1, <2>1, PreviousExists DEF IInv, IndexInv, IntentsWellFormed, Handles
  <2>3. PlaceOf(objects[k]) \in Places
    BY <2>2 DEF PlaceOf, Places, Object
  <2> QED
    BY <1>4, <2>3 DEF Outgoing, Message, NoId
<1> QED
  BY <1>3, <1>4

\* What a request leaves in a bucket is well formed.
LEMMA AfterOK ==
    ASSUME RemoteOK, NEW message \in Message,
           message.kind = "put" => message.etag \in Contents
    PROVE  After(message) \in [Places -> Remote \union {None}]
BY DEF RemoteOK, After, Message, Remote

\* The deletion that a cleanup sends is well formed.
LEMMA CleanupMessageOK ==
    ASSUME chore.bucket \in Buckets, chore.key \in Keys
    PROVE  CleanupMessage \in Message
BY DEF CleanupMessage, CleanupPlace, Message, Places, NoId

\* A step that leaves the buckets alone.
LEMMA RemoteUnchanged ==
    ASSUME RemoteOK, UNCHANGED <<remote, late>>
    PROVE  RemoteOK'
BY DEF RemoteOK

\* A step that leaves the work of the job on a bucket alone.
LEMMA ChoreUnchanged ==
    ASSUME ChoreOK, UNCHANGED chore
    PROVE  ChoreOK'
BY DEF ChoreOK

\* BeginPut preserves the invariant.
LEMMA BeginPutStep ==
    ASSUME IInv, NEW p \in Clients, NEW k \in Keys, NEW body \in Contents,
           NEW cond \in Conds, NEW b \in Buckets, BeginPut(p, k, body, cond, b)
    PROVE  IInv'
<1> DEFINE r == [op |-> "put", pc |-> "begun", key |-> k, id |-> nextId,
                 seen |-> "none", etag |-> None]
<1> USE IndexAssumption, WritesAssumption
<1>1. IndexInv' /\ intents'[k] \in Intent
  BY BeginWriteStep DEF IInv, BeginPut
<1>2. r \in Request
  BY DEF IInv, IndexInv, RowsTypeOK, Request, Operations, Steps, Verdicts
<1>3. Handles(r, intents'[k])
  BY <1>1 DEF IInv, IndexInv, RowsTypeOK, BeginPut, BeginWrite, Handles, Deleting, Awaits,
              Intent
<1>4. HandlersInv'
  BY <1>2, <1>3, HandlerStarts DEF IInv, IndexInv, RowsTypeOK, BeginPut, BeginWrite, Start, Procs
<1> QED
  BY <1>1, <1>4, RemoteUnchanged, ChoreUnchanged DEF IInv, BeginPut

\* BeginDelete preserves the invariant.
LEMMA BeginDeleteStep ==
    ASSUME IInv, NEW p \in Clients, NEW k \in Keys, NEW cond \in Conds,
           BeginDelete(p, k, cond)
    PROVE  IInv'
<1> DEFINE r == [op |-> "delete", pc |-> "begun", key |-> k, id |-> nextId,
                 seen |-> "none", etag |-> None]
<1> USE IndexAssumption, WritesAssumption
<1>1. IndexInv' /\ intents'[k] \in Intent
  BY BeginDeleteWriteStep DEF IInv, BeginDelete
<1>2. r \in Request
  BY DEF IInv, IndexInv, RowsTypeOK, Request, Operations, Steps, Verdicts
<1>3. Handles(r, intents'[k])
  BY <1>1 DEF IInv, IndexInv, RowsTypeOK, BeginDelete, BeginDeleteWrite, Handles, Deleting,
              Awaits, Intent
<1>4. HandlersInv'
  BY <1>2, <1>3, HandlerStarts
     DEF IInv, IndexInv, RowsTypeOK, BeginDelete, BeginDeleteWrite, Start, Procs
<1> QED
  BY <1>1, <1>4, RemoteUnchanged, ChoreUnchanged DEF IInv, BeginDelete

\* BeginMove preserves the invariant.
LEMMA BeginMoveStep ==
    ASSUME IInv, NEW k \in Keys, NEW b \in Buckets, BeginMove(k, b)
    PROVE  IInv'
<1> DEFINE r == [op |-> "move", pc |-> "begun", key |-> k, id |-> nextId,
                 seen |-> "none", etag |-> None]
<1> USE IndexAssumption, WritesAssumption
<1>0. objects[k].etag \in Contents /\ "any" \in Conditions
  BY DEF IInv, IndexInv, RowsTypeOK, BeginMove, Object, Conditions
<1>1. IndexInv' /\ intents'[k] \in Intent
  BY <1>0, BeginWriteStep DEF IInv, BeginMove
<1>2. r \in Request
  BY DEF IInv, IndexInv, RowsTypeOK, Request, Operations, Steps, Verdicts
<1>3. Handles(r, intents'[k])
  BY <1>1 DEF IInv, IndexInv, RowsTypeOK, BeginMove, BeginWrite, Handles, Deleting, Awaits,
              Intent
<1>4. HandlersInv'
  BY <1>2, <1>3, HandlerStarts
     DEF IInv, IndexInv, RowsTypeOK, BeginMove, BeginWrite, Start, Procs, JobFree
<1> QED
  BY <1>1, <1>4, RemoteUnchanged, ChoreUnchanged DEF IInv, BeginMove

\* Steps that leave the index alone.
LEMMA IndexUnchanged ==
    ASSUME IndexInv, UNCHANGED indexVars
    PROVE  IndexInv'
BY IndexAssumption DEF indexVars, IndexInv, RowsTypeOK, IntentsWellFormed, HasPrevious,
    CurrentId, MaintenanceExcludesWrites

\* A pass goes on with what is left of its list.
LEMMA PassAdvances ==
    ASSUME ChoreOK, Recovering, NEW i, chore' = [chore EXCEPT !.todo = @ \ {i}]
    PROVE  ChoreOK' /\ chore' # None /\ chore'.kind = "recover"
<1>1. /\ chore = [kind |-> "recover", todo |-> chore.todo]
      /\ chore.todo \in SUBSET Ids
  BY ChoreParts DEF Recovering
<1>2. chore' = [kind |-> "recover", todo |-> chore.todo \ {i}]
  BY <1>1
<1>3. chore' \in Chore
  BY <1>1, <1>2, ChoreMade
<1>4. chore'.kind = "recover"
  BY <1>2
<1>5. chore' # None
  BY <1>3, WritesAssumption
<1> QED
  BY <1>3, <1>4, <1>5 DEF ChoreOK

\* BeginRecovery preserves the invariant: it takes over an intent whose key
\* no handler holds.
LEMMA BeginRecoveryStep ==
    ASSUME IInv, NEW k \in Keys, BeginRecovery(k)
    PROVE  IInv'
<1> DEFINE r == [op |-> IF intents[k].op = "put" THEN "recover" ELSE "redelete",
                 pc |-> "unsure", key |-> k, id |-> intents[k].id,
                 seen |-> "none", etag |-> None]
<1> USE IndexAssumption, WritesAssumption
<1>1. IndexInv' /\ intents' = intents
  BY IndexUnchanged DEF IInv, BeginRecovery, TakeUp, indexVars
<1>0. intents[k] # None /\ intents[k] \in Intent
  BY DEF IInv, IndexInv, RowsTypeOK, BeginRecovery, Meets
<1>2. r \in Request
  BY <1>0 DEF Intent, Request, Operations, Steps, Verdicts
<1>3. Handles(r, intents'[k])
  BY <1>0, <1>1 DEF Handles, Deleting, Awaits, Intent
<1>4. HandlersInv'
  BY <1>1, <1>2, <1>3, HandlerStarts
     DEF IInv, BeginRecovery, Meets, TakeUp, Start, Procs
<1>5. ChoreOK'
  BY PassAdvances DEF IInv, BeginRecovery, Meets, TakeUp
<1> QED
  BY <1>1, <1>4, <1>5, RemoteUnchanged DEF IInv, BeginRecovery, TakeUp

-----------------------------------------------------------------------------
\* What the invariant says of a handler in progress.
LEMMA Handled ==
    ASSUME IInv, NEW p \in Procs, req[p] # None
    PROVE  /\ req[p] \in Request /\ req[p].key \in Keys
           /\ Handles(req[p], intents[req[p].key])
           /\ intents[req[p].key] \in Intent
BY DEF IInv, HandlersInv, IndexInv, RowsTypeOK, Handles, Request

\* A step that moves a handler on and leaves its intent open.
LEMMA Advance ==
    ASSUME IInv, NEW p \in Procs, req[p] # None,
           NEW pc \in Steps, NEW seen \in Verdicts, NEW etag \in Contents \union {None},
           req' = [req EXCEPT ![p] = [req[p] EXCEPT !.pc = pc, !.seen = seen, !.etag = etag]],
           intents'[req[p].key] \in Intent,
           intents'[req[p].key].id = intents[req[p].key].id,
           intents'[req[p].key].op = intents[req[p].key].op,
           \A j \in Keys : j # req[p].key => intents'[j] = intents[j],
           req[p].op = "recover" => pc = "seen",
           pc \in {"published", "completing"} => etag \in Contents,
           pc = "seen" /\ seen = "published" => etag \in Contents
    PROVE  HandlersInv'
<1> DEFINE r == [req[p] EXCEPT !.pc = pc, !.seen = seen, !.etag = etag]
<1> USE IndexAssumption
<1>1. r \in Request /\ r.key = req[p].key /\ r.id = req[p].id /\ r.op = req[p].op
      /\ r.pc = pc /\ r.seen = seen /\ r.etag = etag
  BY Handled DEF Request
<1>2. Handles(r, intents'[req[p].key])
  BY <1>1, Handled DEF Handles, Awaits
<1> QED
  BY <1>1, <1>2, HandlerContinues DEF IInv

\* A step that ends a handler, whatever it does to its own intent.
LEMMA ClosingStep ==
    ASSUME IInv, NEW p \in Procs, req[p] # None, Done(p), IndexInv',
           \A j \in Keys : j # req[p].key => intents'[j] = intents[j],
           UNCHANGED <<remote, late, chore>>
    PROVE  IInv'
BY HandlerEnds, RemoteUnchanged, ChoreUnchanged DEF IInv

\* AbortWrite as the last step of a handler.
LEMMA AbortAndReturn ==
    ASSUME IInv, NEW p \in Procs, req[p] # None, AbortWrite(req[p].key), Done(p),
           UNCHANGED <<remote, late, chore>>
    PROVE  IInv'
<1>1. IndexInv'
  BY Handled, AbortWriteStep DEF IInv
<1>2. \A j \in Keys : j # req[p].key => intents'[j] = intents[j]
  BY DEF IInv, IndexInv, RowsTypeOK, AbortWrite
<1> QED
  BY <1>1, <1>2, ClosingStep

\* HoldWriteForRecovery as the last step of a handler.
LEMMA HoldAndReturn ==
    ASSUME IInv, NEW p \in Procs, req[p] # None, HoldForRecovery(p),
           UNCHANGED <<remote, late, chore>>
    PROVE  IInv'
<1>1. /\ IndexInv'
      /\ \A j \in Keys : j # req[p].key => intents'[j] = intents[j]
  BY Handled, UpdateWriteStateStep DEF IInv, HoldForRecovery, Handles, WriteStates
<1> QED
  BY <1>1, ClosingStep DEF HoldForRecovery

\* A handler that returns and leaves its intent as it is.
LEMMA ReturnOnly ==
    ASSUME IInv, NEW p \in Procs, req[p] # None, Done(p), UNCHANGED indexVars,
           UNCHANGED <<remote, late, chore>>
    PROVE  IInv'
<1>1. IndexInv'
  BY IndexUnchanged DEF IInv
<1> QED
  BY <1>1, ClosingStep DEF indexVars

\* SendPut preserves the invariant.
LEMMA SendPutStep ==
    ASSUME IInv, NEW p \in Procs, SendPut(p)
    PROVE  IInv'
<1> DEFINE k == req[p].key
<1>0. req[p] # None /\ req[p].pc = "begun" /\ req[p].op \in {"put", "move"}
  BY DEF SendPut
<1>1. /\ IndexInv' /\ intents'[k] \in Intent
      /\ intents'[k].id = intents[k].id /\ intents'[k].op = intents[k].op
      /\ \A j \in Keys : j # k => intents'[j] = intents[j]
  BY <1>0, Handled, UpdateWriteStateStep DEF SendPut, IInv, Handles, WriteStates
<1>2. req' = [req EXCEPT ![p] = [req[p] EXCEPT !.pc = "sending", !.seen = req[p].seen,
                                               !.etag = req[p].etag]]
  BY <1>0, Handled DEF SendPut, Goto, Request, IInv, HandlersInv
<1>3. HandlersInv'
  BY <1>0, <1>1, <1>2, Handled, Advance DEF Request, Steps
<1> QED
  BY <1>1, <1>3, RemoteUnchanged, ChoreUnchanged DEF IInv, SendPut

\* MarkCompleting preserves the invariant.
LEMMA MarkCompletingStep ==
    ASSUME IInv, NEW p \in Procs, MarkCompleting(p)
    PROVE  IInv'
<1> DEFINE k == req[p].key
<1>0. req[p] # None /\ req[p].pc = "published" /\ req[p].etag \in Contents
      /\ req[p].op # "recover"
  BY Handled DEF MarkCompleting, Handles, Awaits
<1>1. /\ IndexInv' /\ intents'[k] \in Intent
      /\ intents'[k].id = intents[k].id /\ intents'[k].op = intents[k].op
      /\ \A j \in Keys : j # k => intents'[j] = intents[j]
  BY <1>0, Handled, UpdateWriteStateStep DEF MarkCompleting, IInv, Handles, WriteStates
<1>2. req' = [req EXCEPT ![p] = [req[p] EXCEPT !.pc = "completing", !.seen = req[p].seen,
                                               !.etag = req[p].etag]]
  BY <1>0, Handled DEF MarkCompleting, Goto, Request, IInv, HandlersInv
<1>3. HandlersInv'
  BY <1>0, <1>1, <1>2, Handled, Advance DEF Request, Steps
<1> QED
  BY <1>1, <1>3, RemoteUnchanged, ChoreUnchanged DEF IInv, MarkCompleting

\* Steps of a handler that only change what it remembers and the bucket.
LEMMA QuietAdvance ==
    ASSUME IInv, NEW p \in Procs, req[p] # None, UNCHANGED indexVars, UNCHANGED chore,
           NEW pc \in Steps, NEW seen \in Verdicts, NEW etag \in Contents \union {None},
           req' = [req EXCEPT ![p] = [req[p] EXCEPT !.pc = pc, !.seen = seen, !.etag = etag]],
           req[p].op = "recover" => pc = "seen",
           pc \in {"published", "completing"} => etag \in Contents,
           pc = "seen" /\ seen = "published" => etag \in Contents,
           RemoteOK'
    PROVE  IInv'
<1>1. IndexInv' /\ intents' = intents
  BY IndexUnchanged DEF IInv, indexVars
<1>2. HandlersInv'
  BY <1>1, Handled, Advance
<1> QED
  BY <1>1, <1>2, ChoreUnchanged DEF IInv

\* SendDelete preserves the invariant.
LEMMA SendDeleteStep ==
    ASSUME IInv, NEW p \in Procs, SendDelete(p)
    PROVE  IInv'
<1>1. req' = [req EXCEPT ![p] = [req[p] EXCEPT !.pc = "sending", !.seen = req[p].seen,
                                               !.etag = req[p].etag]]
  BY Handled DEF SendDelete, Goto, Request, IInv, HandlersInv
<1>2. /\ req[p] # None /\ req[p].op # "recover" /\ UNCHANGED <<indexVars, chore, remote, late>>
      /\ req[p].seen \in Verdicts /\ req[p].etag \in Contents \union {None}
  BY Handled DEF SendDelete, Request
<1>3. RemoteOK'
  BY <1>2, RemoteUnchanged DEF IInv
<1>4. "sending" \in Steps
  BY DEF Steps
<1> QED
  BY <1>1, <1>2, <1>3, <1>4, QuietAdvance

\* DeleteAgain preserves the invariant.
LEMMA DeleteAgainStep ==
    ASSUME IInv, NEW p \in Procs, DeleteAgain(p)
    PROVE  IInv'
<1>1. req' = [req EXCEPT ![p] = [req[p] EXCEPT !.pc = "sending", !.seen = req[p].seen,
                                               !.etag = req[p].etag]]
  BY Handled DEF DeleteAgain, Goto, Request, IInv, HandlersInv
<1>2. /\ req[p] # None /\ req[p].op # "recover" /\ UNCHANGED <<indexVars, chore, remote, late>>
      /\ req[p].seen \in Verdicts /\ req[p].etag \in Contents \union {None}
  BY Handled DEF DeleteAgain, Request
<1>3. RemoteOK'
  BY <1>2, RemoteUnchanged DEF IInv
<1>4. "sending" \in Steps
  BY DEF Steps
<1> QED
  BY <1>1, <1>2, <1>3, <1>4, QuietAdvance

\* Answered preserves the invariant.
LEMMA AnsweredStep ==
    ASSUME IInv, NEW p \in Procs, Answered(p)
    PROVE  IInv'
<1> DEFINE pc == CASE req[p].op \in {"put", "move"} -> "published"
                   [] req[p].op = "delete" -> "removed"
                   [] OTHER -> "confirm"
           etag == Outgoing(p).etag
<1>1. /\ req[p] # None /\ req[p].pc = "sending" /\ Outgoing(p) \in Message
      /\ etag \in Contents \union {None}
      /\ req[p].op \in {"put", "move"} => etag \in Contents
  BY OutgoingIsMessage DEF Answered
<1>2. req[p].op # "recover"
  BY <1>1, Handled DEF Handles
<1>3. pc \in Steps /\ pc # "seen" /\ pc # "completing"
      /\ (pc = "published" => req[p].op \in {"put", "move"})
  BY DEF Steps
<1>4. req' = [req EXCEPT ![p] = [req[p] EXCEPT !.pc = pc, !.seen = req[p].seen,
                                               !.etag = etag]]
  BY <1>1, Handled DEF Answered, Request, IInv, HandlersInv
<1>5. Outgoing(p).kind = "put" => Outgoing(p).etag \in Contents
  BY <1>1 DEF Outgoing
<1>6. RemoteOK'
  BY <1>1, <1>5, AfterOK DEF Answered, RemoteOK, IInv
<1>7. req[p].seen \in Verdicts
  BY <1>1, Handled DEF Request
<1>8. UNCHANGED <<indexVars, chore>>
  BY DEF Answered
<1>9. pc \in {"published", "completing"} => etag \in Contents
  BY <1>1, <1>3
<1> HIDE DEF pc, etag
<1> QED
  BY <1>1, <1>2, <1>3, <1>4, <1>6, <1>7, <1>8, <1>9, QuietAdvance

\* The end of Unanswered: what the handler does when no answer came.
LEMMA UnansweredStep ==
    ASSUME IInv, NEW p \in Procs, req[p] # None, req[p].pc = "sending",
           Unanswered(p), UNCHANGED indexVars, UNCHANGED chore, RemoteOK'
    PROVE  IInv'
<1> DEFINE pc == IF req[p].op = "redelete" THEN "seen" ELSE "unsure"
           seen == IF req[p].op = "redelete" THEN "error" ELSE req[p].seen
<1>1. req' = [req EXCEPT ![p] = [req[p] EXCEPT !.pc = pc, !.seen = seen,
                                               !.etag = req[p].etag]]
  BY Handled DEF Unanswered, Request, IInv, HandlersInv
<1>2. req[p].op # "recover"
  BY Handled DEF Handles
<1>3. /\ pc \in Steps /\ pc \notin {"published", "completing"} /\ seen \in Verdicts
      /\ pc = "seen" => seen = "error"
      /\ req[p].etag \in Contents \union {None}
  BY Handled DEF Steps, Verdicts, Request
<1> HIDE DEF pc, seen
<1> QED
  BY <1>1, <1>2, <1>3, QuietAdvance

\* AnswerLost preserves the invariant.
LEMMA AnswerLostStep ==
    ASSUME IInv, NEW p \in Procs, AnswerLost(p)
    PROVE  IInv'
<1>1. req[p] # None /\ req[p].pc = "sending"
  BY DEF AnswerLost
<1>2. Outgoing(p) \in Message /\ (Outgoing(p).kind = "put" => Outgoing(p).etag \in Contents)
  BY <1>1, OutgoingIsMessage DEF Outgoing
<1>3. RemoteOK'
  BY <1>2, AfterOK DEF AnswerLost, RemoteOK, IInv
<1> QED
  BY <1>1, <1>3, UnansweredStep DEF AnswerLost

\* RequestFails preserves the invariant, also when the request is still on
\* its way.
LEMMA RequestFailsStep ==
    ASSUME IInv, NEW p \in Procs, RequestFails(p)
    PROVE  IInv'
<1>1. req[p] # None /\ req[p].pc = "sending"
  BY DEF RequestFails
<1>2. Outgoing(p) \in Message /\ (Outgoing(p).kind = "put" => Outgoing(p).etag \in Contents)
  BY <1>1, OutgoingIsMessage DEF Outgoing
<1>3. late' = late \/ late' = late \union {Outgoing(p)}
  BY DEF RequestFails
<1>4. RemoteOK'
  BY <1>2, <1>3 DEF RequestFails, RemoteOK, IInv
<1> QED
  BY <1>1, <1>4, UnansweredStep DEF RequestFails

\* Refused preserves the invariant.
LEMMA RefusedStep ==
    ASSUME IInv, NEW p \in Procs, Refused(p)
    PROVE  IInv'
<1>1. RemoteOK' /\ req[p] # None /\ req[p].pc = "sending"
  BY RemoteUnchanged DEF IInv, Refused
<1>2. CASE req[p].op = "redelete"
  BY <1>1, <1>2, UnansweredStep DEF Refused
<1>3. CASE req[p].op # "redelete"
  <2>1. req' = [req EXCEPT ![p] = [req[p] EXCEPT !.pc = "rejected", !.seen = req[p].seen,
                                                 !.etag = req[p].etag]]
    BY <1>1, <1>3, Handled DEF Refused, Goto, Request, IInv, HandlersInv
  <2>2. req[p].op # "recover" /\ req[p].seen \in Verdicts
        /\ req[p].etag \in Contents \union {None}
    BY <1>1, Handled DEF Handles, Request
  <2> QED
    BY <1>1, <2>1, <2>2, QuietAdvance DEF Refused, Steps
<1> QED
  BY <1>2, <1>3

\* LateArrival preserves the invariant.
LEMMA LateArrivalStep ==
    ASSUME IInv, NEW message \in late, LateArrival(message)
    PROVE  IInv'
<1>1. message \in Message /\ (message.kind = "put" => message.etag \in Contents)
  BY DEF IInv, RemoteOK
<1>2. RemoteOK'
  BY <1>1, AfterOK DEF IInv, RemoteOK, LateArrival
<1>3. IndexInv'
  BY IndexUnchanged DEF IInv, LateArrival
<1>4. HandlersInv'
  BY DEF IInv, LateArrival, HandlersInv, indexVars, Handles, Awaits
<1> QED
  BY <1>2, <1>3, <1>4, ChoreUnchanged DEF IInv, LateArrival

\* CommitPut preserves the invariant.
LEMMA CommitPutStep ==
    ASSUME IInv, NEW p \in Procs, CommitPut(p)
    PROVE  IInv'
<1> DEFINE k == req[p].key
<1>1. req[p] # None /\ k \in Keys /\ intents[k] # None /\ req[p].etag \in Contents
  BY Handled DEF CommitPut, Handles, Awaits
<1>2. IndexInv'
  BY <1>1, CommitWriteStep DEF CommitPut, IInv
<1>3. \A j \in Keys : j # k => intents'[j] = intents[j]
  BY DEF CommitPut, CommitWrite, IInv, IndexInv, RowsTypeOK
<1> QED
  BY <1>1, <1>2, <1>3, ClosingStep DEF CommitPut

\* CommitRemoval preserves the invariant.
LEMMA CommitRemovalStep ==
    ASSUME IInv, NEW p \in Procs, CommitRemoval(p)
    PROVE  IInv'
<1> DEFINE k == req[p].key
<1>1. req[p] # None /\ k \in Keys
  BY Handled DEF CommitRemoval
<1>2. IndexInv'
  BY <1>1, CommitDeleteWriteStep DEF CommitRemoval, IInv
<1>3. \A j \in Keys : j # k => intents'[j] = intents[j]
  BY DEF CommitRemoval, CommitDeleteWrite, IInv, IndexInv, RowsTypeOK
<1> QED
  BY <1>1, <1>2, <1>3, ClosingStep DEF CommitRemoval

\* CommitFails preserves the invariant.
LEMMA CommitFailsStep ==
    ASSUME IInv, NEW p \in Procs, CommitFails(p)
    PROVE  IInv'
<1> DEFINE leaves == req[p].op = "recover" \/ (req[p].op = "move" /\ req[p].pc = "completing")
<1>1. CASE leaves
  BY <1>1, ReturnOnly DEF CommitFails
<1>2. CASE ~leaves
  BY <1>2, HoldAndReturn DEF CommitFails
<1> QED
  BY <1>1, <1>2

\* LeaveIntent preserves the invariant.
LEMMA LeaveIntentStep ==
    ASSUME IInv, NEW p \in Procs, LeaveIntent(p)
    PROVE  IInv'
BY ReturnOnly DEF LeaveIntent

\* Only bytes that are there are taken for published.
LEMMA VerdictTypes ==
    ASSUME NEW k, NEW p
    PROVE  /\ Classify(k) \in Verdicts
           /\ Classify(k) = "published" => remote[TargetOf(k)] # None
           /\ DeleteVerdict(p) \in Verdicts \ {"published"}
BY DEF Classify, DeleteVerdict, Verdicts

\* Head preserves the invariant.
LEMMA HeadStep ==
    ASSUME IInv, NEW p \in Procs, Head(p)
    PROVE  IInv'
<1> DEFINE k == req[p].key
           removing == intents[k].op = "delete"
           seen == IF removing THEN DeleteVerdict(p) ELSE Classify(k)
           etag == IF ~removing /\ remote[TargetOf(k)] # None
                   THEN remote[TargetOf(k)].etag ELSE req[p].etag
<1>1. req[p] # None /\ k \in Keys /\ intents[k] \in Intent
      /\ req[p].etag \in Contents \union {None}
  BY Handled DEF Head, Request
<1>2. TargetOf(k) \in Places
  BY <1>1 DEF TargetOf, Places, Intent
<1>3. remote[TargetOf(k)] # None => remote[TargetOf(k)].etag \in Contents
  BY <1>2 DEF IInv, RemoteOK, Remote
<1>4. seen \in Verdicts /\ etag \in Contents \union {None}
      /\ (seen = "published" => etag \in Contents)
  BY <1>1, <1>3, VerdictTypes
<1>5. req' = [req EXCEPT ![p] = [req[p] EXCEPT !.pc = "seen", !.seen = seen, !.etag = etag]]
  BY <1>1, Handled DEF Head, Request, IInv, HandlersInv
<1>6. RemoteOK'
  BY RemoteUnchanged DEF IInv, Head
<1> HIDE DEF seen, etag
<1> QED
  BY <1>1, <1>4, <1>5, <1>6, QuietAdvance DEF Head, Steps

\* HeadFails preserves the invariant.
LEMMA HeadFailsStep ==
    ASSUME IInv, NEW p \in Procs, HeadFails(p)
    PROVE  IInv'
<1> DEFINE pc == "seen"
           seen == "error"
<1>1. req' = [req EXCEPT ![p] = [req[p] EXCEPT !.pc = pc, !.seen = seen,
                                               !.etag = req[p].etag]]
  BY Handled DEF HeadFails, Request, IInv, HandlersInv
<1>2. RemoteOK'
  BY RemoteUnchanged DEF IInv, HeadFails
<1>3. /\ req[p] # None /\ req[p].etag \in Contents \union {None} /\ UNCHANGED <<indexVars, chore>>
  BY Handled DEF HeadFails, Request
<1>4. /\ pc \in Steps /\ seen \in Verdicts /\ pc = "seen" /\ seen # "published"
      /\ pc \notin {"published", "completing"}
  BY DEF Steps, Verdicts
<1> HIDE DEF pc, seen
<1> QED
  BY <1>1, <1>2, <1>3, <1>4, QuietAdvance

\* Every step of a handler preserves the invariant.
LEMMA ProceedStep ==
    ASSUME IInv, NEW p \in Procs, Proceed(p)
    PROVE  IInv'
<1>1. CASE GiveUp(p)
  BY <1>1, AbortAndReturn DEF GiveUp
<1>2. CASE AbortRejected(p)
  BY <1>2, AbortAndReturn DEF AbortRejected
<1>3. CASE AbortResolved(p)
  BY <1>3, AbortAndReturn DEF AbortResolved
<1>4. CASE HoldUnresolved(p)
  BY <1>4, HoldAndReturn DEF HoldUnresolved
<1> QED
  BY <1>1, <1>2, <1>3, <1>4, SendPutStep, SendDeleteStep, AnsweredStep, AnswerLostStep,
     RequestFailsStep, RefusedStep, MarkCompletingStep, CommitPutStep, CommitRemovalStep,
     CommitFailsStep, LeaveIntentStep, HeadStep, HeadFailsStep, DeleteAgainStep DEF Proceed

-----------------------------------------------------------------------------
\* Steps of the job on a bucket leave every handler where it is.
LEMMA HandlersUnchanged ==
    ASSUME HandlersInv, UNCHANGED <<req, intents>>
    PROVE  HandlersInv'
BY DEF HandlersInv, Handles, Awaits

\* The end of the job's work on a bucket.
LEMMA ChoreEnds ==
    ASSUME IInv, chore' = None, IndexInv', RemoteOK', UNCHANGED <<req, intents>>
    PROVE  IInv'
BY HandlersUnchanged DEF IInv, ChoreOK

\* EndChore preserves the invariant.
LEMMA EndChoreStep ==
    ASSUME IInv, NEW b, EndChore(b), RemoteOK', UNCHANGED req
    PROVE  IInv'
<1>1. IndexInv' /\ intents' = intents
  BY UnlockStep DEF EndChore, ReleaseBucketMaintenance, IInv
<1> QED
  BY <1>1, ChoreEnds DEF EndChore

\* BeginCleanup preserves the invariant.
LEMMA BeginCleanupStep ==
    ASSUME IInv, NEW b \in Buckets, NEW k \in Keys, BeginCleanup(b, k)
    PROVE  IInv'
<1>1. IndexInv' /\ UNCHANGED <<req, intents>>
  BY AcquireStep DEF IInv, BeginCleanup, AcquireBucketMaintenance
<1>2. ChoreOK'
  BY ChoreMade DEF BeginCleanup, ChoreOK
<1> QED
  BY <1>1, <1>2, HandlersUnchanged, RemoteUnchanged DEF IInv, BeginCleanup

\* BeginScan preserves the invariant.
LEMMA BeginScanStep ==
    ASSUME IInv, NEW kind \in {"adopt", "scan"}, NEW b \in Buckets, BeginScan(kind, b)
    PROVE  IInv'
<1>1. IndexInv' /\ UNCHANGED <<req, intents>>
  BY AcquireStep DEF IInv, BeginScan, AcquireBucketMaintenance
<1>2. ChoreOK'
  BY ChoreMade DEF BeginScan, ChoreOK
<1> QED
  BY <1>1, <1>2, HandlersUnchanged, RemoteUnchanged DEF IInv, BeginScan

\* BeginSync preserves the invariant.
LEMMA BeginSyncStep ==
    ASSUME IInv, NEW a \in Accounts, BeginSync(a)
    PROVE  IInv'
<1>1. ChoreOK'
  BY ChoreMade DEF BeginSync, ChoreOK
<1> QED
  BY <1>1, IndexUnchanged, HandlersUnchanged, RemoteUnchanged DEF IInv, BeginSync, indexVars

\* A pass lists ids of intents.
LEMMA PassMade ==
    ASSUME IInv
    PROVE  Pass \in Chore /\ Pass.kind = "recover"
<1>1. {intents[k].id : k \in Pending} \in SUBSET Ids
  BY DEF IInv, IndexInv, RowsTypeOK, Pending, Intent
<1> QED
  BY <1>1, ChoreMade DEF Pass

\* BeginPass preserves the invariant.
LEMMA BeginPassStep ==
    ASSUME IInv, BeginPass
    PROVE  IInv'
<1>1. ChoreOK'
  BY PassMade DEF BeginPass, ChoreOK
<1> QED
  BY <1>1, IndexUnchanged, HandlersUnchanged, RemoteUnchanged DEF IInv, BeginPass, indexVars

\* Every step of a recovery pass preserves the invariant.
LEMMA RecoverySteps ==
    ASSUME IInv, RecoveryStep
    PROVE  IInv'
<1>1. ASSUME NEW k \in Keys, BeginRecovery(k) PROVE IInv'
  BY <1>1, BeginRecoveryStep
<1>2. ASSUME NEW i \in 1..MaxId, SkipIntent(i) PROVE IInv'
  <2>1. ChoreOK'
    BY <1>2, PassAdvances DEF IInv, SkipIntent
  <2> QED
    BY <1>2, <2>1, IndexUnchanged, HandlersUnchanged, RemoteUnchanged
       DEF IInv, SkipIntent, indexVars
<1>3. CASE EndPass
  BY <1>3, IndexUnchanged, RemoteUnchanged, ChoreEnds DEF IInv, EndPass, indexVars
<1> QED
  BY <1>1, <1>2, <1>3 DEF RecoveryStep

\* The synchronisation of an account preserves the invariant.
LEMMA SyncSteps ==
    ASSUME IInv, \/ \E b \in Buckets : LockForSync(b)
                 \/ FinishSync \/ SyncFails
    PROVE  IInv'
<1>1. ASSUME NEW b \in Buckets, LockForSync(b) PROVE IInv'
  <2>1. IndexInv' /\ UNCHANGED <<req, intents>>
    BY <1>1, AcquireStep DEF IInv, LockForSync, AcquireBucketMaintenance
  <2>2. ChoreOK'
    <3>1. chore' = [kind |-> "capacity", account |-> chore.account,
                    observed |-> chore.observed, held |-> chore.held \union {b}]
      BY <1>1, ChoreParts DEF IInv, LockForSync, Syncing
    <3>2. chore' \in Chore /\ chore'.kind = "capacity" /\ "capacity" \in Chores
      BY <1>1, <3>1, ChoreMade, ChoreParts DEF IInv, LockForSync, Syncing, ChoreOK
    <3> QED
      BY <3>2 DEF ChoreOK
  <2> QED
    BY <1>1, <2>1, <2>2, HandlersUnchanged, RemoteUnchanged DEF IInv, LockForSync
<1>2. CASE FinishSync
  <2>1. IndexInv' /\ UNCHANGED <<req, intents>>
    BY <1>2, UnlockStep DEF IInv, FinishSync, ApplyAccountCapacity
  <2> QED
    BY <1>2, <2>1, RemoteUnchanged, ChoreEnds DEF IInv, FinishSync
<1>3. CASE SyncFails
  <2>1. IndexInv' /\ UNCHANGED <<req, intents>>
    BY <1>3, UnlockStep DEF IInv, SyncFails
  <2> QED
    BY <1>3, <2>1, RemoteUnchanged, ChoreEnds DEF IInv, SyncFails
<1> QED
  BY <1>1, <1>2, <1>3

\* A cleanup goes on with its place.
LEMMA CleanupAdvances ==
    ASSUME ChoreOK, chore # None, chore.kind = "cleanup",
           NEW pc \in {"head", "delete", "confirm"}, chore' = [chore EXCEPT !.pc = pc]
    PROVE  ChoreOK' /\ chore' # None
<1>1. chore' = [kind |-> "cleanup", pc |-> pc, bucket |-> chore.bucket,
                key |-> chore.key, todo |-> {}, bytes |-> 0]
  BY ChoreParts
<1>2. chore.bucket \in Buckets /\ chore.key \in Keys
  BY ChoreParts
<1>3. [kind |-> "cleanup", pc |-> pc, bucket |-> chore.bucket,
       key |-> chore.key, todo |-> {}, bytes |-> 0] \in Chore
  BY <1>2, ChoreMade
<1>4. chore' \in Chore /\ chore'.kind = "cleanup" /\ "cleanup" \in Chores
  BY <1>1, <1>3 DEF ChoreOK
<1> QED
  BY <1>4, WritesAssumption DEF ChoreOK

\* What a listing adds up is a number of bytes.
LEMMA BytesAtType ==
    ASSUME RemoteOK, NEW b \in Buckets
    PROVE  BytesAt(b) \in Nat
<1> DEFINE terms == [k \in Keys |-> IF remote[<<b, k>>] = None THEN 0
                                   ELSE SizeOf[remote[<<b, k>>].etag]]
<1>1. terms \in [Keys -> Nat]
  BY IndexAssumption DEF RemoteOK, Places, Remote
<1> QED
  BY <1>1, SumNat, IndexAssumption DEF BytesAt

\* Every step of the job on its buckets preserves the invariant.
LEMMA ChoreSteps ==
    ASSUME IInv, ChoreStep
    PROVE  IInv'
<1>0. /\ IndexInv /\ RemoteOK /\ HandlersInv /\ ChoreOK
      /\ chore # None
  BY DEF IInv, ChoreStep, LockForSync, FinishSync, SyncFails, Syncing, FinishCleanup, CheckCleanup, DeleteOldCopy, RetryCleanup,
         CleanupFails, ListBucket, ImportObject, FinishScan, ScanFails, Cleaning, Scanning
<1>1. CASE FinishCleanup
  <2>1. IndexInv' /\ UNCHANGED <<req, intents>>
    BY <1>0, <1>1, CompletePhysicalCleanupStep DEF FinishCleanup, CompletePhysicalCleanup
  <2> QED
    BY <1>0, <1>1, <2>1, RemoteUnchanged, ChoreEnds DEF FinishCleanup
<1>2. CASE CheckCleanup
  <2>1. ChoreOK'
    BY <1>0, <1>2, CleanupAdvances DEF CheckCleanup, Cleaning
  <2> QED
    BY <1>0, <1>2, <2>1, IndexUnchanged, HandlersUnchanged, RemoteUnchanged
       DEF CheckCleanup, IInv, indexVars
<1>3. CASE DeleteOldCopy
  <2>1. ChoreOK'
    BY <1>0, <1>3, CleanupAdvances DEF DeleteOldCopy, Cleaning
  <2>2. CleanupMessage \in Message /\ CleanupMessage.kind = "cleanup"
    BY <1>0, <1>3, CleanupMessageOK, ChoreParts DEF DeleteOldCopy, Cleaning, CleanupMessage
  <2>3. RemoteOK'
    BY <1>0, <1>3, <2>2, AfterOK DEF DeleteOldCopy, RemoteOK
  <2> QED
    BY <1>0, <1>3, <2>1, <2>3, IndexUnchanged, HandlersUnchanged
       DEF DeleteOldCopy, IInv, indexVars
<1>4. CASE RetryCleanup
  BY <1>0, <1>4, EndChoreStep, RemoteUnchanged DEF RetryCleanup
<1>5. CASE CleanupFails
  <2>1. CleanupMessage \in Message /\ CleanupMessage.kind = "cleanup"
    BY <1>0, <1>5, CleanupMessageOK, ChoreParts DEF CleanupFails, CleanupMessage
  <2>2. RemoteOK'
    BY <1>0, <1>5, <2>1, AfterOK DEF CleanupFails, RemoteOK
  <2> QED
    BY <1>5, <2>2, EndChoreStep DEF CleanupFails
<1>6. CASE ListBucket
  <2> DEFINE todo == IF chore.kind = "scan" THEN {}
                     ELSE {k \in Keys : remote[<<chore.bucket, k>>] # None}
  <2>1. ChoreOK'
    <3>1. chore' = [kind |-> chore.kind, pc |-> "import", bucket |-> chore.bucket,
                    key |-> chore.key, todo |-> todo, bytes |-> BytesAt(chore.bucket)]
      BY <1>0, <1>6, ChoreParts DEF ListBucket, Scanning
    <3>2. BytesAt(chore.bucket) \in Nat
      BY <1>0, <1>6, BytesAtType, ChoreParts DEF ListBucket, Scanning
    <3>3. /\ chore.kind \in {"adopt", "scan"} /\ chore.bucket \in Buckets
          /\ chore.key \in Keys \union {None} /\ todo \in SUBSET Keys
      BY <1>0, <1>6, ChoreParts DEF ListBucket, Scanning
    <3>4. [kind |-> chore.kind, pc |-> "import", bucket |-> chore.bucket, key |-> chore.key,
           todo |-> todo, bytes |-> BytesAt(chore.bucket)] \in Chore
      BY <3>2, <3>3, ChoreMade
    <3> QED
      BY <1>0, <1>6, <3>1, <3>4 DEF ListBucket, Scanning, ChoreOK
  <2> QED
    BY <1>0, <1>6, <2>1, IndexUnchanged, HandlersUnchanged, RemoteUnchanged
       DEF ListBucket, IInv, indexVars
<1>7. CASE \E k \in Keys : ImportObject(k)
  <2>1. PICK k \in Keys : ImportObject(k)
    BY <1>7
  <2>2. remote[<<chore.bucket, k>>].etag \in Contents /\ chore.bucket \in Buckets
    BY <1>0, <2>1, ChoreParts DEF ImportObject, Scanning, RemoteOK, Places, Remote
  <2>3. IndexInv' /\ intents' = intents
    BY <1>0, <2>1, <2>2, AdoptObjectStep, IndexUnchanged
       DEF ImportObject, AdoptObject, indexVars
  <2>4. ChoreOK'
    <3>1. chore' = [kind |-> chore.kind, pc |-> chore.pc, bucket |-> chore.bucket,
                    key |-> chore.key, todo |-> chore.todo \ {k}, bytes |-> chore.bytes]
      BY <1>0, <2>1, ChoreParts DEF ImportObject, Scanning
    <3>2. /\ chore.kind \in {"adopt", "scan"} /\ chore.pc \in {"list", "import"}
          /\ chore.bucket \in Buckets /\ chore.key \in Keys \union {None}
          /\ chore.todo \ {k} \in SUBSET Keys /\ chore.bytes \in Nat
      BY <1>0, <2>1, ChoreParts DEF ImportObject, Scanning
    <3>3. [kind |-> chore.kind, pc |-> chore.pc, bucket |-> chore.bucket, key |-> chore.key,
           todo |-> chore.todo \ {k}, bytes |-> chore.bytes] \in Chore
      BY <3>2, ChoreMade
    <3>4. chore.kind # "adopt" => chore.todo \ {k} = {}
      BY <1>0, <2>1, ChoreParts DEF ImportObject, Scanning
    <3> QED
      BY <1>0, <2>1, <3>1, <3>3, <3>4 DEF ImportObject, Scanning, ChoreOK
  <2> QED
    BY <1>0, <2>1, <2>3, <2>4, HandlersUnchanged, RemoteUnchanged DEF ImportObject, IInv
<1>8. CASE FinishScan
  <2>1. IndexInv' /\ UNCHANGED <<req, intents>>
    BY <1>0, <1>8, UnlockStep DEF FinishScan, FinishBucketScan
  <2> QED
    BY <1>0, <1>8, <2>1, RemoteUnchanged, ChoreEnds DEF FinishScan
<1>9. CASE ScanFails
  BY <1>0, <1>9, EndChoreStep, RemoteUnchanged DEF ScanFails
<1> QED
  BY <1>1, <1>2, <1>3, <1>4, <1>5, <1>6, <1>7, <1>8, <1>9, SyncSteps DEF ChoreStep

\* A crash preserves the invariant: the locks go, and so do the handlers.
LEMMA CrashStep ==
    ASSUME IInv, Crash
    PROVE  IInv'
<1> DEFINE sending == {Outgoing(p) : p \in {q \in Procs : /\ req[q] # None
                                                          /\ req[q].pc = "sending"}}
<1>1. \A m \in sending : m \in Message /\ (m.kind = "put" => m.etag \in Contents)
  <2> SUFFICES ASSUME NEW p \in Procs, req[p] # None, req[p].pc = "sending"
               PROVE  /\ Outgoing(p) \in Message
                      /\ Outgoing(p).kind = "put" => Outgoing(p).etag \in Contents
    OBVIOUS
  <2> QED
    BY OutgoingIsMessage DEF Outgoing
<1>2. late' \subseteq late \union sending
  BY DEF Crash
<1>3. RemoteOK'
  BY <1>1, <1>2 DEF Crash, IInv, RemoteOK
<1>4. IndexInv'
  <2>1. /\ UNCHANGED <<objects, intents, cleanups, nextId>>
        /\ locked' = [d \in Buckets |-> FALSE]
    BY DEF Crash
  <2> QED
    BY <2>1, IndexAssumption DEF IInv, IndexInv, RowsTypeOK, IntentsWellFormed,
       HasPrevious, CurrentId, MaintenanceExcludesWrites, Intent
<1>5. HandlersInv'
  BY DEF Crash, HandlersInv
<1>6. ChoreOK'
  BY PassMade DEF Crash, ChoreOK
<1> QED
  BY <1>3, <1>4, <1>5, <1>6 DEF IInv

\* The invariant holds of every initial index.
LEMMA InitInv == Init => IInv
<1> SUFFICES ASSUME Init PROVE IInv
  OBVIOUS
<1> USE IndexAssumption, WritesAssumption
<1>1. PICK first \in StartKeys, b \in Buckets, c \in Contents,
           own \in {1} \union OtherIds, other \in {NoId} \union OtherIds :
             StartsWith(first, b, c, own, other)
  BY DEF Init
<1>2. /\ intents = [k \in Keys |-> None] /\ cleanups = [p \in Places |-> None]
      /\ locked = [d \in Buckets |-> FALSE] /\ nextId = 2 /\ late = {}
      /\ req = [p \in Procs |-> None] /\ chore = None
  BY DEF Init
<1>3. objects \in [Keys -> Object \union {None}]
  BY <1>1 DEF StartsWith, Object, Ids, NoId
<1>4. remote \in [Places -> Remote \union {None}]
  <2>0. own \in Nat /\ other \in Nat
    BY DEF NoId
  <2>1. [id |-> own, etag |-> c] \in Remote /\ [id |-> other, etag |-> c] \in Remote
    BY <2>0, Zenon DEF Remote
  <2> QED
    BY <1>1, <2>1 DEF StartsWith
<1>5. IndexInv
  BY <1>2, <1>3 DEF IndexInv, RowsTypeOK, Ids, NoId, IntentsWellFormed,
     MaintenanceExcludesWrites
<1> QED
  BY <1>2, <1>4, <1>5 DEF IInv, RemoteOK, HandlersInv, ChoreOK

\* Every step preserves the invariant.
LEMMA NextInv == IInv /\ [Next]_vars => IInv'
<1> SUFFICES ASSUME IInv, [Next]_vars PROVE IInv'
  OBVIOUS
<1>1. ASSUME NEW p \in Clients, ClientStep(p) PROVE IInv'
  BY <1>1, BeginPutStep, BeginDeleteStep DEF ClientStep
<1>2. CASE BeginChore
  BY <1>2, BeginMoveStep, BeginCleanupStep, BeginScanStep, BeginSyncStep, BeginPassStep
     DEF BeginChore
<1>3. CASE StartServing
  BY <1>3, IndexUnchanged, HandlersUnchanged, RemoteUnchanged, ChoreUnchanged
     DEF StartServing, IInv, indexVars
<1>4. CASE UNCHANGED vars
  BY <1>4, IndexUnchanged, HandlersUnchanged, RemoteUnchanged, ChoreUnchanged
     DEF vars, IInv, indexVars
<1> QED
  BY <1>1, <1>2, <1>3, <1>4, ProceedStep, RecoverySteps, ChoreSteps,
     LateArrivalStep, CrashStep DEF Next

\* The inductive invariant holds of the write path.
THEOREM Inductive == Spec => []IInv
BY InitInv, NextInv, PTL DEF Spec

\* Type correctness: the rows of the index, the contents of the buckets, the
\* requests under way and the mutation each handler is in always have the shape
\* TypeOK gives them (the byte counters follow below).
THEOREM TypeCorrect ==
    Spec => [](/\ RowsTypeOK
               /\ remote \in [Places -> Remote \union {None}] /\ late \subseteq Message
               /\ req \in [Procs -> Request \union {None}])
<1>1. IInv => /\ RowsTypeOK
              /\ remote \in [Places -> Remote \union {None}] /\ late \subseteq Message
              /\ req \in [Procs -> Request \union {None}]
  BY DEF IInv, IndexInv, RemoteOK, HandlersInv
<1> QED
  BY <1>1, Inductive, PTL

\* AcquireBucketMaintenance and the write intents exclude each other: a bucket
\* that is being scanned, adopted or cleaned has no pending put or delete, in
\* whatever order locks, handlers, errors and restarts come.
THEOREM MaintenanceExclusion == Spec => []MaintenanceExcludesWrites
<1>1. IInv => MaintenanceExcludesWrites
  BY DEF IInv, IndexInv
<1> QED
  BY <1>1, Inductive, PTL

\* The intent a handler opened (or recovery took over) is there, with its own
\* id, until that handler closes it: the mutex of writeActivity and the tryLock
\* of recovery keep two handlers off the same row.
THEOREM Ownership == Spec => []HandlerOwnsIntent
<1>1. IInv => HandlerOwnsIntent
  BY DEF IInv, HandlersInv, Handles, HandlerOwnsIntent
<1> QED
  BY <1>1, Inductive, PTL

-----------------------------------------------------------------------------
\* What a step of the system may do to the rows of the index.
IndexMove ==
    \/ \E k \in Keys, body \in Contents, cond \in Conditions, b \in Buckets :
          nextId <= MaxId /\ BeginWrite(k, body, cond, b)
    \/ \E k \in Keys, cond \in Conditions : nextId <= MaxId /\ BeginDeleteWrite(k, cond)
    \/ \E k \in Keys, state \in WriteStates, etag \in Contents \union {None} :
          /\ intents[k] # None /\ UpdateWriteState(k, state, etag)
          /\ etag # None => \E p \in Procs : /\ req[p] # None /\ Awaits(req[p])
                                            /\ req[p].key = k /\ req[p].etag = etag
    \/ \E k \in Keys : intents[k] # None /\ AbortWrite(k)
    \/ \E p \in Procs :
          /\ req[p] # None /\ Awaits(req[p]) /\ req[p].etag \in Contents
          /\ req[p].key \in Keys /\ intents[req[p].key] # None
          /\ CommitWrite(req[p].key, req[p].etag)
    \/ \E k \in Keys : intents[k] # None /\ CommitDeleteWrite(k)
    \/ UNCHANGED <<objects, intents, storage, reserved, cleanups, nextId>>
    \/ \E b \in Buckets, k \in Keys :
          /\ chore # None /\ chore.kind = "cleanup"
          /\ chore.bucket = b /\ chore.key = k
          /\ remote[<<b, k>>] = None /\ UNCHANGED remote /\ chore' = None
          /\ CompletePhysicalCleanup(<<b, k>>)
    \/ /\ "adopt" \in Chores \/ "scan" \in Chores
       /\ \E b \in Buckets, bytes \in Nat : FinishBucketScan(b, bytes)
    \/ \E observed \in [Buckets -> Nat], held \in SUBSET Buckets :
          ApplyAccountCapacity(observed, held)
    \/ /\ "adopt" \in Chores
       /\ \E b \in Buckets, k \in Keys, etag \in Contents : AdoptObject(b, k, etag)

\* Every step is one of these moves.
LEMMA IndexMoves == IInv /\ [Next]_vars => IndexMove
<1> SUFFICES ASSUME IInv, [Next]_vars PROVE IndexMove
  OBVIOUS
<1> USE IndexAssumption, WritesAssumption
<1>1. ASSUME NEW p \in Clients, ClientStep(p) PROVE IndexMove
  <2>1. CASE \E k \in Keys, body \in Contents, cond \in Conds, b \in Buckets :
                BeginPut(p, k, body, cond, b)
    BY <2>1 DEF BeginPut, IndexMove
  <2>2. CASE \E k \in Keys, cond \in Conds : BeginDelete(p, k, cond)
    BY <2>2 DEF BeginDelete, IndexMove
  <2> QED
    BY <1>1, <2>1, <2>2 DEF ClientStep
<1>2. ASSUME NEW k \in Keys, NEW b \in Buckets, BeginMove(k, b) PROVE IndexMove
  <2>1. objects[k].etag \in Contents /\ "any" \in Conditions
    BY <1>2 DEF IInv, IndexInv, RowsTypeOK, BeginMove, Object, Conditions
  <2> QED
    BY <1>2, <2>1 DEF BeginMove, IndexMove
<1>3. ASSUME NEW p \in Procs, Proceed(p) PROVE IndexMove
  <2> DEFINE k == req[p].key
  <2>1. req[p] # None
    BY <1>3 DEF Proceed, GiveUp, SendPut, SendDelete, Answered, AnswerLost, RequestFails,
       Refused, AbortRejected, MarkCompleting, CommitPut, CommitRemoval, CommitFails,
       LeaveIntent, Head, HeadFails, AbortResolved, HoldUnresolved, DeleteAgain
  <2>2. k \in Keys /\ intents[k] # None /\ req[p].etag \in Contents \union {None}
        /\ (Awaits(req[p]) => req[p].etag \in Contents)
    BY <2>1, Handled DEF Handles, Request
  <2>3. CASE GiveUp(p) \/ AbortRejected(p) \/ AbortResolved(p)
    BY <2>2, <2>3 DEF GiveUp, AbortRejected, AbortResolved, IndexMove
  <2>4. CASE SendPut(p) \/ MarkCompleting(p) \/ HoldUnresolved(p)
    <3>1. \E state \in WriteStates, etag \in Contents \union {None} :
             /\ UpdateWriteState(k, state, etag)
             /\ etag # None => Awaits(req[p]) /\ req[p].etag = etag
      BY <2>2, <2>4
         DEF SendPut, MarkCompleting, HoldUnresolved, HoldForRecovery, WriteStates, Awaits
    <3> QED
      BY <2>1, <2>2, <3>1 DEF IndexMove
  <2>5. CASE CommitPut(p)
    <3>1. Awaits(req[p]) /\ CommitWrite(k, req[p].etag)
      BY <2>5 DEF CommitPut, Awaits
    <3> QED
      BY <2>1, <2>2, <3>1 DEF IndexMove
  <2>6. CASE CommitRemoval(p)
    BY <2>2, <2>6 DEF CommitRemoval, IndexMove
  <2>7. CASE CommitFails(p)
    <3>1. UNCHANGED indexVars \/ UpdateWriteState(k, "recovery", None)
      BY <2>7 DEF CommitFails, HoldForRecovery
    <3> QED
      BY <2>2, <3>1 DEF IndexMove, indexVars, WriteStates
  <2>8. CASE \/ SendDelete(p) \/ Answered(p) \/ AnswerLost(p) \/ RequestFails(p)
             \/ Refused(p) \/ LeaveIntent(p) \/ Head(p) \/ HeadFails(p) \/ DeleteAgain(p)
    <3>1. UNCHANGED indexVars
      BY <2>8 DEF SendDelete, Answered, AnswerLost, RequestFails, Refused, LeaveIntent,
         Head, HeadFails, DeleteAgain
    <3> QED
      BY <3>1 DEF indexVars, IndexMove
  <2> QED
    BY <1>3, <2>3, <2>4, <2>5, <2>6, <2>7, <2>8 DEF Proceed
<1>4. ASSUME NEW k \in Keys, ImportObject(k) PROVE IndexMove
  <2>1. /\ chore.bucket \in Buckets /\ "adopt" \in Chores
        /\ remote[<<chore.bucket, k>>].etag \in Contents
    <3>1. chore # None /\ chore.kind = "adopt" /\ chore.bucket \in Buckets
      BY <1>4, ChoreParts DEF ImportObject, Scanning, IInv
    <3> QED
      BY <1>4, <3>1 DEF ImportObject, IInv, RemoteOK, ChoreOK, Places, Remote
  <2>2. CASE objects[k] = None
    BY <1>4, <2>1, <2>2 DEF ImportObject, IndexMove
  <2>3. CASE objects[k] # None
    BY <1>4, <2>3 DEF ImportObject, indexVars, IndexMove
  <2> QED
    BY <2>2, <2>3
<1>5. CASE FinishCleanup
  <2>1. /\ chore # None /\ chore.kind = "cleanup"
        /\ chore.bucket \in Buckets /\ chore.key \in Keys
    BY <1>5, ChoreParts DEF FinishCleanup, Cleaning, IInv
  <2>2. /\ remote[<<chore.bucket, chore.key>>] = None /\ UNCHANGED remote /\ chore' = None
        /\ CompletePhysicalCleanup(<<chore.bucket, chore.key>>)
    BY <1>5 DEF FinishCleanup, CleanupPlace
  <2> QED
    BY <2>1, <2>2 DEF IndexMove
<1>6. CASE FinishScan
  <2>1. /\ "adopt" \in Chores \/ "scan" \in Chores
        /\ chore.bucket \in Buckets /\ chore.bytes \in Nat
    BY <1>6, ChoreParts DEF FinishScan, Scanning, IInv, ChoreOK
  <2> QED
    BY <1>6, <2>1 DEF FinishScan, IndexMove
<1>7. CASE FinishSync
  <2>1. chore.observed \in [Buckets -> Nat] /\ chore.held \in SUBSET Buckets
    BY <1>7, ChoreParts DEF FinishSync, Syncing, IInv
  <2> QED
    BY <1>7, <2>1 DEF FinishSync, IndexMove
<1>8. CASE \/ CheckCleanup \/ DeleteOldCopy \/ RetryCleanup
           \/ CleanupFails \/ ListBucket \/ ScanFails
           \/ (\E b \in Buckets : LockForSync(b)) \/ SyncFails
  <2>1. UNCHANGED <<objects, intents, storage, reserved, cleanups, nextId>>
    BY <1>8 DEF LockForSync, AcquireBucketMaintenance, SyncFails, CheckCleanup, DeleteOldCopy,
       RetryCleanup, CleanupFails, ListBucket, ScanFails, EndChore, ReleaseBucketMaintenance,
       indexVars
  <2> QED
    BY <2>1 DEF IndexMove
<1>9. CASE \/ Crash \/ StartServing \/ UNCHANGED vars
           \/ \E message \in late : LateArrival(message)
           \/ RecoveryStep
           \/ \E k \in Keys, b \in Buckets : BeginCleanup(b, k)
           \/ \E kind \in {"adopt", "scan"}, b \in Buckets : BeginScan(kind, b)
           \/ (\E a \in Accounts : BeginSync(a)) \/ BeginPass
  <2>1. UNCHANGED <<objects, intents, storage, reserved, cleanups, nextId>>
    BY <1>9 DEF BeginSync, Crash, StartServing, vars, LateArrival, RecoveryStep, BeginRecovery,
       TakeUp, SkipIntent, EndPass, BeginPass, BeginCleanup, BeginScan, AcquireBucketMaintenance, indexVars
  <2> QED
    BY <2>1 DEF IndexMove
<1> QED
  BY <1>1, <1>2, <1>3, <1>4, <1>5, <1>6, <1>7, <1>8, <1>9 DEF Next, BeginChore, ChoreStep

-----------------------------------------------------------------------------
\* No move but adoption changes the version under an intent.
LEMMA PreviousIsCurrentStep ==
    ASSUME "adopt" \notin Chores, IInv, PreviousIsCurrent, IndexMove
    PROVE  PreviousIsCurrent'
<1> USE IndexAssumption DEF IInv, IndexInv, RowsTypeOK, PreviousIsCurrent, CurrentId
<1>1. CASE \E k \in Keys, body \in Contents, cond \in Conditions, b \in Buckets :
              BeginWrite(k, body, cond, b)
  BY <1>1 DEF BeginWrite
<1>2. CASE \E k \in Keys, cond \in Conditions : BeginDeleteWrite(k, cond)
  BY <1>2 DEF BeginDeleteWrite
<1>3. CASE \E k \in Keys, state \in WriteStates, etag \in Contents \union {None} :
              intents[k] # None /\ UpdateWriteState(k, state, etag)
  BY <1>3 DEF UpdateWriteState, Intent
<1>4. CASE \E k \in Keys : AbortWrite(k)
  BY <1>4 DEF AbortWrite
<1>5. CASE \E k \in Keys, etag \in Contents : intents[k] # None /\ CommitWrite(k, etag)
  BY <1>5 DEF CommitWrite
<1>6. CASE \E k \in Keys : intents[k] # None /\ CommitDeleteWrite(k)
  BY <1>6 DEF CommitDeleteWrite
<1>7. CASE UNCHANGED <<objects, intents>>
  BY <1>7
<1> QED
  BY <1>1, <1>2, <1>3, <1>4, <1>5, <1>6, <1>7
     DEF IndexMove, CompletePhysicalCleanup, FinishBucketScan, ApplyAccountCapacity

\* As long as no bucket is adopted, the version a pending mutation replaces is
\* the one it saw when it began, so that the compare-and-swap of commitWriteAt
\* never refuses bytes that R2 already stores.
THEOREM PreviousStaysCurrent ==
    ASSUME "adopt" \notin Chores
    PROVE  Spec => []PreviousIsCurrent
<1>1. Init => PreviousIsCurrent
  BY DEF Init, PreviousIsCurrent
<1>2. IInv /\ PreviousIsCurrent /\ [Next]_vars => PreviousIsCurrent'
  BY IndexMoves, PreviousIsCurrentStep
<1> QED
  BY <1>1, <1>2, Inductive, PTL DEF Spec

-----------------------------------------------------------------------------
(* Cleanups.                                                               *)

\* Physical keys are logical keys.
OwnKeys == \A k \in Keys : objects[k] # None => objects[k].pkey = k

\* A put may only be pending where no cleanup is: FencesPuts is CleanupFencesPuts
\* with the target of an intent written out.
FencesPuts ==
    \A k \in Keys : intents[k] # None /\ intents[k].op = "put" =>
        cleanups[<<intents[k].bucket, k>>] = None

\* No cleanup is pending where an indexed object lies.
SparesObjects ==
    \A k \in Keys : objects[k] # None => cleanups[<<objects[k].bucket, k>>] = None

\* Puts and adoption keep physical keys equal to logical keys.
LEMMA OwnKeysStep ==
    ASSUME IInv, OwnKeys, IndexMove
    PROVE  OwnKeys'
<1> USE IndexAssumption DEF IInv, IndexInv, RowsTypeOK, OwnKeys
<1>1. CASE \E k \in Keys, etag \in Contents : intents[k] # None /\ CommitWrite(k, etag)
  BY <1>1 DEF CommitWrite
<1>2. CASE \E k \in Keys : intents[k] # None /\ CommitDeleteWrite(k)
  BY <1>2 DEF CommitDeleteWrite
<1>3. CASE \E b \in Buckets, k \in Keys, etag \in Contents : AdoptObject(b, k, etag)
  BY <1>3 DEF AdoptObject
<1>4. CASE UNCHANGED objects
  BY <1>4
<1> QED
  BY <1>1, <1>2, <1>3, <1>4
     DEF IndexMove, BeginWrite, BeginDeleteWrite, UpdateWriteState, AbortWrite,
         CompletePhysicalCleanup, FinishBucketScan, ApplyAccountCapacity

\* A commit records its cleanup in another bucket than the one it wrote, and
\* its own intent is gone.
LEMMA CommitFences ==
    ASSUME IInv, OwnKeys, FencesPuts, NEW k \in Keys, NEW etag \in Contents,
           intents[k] # None, CommitWrite(k, etag)
    PROVE  FencesPuts' /\ (SparesObjects => SparesObjects')
<1> USE IndexAssumption DEF IInv, IndexInv, RowsTypeOK
<1>1. intents[k] \in Intent /\ intents[k].op = "put"
  BY DEF CommitWrite, CommitAllowed
<1>2. cleanups[<<intents[k].bucket, k>>] = None
  BY <1>1 DEF FencesPuts
<1>3. PreviousNeedsCleanup(k) =>
         /\ objects[k] \in Object /\ objects[k].pkey = k
         /\ objects[k].bucket # intents[k].bucket
  BY <1>1, PreviousExists DEF PreviousNeedsCleanup, PreviousAtTarget, PlaceOf, TargetOf,
     OwnKeys, Object
<1>4. ASSUME NEW b \in Buckets, NEW j \in Keys, cleanups[<<b, j>>] = None,
             j # k \/ b = intents[k].bucket
      PROVE  cleanups'[<<b, j>>] = None
  BY <1>1, <1>3, <1>4 DEF CommitWrite, PlaceOf, Places
<1>5. FencesPuts'
  <2> SUFFICES ASSUME NEW j \in Keys, intents'[j] # None, intents'[j].op = "put"
               PROVE  cleanups'[<<intents'[j].bucket, j>>] = None
    BY DEF FencesPuts
  <2>1. j # k /\ intents'[j] = intents[j] /\ intents[j] \in Intent
    BY DEF CommitWrite
  <2>2. intents[j].bucket \in Buckets
    BY <2>1 DEF Intent
  <2> QED
    BY <2>1, <2>2, <1>4 DEF FencesPuts
<1>6. ASSUME SparesObjects PROVE SparesObjects'
  <2> SUFFICES ASSUME NEW j \in Keys, objects'[j] # None
               PROVE  cleanups'[<<objects'[j].bucket, j>>] = None
    BY DEF SparesObjects
  <2>1. CASE j = k
    <3>1. objects'[j].bucket = intents[k].bucket /\ intents[k].bucket \in Buckets
      BY <1>1, <2>1 DEF CommitWrite, Intent
    <3> QED
      BY <2>1, <3>1, <1>2, <1>4
  <2>2. CASE j # k
    <3>1. objects'[j] = objects[j] /\ objects[j] \in Object
      BY <2>2 DEF CommitWrite
    <3> QED
      BY <2>2, <3>1, <1>4, <1>6 DEF SparesObjects, Object
  <2> QED
    BY <2>1, <2>2
<1> QED
  BY <1>5, <1>6

\* Every move keeps pending puts away from pending cleanups.
LEMMA FencesPutsStep ==
    ASSUME IInv, OwnKeys, FencesPuts, IndexMove
    PROVE  FencesPuts'
<1> USE IndexAssumption DEF IInv, IndexInv, RowsTypeOK, FencesPuts
<1>1. CASE \E k \in Keys, body \in Contents, cond \in Conditions, b \in Buckets :
              BeginWrite(k, body, cond, b)
  BY <1>1 DEF BeginWrite, Eligible
<1>2. CASE \E k \in Keys, cond \in Conditions : BeginDeleteWrite(k, cond)
  BY <1>2 DEF BeginDeleteWrite
<1>3. CASE \E k \in Keys, state \in WriteStates, etag \in Contents \union {None} :
              intents[k] # None /\ UpdateWriteState(k, state, etag)
  BY <1>3 DEF UpdateWriteState, Intent
<1>4. CASE \E k \in Keys : AbortWrite(k)
  BY <1>4 DEF AbortWrite
<1>5. CASE \E k \in Keys, etag \in Contents : intents[k] # None /\ CommitWrite(k, etag)
  BY <1>5, CommitFences
<1>6. CASE \E k \in Keys : intents[k] # None /\ CommitDeleteWrite(k)
  BY <1>6 DEF CommitDeleteWrite
<1>7. CASE /\ UNCHANGED <<objects, intents>>
           /\ \/ UNCHANGED cleanups
              \/ \E place : cleanups' = [cleanups EXCEPT ![place] = None]
  BY <1>7 DEF Intent, Places
<1>8. CASE \E b \in Buckets, k \in Keys, etag \in Contents : AdoptObject(b, k, etag)
  BY <1>8 DEF AdoptObject
<1> QED
  BY <1>1, <1>2, <1>3, <1>4, <1>5, <1>6, <1>7, <1>8
     DEF IndexMove, CompletePhysicalCleanup, FinishBucketScan, ApplyAccountCapacity

\* Every move but adoption keeps indexed objects away from pending cleanups.
LEMMA SparesObjectsStep ==
    ASSUME "adopt" \notin Chores, IInv, OwnKeys, FencesPuts, SparesObjects, IndexMove
    PROVE  SparesObjects'
<1> USE IndexAssumption DEF IInv, IndexInv, RowsTypeOK, SparesObjects
<1>1. CASE \E k \in Keys, etag \in Contents : intents[k] # None /\ CommitWrite(k, etag)
  BY <1>1, CommitFences
<1>2. CASE \E k \in Keys : intents[k] # None /\ CommitDeleteWrite(k)
  BY <1>2 DEF CommitDeleteWrite
<1>3. CASE /\ UNCHANGED objects
           /\ \/ UNCHANGED cleanups
              \/ \E place : cleanups' = [cleanups EXCEPT ![place] = None]
  BY <1>3 DEF Object, Places
<1> QED
  BY <1>1, <1>2, <1>3
     DEF IndexMove, BeginWrite, BeginDeleteWrite, UpdateWriteState, AbortWrite,
         CompletePhysicalCleanup, FinishBucketScan, ApplyAccountCapacity

\* The fence of a pending cleanup: where an old copy waits for its deletion no
\* put is pending, adoption or not.  It needs physical keys equal to logical
\* keys, which holds of everything the pool itself writes.
THEOREM CleanupFence ==
    ASSUME \A k \in Keys : HomeKey[k] = k
    PROVE  Spec => []CleanupFencesPuts
<1>1. Init => OwnKeys /\ FencesPuts
  BY IndexAssumption, WritesAssumption DEF Init, StartsWith, OwnKeys, FencesPuts
<1>2. IInv /\ (OwnKeys /\ FencesPuts) /\ [Next]_vars => (OwnKeys /\ FencesPuts)'
  BY IndexMoves, OwnKeysStep, FencesPutsStep
<1>3. FencesPuts => CleanupFencesPuts
  BY DEF FencesPuts, CleanupFencesPuts, TargetOf
<1> QED
  BY <1>1, <1>2, <1>3, Inductive, PTL DEF Spec

\* ... and, as long as no bucket is adopted, no indexed object lies where a
\* cleanup is pending: a cleanup deletes bytes no row refers to.
THEOREM CleanupSpares ==
    ASSUME \A k \in Keys : HomeKey[k] = k, "adopt" \notin Chores
    PROVE  Spec => []CleanupSparesObjects
<1>1. Init => OwnKeys /\ FencesPuts /\ SparesObjects
  BY IndexAssumption, WritesAssumption
     DEF Init, StartsWith, OwnKeys, FencesPuts, SparesObjects, Places
<1>2. IInv /\ (OwnKeys /\ FencesPuts /\ SparesObjects) /\ [Next]_vars
         => (OwnKeys /\ FencesPuts /\ SparesObjects)'
  BY IndexMoves, OwnKeysStep, FencesPutsStep, SparesObjectsStep
<1>3. OwnKeys /\ SparesObjects => CleanupSparesObjects
  BY DEF OwnKeys, SparesObjects, CleanupSparesObjects, PlaceOf
<1> QED
  BY <1>1, <1>2, <1>3, Inductive, PTL DEF Spec

-----------------------------------------------------------------------------
(***************************************************************************)
(* The byte counters of the R2 index, what a commit puts into it and what  *)
(* the buckets really hold, for every set of keys, buckets, accounts,      *)
(* contents and clients.                                                   *)
(*                                                                         *)
(* The argument.  On top of IInv come invariants, each for as many         *)
(* environments as it holds in:                                            *)
(*                                                                         *)
(*   LedgerInv    a bucket reserves the sum of what its intents reserve;   *)
(*                always;                                                  *)
(*   RequestInv   ids are drawn once, every version stored or still on its *)
(*                way under the id of an intent carries the bytes of its   *)
(*                request, so does what a handler is about to commit, and  *)
(*                the condition of a request stays true as long as the     *)
(*                version it was about is the current one; always, but no  *)
(*                upload of another tool may bear an id this index draws;  *)
(*   StorageCoversRows                                                     *)
(*                storage_bytes covers the rows; without adoption and      *)
(*                scans, which replace the counter by what they have seen; *)
(*   FenceInv, StoredInv                                                   *)
(*                what lies at a place is the indexed object, an old copy  *)
(*                or what a pending put has stored, and a handler that     *)
(*                commits, aborts or removes knows which; with a reliable  *)
(*                R2, where a request without an answer has taken effect   *)
(*                or never will;                                           *)
(*   RowsWithinLimits                                                      *)
(*                what the rows of a bucket and its intents add up to is   *)
(*                within the limits: that sum grows only in BeginWrite,    *)
(*                which has compared it with them.                         *)
(*                                                                         *)
(* The bytes in a bucket are at most what its rows and intents add up to,  *)
(* so the quota follows from the last three.                               *)
(***************************************************************************)

-----------------------------------------------------------------------------
(* The ledger of reservations.                                             *)

\* What an intent reserves in bucket b.
ReservedTerm(b, k) ==
    IF intents[k] # None /\ intents[k].bucket = b THEN intents[k].reserved ELSE 0

ReservedBytes(b) == SumFunction([k \in Keys |-> ReservedTerm(b, k)])

\* A put reserves room for its body, a delete none.
ReservesBody ==
    \A k \in Keys : intents[k] # None =>
        intents[k].reserved = IF intents[k].op = "put" THEN SizeOf[intents[k].body] ELSE 0

LedgerInv == CountersTypeOK /\ ReservesBody /\ ReservationsBalanced

-----------------------------------------------------------------------------
(* What is committed.                                                      *)

\* An id that no intent will draw.
Drawn(id) == id < nextId \/ id > MaxId

IdsDrawn ==
    /\ \A k \in Keys : objects[k] # None => objects[k].id < nextId
    /\ \A k \in Keys : intents[k] # None =>
          intents[k].id < nextId /\ intents[k].prev < nextId /\ intents[k].id <= MaxId
    /\ \A j, k \in Keys : intents[j] # None /\ intents[k] # None /\ intents[j].id = intents[k].id
          => j = k
    /\ \A p \in Places : remote[p] # None => Drawn(remote[p].id)
    /\ \A m \in late : m.kind = "put" => Drawn(m.id)

\* Under the id of an intent only the bytes of its request are stored, or will be.
BodiesSent ==
    \A k \in Keys : intents[k] # None =>
        /\ \A p \in Places : remote[p] # None /\ remote[p].id = intents[k].id
              => remote[p].etag = intents[k].body
        /\ \A m \in late : m.kind = "put" /\ m.id = intents[k].id
              => m.etag = intents[k].body
        /\ intents[k].op = "put" /\ intents[k].etag # None
              => intents[k].etag = intents[k].body

\* What a handler is about to commit is what its client sent.
KnowsBody ==
    \A p \in Procs : req[p] # None /\ req[p].op \notin Deleting /\ Awaits(req[p])
        => req[p].etag = intents[req[p].key].body

\* The condition holds of the version it was checked on.
ConditionsHold ==
    \A k \in Keys : intents[k] # None /\ intents[k].prev = CurrentId(k)
        => ConditionHolds(k, intents[k].cond)

RequestInv == IdsDrawn /\ BodiesSent /\ KnowsBody /\ ConditionsHold

-----------------------------------------------------------------------------
(* What the rows say a bucket stores.                                      *)

\* The cleanup that the job works on is still recorded.
CleanupClaimed ==
    chore # None /\ chore.kind = "cleanup" => cleanups[CleanupPlace] # None

\* The terms of the sums over the rows of bucket b.
IndexedTerm(b, k) ==
    IF objects[k] # None /\ objects[k].bucket = b THEN SizeOf[objects[k].etag] ELSE 0

CleanupTerm(b, k) ==
    IF cleanups[<<b, k>>] = None THEN 0 ELSE SizeOf[cleanups[<<b, k>>]]

-----------------------------------------------------------------------------
(* What a bucket stores.                                                   *)

\* The target of the put on k holds what that put has sent.
Published(k) == remote[TargetOf(k)] # None /\ remote[TargetOf(k)].id = intents[k].id

\* Every stored version of key k is the indexed object, an old copy or the pending put's.
Accounted(k) ==
    \A b \in Buckets : remote[<<b, k>>] # None =>
        \/ /\ objects[k] # None /\ objects[k].bucket = b
           /\ objects[k].etag = remote[<<b, k>>].etag
        \/ cleanups[<<b, k>>] = remote[<<b, k>>].etag
        \/ /\ intents[k] # None /\ intents[k].op = "put" /\ intents[k].bucket = b
           /\ intents[k].id = remote[<<b, k>>].id

\* The indexed object has its bytes ...
Kept(k) ==
    LET there == remote[PlaceOf(objects[k])]
    IN  /\ there # None /\ there.etag = objects[k].etag
        /\ there.id \in {NoId, objects[k].id}

\* ... or its pending delete has removed them, or its pending put replaced them.
Overtaken(k) ==
    /\ intents[k] # None /\ intents[k].prev = objects[k].id
    /\ IF intents[k].op = "delete" THEN remote[PlaceOf(objects[k])] = None
       ELSE /\ PreviousAtTarget(k) /\ Published(k)
            /\ remote[TargetOf(k)].etag = intents[k].body

\* What is stored under a key agrees with its rows; a delete is about the bucket its
\* object lies in.
KeyInv(k) ==
    /\ intents[k] # None /\ intents[k].op = "delete" => intents[k].bucket = objects[k].bucket
    /\ Accounted(k)
    /\ objects[k] # None => Kept(k) \/ Overtaken(k)

\* What handler r of a put on k, or of a delete, knows of the place it works on.
NotSent(r) == r.pc \in {"begun", "sending", "rejected"}

Saw(r, verdict) == r.pc = "seen" /\ r.seen = verdict

KnowsPut(r, k) ==
    /\ (NotSent(r) \/ Saw(r, "previous") \/ Saw(r, "absent")) => ~Published(k)
    /\ Awaits(r) => Published(k)

KnowsDelete(r, k) ==
    /\ (r.pc = "removed" \/ Saw(r, "absent")) => remote[PlaceOf(objects[k])] = None
    /\ (r.op = "delete" /\ (NotSent(r) \/ Saw(r, "previous")))
          => remote[PlaceOf(objects[k])] # None
    /\ r.op = "redelete" => r.pc \notin {"begun", "rejected"}
    /\ r.seen # "gone"

Knows(r) == IF r.op \in Deleting THEN KnowsDelete(r, r.key) ELSE KnowsPut(r, r.key)

\* The rows of the index that a reliable R2 keeps in order.
FenceInv == OwnKeys /\ PreviousIsCurrent /\ FencesPuts /\ SparesObjects

StoredInv ==
    /\ late = {}
    /\ \A k \in Keys : KeyInv(k)
    /\ \A p \in Procs : req[p] # None => Knows(req[p])

-----------------------------------------------------------------------------
(* The limits.                                                             *)

\* What key k puts into bucket b, by the rows, and what all keys do.
RowTerm(b, k) == IndexedTerm(b, k) + CleanupTerm(b, k) + ReservedTerm(b, k)

RowBytes(b) == SumFunction([k \in Keys |-> RowTerm(b, k)])

RowsWithinLimits ==
    /\ \A b \in Buckets \ Overflow : RowBytes(b) <= BucketLimit
    /\ Overflow = {} =>
          \A a \in Accounts :
             SumFunction([b \in Buckets |-> IF AccountOf[b] = a THEN RowBytes(b) ELSE 0])
                 <= AccountLimit

-----------------------------------------------------------------------------
(* Proofs: the ledger of reservations.                                     *)

\* What an intent reserves is a number of bytes.
LEMMA ReservedTermType ==
    ASSUME RowsTypeOK, NEW b \in Buckets, NEW k \in Keys
    PROVE  ReservedTerm(b, k) \in Nat
BY DEF RowsTypeOK, Intent, ReservedTerm

\* The ledger, with its sum named.
LEMMA BalancedIs ==
    ReservationsBalanced <=> \A b \in Buckets : reserved[b] = ReservedBytes(b)
BY DEF ReservationsBalanced, ReservedBytes, ReservedTerm

\* A step that changes at most the intent on k changes the sum by that intent's part.
LEMMA ReservedChanges ==
    ASSUME RowsTypeOK, RowsTypeOK', NEW k \in Keys, NEW b \in Buckets,
           \A j \in Keys : j # k => intents'[j] = intents[j]
    PROVE  /\ ReservedBytes(b) \in Nat
           /\ ReservedTerm(b, k) \in Nat /\ ReservedTerm(b, k)' \in Nat
           /\ ReservedTerm(b, k) <= ReservedBytes(b)
           /\ ReservedBytes(b)' = ReservedBytes(b) + ReservedTerm(b, k)' - ReservedTerm(b, k)
<1> DEFINE f == [j \in Keys |-> ReservedTerm(b, j)]
           g == [j \in Keys |-> ReservedTerm(b, j)']
<1>1. f \in [Keys -> Nat]
  BY ReservedTermType
<1>2. \A j \in Keys : ReservedTerm(b, j)' \in Nat
  BY DEF RowsTypeOK, Intent, ReservedTerm
<1>3. \A j \in Keys \ {k} : g[j] = f[j]
  BY DEF ReservedTerm
<1>4. IsFiniteSet(Keys)
  BY IndexAssumption
<1>5. g \in [Keys -> Nat] /\ f \in [Keys -> Int] /\ g \in [Keys -> Int]
  BY <1>1, <1>2
<1>6. f[k] = ReservedTerm(b, k) /\ g[k] = ReservedTerm(b, k)'
  OBVIOUS
<1>7. ReservedBytes(b) = SumFunction(f) /\ ReservedBytes(b)' = SumFunction(g)
  BY DEF ReservedBytes
<1> HIDE DEF f, g
<1>8. SumFunction(g) = SumFunction(f) + g[k] - f[k]
  BY <1>3, <1>4, <1>5, SumChange
<1>9. SumFunction(f) \in Nat /\ f[k] <= SumFunction(f)
  BY <1>1, <1>4, SumNat, SumCovers
<1> QED
  BY <1>1, <1>5, <1>6, <1>7, <1>8, <1>9

\* Opening an intent.
LEMMA LedgerBegins ==
    ASSUME IInv, IInv', LedgerInv, NEW k \in Keys,
           \/ \E body \in Contents, cond \in Conditions, b \in Buckets : BeginWrite(k, body, cond, b)
           \/ \E cond \in Conditions : BeginDeleteWrite(k, cond)
    PROVE  LedgerInv'
<1> USE IndexAssumption DEF IInv, IndexInv
<1>1. CASE \E body \in Contents, cond \in Conditions, b \in Buckets : BeginWrite(k, body, cond, b)
  <2>1. PICK body \in Contents, cond \in Conditions, b \in Buckets : BeginWrite(k, body, cond, b)
    BY <1>1
  <2>2. /\ intents[k] = None /\ intents'[k] # None
        /\ intents'[k].bucket = b /\ intents'[k].reserved = SizeOf[body]
        /\ intents'[k].op = "put" /\ intents'[k].body = body
        /\ \A j \in Keys : j # k => intents'[j] = intents[j]
    BY <2>1, BeginWriteStep DEF BeginWrite, RowsTypeOK
  <2>3. /\ storage' = storage /\ reserved' = [reserved EXCEPT ![b] = @ + SizeOf[body]]
        /\ SizeOf[body] \in Nat
    BY <2>1 DEF BeginWrite
  <2>4. CountersTypeOK'
    BY <2>3 DEF LedgerInv, CountersTypeOK
  <2>5. ReservesBody'
    BY <2>2 DEF LedgerInv, ReservesBody
  <2>6. \A c \in Buckets : reserved'[c] = ReservedBytes(c)'
    <3> TAKE c \in Buckets
    <3>1. ReservedTerm(c, k) = 0 /\ ReservedTerm(c, k)' = IF c = b THEN SizeOf[body] ELSE 0
      BY <2>2 DEF ReservedTerm
    <3>2. reserved[c] = ReservedBytes(c) /\ ReservedBytes(c) \in Nat
      BY <2>2, BalancedIs, ReservedChanges DEF LedgerInv
    <3>3. ReservedBytes(c)' = ReservedBytes(c) + ReservedTerm(c, k)' - ReservedTerm(c, k)
      BY <2>2, ReservedChanges
    <3>4. reserved'[c] = IF c = b THEN reserved[c] + SizeOf[body] ELSE reserved[c]
      BY <2>3 DEF LedgerInv, CountersTypeOK
    <3> QED
      BY <2>3, <3>1, <3>2, <3>3, <3>4
  <2> QED
    BY <2>4, <2>5, <2>6, BalancedIs DEF LedgerInv, ReservationsBalanced, ReservedBytes, ReservedTerm
<1>2. CASE \E cond \in Conditions : BeginDeleteWrite(k, cond)
  <2>1. PICK cond \in Conditions : BeginDeleteWrite(k, cond)
    BY <1>2
  <2>2. /\ intents[k] = None /\ intents'[k].reserved = 0 /\ intents'[k].op = "delete"
        /\ \A j \in Keys : j # k => intents'[j] = intents[j]
    BY <2>1 DEF BeginDeleteWrite, RowsTypeOK
  <2>3. storage' = storage /\ reserved' = reserved
    BY <2>1 DEF BeginDeleteWrite
  <2>4. CountersTypeOK' /\ ReservesBody'
    BY <2>2, <2>3 DEF LedgerInv, CountersTypeOK, ReservesBody
  <2>5. \A c \in Buckets : reserved'[c] = ReservedBytes(c)'
    <3> TAKE c \in Buckets
    <3>1. ReservedTerm(c, k) = 0 /\ ReservedTerm(c, k)' = 0
      BY <2>2 DEF ReservedTerm
    <3>2. reserved[c] = ReservedBytes(c) /\ ReservedBytes(c) \in Nat
      BY <2>2, BalancedIs, ReservedChanges DEF LedgerInv
    <3>3. ReservedBytes(c)' = ReservedBytes(c) + ReservedTerm(c, k)' - ReservedTerm(c, k)
      BY <2>2, ReservedChanges
    <3> QED
      BY <2>3, <3>1, <3>2, <3>3
  <2> QED
    BY <2>4, <2>5 DEF LedgerInv, ReservationsBalanced, ReservedBytes, ReservedTerm
<1> QED
  BY <1>1, <1>2

\* Closing an intent gives back exactly what it reserved.
LEMMA LedgerCloses ==
    ASSUME IInv, IInv', LedgerInv, NEW k \in Keys, intents[k] # None,
           intents' = [intents EXCEPT ![k] = None],
           storage' \in [Buckets -> Nat],
           reserved' = [reserved EXCEPT ![intents[k].bucket] = Less(@, intents[k].reserved)]
    PROVE  LedgerInv'
<1> USE IndexAssumption DEF IInv, IndexInv
<1> DEFINE b == intents[k].bucket
           n == intents[k].reserved
<1>1. /\ intents'[k] = None /\ \A j \in Keys : j # k => intents'[j] = intents[j]
      /\ b \in Buckets /\ n \in Nat
  BY DEF RowsTypeOK, Intent
<1>2. \A c \in Buckets : /\ ReservedTerm(c, k) = (IF c = b THEN n ELSE 0)
                         /\ ReservedTerm(c, k)' = 0
  BY <1>1 DEF ReservedTerm
<1>3. \A c \in Buckets : /\ reserved[c] = ReservedBytes(c) /\ ReservedBytes(c) \in Nat
                         /\ ReservedTerm(c, k) <= ReservedBytes(c)
                         /\ ReservedBytes(c)' = ReservedBytes(c) + ReservedTerm(c, k)'
                                                - ReservedTerm(c, k)
  BY <1>1, BalancedIs, ReservedChanges DEF LedgerInv
<1>4. \A c \in Buckets : reserved'[c] = IF c = b THEN Less(reserved[c], n) ELSE reserved[c]
  BY <1>1 DEF LedgerInv, CountersTypeOK
<1> HIDE DEF b, n
<1>5. \A c \in Buckets : reserved'[c] = ReservedBytes(c)' /\ reserved'[c] \in Nat
  BY <1>1, <1>2, <1>3, <1>4 DEF Less
<1>6. CountersTypeOK'
  BY <1>5 DEF LedgerInv, CountersTypeOK
<1>7. ReservesBody'
  BY <1>1 DEF LedgerInv, ReservesBody
<1> QED
  BY <1>5, <1>6, <1>7 DEF LedgerInv, ReservationsBalanced, ReservedBytes, ReservedTerm

\* Moves that leave the intents and reservations alone, or change a state only.
LEMMA LedgerQuiet ==
    ASSUME IInv, LedgerInv, UNCHANGED reserved, storage' \in [Buckets -> Nat],
           \A k \in Keys : (intents'[k] = None <=> intents[k] = None)
           /\ (intents[k] # None => /\ intents'[k].bucket = intents[k].bucket
                                    /\ intents'[k].reserved = intents[k].reserved
                                    /\ intents'[k].op = intents[k].op
                                    /\ intents'[k].body = intents[k].body)
    PROVE  LedgerInv'
<1>1. \A b \in Buckets, k \in Keys : ReservedTerm(b, k)' = ReservedTerm(b, k)
  BY DEF ReservedTerm
<1>2. \A b \in Buckets : ReservedBytes(b)' = ReservedBytes(b)
  BY <1>1 DEF ReservedBytes
<1>3. \A b \in Buckets : reserved'[b] = ReservedBytes(b)'
  BY <1>2, BalancedIs DEF LedgerInv
<1>4. ReservesBody' /\ CountersTypeOK'
  BY DEF LedgerInv, ReservesBody, CountersTypeOK
<1> QED
  BY <1>3, <1>4 DEF LedgerInv, ReservationsBalanced, ReservedBytes, ReservedTerm

\* What the counters become is a number of bytes.
LEMMA RowSumsType ==
    ASSUME RowsTypeOK, NEW b \in Buckets
    PROVE  IndexedBytes(b) \in Nat /\ PendingCleanupBytes(b) \in Nat
<1> DEFINE f == [k \in Keys |-> IF objects[k] # None /\ objects[k].bucket = b
                                THEN SizeOf[objects[k].etag] ELSE 0]
           g == [k \in Keys |-> IF cleanups[<<b, k>>] = None THEN 0
                                ELSE SizeOf[cleanups[<<b, k>>]]]
<1>1. f \in [Keys -> Nat] /\ g \in [Keys -> Nat] /\ IsFiniteSet(Keys)
  BY IndexAssumption DEF RowsTypeOK, Object, Places
<1> HIDE DEF f, g
<1>2. SumFunction(f) \in Nat /\ SumFunction(g) \in Nat
  BY <1>1, SumNat
<1> QED
  BY <1>2 DEF IndexedBytes, PendingCleanupBytes, f, g

\* The larger of two numbers.
LEMMA MaxOfTwo ==
    ASSUME NEW m \in Nat, NEW n \in Nat
    PROVE  Max({m, n}) \in Nat /\ Max({m, n}) >= m /\ Max({m, n}) >= n
<1>1. \E x \in {m, n} : \A y \in {m, n} : x >= y
  OBVIOUS
<1>2. /\ Max({m, n}) \in {m, n}
      /\ \A y \in {m, n} : Max({m, n}) >= y
  BY <1>1 DEF Max
<1> QED
  BY <1>2

\* Every move keeps the ledger.
LEMMA LedgerStep ==
    ASSUME IInv, IInv', LedgerInv, CleanupClaimed, IndexMove
    PROVE  LedgerInv'
<1> USE IndexAssumption
<1>0. RowsTypeOK /\ CountersTypeOK
  BY DEF IInv, IndexInv, LedgerInv
<1>1. CASE \/ \E k \in Keys, body \in Contents, cond \in Conditions, b \in Buckets :
                 BeginWrite(k, body, cond, b)
           \/ \E k \in Keys, cond \in Conditions : BeginDeleteWrite(k, cond)
  BY <1>1, LedgerBegins
<1>2. ASSUME NEW k \in Keys, NEW state \in WriteStates, NEW etag \in Contents \union {None},
             intents[k] # None, UpdateWriteState(k, state, etag)
      PROVE  LedgerInv'
  <2>1. /\ intents[k] \in Intent /\ intents'[k] \in Intent
        /\ UNCHANGED <<storage, reserved>>
        /\ \A j \in Keys : j # k => intents'[j] = intents[j]
    BY <1>2, UpdateWriteStateStep DEF IInv, IndexInv, RowsTypeOK, UpdateWriteState
  <2>2. /\ intents'[k].bucket = intents[k].bucket
        /\ intents'[k].reserved = intents[k].reserved
        /\ intents'[k].op = intents[k].op /\ intents'[k].body = intents[k].body
    BY <1>0, <1>2, <2>1 DEF RowsTypeOK, UpdateWriteState, Intent
  <2>3. intents'[k] # None
    BY <2>1
  <2> QED
    BY <1>0, <1>2, <2>1, <2>2, <2>3, LedgerQuiet DEF CountersTypeOK
<1>3. ASSUME NEW k \in Keys, intents[k] # None, AbortWrite(k) PROVE LedgerInv'
  BY <1>0, <1>3, LedgerCloses DEF AbortWrite, CountersTypeOK
<1>4. ASSUME NEW k \in Keys, NEW etag \in Contents, intents[k] # None, CommitWrite(k, etag)
      PROVE  LedgerInv'
  <2> DEFINE b == intents[k].bucket
             replaced == IF PreviousAtTarget(k) THEN SizeOf[objects[k].etag] ELSE 0
  <2>1. b \in Buckets /\ replaced \in Nat /\ SizeOf[etag] \in Nat
    <3>1. PreviousAtTarget(k) => objects[k] \in Object
      BY PreviousExists DEF PreviousAtTarget, IInv
    <3> QED
      BY <1>0, <1>4, <3>1 DEF RowsTypeOK, Intent, Object
  <2>2. storage' = [storage EXCEPT ![b] = Less(storage[b] + SizeOf[etag], replaced)]
    BY <1>0, <1>4, <2>1 DEF CommitWrite, CountersTypeOK
  <2>3. storage[b] \in Nat
    BY <1>0, <2>1 DEF CountersTypeOK
  <2> HIDE DEF b, replaced
  <2>4. storage' \in [Buckets -> Nat]
    BY <1>0, <2>1, <2>2, <2>3 DEF CountersTypeOK, Less
  <2> QED
    BY <1>4, <2>4, LedgerCloses DEF CommitWrite
<1>5. ASSUME NEW k \in Keys, intents[k] # None, CommitDeleteWrite(k) PROVE LedgerInv'
  <2>1. /\ intents[k] \in Intent /\ objects[k] \in Object /\ intents[k].op = "delete"
        /\ intents[k].reserved = 0
    BY <1>0, <1>5, PreviousExists
       DEF RowsTypeOK, CommitDeleteWrite, CommitDeleteAllowed, LedgerInv, ReservesBody, IInv
  <2>2. objects[k].bucket \in Buckets /\ SizeOf[objects[k].etag] \in Nat
        /\ intents[k].bucket \in Buckets
    BY <2>1 DEF Object, Intent
  <2>3. storage' \in [Buckets -> Nat]
    BY <1>0, <1>5, <2>2 DEF CommitDeleteWrite, CountersTypeOK, Less
  <2>4. reserved' = [reserved EXCEPT ![intents[k].bucket] = Less(@, intents[k].reserved)]
    BY <1>0, <1>5, <2>1, <2>2 DEF CommitDeleteWrite, CountersTypeOK, Less
  <2>5. intents' = [intents EXCEPT ![k] = None]
    BY <1>5 DEF CommitDeleteWrite
  <2> QED
    BY <1>5, <2>3, <2>4, <2>5, LedgerCloses
<1>6. CASE UNCHANGED <<intents, storage, reserved>>
  BY <1>0, <1>6, LedgerQuiet DEF CountersTypeOK
<1>7. ASSUME NEW b \in Buckets, NEW k \in Keys, CompletePhysicalCleanup(<<b, k>>),
             CleanupClaimed, chore # None, chore.kind = "cleanup",
             chore.bucket = b, chore.key = k
      PROVE  LedgerInv'
  <2>1. SizeOf[cleanups[<<b, k>>]] \in Nat
    BY <1>0, <1>7 DEF RowsTypeOK, Places, CleanupClaimed, CleanupPlace
  <2>2. storage' \in [Buckets -> Nat]
    BY <1>0, <1>7, <2>1 DEF CompletePhysicalCleanup, CountersTypeOK, Less
  <2> QED
    BY <1>7, <2>2, LedgerQuiet DEF CompletePhysicalCleanup
<1>8. ASSUME NEW b \in Buckets, NEW bytes \in Nat, FinishBucketScan(b, bytes) PROVE LedgerInv'
  <2>1. storage' \in [Buckets -> Nat]
    BY <1>0, <1>8 DEF FinishBucketScan, CountersTypeOK
  <2> QED
    BY <1>8, <2>1, LedgerQuiet DEF FinishBucketScan
<1>9. ASSUME NEW observed \in [Buckets -> Nat], NEW held \in SUBSET Buckets,
             ApplyAccountCapacity(observed, held)
      PROVE  LedgerInv'
  <2>1. \A b \in Buckets : IndexedBytes(b) + PendingCleanupBytes(b) \in Nat
    BY <1>0, RowSumsType
  <2>2. \A b \in Buckets :
          Max({observed[b], IndexedBytes(b) + PendingCleanupBytes(b)}) \in Nat
    BY <2>1, MaxOfTwo
  <2>3. storage' \in [Buckets -> Nat]
    BY <1>0, <1>9, <2>2 DEF ApplyAccountCapacity, CountersTypeOK
  <2> QED
    BY <1>9, <2>3, LedgerQuiet DEF ApplyAccountCapacity
<1>10. ASSUME NEW b \in Buckets, NEW k \in Keys, NEW etag \in Contents, AdoptObject(b, k, etag)
       PROVE  LedgerInv'
  BY <1>0, <1>10, LedgerQuiet DEF AdoptObject, CountersTypeOK
<1> QED
  BY <1>1, <1>2, <1>3, <1>4, <1>5, <1>6, <1>7, <1>8, <1>9, <1>10 DEF IndexMove

\* The job starts a cleanup on a recorded copy, or goes on with the one it has.
ChoreMove ==
    \/ chore' = None
    \/ chore'.kind # "cleanup"
    \/ chore # None /\ chore.kind = "cleanup" /\ CleanupPlace' = CleanupPlace
    \/ \E b \in Buckets, k \in Keys : BeginCleanup(b, k)

\* Every step is one of these.
LEMMA ChoreMoves == IInv /\ [Next]_vars => ChoreMove
<1> SUFFICES ASSUME IInv, [Next]_vars PROVE ChoreMove
  OBVIOUS
<1>1. CASE UNCHANGED chore
  BY <1>1 DEF ChoreMove, CleanupPlace
<1>2. CASE BeginChore
  <2>1. ASSUME NEW k \in Keys, NEW b \in Buckets, BeginMove(k, b) PROVE ChoreMove
    BY <2>1 DEF BeginMove, ChoreMove, CleanupPlace
  <2>2. ASSUME NEW k \in Keys, NEW b \in Buckets, BeginCleanup(b, k) PROVE ChoreMove
    BY <2>2 DEF ChoreMove
  <2>3. ASSUME NEW kind \in {"adopt", "scan"}, NEW b \in Buckets, BeginScan(kind, b)
        PROVE  ChoreMove
    BY <2>3 DEF BeginScan, ChoreMove
  <2>4. ASSUME NEW a \in Accounts, BeginSync(a) PROVE ChoreMove
    BY <2>4 DEF BeginSync, ChoreMove
  <2>5. CASE BeginPass
    BY <2>5 DEF BeginPass, Pass, ChoreMove
  <2> QED
    BY <1>2, <2>1, <2>2, <2>3, <2>4, <2>5 DEF BeginChore
<1>3. CASE ChoreStep
  <2>1. CASE FinishCleanup \/ RetryCleanup \/ CleanupFails \/ FinishScan \/ ScanFails
             \/ FinishSync \/ SyncFails
    BY <2>1 DEF FinishCleanup, RetryCleanup, CleanupFails, FinishScan, ScanFails, FinishSync,
       SyncFails, EndChore, ChoreMove
  <2>2. CASE CheckCleanup \/ DeleteOldCopy
    <3>1. chore # None /\ chore.kind = "cleanup"
      BY <2>2 DEF CheckCleanup, DeleteOldCopy, Cleaning
    <3>2. PICK pc \in {"delete", "confirm"} : chore' = [chore EXCEPT !.pc = pc]
      BY <2>2 DEF CheckCleanup, DeleteOldCopy
    <3>3. chore'.bucket = chore.bucket /\ chore'.key = chore.key
      BY <3>1, <3>2, ChoreParts DEF IInv
    <3> QED
      BY <3>1, <3>3 DEF ChoreMove, CleanupPlace
  <2>3. CASE ListBucket \/ \E k \in Keys : ImportObject(k)
    <3>1. chore # None /\ chore.kind \in {"adopt", "scan"}
      BY <2>3 DEF ListBucket, ImportObject, Scanning
    <3>2. chore'.kind = chore.kind
      BY <2>3, <3>1, ChoreParts DEF ListBucket, ImportObject, IInv
    <3> QED
      BY <3>1, <3>2 DEF ChoreMove
  <2>4. CASE \E b \in Buckets : LockForSync(b)
    <3>1. chore # None /\ chore.kind = "capacity"
      BY <2>4 DEF LockForSync, Syncing
    <3>2. chore'.kind = chore.kind
      BY <2>4, <3>1, ChoreParts DEF LockForSync, IInv
    <3> QED
      BY <3>1, <3>2 DEF ChoreMove
  <2> QED
    BY <1>3, <2>1, <2>2, <2>3, <2>4 DEF ChoreStep
<1>4. CASE Crash
  BY <1>4 DEF Crash, Pass, ChoreMove
<1>5. ASSUME NEW p \in Procs, Proceed(p) PROVE UNCHANGED chore
  BY <1>5 DEF Proceed, GiveUp, SendPut, SendDelete, Answered, AnswerLost, RequestFails,
     Refused, AbortRejected, MarkCompleting, CommitPut, CommitRemoval, CommitFails,
     LeaveIntent, Head, HeadFails, AbortResolved, HoldUnresolved, DeleteAgain
<1>6. ASSUME NEW p \in Clients, ClientStep(p) PROVE UNCHANGED chore
  BY <1>6 DEF ClientStep, BeginPut, BeginDelete
<1>7. CASE \/ \E message \in late : LateArrival(message)
           \/ StartServing \/ UNCHANGED vars
  BY <1>7, <1>1 DEF LateArrival, StartServing, vars
<1>8. CASE RecoveryStep
  <2>1. CASE EndPass
    BY <2>1 DEF EndPass, ChoreMove
  <2>2. CASE (\E k \in Keys : BeginRecovery(k)) \/ \E i \in 1..MaxId : SkipIntent(i)
    BY <2>2, PassAdvances DEF IInv, BeginRecovery, Meets, TakeUp, SkipIntent, ChoreMove
  <2> QED
    BY <1>8, <2>1, <2>2 DEF RecoveryStep
<1> QED
  BY <1>1, <1>2, <1>3, <1>4, <1>5, <1>6, <1>7, <1>8 DEF Next

\* Only the cleanup that is at work removes a record of an old copy.
LEMMA CleanupsKept ==
    ASSUME IInv, IndexMove, chore' # None, NEW p \in Places, cleanups[p] # None
    PROVE  cleanups'[p] # None
<1>1. ASSUME NEW k \in Keys, NEW etag \in Contents, intents[k] # None, CommitWrite(k, etag)
      PROVE  cleanups'[p] # None
  <2>1. PreviousNeedsCleanup(k) => objects[k].etag \in Contents
    BY PreviousExists DEF PreviousNeedsCleanup, IInv, Object
  <2> QED
    BY <1>1, <2>1, IndexAssumption DEF CommitWrite, IInv, IndexInv, RowsTypeOK
<1>2. CASE UNCHANGED cleanups
  BY <1>2
<1> QED
  BY <1>1, <1>2 DEF IndexMove, BeginWrite, BeginDeleteWrite, UpdateWriteState, AbortWrite,
     CommitDeleteWrite, FinishBucketScan, ApplyAccountCapacity, AdoptObject

\* A cleanup at work keeps its record.
LEMMA ClaimStep ==
    ASSUME IInv, CleanupClaimed, IndexMove, ChoreMove, ChoreOK'
    PROVE  CleanupClaimed'
<1> SUFFICES ASSUME chore' # None, chore'.kind = "cleanup"
             PROVE  cleanups'[CleanupPlace'] # None
  BY DEF CleanupClaimed
<1>1. CASE chore # None /\ chore.kind = "cleanup" /\ CleanupPlace' = CleanupPlace
  <2>1. CleanupPlace \in Places /\ cleanups[CleanupPlace] # None
    BY <1>1, ChoreParts DEF IInv, CleanupPlace, Places, CleanupClaimed
  <2> QED
    BY <1>1, <2>1, CleanupsKept
<1>2. ASSUME NEW b \in Buckets, NEW k \in Keys, BeginCleanup(b, k)
      PROVE  cleanups'[CleanupPlace'] # None
  BY <1>2 DEF BeginCleanup, AcquireBucketMaintenance, CleanupPlace
<1> QED
  BY <1>1, <1>2 DEF ChoreMove

\* An index without intents reserves nothing.
LEMMA LedgerInit == Init => LedgerInv /\ CleanupClaimed
<1> SUFFICES ASSUME Init PROVE LedgerInv /\ CleanupClaimed
  OBVIOUS
<1>1. /\ intents = [k \in Keys |-> None] /\ reserved = [b \in Buckets |-> 0]
      /\ storage = [b \in Buckets |-> BytesAt(b)] /\ chore = None
  BY DEF Init
<1>2. CountersTypeOK
  BY <1>1, InitInv, BytesAtType DEF CountersTypeOK, IInv
<1>3. \A b \in Buckets : ReservedBytes(b) = 0
  <2> TAKE b \in Buckets
  <2>1. [k \in Keys |-> ReservedTerm(b, k)] = [k \in Keys |-> 0]
    BY <1>1 DEF ReservedTerm
  <2> QED
    BY <2>1, SumZero, IndexAssumption DEF ReservedBytes
<1>4. ReservationsBalanced
  BY <1>1, <1>3, BalancedIs
<1> QED
  BY <1>1, <1>2, <1>4 DEF LedgerInv, ReservesBody, CleanupClaimed

\* The ledger and the claim of the cleanup at work are inductive.
THEOREM Ledger == Spec => [](LedgerInv /\ CleanupClaimed)
<1>1. IInv /\ IInv' /\ (LedgerInv /\ CleanupClaimed) /\ [Next]_vars
         => (LedgerInv /\ CleanupClaimed)'
  BY IndexMoves, ChoreMoves, LedgerStep, ClaimStep DEF IInv
<1> QED
  BY <1>1, LedgerInit, Inductive, PTL DEF Spec

\* Where a call that failed for its caller never lands, nothing is on its way.
LEMMA NothingLate ==
    ASSUME ~LateArrivals
    PROVE  Spec => [](late = {})
<1>1. Init => late = {}
  BY DEF Init
<1>2. late = {} /\ [Next]_vars => (late = {})'
  <2> SUFFICES ASSUME late = {}, [Next]_vars PROVE late' = {}
    OBVIOUS
  <2>1. ASSUME NEW p \in Procs, Proceed(p) PROVE late' = {}
    BY <2>1 DEF Proceed, GiveUp, SendPut, SendDelete, Answered, AnswerLost, RequestFails,
       Refused, AbortRejected, MarkCompleting, CommitPut, CommitRemoval, CommitFails,
       LeaveIntent, Head, HeadFails, AbortResolved, HoldUnresolved, DeleteAgain
  <2>2. CASE ChoreStep
    BY <2>2 DEF ChoreStep, FinishCleanup, CheckCleanup, DeleteOldCopy, RetryCleanup,
       CleanupFails, ListBucket, ImportObject, FinishScan, ScanFails, LockForSync, FinishSync,
       SyncFails
  <2>3. CASE BeginChore \/ RecoveryStep
    BY <2>3 DEF BeginChore, BeginMove, BeginCleanup, BeginScan, BeginSync, BeginPass,
       RecoveryStep, BeginRecovery, TakeUp, SkipIntent, EndPass
  <2>4. CASE Crash
    BY <2>4 DEF Crash
  <2>5. ASSUME NEW p \in Clients, ClientStep(p) PROVE late' = {}
    BY <2>5 DEF ClientStep, BeginPut, BeginDelete
  <2>6. CASE StartServing \/ UNCHANGED vars
    BY <2>6 DEF StartServing, vars
  <2> QED
    BY <2>1, <2>2, <2>3, <2>4, <2>5, <2>6 DEF Next
<1> QED
  BY <1>1, <1>2, PTL DEF Spec

\* A deletion sent by processPhysicalCleanup takes an old copy, never the bytes of an
\* indexed object: the row it works on is still there, and a place with such a row is
\* no object's.  This needs that a DELETE which failed for the cleanup never lands, that
\* nothing adopts the old copy, and that no migration has left an object under a physical
\* key of its own.
THEOREM CleanupTakesOldCopies ==
    ASSUME ~LateArrivals, "adopt" \notin Chores, \A k \in Keys : HomeKey[k] = k
    PROVE  Spec => CleanupDeletesOldCopiesOnly
<1>1. (LedgerInv /\ CleanupClaimed) /\ CleanupSparesObjects /\ late = {} /\ [Next]_vars =>
        [\A p \in Places :
           (CleanupLands(p) /\ remote[p] # None /\ remote'[p] = None)
           => \A k \in Keys : objects[k] # None => PlaceOf(objects[k]) # p]_vars
  BY DEF CleanupClaimed, CleanupSparesObjects, Cleaning, CleanupLands
<1>2. Spec => []CleanupSparesObjects
  BY CleanupSpares
<1>3. Spec => [](late = {})
  BY NothingLate
<1> QED
  BY <1>1, <1>2, <1>3, Ledger, PTL DEF Spec, CleanupDeletesOldCopiesOnly

\* Type correctness in full: rows, byte counters, buckets, requests under way,
\* handlers and the work of the job always have the shape TypeOK gives them.
THEOREM CountersTypeCorrect ==
    Spec => [](/\ IndexTypeOK
               /\ remote \in [Places -> Remote \union {None}] /\ late \subseteq Message
               /\ req \in [Procs -> Request \union {None}]
               /\ chore \in Chore \union {None})
<1>1. IInv /\ LedgerInv => /\ IndexTypeOK
                           /\ remote \in [Places -> Remote \union {None}] /\ late \subseteq Message
                           /\ req \in [Procs -> Request \union {None}]
                           /\ chore \in Chore \union {None}
  BY DEF IInv, IndexInv, RemoteOK, HandlersInv, ChoreOK, LedgerInv, IndexTypeOK
<1> QED
  BY <1>1, Inductive, Ledger, PTL

\* The reservation ledger of write_intents.go neither leaks nor forgets: whatever
\* commits, aborts, fails, arrives late or is recovered after a crash, a bucket
\* reserves exactly what its pending puts may still store.  The MAX(..., 0) of the
\* statements never hides a difference.
THEOREM ReservationsAddUp == Spec => []ReservationsBalanced
<1>1. LedgerInv => ReservationsBalanced
  BY DEF LedgerInv
<1> QED
  BY <1>1, Ledger, PTL

-----------------------------------------------------------------------------
(* Proofs: storage_bytes covers the rows.                                  *)

\* The terms of the sums are numbers of bytes.
LEMMA RowTermsType ==
    ASSUME RowsTypeOK, NEW b \in Buckets, NEW k \in Keys
    PROVE  IndexedTerm(b, k) \in Nat /\ CleanupTerm(b, k) \in Nat
BY IndexAssumption DEF RowsTypeOK, Object, Places, IndexedTerm, CleanupTerm

\* A step that changes at most the object on k.
LEMMA IndexedChanges ==
    ASSUME RowsTypeOK, RowsTypeOK', NEW k \in Keys, NEW b \in Buckets,
           \A j \in Keys : j # k => objects'[j] = objects[j]
    PROVE  /\ IndexedBytes(b) \in Nat /\ IndexedBytes(b)' \in Nat
           /\ IndexedTerm(b, k) \in Nat /\ IndexedTerm(b, k)' \in Nat
           /\ IndexedTerm(b, k) <= IndexedBytes(b)
           /\ IndexedBytes(b)' = IndexedBytes(b) + IndexedTerm(b, k)' - IndexedTerm(b, k)
<1> DEFINE f == [j \in Keys |-> IndexedTerm(b, j)]
           g == [j \in Keys |-> IndexedTerm(b, j)']
<1>1. f \in [Keys -> Nat]
  BY RowTermsType
<1>2. \A j \in Keys : IndexedTerm(b, j)' \in Nat
  BY IndexAssumption DEF RowsTypeOK, Object, IndexedTerm
<1>3. \A j \in Keys \ {k} : g[j] = f[j]
  BY DEF IndexedTerm
<1>4. IsFiniteSet(Keys)
  BY IndexAssumption
<1>5. g \in [Keys -> Nat] /\ f \in [Keys -> Int] /\ g \in [Keys -> Int]
  BY <1>1, <1>2
<1>6. f[k] = IndexedTerm(b, k) /\ g[k] = IndexedTerm(b, k)'
  OBVIOUS
<1>7. IndexedBytes(b) = SumFunction(f) /\ IndexedBytes(b)' = SumFunction(g)
  BY DEF IndexedBytes, IndexedTerm
<1> HIDE DEF f, g
<1>8. SumFunction(g) = SumFunction(f) + g[k] - f[k]
  BY <1>3, <1>4, <1>5, SumChange
<1>9. SumFunction(f) \in Nat /\ f[k] <= SumFunction(f) /\ SumFunction(g) \in Nat
  BY <1>1, <1>4, <1>5, SumNat, SumCovers
<1> QED
  BY <1>1, <1>5, <1>6, <1>7, <1>8, <1>9

\* A step that changes at most the old copy of key k in bucket b.
LEMMA CleanupChanges ==
    ASSUME RowsTypeOK, RowsTypeOK', NEW k \in Keys, NEW b \in Buckets,
           \A j \in Keys : j # k => cleanups'[<<b, j>>] = cleanups[<<b, j>>]
    PROVE  /\ PendingCleanupBytes(b) \in Nat /\ PendingCleanupBytes(b)' \in Nat
           /\ CleanupTerm(b, k) \in Nat /\ CleanupTerm(b, k)' \in Nat
           /\ CleanupTerm(b, k) <= PendingCleanupBytes(b)
           /\ PendingCleanupBytes(b)'
                = PendingCleanupBytes(b) + CleanupTerm(b, k)' - CleanupTerm(b, k)
<1> DEFINE f == [j \in Keys |-> CleanupTerm(b, j)]
           g == [j \in Keys |-> CleanupTerm(b, j)']
<1>1. f \in [Keys -> Nat]
  BY RowTermsType
<1>2. \A j \in Keys : CleanupTerm(b, j)' \in Nat
  BY IndexAssumption DEF RowsTypeOK, Places, CleanupTerm
<1>3. \A j \in Keys \ {k} : g[j] = f[j]
  BY DEF CleanupTerm
<1>4. IsFiniteSet(Keys)
  BY IndexAssumption
<1>5. g \in [Keys -> Nat] /\ f \in [Keys -> Int] /\ g \in [Keys -> Int]
  BY <1>1, <1>2
<1>6. f[k] = CleanupTerm(b, k) /\ g[k] = CleanupTerm(b, k)'
  OBVIOUS
<1>7. PendingCleanupBytes(b) = SumFunction(f) /\ PendingCleanupBytes(b)' = SumFunction(g)
  BY DEF PendingCleanupBytes, CleanupTerm
<1> HIDE DEF f, g
<1>8. SumFunction(g) = SumFunction(f) + g[k] - f[k]
  BY <1>3, <1>4, <1>5, SumChange
<1>9. SumFunction(f) \in Nat /\ f[k] <= SumFunction(f) /\ SumFunction(g) \in Nat
  BY <1>1, <1>4, <1>5, SumNat, SumCovers
<1> QED
  BY <1>1, <1>5, <1>6, <1>7, <1>8, <1>9

\* A step that records an old copy, and nothing else about old copies.
LEMMA CleanupRecorded ==
    ASSUME RowsTypeOK, RowsTypeOK', NEW c \in Buckets, NEW q \in Keys, NEW etag \in Contents,
           cleanups[<<c, q>>] = None, cleanups' = [cleanups EXCEPT ![<<c, q>>] = etag],
           NEW d \in Buckets
    PROVE  PendingCleanupBytes(d)' = PendingCleanupBytes(d) + (IF d = c THEN SizeOf[etag] ELSE 0)
<1> USE IndexAssumption
<1>1. \A j \in Keys : j # q => cleanups'[<<d, j>>] = cleanups[<<d, j>>]
  BY DEF RowsTypeOK, Places
<1>2. /\ CleanupTerm(d, q)' = (IF d = c THEN SizeOf[etag] ELSE CleanupTerm(d, q))
      /\ d = c => CleanupTerm(d, q) = 0
  BY DEF CleanupTerm, RowsTypeOK, Places
<1>3. /\ PendingCleanupBytes(d)'
            = PendingCleanupBytes(d) + CleanupTerm(d, q)' - CleanupTerm(d, q)
      /\ CleanupTerm(d, q) \in Nat /\ CleanupTerm(d, q)' \in Nat
      /\ PendingCleanupBytes(d) \in Nat
  BY <1>1, CleanupChanges
<1> QED
  BY <1>2, <1>3

\* A commit adds the bytes of the new version to its bucket; those of the version
\* it replaces leave the counter when the new ones take their place, and become
\* an old copy otherwise.
LEMMA CoverCommit ==
    ASSUME RowsTypeOK, RowsTypeOK', CountersTypeOK, StorageCoversRows,
           NEW k \in Keys, NEW etag \in Contents, intents[k] # None, CommitWrite(k, etag)
    PROVE  StorageCoversRows'
<1> USE IndexAssumption
<1> DEFINE b == intents[k].bucket
           new == SizeOf[etag]
           old == IF objects[k] = None THEN 0 ELSE SizeOf[objects[k].etag]
<1>1. /\ b \in Buckets /\ new \in Nat /\ old \in Nat
      /\ objects[k] # None => objects[k].bucket \in Buckets /\ objects[k].pkey \in Keys
  BY DEF RowsTypeOK, Intent, Object
<1>2. /\ objects' = [objects EXCEPT ![k] = [id |-> intents[k].id, bucket |-> b,
                                            pkey |-> k, etag |-> etag]]
      /\ objects'[k] # None
  <2>1. [id |-> intents[k].id, bucket |-> b, pkey |-> k, etag |-> etag] \in Object
    BY DEF RowsTypeOK, Intent, Object
  <2> QED
    BY <2>1 DEF CommitWrite, RowsTypeOK
<1>3. \A j \in Keys : j # k => objects'[j] = objects[j]
  BY <1>2 DEF RowsTypeOK
<1>4. \A c \in Buckets : /\ IndexedTerm(c, k)' = (IF c = b THEN new ELSE 0)
                         /\ IndexedTerm(c, k) = (IF objects[k] # None /\ objects[k].bucket = c
                                                 THEN old ELSE 0)
  BY <1>2 DEF IndexedTerm, RowsTypeOK
<1>5. \A c \in Buckets :
         /\ IndexedBytes(c) \in Nat /\ PendingCleanupBytes(c) \in Nat /\ storage[c] \in Nat
         /\ storage[c] >= IndexedBytes(c) + PendingCleanupBytes(c)
         /\ IndexedTerm(c, k) <= IndexedBytes(c)
         /\ IndexedBytes(c)' = IndexedBytes(c) + IndexedTerm(c, k)' - IndexedTerm(c, k)
  BY <1>3, IndexedChanges, RowSumsType DEF StorageCoversRows, CountersTypeOK
<1>6. objects[k] # None => HasPrevious(k)
  BY DEF CommitWrite, CommitAllowed, HasPrevious, CurrentId, RowsTypeOK, Object, Ids, NoId
<1>7. CASE PreviousNeedsCleanup(k)
  <2> DEFINE c == objects[k].bucket
             q == objects[k].pkey
  <2>1. objects[k] # None /\ c \in Buckets /\ q \in Keys /\ objects[k].etag \in Contents
        /\ old = SizeOf[objects[k].etag] /\ PlaceOf(objects[k]) = <<c, q>>
    BY <1>1, <1>7 DEF PreviousNeedsCleanup, HasPrevious, CurrentId, RowsTypeOK, Object, PlaceOf
  <2>2. cleanups' = [cleanups EXCEPT ![<<c, q>>] = objects[k].etag] /\ cleanups[<<c, q>>] = None
    BY <1>7, <2>1 DEF CommitWrite, CommitAllowed
  <2>3. storage' = [storage EXCEPT ![b] = Less(storage[b] + new, 0)]
    BY <1>1, <1>7 DEF CommitWrite, CountersTypeOK, PreviousNeedsCleanup
  <2>4. ASSUME NEW d \in Buckets
        PROVE  PendingCleanupBytes(d)' = PendingCleanupBytes(d) + (IF d = c THEN old ELSE 0)
    <3>1. PICK e \in Buckets, r \in Keys, gone \in Contents :
             e = c /\ r = q /\ gone = objects[k].etag
      BY <2>1
    <3>2. cleanups[<<e, r>>] = None /\ cleanups' = [cleanups EXCEPT ![<<e, r>>] = gone]
      BY <2>2, <3>1
    <3>3. PendingCleanupBytes(d)' = PendingCleanupBytes(d) + (IF d = e THEN SizeOf[gone] ELSE 0)
      BY <3>2, CleanupRecorded
    <3> QED
      BY <2>1, <3>1, <3>3
  <2>5. \A d \in Buckets : storage'[d] = IF d = b THEN Less(storage[d] + new, 0) ELSE storage[d]
    BY <1>1, <2>3 DEF CountersTypeOK
  <2> HIDE DEF b, c, new, old
  <2>6. ASSUME NEW d \in Buckets
        PROVE  storage'[d] >= IndexedBytes(d)' + PendingCleanupBytes(d)'
    <3>1. IndexedTerm(d, k) = IF c = d THEN old ELSE 0
      BY <1>4, <2>1 DEF c
    <3>2. IndexedTerm(d, k)' = IF d = b THEN new ELSE 0
      BY <1>4
    <3> QED
      BY <1>1, <1>5, <2>4, <2>5, <3>1, <3>2 DEF Less
  <2> QED
    BY <2>6 DEF StorageCoversRows
<1>8. CASE ~PreviousNeedsCleanup(k)
  <2>1. cleanups' = cleanups
    BY <1>8 DEF CommitWrite
  <2>2. objects[k] # None => PreviousAtTarget(k) /\ objects[k].bucket = b
    BY <1>6, <1>8 DEF PreviousNeedsCleanup, PreviousAtTarget, PlaceOf, TargetOf
  <2>3. PreviousAtTarget(k) => objects[k] # None
    BY DEF PreviousAtTarget, HasPrevious, CurrentId
  <2>4. storage' = [storage EXCEPT ![b] = Less(storage[b] + new, old)]
    BY <1>1, <2>2, <2>3 DEF CommitWrite, CountersTypeOK
  <2>5. \A d \in Buckets : storage'[d] = IF d = b THEN Less(storage[d] + new, old) ELSE storage[d]
    BY <1>1, <2>4 DEF CountersTypeOK
  <2>6. \A d \in Buckets : PendingCleanupBytes(d)' = PendingCleanupBytes(d)
    BY <2>1 DEF PendingCleanupBytes
  <2>7. \A d \in Buckets : IndexedTerm(d, k) = IF d = b THEN old ELSE 0
    BY <1>4, <2>2
  <2> HIDE DEF b, new, old
  <2>8. ASSUME NEW d \in Buckets
        PROVE  storage'[d] >= IndexedBytes(d)' + PendingCleanupBytes(d)'
    <3>1. IndexedTerm(d, k)' = IF d = b THEN new ELSE 0
      BY <1>4
    <3> QED
      BY <1>1, <1>5, <2>5, <2>6, <2>7, <3>1 DEF Less
  <2> QED
    BY <2>8 DEF StorageCoversRows
<1> QED
  BY <1>7, <1>8

\* Every move but adoption and scans keeps the rows covered.
LEMMA CoverStep ==
    ASSUME IInv, IInv', LedgerInv, CleanupClaimed, StorageCoversRows, IndexMove,
           "adopt" \notin Chores, "scan" \notin Chores
    PROVE  StorageCoversRows'
<1> USE IndexAssumption
<1>0. RowsTypeOK /\ RowsTypeOK' /\ CountersTypeOK
  BY DEF IInv, IndexInv, LedgerInv
<1>1. ASSUME NEW k \in Keys, NEW etag \in Contents, intents[k] # None, CommitWrite(k, etag)
      PROVE  StorageCoversRows'
  BY <1>0, <1>1, CoverCommit
<1>2. ASSUME NEW k \in Keys, intents[k] # None, CommitDeleteWrite(k)
      PROVE  StorageCoversRows'
  <2> DEFINE c == objects[k].bucket
             old == SizeOf[objects[k].etag]
  <2>1. objects[k] # None /\ c \in Buckets /\ old \in Nat
    BY <1>0, <1>2, PreviousExists DEF CommitDeleteWrite, CommitDeleteAllowed, Object, IInv
  <2>2. /\ objects'[k] = None /\ \A j \in Keys : j # k => objects'[j] = objects[j]
        /\ cleanups' = cleanups
        /\ storage' = [storage EXCEPT ![c] = Less(storage[c], old)]
    BY <1>0, <1>2, <2>1 DEF CommitDeleteWrite, RowsTypeOK, CountersTypeOK
  <2>3. \A d \in Buckets : storage'[d] = IF d = c THEN Less(storage[d], old) ELSE storage[d]
    BY <1>0, <2>1, <2>2 DEF CountersTypeOK
  <2>4. \A d \in Buckets : PendingCleanupBytes(d)' = PendingCleanupBytes(d)
    BY <2>2 DEF PendingCleanupBytes
  <2>5. \A d \in Buckets : /\ IndexedTerm(d, k)' = 0
                           /\ IndexedTerm(d, k) = IF d = c THEN old ELSE 0
    BY <2>1, <2>2 DEF IndexedTerm
  <2> HIDE DEF c, old
  <2>6. ASSUME NEW d \in Buckets
        PROVE  storage'[d] >= IndexedBytes(d)' + PendingCleanupBytes(d)'
    <3>1. /\ IndexedBytes(d) \in Nat /\ PendingCleanupBytes(d) \in Nat /\ storage[d] \in Nat
          /\ storage[d] >= IndexedBytes(d) + PendingCleanupBytes(d)
      BY <1>0, RowSumsType DEF StorageCoversRows, CountersTypeOK
    <3>2. /\ IndexedTerm(d, k) <= IndexedBytes(d)
          /\ IndexedBytes(d)' = IndexedBytes(d) + IndexedTerm(d, k)' - IndexedTerm(d, k)
      BY <1>0, <2>2, IndexedChanges
    <3> QED
      BY <2>1, <2>3, <2>4, <2>5, <3>1, <3>2 DEF Less
  <2> QED
    BY <2>6 DEF StorageCoversRows
<1>3. ASSUME NEW b \in Buckets, NEW k \in Keys, CompletePhysicalCleanup(<<b, k>>),
             chore # None, chore.kind = "cleanup", chore.bucket = b, chore.key = k
      PROVE  StorageCoversRows'
  <2> DEFINE old == SizeOf[cleanups[<<b, k>>]]
  <2>1. cleanups[<<b, k>>] # None /\ old \in Nat
    BY <1>0, <1>3 DEF CleanupClaimed, CleanupPlace, RowsTypeOK, Places
  <2>2. /\ objects' = objects
        /\ cleanups' = [cleanups EXCEPT ![<<b, k>>] = None]
        /\ \A d \in Buckets : storage'[d] = IF d = b THEN Less(storage[d], old) ELSE storage[d]
    BY <1>0, <1>3 DEF CompletePhysicalCleanup, CountersTypeOK
  <2>3. ASSUME NEW d \in Buckets
        PROVE  /\ \A j \in Keys : j # k => cleanups'[<<d, j>>] = cleanups[<<d, j>>]
               /\ CleanupTerm(d, k)' = IF d = b THEN 0 ELSE CleanupTerm(d, k)
               /\ d = b => CleanupTerm(d, k) = old
    BY <1>0, <2>1, <2>2 DEF CleanupTerm, RowsTypeOK, Places
  <2> HIDE DEF old
  <2>4. ASSUME NEW d \in Buckets
        PROVE  storage'[d] >= IndexedBytes(d)' + PendingCleanupBytes(d)'
    <3>1. /\ IndexedBytes(d) \in Nat /\ PendingCleanupBytes(d) \in Nat /\ storage[d] \in Nat
          /\ storage[d] >= IndexedBytes(d) + PendingCleanupBytes(d)
      BY <1>0, RowSumsType DEF StorageCoversRows, CountersTypeOK
    <3>2. IndexedBytes(d)' = IndexedBytes(d)
      BY <2>2 DEF IndexedBytes
    <3>3. /\ CleanupTerm(d, k) <= PendingCleanupBytes(d) /\ CleanupTerm(d, k) \in Nat
          /\ PendingCleanupBytes(d)'
               = PendingCleanupBytes(d) + CleanupTerm(d, k)' - CleanupTerm(d, k)
      BY <1>0, <2>3, CleanupChanges
    <3> QED
      BY <2>1, <2>2, <2>3, <3>1, <3>2, <3>3 DEF Less
  <2> QED
    BY <2>4 DEF StorageCoversRows
<1>4. ASSUME NEW observed \in [Buckets -> Nat], NEW held \in SUBSET Buckets,
             ApplyAccountCapacity(observed, held)
      PROVE  StorageCoversRows'
  <2> SUFFICES ASSUME NEW b \in Buckets
               PROVE  storage'[b] >= IndexedBytes(b)' + PendingCleanupBytes(b)'
    BY DEF StorageCoversRows
  <2>1. IndexedBytes(b)' = IndexedBytes(b) /\ PendingCleanupBytes(b)' = PendingCleanupBytes(b)
    BY <1>4 DEF ApplyAccountCapacity, IndexedBytes, PendingCleanupBytes
  <2>2. Max({observed[b], IndexedBytes(b) + PendingCleanupBytes(b)})
           >= IndexedBytes(b) + PendingCleanupBytes(b)
    <3>1. IndexedBytes(b) + PendingCleanupBytes(b) \in Nat /\ observed[b] \in Nat
      BY <1>0, RowSumsType
    <3> QED
      BY <3>1, MaxOfTwo
  <2> QED
    BY <1>4, <2>1, <2>2 DEF ApplyAccountCapacity, StorageCoversRows
<1>5. CASE UNCHANGED <<objects, cleanups, storage>>
  BY <1>5 DEF StorageCoversRows, IndexedBytes, PendingCleanupBytes
<1> QED
  BY <1>1, <1>2, <1>3, <1>4, <1>5
     DEF IndexMove, BeginWrite, BeginDeleteWrite, UpdateWriteState, AbortWrite


\* An index starts with at most one object, whose bytes lie in its bucket.
LEMMA CoverInit == Init => StorageCoversRows
<1> SUFFICES ASSUME Init, NEW d \in Buckets
             PROVE  storage[d] >= IndexedBytes(d) + PendingCleanupBytes(d)
  BY DEF StorageCoversRows
<1> USE IndexAssumption, WritesAssumption
<1>1. PICK first \in StartKeys, b \in Buckets, c \in Contents,
           own \in {1} \union OtherIds, other \in {NoId} \union OtherIds :
             StartsWith(first, b, c, own, other)
  BY DEF Init
<1>2. storage[d] = BytesAt(d) /\ cleanups = [p \in Places |-> None]
  BY DEF Init
<1>3. RemoteOK /\ RowsTypeOK
  BY InitInv DEF IInv, IndexInv
<1>4. PendingCleanupBytes(d) = 0
  <2>1. [k \in Keys |-> IF cleanups[<<d, k>>] = None THEN 0 ELSE SizeOf[cleanups[<<d, k>>]]]
          = [k \in Keys |-> 0]
    BY <1>2 DEF Places
  <2> QED
    BY <2>1, SumZero DEF PendingCleanupBytes
<1>5. BytesAt(d) \in Nat
  BY <1>3, BytesAtType
<1>6. IndexedBytes(d) <= BytesAt(d) /\ IndexedBytes(d) \in Nat
  <2> DEFINE none == [k \in Keys |-> 0]
             rows == [k \in Keys |-> IndexedTerm(d, k)]
             terms == [k \in Keys |-> IF remote[<<d, k>>] = None THEN 0
                                      ELSE SizeOf[remote[<<d, k>>].etag]]
  <2>1. /\ rows \in [Keys -> Nat] /\ none \in [Keys -> Nat] /\ terms \in [Keys -> Nat]
        /\ rows \in [Keys -> Int] /\ none \in [Keys -> Int]
    BY <1>3, RowTermsType DEF RemoteOK, Places, Remote
  <2>2. IndexedBytes(d) = SumFunction(rows) /\ BytesAt(d) = SumFunction(terms)
    BY DEF IndexedBytes, IndexedTerm, BytesAt
  <2>3. SumFunction(none) = 0
    BY SumZero
  <2> DEFINE object == [id |-> 1, bucket |-> b, pkey |-> HomeKey[first], etag |-> c]
  <2>0. /\ \A k \in Keys : objects[k] = IF k = first THEN object ELSE None
        /\ first \in Keys => object \in Object /\ object # None
        /\ object.bucket = b /\ object.etag = c
    BY <1>1 DEF StartsWith, Object, Ids, NoId
  <2>4. CASE first = None \/ b # d
    <3>1. \A k \in Keys : IndexedTerm(d, k) = 0
      BY <2>0, <2>4 DEF IndexedTerm
    <3>2. rows = none
      BY <3>1
    <3> QED
      BY <1>5, <2>2, <2>3, <3>2
  <2>5. CASE first # None /\ b = d
    <3>1. first \in Keys /\ HomeKey[first] \in Keys /\ none[first] = 0
      BY <2>5
    <3>2. \A k \in Keys \ {first} : rows[k] = none[k]
      BY <2>0 DEF IndexedTerm
    <3>3. rows[first] = SizeOf[c]
      BY <2>0, <2>5, <3>1 DEF IndexedTerm
    <3>4. terms[HomeKey[first]] = SizeOf[c]
      <4>1. remote[<<d, HomeKey[first]>>] = [id |-> own, etag |-> c]
        BY <1>1, <2>5, <3>1 DEF StartsWith, Places
      <4>2. [id |-> own, etag |-> c] \in Remote
        BY DEF Remote, NoId
      <4> QED
        BY <3>1, <4>1, <4>2
    <3>5. SizeOf[c] \in Nat
      OBVIOUS
    <3> HIDE DEF rows, none, terms
    <3>6. SumFunction(rows) = SumFunction(none) + rows[first] - none[first]
      BY <2>1, <3>1, <3>2, SumChange
    <3>7. terms[HomeKey[first]] <= SumFunction(terms)
      BY <2>1, <3>1, SumCovers
    <3> QED
      BY <2>2, <2>3, <3>1, <3>3, <3>4, <3>5, <3>6, <3>7
  <2> QED
    BY <2>4, <2>5
<1> QED
  BY <1>2, <1>4, <1>5, <1>6

\* storage_bytes of a bucket covers every indexed object and every old copy that
\* is not confirmed deleted: through commits that replace in place or move, the
\* MAX(..., 0) of the statements, deletions, cleanups, crashes, and the figures
\* Cloudflare reports.  Adoption and scans are excluded: they set the counter to
\* what one listing has seen.
THEOREM StorageCovers ==
    ASSUME "adopt" \notin Chores, "scan" \notin Chores
    PROVE  Spec => []StorageCoversRows
<1>1. IInv /\ IInv' /\ (LedgerInv /\ CleanupClaimed) /\ StorageCoversRows /\ [Next]_vars
         => StorageCoversRows'
  BY IndexMoves, CoverStep DEF IInv
<1> QED
  BY <1>1, CoverInit, Ledger, Inductive, PTL DEF Spec

-----------------------------------------------------------------------------
(* Proofs: what is committed.                                              *)

\* The identity of an intent: all it says but its state and the ETag it has seen.
SameIntent(k) ==
    /\ intents'[k].id = intents[k].id /\ intents'[k].op = intents[k].op
    /\ intents'[k].bucket = intents[k].bucket /\ intents'[k].prev = intents[k].prev
    /\ intents'[k].reserved = intents[k].reserved
    /\ intents'[k].body = intents[k].body /\ intents'[k].cond = intents[k].cond

\* An open intent keeps its identity until it is closed; its ETag comes from a
\* handler that is about to commit.
IntentKept(k) ==
    intents[k] # None /\ intents'[k] # None =>
        /\ SameIntent(k)
        /\ \/ intents'[k].etag = intents[k].etag
           \/ \E p \in Procs : /\ req[p] # None /\ Awaits(req[p]) /\ req[p].key = k
                               /\ intents'[k].etag = req[p].etag

\* A new intent draws the next id and saw the current version.
IntentOpened(k) ==
    intents[k] = None /\ intents'[k] # None =>
        /\ nextId <= MaxId /\ nextId' = nextId + 1 /\ UNCHANGED objects
        /\ intents'[k].id = nextId /\ intents'[k].prev = CurrentId(k)
        /\ intents'[k].etag = None
        /\ ConditionHolds(k, intents'[k].cond)
        /\ \A j \in Keys : j # k => intents'[j] = intents[j]

\* An object is replaced by the version its intent names, removed by its delete
\* intent, or adopted where there was none.
ObjectMoved(k) ==
    \/ objects'[k] = objects[k]
    \/ /\ intents[k] # None /\ intents'[k] = None /\ objects'[k] # None
       /\ intents[k].op = "put" /\ intents[k].prev = CurrentId(k)
       /\ objects'[k].id = intents[k].id /\ objects'[k].bucket = intents[k].bucket
       /\ \E p \in Procs : /\ req[p] # None /\ Awaits(req[p]) /\ req[p].key = k
                           /\ objects'[k].etag = req[p].etag
    \/ /\ intents[k] # None /\ intents'[k] = None /\ objects'[k] = None
       /\ intents[k].op = "delete" /\ HasPrevious(k)
    \/ /\ objects[k] = None /\ objects'[k] # None
       /\ objects'[k].id = nextId /\ nextId' = nextId + 1 /\ UNCHANGED intents

RowMove(k) == IntentKept(k) /\ IntentOpened(k) /\ ObjectMoved(k)

\* Moves that concern the intent on j only.
LEMMA RowMoveOne ==
    ASSUME IInv, UNCHANGED <<objects, nextId>>, NEW j \in Keys,
           \A k \in Keys : k # j => intents'[k] = intents[k],
           \/ intents'[j] = None
           \/ intents[j] # None /\ IntentKept(j)
    PROVE  \A k \in Keys : RowMove(k)
BY DEF RowMove, IntentKept, IntentOpened, ObjectMoved, SameIntent

\* Every move does this, and only this, to the rows of each key.
LEMMA RowMoves ==
    ASSUME IInv, IndexMove
    PROVE  (\A k \in Keys : RowMove(k)) /\ nextId' \in Nat /\ nextId' >= nextId
<1> USE IndexAssumption
<1>0. RowsTypeOK /\ nextId \in Nat
  BY DEF IInv, IndexInv, RowsTypeOK, Ids
<1>1. ASSUME NEW j \in Keys, NEW body \in Contents, NEW cond \in Conditions, NEW b \in Buckets,
             nextId <= MaxId, BeginWrite(j, body, cond, b)
      PROVE  \A k \in Keys : RowMove(k)
  <2>1. /\ intents'[j].id = nextId /\ intents'[j].prev = CurrentId(j)
        /\ intents'[j].etag = None /\ intents'[j].cond = cond
        /\ intents[j] = None /\ ConditionHolds(j, cond)
        /\ nextId' = nextId + 1 /\ UNCHANGED objects
        /\ \A k \in Keys : k # j => intents'[k] = intents[k]
    BY <1>0, <1>1 DEF BeginWrite, RowsTypeOK
  <2> QED
    BY <1>1, <2>1 DEF RowMove, IntentKept, IntentOpened, ObjectMoved, SameIntent
<1>2. ASSUME NEW j \in Keys, NEW cond \in Conditions, nextId <= MaxId, BeginDeleteWrite(j, cond)
      PROVE  \A k \in Keys : RowMove(k)
  <2>1. /\ intents'[j].id = nextId /\ intents'[j].prev = CurrentId(j)
        /\ intents'[j].etag = None /\ intents'[j].cond = cond
        /\ intents[j] = None /\ ConditionHolds(j, cond)
        /\ nextId' = nextId + 1 /\ UNCHANGED objects
        /\ \A k \in Keys : k # j => intents'[k] = intents[k]
    BY <1>0, <1>2 DEF BeginDeleteWrite, RowsTypeOK, CurrentId
  <2> QED
    BY <1>2, <2>1 DEF RowMove, IntentKept, IntentOpened, ObjectMoved, SameIntent
<1>3. ASSUME NEW j \in Keys, NEW state \in WriteStates, NEW etag \in Contents \union {None},
             intents[j] # None, UpdateWriteState(j, state, etag),
             etag # None => \E p \in Procs : /\ req[p] # None /\ Awaits(req[p])
                                             /\ req[p].key = j /\ req[p].etag = etag
      PROVE  \A k \in Keys : RowMove(k)
  <2>1. intents[j] \in Intent
    BY <1>0, <1>3 DEF RowsTypeOK
  <2>2. /\ SameIntent(j)
        /\ intents'[j].etag = IF etag = None THEN intents[j].etag ELSE etag
        /\ \A k \in Keys : k # j => intents'[k] = intents[k]
    BY <1>0, <1>3, <2>1 DEF UpdateWriteState, RowsTypeOK, Intent, SameIntent
  <2>3. IntentKept(j)
    BY <1>3, <2>2 DEF IntentKept
  <2> QED
    BY <1>3, <2>2, <2>3, RowMoveOne DEF UpdateWriteState
<1>4. ASSUME NEW j \in Keys, AbortWrite(j) PROVE \A k \in Keys : RowMove(k)
  BY <1>0, <1>4, RowMoveOne DEF AbortWrite, RowsTypeOK
<1>5. ASSUME NEW p \in Procs, req[p] # None, Awaits(req[p]), req[p].etag \in Contents,
             req[p].key \in Keys, intents[req[p].key] # None,
             CommitWrite(req[p].key, req[p].etag)
      PROVE  \A k \in Keys : RowMove(k)
  <2> DEFINE j == req[p].key
             object == [id |-> intents[j].id, bucket |-> intents[j].bucket, pkey |-> j,
                        etag |-> req[p].etag]
  <2>1. object \in Object
    BY <1>0, <1>5 DEF RowsTypeOK, Intent, Object
  <2>2. /\ intents'[j] = None /\ objects'[j] = object /\ object # None
        /\ intents[j].op = "put" /\ CurrentId(j) = intents[j].prev
        /\ \A k \in Keys : k # j => intents'[k] = intents[k] /\ objects'[k] = objects[k]
    BY <1>0, <1>5, <2>1 DEF CommitWrite, CommitAllowed, RowsTypeOK
  <2>3. object.id = intents[j].id /\ object.bucket = intents[j].bucket
        /\ object.etag = req[p].etag
    OBVIOUS
  <2> HIDE DEF object
  <2>4. RowMove(j)
    BY <1>5, <2>2, <2>3 DEF RowMove, IntentKept, IntentOpened, ObjectMoved
  <2> QED
    BY <2>2, <2>4 DEF RowMove, IntentKept, IntentOpened, ObjectMoved, SameIntent
<1>6. ASSUME NEW j \in Keys, intents[j] # None, CommitDeleteWrite(j)
      PROVE  \A k \in Keys : RowMove(k)
  <2>1. /\ intents'[j] = None /\ objects'[j] = None
        /\ intents[j].op = "delete" /\ HasPrevious(j)
        /\ \A k \in Keys : k # j => intents'[k] = intents[k] /\ objects'[k] = objects[k]
    BY <1>0, <1>6 DEF CommitDeleteWrite, CommitDeleteAllowed, RowsTypeOK
  <2> QED
    BY <1>6, <2>1 DEF RowMove, IntentKept, IntentOpened, ObjectMoved, SameIntent
<1>7. ASSUME UNCHANGED <<objects, intents>> PROVE \A k \in Keys : RowMove(k)
  BY <1>7 DEF RowMove, IntentKept, IntentOpened, ObjectMoved, SameIntent
<1>8. ASSUME NEW b \in Buckets, NEW j \in Keys, NEW etag \in Contents, AdoptObject(b, j, etag)
      PROVE  \A k \in Keys : RowMove(k)
  <2>1. [id |-> nextId, bucket |-> b, pkey |-> j, etag |-> etag] \in Object
    BY <1>0, <1>8 DEF RowsTypeOK, Object
  <2>2. /\ objects[j] = None /\ objects'[j] # None /\ objects'[j].id = nextId
        /\ nextId' = nextId + 1 /\ UNCHANGED intents
        /\ \A k \in Keys : k # j => objects'[k] = objects[k]
    BY <1>0, <1>8, <2>1 DEF AdoptObject, RowsTypeOK
  <2> QED
    BY <2>2 DEF RowMove, IntentKept, IntentOpened, ObjectMoved, SameIntent
<1>9. \A k \in Keys : RowMove(k)
  BY <1>1, <1>2, <1>3, <1>4, <1>5, <1>6, <1>7, <1>8
     DEF IndexMove, CompletePhysicalCleanup, FinishBucketScan, ApplyAccountCapacity
<1>10. nextId' = nextId \/ nextId' = nextId + 1
  BY DEF IndexMove, BeginWrite, BeginDeleteWrite, UpdateWriteState, AbortWrite, CommitWrite,
     CommitDeleteWrite, CompletePhysicalCleanup, FinishBucketScan, ApplyAccountCapacity,
     AdoptObject
<1> QED
  BY <1>0, <1>9, <1>10

\* What the handlers are sending.
Sending == {Outgoing(p) : p \in {q \in Procs : req[q] # None /\ req[q].pc = "sending"}}

\* What a step stores, or leaves on its way, was sent by a handler: now, or before.
RemoteMove ==
    \/ UNCHANGED <<remote, late>>
    \/ /\ UNCHANGED <<objects, intents, nextId>>
       /\ \A place \in Places :
             \/ remote'[place] \in {remote[place], None}
             \/ \E m \in late \union Sending :
                   m.kind = "put" /\ remote'[place] = [id |-> m.id, etag |-> m.etag]
       /\ \A m \in late' : m \in late \union Sending \/ m.kind = "cleanup"

\* A request leaves the version it carries, or nothing.
LEMMA AfterLeaves ==
    ASSUME RemoteOK, NEW m, NEW place \in Places
    PROVE  \/ After(m)[place] \in {remote[place], None}
           \/ m.kind = "put" /\ After(m)[place] = [id |-> m.id, etag |-> m.etag]
BY DEF RemoteOK, After

\* Every step moves the versions like this.
LEMMA RemoteMoves == IInv /\ [Next]_vars => RemoteMove
<1> SUFFICES ASSUME IInv, [Next]_vars PROVE RemoteMove
  OBVIOUS
<1>0. RemoteOK
  BY DEF IInv
<1>1. ASSUME NEW p \in Procs, Proceed(p) PROVE RemoteMove
  <2>1. CASE Answered(p) \/ AnswerLost(p)
    <3>1. /\ Outgoing(p) \in Sending /\ remote' = After(Outgoing(p))
          /\ UNCHANGED <<objects, intents, nextId, late>>
      BY <2>1 DEF Answered, AnswerLost, Sending, indexVars
    <3>2. \A place \in Places :
             \/ remote'[place] \in {remote[place], None}
             \/ /\ Outgoing(p).kind = "put"
                /\ remote'[place] = [id |-> Outgoing(p).id, etag |-> Outgoing(p).etag]
      BY <1>0, <3>1, AfterLeaves
    <3> QED
      BY <3>1, <3>2 DEF RemoteMove
  <2>2. CASE RequestFails(p)
    <3>1. Outgoing(p) \in Sending /\ late' \subseteq late \union {Outgoing(p)}
      BY <2>2 DEF RequestFails, Sending
    <3> QED
      BY <2>2, <3>1 DEF RequestFails, RemoteMove, indexVars
  <2>3. CASE UNCHANGED <<remote, late>>
    BY <2>3 DEF RemoteMove
  <2> QED
    BY <1>1, <2>1, <2>2, <2>3 DEF Proceed, GiveUp, SendPut, SendDelete, Refused, AbortRejected,
       MarkCompleting, CommitPut, CommitRemoval, CommitFails, LeaveIntent, Head, HeadFails,
       AbortResolved, HoldUnresolved, DeleteAgain
<1>2. ASSUME NEW m \in late, LateArrival(m) PROVE RemoteMove
  <2>1. \A place \in Places :
           \/ remote'[place] \in {remote[place], None}
           \/ m.kind = "put" /\ remote'[place] = [id |-> m.id, etag |-> m.etag]
    BY <1>0, <1>2, AfterLeaves DEF LateArrival
  <2> QED
    BY <1>2, <2>1 DEF LateArrival, RemoteMove, indexVars
<1>3. CASE ChoreStep
  <2>1. CASE DeleteOldCopy \/ CleanupFails
    <3>1. /\ remote' = remote \/ remote' = After(CleanupMessage)
          /\ late' \subseteq late \union {CleanupMessage}
          /\ CleanupMessage.kind = "cleanup"
          /\ UNCHANGED <<objects, intents, nextId>>
      BY <2>1 DEF DeleteOldCopy, CleanupFails, EndChore, ReleaseBucketMaintenance, indexVars,
         CleanupMessage
    <3>2. \A place \in Places : remote'[place] \in {remote[place], None}
      BY <1>0, <3>1, AfterLeaves
    <3> QED
      BY <3>1, <3>2 DEF RemoteMove
  <2>2. CASE UNCHANGED <<remote, late>>
    BY <2>2 DEF RemoteMove
  <2> QED
    BY <1>3, <2>1, <2>2 DEF ChoreStep, FinishCleanup, CheckCleanup, RetryCleanup, ListBucket,
       ImportObject, FinishScan, ScanFails, LockForSync, FinishSync, SyncFails
<1>4. CASE Crash
  <2>1. late' \subseteq late \union Sending /\ UNCHANGED <<objects, intents, nextId, remote>>
    BY <1>4 DEF Crash, Sending
  <2> QED
    BY <2>1 DEF RemoteMove
<1>5. ASSUME NEW p \in Clients, ClientStep(p) PROVE UNCHANGED <<remote, late>>
  BY <1>5 DEF ClientStep, BeginPut, BeginDelete
<1>6. CASE BeginChore
  <2>1. UNCHANGED <<remote, late>>
    BY <1>6 DEF BeginChore, BeginMove, BeginCleanup, BeginScan, BeginSync, BeginPass
  <2> QED
    BY <2>1 DEF RemoteMove
<1>7. CASE RecoveryStep \/ StartServing \/ UNCHANGED vars
  <2>1. UNCHANGED <<remote, late>>
    BY <1>7 DEF RecoveryStep, BeginRecovery, TakeUp, SkipIntent, EndPass, StartServing, vars
  <2> QED
    BY <2>1 DEF RemoteMove
<1> QED
  BY <1>1, <1>2, <1>3, <1>4, <1>5, <1>6, <1>7 DEF Next, RemoteMove

\* What a handler sends carries the id and the bytes of its intent.
LEMMA SendingIsRequested ==
    ASSUME IInv, NEW m \in Sending, m.kind = "put"
    PROVE  \E k \in Keys : /\ intents[k] # None /\ intents[k].op = "put"
                           /\ intents[k].id = m.id /\ intents[k].body = m.etag
<1>1. PICK p \in Procs : req[p] # None /\ req[p].pc = "sending" /\ m = Outgoing(p)
  BY DEF Sending
<1>2. req[p].op \in {"put", "move"}
  BY <1>1 DEF Outgoing
<1>3. /\ req[p].key \in Keys /\ Handles(req[p], intents[req[p].key])
      /\ intents[req[p].key] \in Intent
  BY <1>1, Handled
<1>4. intents[req[p].key].op = "put"
  BY <1>2, <1>3 DEF Handles, Deleting, Intent
<1>5. m.id = req[p].id /\ m.etag = intents[req[p].key].body
  BY <1>1, <1>2 DEF Outgoing
<1> QED
  BY <1>3, <1>4, <1>5 DEF Handles

\* Ids are drawn once.
LEMMA IdsDrawnStep ==
    ASSUME IInv, IInv', IdsDrawn, IndexMove, RemoteMove
    PROVE  IdsDrawn'
<1> USE IndexAssumption, WritesAssumption
<1>0. /\ \A k \in Keys : RowMove(k)
      /\ nextId \in Nat /\ nextId > 0 /\ nextId' \in Nat /\ nextId' >= nextId /\ MaxId \in Nat
      /\ \A k \in Keys : objects[k] # None => objects[k] \in Object /\ objects[k].id \in Nat
      /\ \A k \in Keys : intents[k] # None => intents[k] \in Intent /\ intents[k].id \in Nat
                                              /\ intents[k].prev \in Nat
  BY RowMoves DEF IInv, IndexInv, RowsTypeOK, Ids, NoId, Object, Intent
<1>1. \A k \in Keys : CurrentId(k) < nextId /\ CurrentId(k) \in Nat
  BY <1>0 DEF CurrentId, NoId, IdsDrawn
<1>2. \A k \in Keys : objects'[k] # None => objects'[k].id < nextId'
  <2> SUFFICES ASSUME NEW k \in Keys, objects'[k] # None PROVE objects'[k].id < nextId'
    OBVIOUS
  <2>1. objects'[k] = objects[k] \/ (intents[k] # None /\ objects'[k].id = intents[k].id)
        \/ (objects'[k].id = nextId /\ nextId' = nextId + 1)
    BY <1>0 DEF RowMove, ObjectMoved
  <2> QED
    BY <1>0, <2>1 DEF IdsDrawn
<1>3. \A k \in Keys : intents'[k] # None =>
         /\ intents'[k].id < nextId' /\ intents'[k].prev < nextId' /\ intents'[k].id <= MaxId
         /\ intents[k] = None => intents'[k].id = nextId
         /\ intents[k] # None => intents'[k].id = intents[k].id
  <2> SUFFICES ASSUME NEW k \in Keys, intents'[k] # None
               PROVE  /\ intents'[k].id < nextId' /\ intents'[k].prev < nextId'
                      /\ intents'[k].id <= MaxId
                      /\ intents[k] = None => intents'[k].id = nextId
                      /\ intents[k] # None => intents'[k].id = intents[k].id
    OBVIOUS
  <2>1. CASE intents[k] = None
    <3>1. /\ intents'[k].id = nextId /\ intents'[k].prev = CurrentId(k)
          /\ nextId <= MaxId /\ nextId' = nextId + 1
      BY <1>0, <2>1 DEF RowMove, IntentOpened
    <3> QED
      BY <1>0, <1>1, <2>1, <3>1
  <2>2. CASE intents[k] # None
    <3>1. intents'[k].id = intents[k].id /\ intents'[k].prev = intents[k].prev
      BY <1>0, <2>2 DEF RowMove, IntentKept, SameIntent
    <3> QED
      BY <1>0, <2>2, <3>1 DEF IdsDrawn
  <2> QED
    BY <2>1, <2>2
<1>4. \A j, k \in Keys :
         intents'[j] # None /\ intents'[k] # None /\ intents'[j].id = intents'[k].id => j = k
  <2> SUFFICES ASSUME NEW j \in Keys, NEW k \in Keys, intents'[j] # None, intents'[k] # None,
                      intents'[j].id = intents'[k].id, j # k
               PROVE  FALSE
    OBVIOUS
  <2>1. CASE intents[j] # None /\ intents[k] # None
    BY <1>3, <2>1 DEF IdsDrawn
  <2>2. CASE intents[j] = None
    <3>1. intents'[k] = intents[k]
      BY <1>0, <2>2 DEF RowMove, IntentOpened
    <3> QED
      BY <1>0, <1>3, <2>2, <3>1 DEF IdsDrawn
  <2>3. CASE intents[k] = None
    <3>1. intents'[j] = intents[j]
      BY <1>0, <2>3 DEF RowMove, IntentOpened
    <3> QED
      BY <1>0, <1>3, <2>3, <3>1 DEF IdsDrawn
  <2> QED
    BY <2>1, <2>2, <2>3
<1>5. \A m \in late \union Sending : m.kind = "put" => Drawn(m.id) /\ m.id \in Nat
  <2> SUFFICES ASSUME NEW m \in late \union Sending, m.kind = "put"
               PROVE  Drawn(m.id) /\ m.id \in Nat
    OBVIOUS
  <2>1. CASE m \in late
    BY <2>1 DEF IdsDrawn, IInv, RemoteOK, Message
  <2>2. CASE m \in Sending
    <3>1. PICK k \in Keys : intents[k] # None /\ intents[k].id = m.id
      BY <2>2, SendingIsRequested
    <3> QED
      BY <1>0, <3>1 DEF IdsDrawn, Drawn
  <2> QED
    BY <2>1, <2>2
<1>6. \A i \in Nat : Drawn(i) => Drawn(i)'
  BY <1>0 DEF Drawn
<1>7. \A p \in Places : remote[p] # None => remote[p].id \in Nat /\ Drawn(remote[p].id)
  BY DEF IdsDrawn, IInv, RemoteOK, Remote
<1>8. \A p \in Places : remote'[p] # None => Drawn(remote[p].id)'
  <2> SUFFICES ASSUME NEW p \in Places, remote'[p] # None PROVE Drawn(remote[p].id)'
    OBVIOUS
  <2>1. CASE remote'[p] = remote[p]
    BY <1>6, <1>7, <2>1
  <2>2. CASE \E m \in late \union Sending :
                m.kind = "put" /\ remote'[p] = [id |-> m.id, etag |-> m.etag]
    BY <1>5, <1>6, <2>2
  <2> QED
    BY <2>1, <2>2 DEF RemoteMove
<1>9. \A m \in late' : m.kind = "put" => Drawn(m.id)'
  <2> SUFFICES ASSUME NEW m \in late', m.kind = "put" PROVE Drawn(m.id)'
    OBVIOUS
  <2>1. m \in late \union Sending
    BY DEF RemoteMove
  <2> QED
    BY <1>5, <1>6, <2>1
<1> QED
  BY <1>2, <1>3, <1>4, <1>8, <1>9 DEF IdsDrawn

\* Under the id of an intent only the bytes of its request travel.
LEMMA BodiesSentStep ==
    ASSUME IInv, IInv', IdsDrawn, BodiesSent, KnowsBody, IndexMove, RemoteMove
    PROVE  BodiesSent'
<1> USE IndexAssumption
<1>0. \A k \in Keys : RowMove(k)
  BY RowMoves
<1>1. nextId \in Nat /\ MaxId \in Nat
  BY WritesAssumption DEF IInv, IndexInv, RowsTypeOK, Ids
<1> SUFFICES ASSUME NEW k \in Keys, intents'[k] # None
             PROVE  /\ \A p \in Places : remote'[p] # None /\ remote'[p].id = intents'[k].id
                          => remote'[p].etag = intents'[k].body
                    /\ \A m \in late' : m.kind = "put" /\ m.id = intents'[k].id
                          => m.etag = intents'[k].body
                    /\ intents'[k].op = "put" /\ intents'[k].etag # None
                          => intents'[k].etag = intents'[k].body
  BY DEF BodiesSent
<1>2. CASE intents[k] = None
  <2>1. /\ nextId <= MaxId /\ intents'[k].id = nextId /\ intents'[k].etag = None
    BY <1>0, <1>2 DEF RowMove, IntentOpened
  <2>2. UNCHANGED <<remote, late>>
    BY <1>2 DEF RemoteMove
  <2>3. ~ Drawn(nextId)
    BY <1>1, <2>1 DEF Drawn
  <2>4. /\ \A p \in Places : remote[p] # None => remote[p].id # nextId
        /\ \A m \in late : m.kind = "put" => m.id # nextId
    BY <2>3 DEF IdsDrawn
  <2> QED
    BY <2>1, <2>2, <2>4
<1>3. CASE intents[k] # None
  <2>1. /\ SameIntent(k)
        /\ \/ intents'[k].etag = intents[k].etag
           \/ \E p \in Procs : /\ req[p] # None /\ Awaits(req[p]) /\ req[p].key = k
                               /\ intents'[k].etag = req[p].etag
    BY <1>0, <1>3 DEF RowMove, IntentKept
  <2>2. intents'[k].id = intents[k].id /\ intents'[k].body = intents[k].body
        /\ intents'[k].op = intents[k].op
    BY <2>1 DEF SameIntent
  <2>3. \A m \in late \union Sending : m.kind = "put" /\ m.id = intents[k].id
           => m.etag = intents[k].body
    <3> SUFFICES ASSUME NEW m \in late \union Sending, m.kind = "put", m.id = intents[k].id
                 PROVE  m.etag = intents[k].body
      OBVIOUS
    <3>1. CASE m \in late
      BY <1>3, <3>1 DEF BodiesSent
    <3>2. CASE m \in Sending
      <4>1. PICK j \in Keys : /\ intents[j] # None /\ intents[j].id = m.id
                              /\ intents[j].body = m.etag
        BY <3>2, SendingIsRequested
      <4> QED
        BY <1>3, <4>1 DEF IdsDrawn
    <3> QED
      BY <3>1, <3>2
  <2>4. \A p \in Places : remote[p] # None /\ remote[p].id = intents[k].id
           => remote[p].etag = intents[k].body
    BY <1>3 DEF BodiesSent
  <2>5. ASSUME NEW p \in Places, remote'[p] # None, remote'[p].id = intents'[k].id
        PROVE  remote'[p].etag = intents'[k].body
    <3>1. CASE remote'[p] = remote[p]
      BY <2>2, <2>4, <2>5, <3>1
    <3>2. CASE \E m \in late \union Sending :
                  m.kind = "put" /\ remote'[p] = [id |-> m.id, etag |-> m.etag]
      BY <2>2, <2>3, <2>5, <3>2
    <3> QED
      BY <2>5, <3>1, <3>2 DEF RemoteMove
  <2>6. ASSUME NEW m \in late', m.kind = "put", m.id = intents'[k].id
        PROVE  m.etag = intents'[k].body
    <3>1. m \in late \union Sending
      BY <2>6 DEF RemoteMove
    <3> QED
      BY <2>2, <2>3, <2>6, <3>1
  <2>7. ASSUME intents'[k].op = "put", intents'[k].etag # None
        PROVE  intents'[k].etag = intents'[k].body
    <3>1. CASE intents'[k].etag = intents[k].etag
      BY <1>3, <2>2, <2>7, <3>1 DEF BodiesSent
    <3>2. CASE \E p \in Procs : /\ req[p] # None /\ Awaits(req[p]) /\ req[p].key = k
                                /\ intents'[k].etag = req[p].etag
      <4>1. PICK p \in Procs : /\ req[p] # None /\ Awaits(req[p]) /\ req[p].key = k
                               /\ intents'[k].etag = req[p].etag
        BY <3>2
      <4>2. req[p].op \notin Deleting
        BY <2>2, <2>7, <4>1, Handled DEF Handles
      <4> QED
        BY <2>2, <4>1, <4>2 DEF KnowsBody
    <3> QED
      BY <2>1, <3>1, <3>2
  <2> QED
    BY <2>5, <2>6, <2>7
<1> QED
  BY <1>2, <1>3

\* A condition is checked where it is recorded, and a version never comes back.
LEMMA ConditionsHoldStep ==
    ASSUME IInv, IInv', IdsDrawn, ConditionsHold, IndexMove
    PROVE  ConditionsHold'
<1> USE IndexAssumption
<1>0. \A k \in Keys : RowMove(k)
  BY RowMoves
<1> SUFFICES ASSUME NEW k \in Keys, intents'[k] # None, intents'[k].prev = CurrentId(k)'
             PROVE  ConditionHolds(k, intents[k].cond)'
  BY DEF ConditionsHold
<1>1. CASE intents[k] = None
  <2>1. UNCHANGED objects /\ ConditionHolds(k, intents'[k].cond)
    BY <1>0, <1>1 DEF RowMove, IntentOpened
  <2> QED
    BY <2>1 DEF ConditionHolds
<1>2. CASE intents[k] # None
  <2>1. intents'[k].prev = intents[k].prev /\ intents'[k].cond = intents[k].cond
    BY <1>0, <1>2 DEF RowMove, IntentKept, SameIntent
  <2>2. objects'[k] = objects[k]
    <3>1. objects'[k] = objects[k] \/ (objects'[k] # None /\ objects'[k].id = nextId)
      BY <1>0, <1>2 DEF RowMove, ObjectMoved
    <3>2. intents[k].prev # nextId
      BY <1>2 DEF IdsDrawn, IInv, IndexInv, RowsTypeOK, Ids, Intent
    <3> QED
      BY <2>1, <3>1, <3>2 DEF CurrentId
  <2> QED
    BY <1>2, <2>1, <2>2 DEF ConditionsHold, CurrentId, ConditionHolds
<1> QED
  BY <1>1, <1>2

\* A step of one handler leaves the others where they are.
LEMMA OthersWait ==
    ASSUME IInv, NEW p \in Procs, Proceed(p)
    PROVE  req[p] # None /\ \A q \in Procs : q # p => req'[q] = req[q]
<1>1. req \in [Procs -> Request \union {None}]
  BY DEF IInv, HandlersInv
<1>2. CASE GiveUp(p) \/ AbortRejected(p) \/ CommitPut(p) \/ CommitRemoval(p) \/ LeaveIntent(p)
           \/ AbortResolved(p) \/ HoldUnresolved(p)
  BY <1>1, <1>2 DEF GiveUp, AbortRejected, CommitPut, CommitRemoval, LeaveIntent, AbortResolved,
     HoldUnresolved, HoldForRecovery, Done
<1>3. CASE SendPut(p) \/ SendDelete(p) \/ MarkCompleting(p) \/ DeleteAgain(p)
  BY <1>1, <1>3 DEF SendPut, SendDelete, MarkCompleting, DeleteAgain, Goto
<1>4. CASE Answered(p) \/ Head(p) \/ HeadFails(p)
  BY <1>1, <1>4 DEF Answered, Head, HeadFails
<1>5. CASE AnswerLost(p) \/ RequestFails(p) \/ Refused(p)
  BY <1>1, <1>5 DEF AnswerLost, RequestFails, Refused, Unanswered, Goto
<1>6. CASE CommitFails(p)
  BY <1>1, <1>6 DEF CommitFails, HoldForRecovery, Done
<1> QED
  BY <1>2, <1>3, <1>4, <1>5, <1>6 DEF Proceed

\* A handler comes to know that R2 holds its bytes from an answer or from a HEAD.
AwaitMove(p) ==
    req'[p] # None /\ Awaits(req'[p]) =>
        \/ /\ req[p] # None /\ Awaits(req[p])
           /\ req'[p].key = req[p].key /\ req'[p].op = req[p].op /\ req'[p].etag = req[p].etag
        \/ Answered(p)
        \/ Head(p)

\* Every step moves the handlers like this.
LEMMA AwaitMoves == IInv /\ [Next]_vars => \A p \in Procs : AwaitMove(p)
<1> SUFFICES ASSUME IInv, [Next]_vars, NEW p \in Procs,
                    req'[p] # None, Awaits(req'[p]), ~Answered(p), ~Head(p)
             PROVE  /\ req[p] # None /\ Awaits(req[p])
                    /\ req'[p].key = req[p].key /\ req'[p].op = req[p].op
                    /\ req'[p].etag = req[p].etag
  BY DEF AwaitMove
<1>0. req \in [Procs -> Request \union {None}]
  BY DEF IInv, HandlersInv
<1> DEFINE Same == req'[p] = req[p]
<1>1. CASE Same
  BY <1>1
<1>2. ASSUME NEW q \in Procs, Proceed(q), ~Same
      PROVE  /\ req[p] # None /\ Awaits(req[p])
             /\ req'[p].key = req[p].key /\ req'[p].op = req[p].op
             /\ req'[p].etag = req[p].etag
  <2>1. q = p /\ req[p] # None /\ req[p] \in Request
    BY <1>0, <1>2, OthersWait
  <2>2. CASE GiveUp(p) \/ AbortRejected(p) \/ CommitPut(p) \/ CommitRemoval(p) \/ LeaveIntent(p)
             \/ AbortResolved(p) \/ HoldUnresolved(p)
    BY <1>0, <2>2 DEF GiveUp, AbortRejected, CommitPut, CommitRemoval, LeaveIntent,
       AbortResolved, HoldUnresolved, HoldForRecovery, Done
  <2>3. CASE SendPut(p) \/ SendDelete(p) \/ DeleteAgain(p)
    BY <1>0, <2>1, <2>3 DEF SendPut, SendDelete, DeleteAgain, Goto, Awaits, Request
  <2>4. CASE MarkCompleting(p)
    BY <1>0, <2>1, <2>4 DEF MarkCompleting, Goto, Awaits, Request
  <2>5. CASE HeadFails(p)
    BY <1>0, <2>1, <2>5 DEF HeadFails, Awaits, Request
  <2>6. CASE AnswerLost(p) \/ RequestFails(p) \/ (Refused(p) /\ req[p].op = "redelete")
    <3>1. Unanswered(p)
      BY <2>6 DEF AnswerLost, RequestFails, Refused
    <3> QED
      BY <1>0, <2>1, <3>1 DEF Unanswered, Awaits, Request
  <2>7. CASE Refused(p) /\ req[p].op # "redelete"
    BY <1>0, <2>1, <2>7 DEF Refused, Goto, Awaits, Request
  <2>8. CASE CommitFails(p)
    BY <1>0, <2>8 DEF CommitFails, HoldForRecovery, Done
  <2> QED
    BY <1>2, <2>1, <2>2, <2>3, <2>4, <2>5, <2>6, <2>7, <2>8 DEF Proceed
<1>3. ASSUME NEW q \in Clients, ClientStep(q), ~Same PROVE FALSE
  <2>1. CASE \E k \in Keys, body \in Contents, cond \in Conds, b \in Buckets :
                BeginPut(q, k, body, cond, b)
    BY <1>0, <1>3, <2>1 DEF BeginPut, Start, Awaits
  <2>2. CASE \E k \in Keys, cond \in Conds : BeginDelete(q, k, cond)
    BY <1>0, <1>3, <2>2 DEF BeginDelete, Start, Awaits
  <2> QED
    BY <1>3, <2>1, <2>2 DEF ClientStep
<1>4. ASSUME RecoveryStep, ~Same PROVE FALSE
  <2>1. ASSUME NEW k \in Keys, BeginRecovery(k) PROVE FALSE
    BY <1>0, <1>4, <2>1 DEF BeginRecovery, TakeUp, Start, Awaits
  <2>2. CASE UNCHANGED req
    BY <1>4, <2>2
  <2> QED
    BY <1>4, <2>1, <2>2 DEF RecoveryStep, SkipIntent, EndPass
<1>5. ASSUME BeginChore, ~Same PROVE FALSE
  <2>1. ASSUME NEW k \in Keys, NEW b \in Buckets, BeginMove(k, b) PROVE FALSE
    BY <1>0, <1>5, <2>1 DEF BeginMove, Start, Awaits
  <2>2. CASE UNCHANGED req
    BY <1>5, <2>2
  <2> QED
    BY <1>5, <2>1, <2>2 DEF BeginChore, BeginCleanup, BeginScan, BeginSync, BeginPass
<1>6. CASE ChoreStep \/ StartServing \/ (\E m \in late : LateArrival(m)) \/ UNCHANGED vars
  <2>1. UNCHANGED req
    BY <1>6 DEF ChoreStep, FinishCleanup, CheckCleanup, DeleteOldCopy, RetryCleanup,
       CleanupFails, ListBucket, ImportObject, FinishScan, ScanFails, LockForSync, FinishSync,
       SyncFails, StartServing, LateArrival, vars
  <2> QED
    BY <1>1, <2>1
<1>7. CASE Crash
  BY <1>7 DEF Crash
<1> QED
  BY <1>1, <1>2, <1>3, <1>4, <1>5, <1>6, <1>7 DEF Next

\* What a handler learns to be stored is what its client sent.
LEMMA KnowsBodyStep ==
    ASSUME IInv, IInv', BodiesSent, KnowsBody, IndexMove,
           \A p \in Procs : AwaitMove(p)
    PROVE  KnowsBody'
<1> USE IndexAssumption
<1> SUFFICES ASSUME NEW p \in Procs, req'[p] # None, req'[p].op \notin Deleting,
                    Awaits(req'[p])
             PROVE  req'[p].etag = intents'[req'[p].key].body
  BY DEF KnowsBody
<1>1. CASE /\ req[p] # None /\ Awaits(req[p])
           /\ req'[p].key = req[p].key /\ req'[p].op = req[p].op
           /\ req'[p].etag = req[p].etag
  <2>1. intents[req[p].key] # None /\ req[p].key \in Keys
    BY <1>1, Handled DEF Handles
  <2>2. intents'[req[p].key] # None
    BY <1>1 DEF IInv, HandlersInv, Handles
  <2>3. intents'[req[p].key].body = intents[req[p].key].body
    BY <2>1, <2>2, RowMoves DEF RowMove, IntentKept, SameIntent
  <2> QED
    BY <1>1, <2>3 DEF KnowsBody
<1>2. CASE Answered(p)
  <2>1. /\ req[p] # None /\ req[p].pc = "sending" /\ req[p] \in Request /\ UNCHANGED intents
        /\ Handles(req[p], intents[req[p].key])
        /\ req \in [Procs -> Request \union {None}]
    BY <1>2, Handled DEF Answered, indexVars, IInv, HandlersInv
  <2>2. req'[p].key = req[p].key /\ req'[p].op = req[p].op /\ req'[p].etag = Outgoing(p).etag
    BY <1>2, <2>1 DEF Answered, Request
  <2>3. req[p].op \in {"put", "move"}
    BY <2>1, <2>2 DEF Request, Operations, Deleting, Handles
  <2>4. Outgoing(p).etag = intents[req[p].key].body
    BY <2>3 DEF Outgoing
  <2> QED
    BY <2>1, <2>2, <2>4
<1>3. CASE Head(p)
  <2> DEFINE k == req[p].key
             there == remote[TargetOf(k)]
  <2>1. /\ req[p] # None /\ req[p] \in Request /\ UNCHANGED intents /\ k \in Keys
        /\ Handles(req[p], intents[k]) /\ intents[k] \in Intent
        /\ req \in [Procs -> Request \union {None}]
    BY <1>3, Handled DEF Head, indexVars, IInv, HandlersInv
  <2>2. /\ req'[p].key = req[p].key /\ req'[p].op = req[p].op /\ req'[p].pc = "seen"
        /\ req'[p].seen = IF intents[k].op = "delete" THEN DeleteVerdict(p) ELSE Classify(k)
        /\ req'[p].etag = IF intents[k].op # "delete" /\ there # None
                          THEN there.etag ELSE req[p].etag
    BY <1>3, <2>1 DEF Head, Request
  <2>3. intents[k] # None /\ intents[k].op = "put" /\ intents[k].op # "delete"
    BY <2>1, <2>2 DEF Handles, Deleting, Intent
  <2>4. Classify(k) = "published"
    BY <2>2, <2>3 DEF Awaits
  <2>5. there # None /\ (there.id = intents[k].id
                         \/ (intents[k].etag # None /\ there.etag = intents[k].etag))
    BY <2>4 DEF Classify
  <2>6. TargetOf(k) \in Places
    BY <2>1 DEF TargetOf, Places, Intent
  <2>7. there.etag = intents[k].body
    BY <2>1, <2>3, <2>5, <2>6 DEF BodiesSent
  <2> QED
    BY <2>1, <2>2, <2>3, <2>5, <2>7
<1> QED
  BY <1>1, <1>2, <1>3 DEF AwaitMove

\* No upload of another tool bears an id that this index draws: UUIDs do not repeat.
OtherIdsForeign == \A i \in OtherIds : i = NoId \/ i > MaxId

\* An index at rest has no request.
LEMMA RequestInit == Init /\ OtherIdsForeign => RequestInv
<1> SUFFICES ASSUME Init, OtherIdsForeign PROVE RequestInv
  OBVIOUS
<1> USE IndexAssumption, WritesAssumption
<1>1. PICK first \in StartKeys, b \in Buckets, c \in Contents,
           own \in {1} \union OtherIds, other \in {NoId} \union OtherIds :
             StartsWith(first, b, c, own, other)
  BY DEF Init
<1>2. /\ intents = [k \in Keys |-> None] /\ nextId = 2 /\ late = {}
      /\ req = [p \in Procs |-> None]
  BY DEF Init
<1>3. \A k \in Keys : objects[k] # None => objects[k].id < nextId
  BY <1>1, <1>2 DEF StartsWith
<1>4. Drawn(own) /\ Drawn(other)
  <2>1. /\ own = 1 \/ own = 0 \/ own > MaxId
        /\ other = 0 \/ other > MaxId
    BY DEF OtherIdsForeign, NoId
  <2> QED
    BY <1>2, <2>1 DEF Drawn
<1>5. \A p \in Places : remote[p] # None => Drawn(remote[p].id)
  BY <1>1, <1>4 DEF StartsWith
<1> QED
  BY <1>2, <1>3, <1>5 DEF RequestInv, IdsDrawn, BodiesSent, KnowsBody, ConditionsHold

\* What handlers know, what travels and what conditions were checked on is inductive.
LEMMA RequestStep == IInv /\ IInv' /\ RequestInv /\ [Next]_vars => RequestInv'
BY IndexMoves, RemoteMoves, AwaitMoves, IdsDrawnStep, BodiesSentStep, ConditionsHoldStep,
   KnowsBodyStep DEF RequestInv

\* RequestInv holds of the write path, late arrivals, adoption and scans included.
THEOREM RequestsTold ==
    ASSUME OtherIdsForeign
    PROVE  Spec => []RequestInv
<1>1. Init => RequestInv
  BY RequestInit
<1> QED
  BY <1>1, RequestStep, Inductive, PTL DEF Spec

\* Compare and swap: when a mutation takes effect in the index, the condition its
\* client attached (If-Match, If-None-Match) still holds of the version it
\* replaces, and the new version is the bytes that client sent.  However an
\* upload was answered, looked up after a lost answer, recovered after a crash or
\* overtaken by a late one, commitWriteAt never settles a row on other terms.
THEOREM CommitsMeetRequests ==
    ASSUME OtherIdsForeign
    PROVE  Spec => CommitMeetsRequest
<1>1. IInv /\ RequestInv /\ [Next]_vars =>
        [\A k \in Keys : Settles(k) =>
           /\ ConditionHolds(k, intents[k].cond)
           /\ IF intents[k].op = "delete" THEN objects'[k] = None
              ELSE objects'[k] # None /\ objects'[k].etag = intents[k].body]_vars
  <2> SUFFICES ASSUME IInv, RequestInv, [Next]_vars, NEW k \in Keys, Settles(k)
               PROVE  /\ ConditionHolds(k, intents[k].cond)
                      /\ IF intents[k].op = "delete" THEN objects'[k] = None
                         ELSE objects'[k] # None /\ objects'[k].etag = intents[k].body
    OBVIOUS
  <2>1. ObjectMoved(k) /\ intents[k] # None /\ intents'[k] = None /\ objects'[k] # objects[k]
    BY IndexMoves, RowMoves DEF RowMove, Settles
  <2>2. CASE /\ objects'[k] # None /\ intents[k].op = "put" /\ intents[k].prev = CurrentId(k)
             /\ \E p \in Procs : /\ req[p] # None /\ Awaits(req[p]) /\ req[p].key = k
                                 /\ objects'[k].etag = req[p].etag
    <3>1. PICK p \in Procs : /\ req[p] # None /\ Awaits(req[p]) /\ req[p].key = k
                             /\ objects'[k].etag = req[p].etag
      BY <2>2
    <3>2. req[p].op \notin Deleting
      BY <2>2, <3>1, Handled DEF Handles
    <3> QED
      BY <2>1, <2>2, <3>1, <3>2 DEF RequestInv, ConditionsHold, KnowsBody
  <2>3. CASE objects'[k] = None /\ intents[k].op = "delete" /\ HasPrevious(k)
    BY <2>1, <2>3 DEF RequestInv, ConditionsHold, HasPrevious
  <2> QED
    BY <2>1, <2>2, <2>3 DEF ObjectMoved
<1> QED
  BY <1>1, RequestsTold, Inductive, PTL DEF Spec, CommitMeetsRequest

-----------------------------------------------------------------------------
(* Proofs: what a bucket stores.                                           *)

\* Nothing that concerns key k changes, but how far its intent has got.
Frame(k) ==
    /\ objects'[k] = objects[k]
    /\ intents'[k] = None <=> intents[k] = None
    /\ intents[k] # None => SameIntent(k)
    /\ \A b \in Buckets : cleanups'[<<b, k>>] = cleanups[<<b, k>>]
                          /\ remote'[<<b, k>>] = remote[<<b, k>>]

\* The parts of IInv and FenceInv that the proofs below use, for one key.
LEMMA KeyFacts ==
    ASSUME IInv, FenceInv, NEW k \in Keys
    PROVE  /\ objects[k] # None => /\ objects[k] \in Object /\ objects[k].bucket \in Buckets
                                   /\ objects[k].id \in Ids /\ objects[k].id # NoId
                                   /\ objects[k].etag \in Contents
                                   /\ PlaceOf(objects[k]) = <<objects[k].bucket, k>>
                                   /\ cleanups[PlaceOf(objects[k])] = None
           /\ intents[k] # None => /\ intents[k] \in Intent /\ intents[k].bucket \in Buckets
                                   /\ intents[k].id \in Ids /\ intents[k].id # NoId
                                   /\ intents[k].op \in {"put", "delete"}
                                   /\ intents[k].prev = CurrentId(k)
                                   /\ HasPrevious(k) <=> objects[k] # None
                                   /\ intents[k].op = "put" => cleanups[TargetOf(k)] = None
                                   /\ intents[k].op = "delete" => objects[k] # None
           /\ TargetOf(k) = <<intents[k].bucket, k>>
           /\ \A b \in Buckets : /\ <<b, k>> \in Places
                                 /\ remote[<<b, k>>] # None =>
                                      /\ remote[<<b, k>>] \in Remote
                                      /\ remote[<<b, k>>].etag \in Contents
                                      /\ remote[<<b, k>>].etag # None
<1> USE IndexAssumption
<1>1. RowsTypeOK /\ IntentsWellFormed /\ RemoteOK
  BY DEF IInv, IndexInv
<1>2. objects[k] # None => /\ objects[k] \in Object /\ objects[k].bucket \in Buckets
                           /\ objects[k].id \in Ids /\ objects[k].id # NoId
                           /\ objects[k].etag \in Contents
                           /\ PlaceOf(objects[k]) = <<objects[k].bucket, k>>
                           /\ cleanups[PlaceOf(objects[k])] = None
  BY <1>1 DEF RowsTypeOK, Object, Ids, NoId, PlaceOf, FenceInv, OwnKeys, SparesObjects
<1>3. ASSUME intents[k] # None
      PROVE  /\ intents[k] \in Intent /\ intents[k].bucket \in Buckets
             /\ intents[k].id \in Ids /\ intents[k].id # NoId
             /\ intents[k].op \in {"put", "delete"}
             /\ intents[k].prev = CurrentId(k)
             /\ HasPrevious(k) <=> objects[k] # None
             /\ intents[k].op = "put" => cleanups[TargetOf(k)] = None
             /\ intents[k].op = "delete" => objects[k] # None
  <2>1. /\ intents[k] \in Intent /\ intents[k].bucket \in Buckets
        /\ intents[k].id \in Ids /\ intents[k].id # NoId
        /\ intents[k].op \in {"put", "delete"}
    BY <1>1, <1>3 DEF RowsTypeOK, Intent, Ids, NoId
  <2>2. intents[k].prev = CurrentId(k)
    BY <1>3 DEF FenceInv, PreviousIsCurrent
  <2>3. HasPrevious(k) <=> objects[k] # None
    BY <1>2, <2>2 DEF HasPrevious, CurrentId
  <2>4. intents[k].op = "put" => cleanups[TargetOf(k)] = None
    BY <1>3 DEF FenceInv, FencesPuts, TargetOf
  <2>5. intents[k].op = "delete" => objects[k] # None
    BY <1>1, <1>3, <2>3 DEF IntentsWellFormed
  <2> QED
    BY <2>1, <2>2, <2>3, <2>4, <2>5
<1>4. ASSUME NEW b \in Buckets
      PROVE  /\ <<b, k>> \in Places
             /\ remote[<<b, k>>] # None => /\ remote[<<b, k>>] \in Remote
                                           /\ remote[<<b, k>>].etag \in Contents
                                           /\ remote[<<b, k>>].etag # None
  BY <1>1 DEF RemoteOK, Places, Remote
<1> QED
  BY <1>2, <1>3, <1>4 DEF TargetOf

\* A key that is left alone stays in order, and so does what a handler knows of it.
LEMMA FrameKeeps ==
    ASSUME IInv, FenceInv, NEW k \in Keys, Frame(k)
    PROVE  /\ KeyInv(k) => KeyInv(k)'
           /\ \A r : KnowsDelete(r, k) /\ objects[k] # None => KnowsDelete(r, k)'
           /\ \A r : KnowsPut(r, k) /\ intents[k] # None => KnowsPut(r, k)'
<1>0. /\ objects'[k] = objects[k]
      /\ intents'[k] = None <=> intents[k] = None
      /\ \A b \in Buckets : cleanups'[<<b, k>>] = cleanups[<<b, k>>]
                            /\ remote'[<<b, k>>] = remote[<<b, k>>]
      /\ intents[k] # None => SameIntent(k)
  BY DEF Frame
<1>1. intents[k] # None => /\ TargetOf(k)' = TargetOf(k) /\ Published(k)' = Published(k)
                           /\ remote'[TargetOf(k)] = remote[TargetOf(k)]
                           /\ PreviousAtTarget(k)' = PreviousAtTarget(k)
  <2> SUFFICES ASSUME intents[k] # None
               PROVE  /\ TargetOf(k)' = TargetOf(k) /\ Published(k)' = Published(k)
                      /\ remote'[TargetOf(k)] = remote[TargetOf(k)]
                      /\ PreviousAtTarget(k)' = PreviousAtTarget(k)
    OBVIOUS
  <2>1. TargetOf(k)' = TargetOf(k) /\ intents'[k].id = intents[k].id
        /\ intents'[k].prev = intents[k].prev
    BY <1>0 DEF SameIntent, TargetOf
  <2>2. TargetOf(k) = <<intents[k].bucket, k>> /\ intents[k].bucket \in Buckets
    BY KeyFacts
  <2>3. remote'[TargetOf(k)] = remote[TargetOf(k)]
    BY <1>0, <2>2
  <2>4. Published(k)' = Published(k)
    BY <2>1, <2>3 DEF Published
  <2>5. PreviousAtTarget(k)' = PreviousAtTarget(k)
    BY <1>0, <2>1 DEF PreviousAtTarget, HasPrevious, CurrentId
  <2> QED
    BY <2>1, <2>3, <2>4, <2>5
<1>2. objects[k] # None => remote'[PlaceOf(objects[k])] = remote[PlaceOf(objects[k])]
  BY <1>0, KeyFacts
<1>3. Accounted(k) => Accounted(k)'
  BY <1>0 DEF Accounted, SameIntent
<1>4. objects[k] # None => (Kept(k) => Kept(k)') /\ (Overtaken(k) => Overtaken(k)')
  BY <1>0, <1>1, <1>2 DEF Kept, Overtaken, SameIntent
<1>5. KeyInv(k) => KeyInv(k)'
  BY <1>0, <1>3, <1>4 DEF KeyInv, SameIntent
<1>6. \A r : KnowsDelete(r, k) /\ objects[k] # None => KnowsDelete(r, k)'
  BY <1>0, <1>2 DEF KnowsDelete, Saw, NotSent
<1>7. \A r : KnowsPut(r, k) /\ intents[k] # None => KnowsPut(r, k)'
  BY <1>1 DEF KnowsPut, Saw, NotSent, Awaits
<1> QED
  BY <1>5, <1>6, <1>7

\* A step keeps the buckets in order if it does so for the keys and the handlers it
\* concerns.
LEMMA StoredMoves ==
    ASSUME IInv, FenceInv, StoredInv, late' = late,
           \A j \in Keys : Frame(j) \/ KeyInv(j)',
           \A q \in Procs : req'[q] # None =>
              \/ Knows(req[q])'
              \/ req'[q] = req[q] /\ Frame(req[q].key)
    PROVE  StoredInv'
<1>1. \A j \in Keys : KeyInv(j)'
  BY FrameKeeps DEF StoredInv
<1>2. ASSUME NEW q \in Procs, req'[q] # None PROVE Knows(req[q])'
  <2>1. CASE Knows(req[q])'
    BY <2>1
  <2>2. CASE req'[q] = req[q] /\ Frame(req[q].key)
    <3>1. PICK r : r = req[q]
      OBVIOUS
    <3>2. /\ r.key \in Keys /\ Handles(r, intents[r.key]) /\ Frame(r.key) /\ Knows(r)
          /\ req'[q] = r
      BY <1>2, <2>2, <3>1, Handled DEF StoredInv
    <3>3. CASE r.op \in Deleting
      <4>1. objects[r.key] # None
        BY <3>2, <3>3, KeyFacts DEF Handles
      <4>2. KnowsDelete(r, r.key)'
        BY <3>2, <3>3, <4>1, FrameKeeps DEF Knows
      <4> QED
        BY <3>2, <3>3, <4>2 DEF Knows
    <3>4. CASE r.op \notin Deleting
      <4>1. KnowsPut(r, r.key)'
        BY <3>2, <3>4, FrameKeeps DEF Knows, Handles
      <4> QED
        BY <3>2, <3>4, <4>1 DEF Knows
    <3> QED
      BY <3>3, <3>4
  <2> QED
    BY <1>2, <2>1, <2>2
<1> QED
  BY <1>1, <1>2 DEF StoredInv

\* Steps that leave rows and buckets alone leave every key alone.
LEMMA AllFramed ==
    ASSUME UNCHANGED <<objects, intents, cleanups, remote>>
    PROVE  \A k \in Keys : Frame(k)
BY DEF Frame, SameIntent

\* UpdateWriteState only changes how far an intent has got.
LEMMA UpdateFramed ==
    ASSUME IInv, NEW k \in Keys, intents[k] # None, NEW state \in WriteStates,
           NEW etag \in Contents \union {None},
           UpdateWriteState(k, state, etag), UNCHANGED remote
    PROVE  \A j \in Keys : Frame(j)
<1>1. intents[k] \in Intent /\ intents \in [Keys -> Intent \union {None}]
  BY DEF IInv, IndexInv, RowsTypeOK
<1>2. \A j \in Keys : j # k => intents'[j] = intents[j]
  BY <1>1 DEF UpdateWriteState
<1> DEFINE kept == IF etag = None THEN intents[k].etag ELSE etag
<1>3. intents'[k] = [intents[k] EXCEPT !.state = state, !.etag = kept]
  BY <1>1 DEF UpdateWriteState, Intent
<1> HIDE DEF kept
<1>4. SameIntent(k)
  BY <1>1, <1>3 DEF SameIntent, Intent
<1>5. intents'[k] # None
  BY UpdateWriteStateStep, IndexAssumption DEF IInv
<1> QED
  BY <1>2, <1>4, <1>5 DEF UpdateWriteState, Frame, SameIntent

\* A mutation that did not happen leaves its key in order when it is given up.
LEMMA AbortStored ==
    ASSUME IInv, FenceInv, NEW k \in Keys, intents[k] # None, KeyInv(k), AbortWrite(k),
           UNCHANGED remote,
           intents[k].op = "put" => ~Published(k),
           intents[k].op = "delete" => remote[PlaceOf(objects[k])] # None
    PROVE  KeyInv(k)' /\ \A j \in Keys : j # k => Frame(j)
<1>1. /\ intents'[k] = None /\ \A j \in Keys : j # k => intents'[j] = intents[j]
      /\ UNCHANGED <<objects, cleanups>>
  BY DEF AbortWrite, IInv, IndexInv, RowsTypeOK
<1>2. \A j \in Keys : j # k => Frame(j)
  BY <1>1 DEF Frame, SameIntent
<1>3. Accounted(k)'
  <2> SUFFICES ASSUME NEW b \in Buckets, remote[<<b, k>>] # None
               PROVE  \/ /\ objects[k] # None /\ objects[k].bucket = b
                         /\ objects[k].etag = remote[<<b, k>>].etag
                      \/ cleanups[<<b, k>>] = remote[<<b, k>>].etag
    BY <1>1 DEF Accounted
  <2>1. CASE /\ intents[k] # None /\ intents[k].op = "put" /\ intents[k].bucket = b
             /\ intents[k].id = remote[<<b, k>>].id
    BY <2>1, KeyFacts DEF Published
  <2> QED
    BY <2>1 DEF KeyInv, Accounted
<1>4. objects[k] # None => Kept(k)
  BY KeyFacts DEF KeyInv, Overtaken
<1> QED
  BY <1>1, <1>2, <1>3, <1>4 DEF KeyInv, Kept

\* A step of one handler concerns its own key only: it has to leave that key and
\* what the handler knows in order.
LEMMA OneHandler ==
    ASSUME IInv, FenceInv, StoredInv, late' = late,
           NEW p \in Procs, req[p] # None, NEW k \in Keys, k = req[p].key,
           NEW r, req' = [req EXCEPT ![p] = r],
           \A j \in Keys : j # k => Frame(j), Frame(k) \/ KeyInv(k)',
           r # None => Knows(r)'
    PROVE  StoredInv'
<1>1. \A q \in Procs : q # p /\ req[q] # None => req[q].key \in Keys /\ req[q].key # k
  BY Handled DEF IInv, HandlersInv
<1>2. req'[p] = r /\ \A q \in Procs : q # p => req'[q] = req[q]
  BY DEF IInv, HandlersInv
<1>3. ASSUME NEW q \in Procs, req'[q] # None
      PROVE  \/ Knows(req[q])'
             \/ req'[q] = req[q] /\ Frame(req[q].key)
  <2>1. CASE q = p
    BY <1>2, <1>3, <2>1
  <2>2. CASE q # p
    BY <1>1, <1>2, <1>3, <2>2
  <2> QED
    BY <2>1, <2>2
<1> QED
  BY <1>3, StoredMoves

\* A step that leaves the buckets and the rows alone, but for how far an intent has
\* got, has to leave what its handler knows true.
LEMMA QuietHandler ==
    ASSUME IInv, FenceInv, StoredInv, late' = late,
           NEW p \in Procs, req[p] # None, \A j \in Keys : Frame(j),
           NEW r, req' = [req EXCEPT ![p] = r],
           r # None => r.key = req[p].key /\ r.op = req[p].op /\ Knows(r)
    PROVE  StoredInv'
<1>1. PICK k : k = req[p].key
  OBVIOUS
<1>2. k \in Keys /\ Handles(req[p], intents[k])
  BY <1>1, Handled
<1>3. ASSUME r # None PROVE Knows(r)'
  <2>1. CASE r.op \in Deleting
    <3>1. objects[k] # None
      BY <1>2, <1>3, <2>1, KeyFacts DEF Handles
    <3>2. KnowsDelete(r, k)'
      BY <1>1, <1>2, <1>3, <2>1, <3>1, FrameKeeps DEF Knows
    <3> QED
      BY <1>1, <1>3, <2>1, <3>2 DEF Knows
  <2>2. CASE r.op \notin Deleting
    <3>1. KnowsPut(r, k)'
      BY <1>1, <1>2, <1>3, <2>2, FrameKeeps DEF Knows, Handles
    <3> QED
      BY <1>1, <1>3, <2>2, <3>1 DEF Knows
  <2> QED
    BY <2>1, <2>2
<1> QED
  BY <1>1, <1>2, <1>3, OneHandler

\* What HEAD tells a handler is true: a put whose answer never came finds its own
\* version, the previous one or nothing, and an object that is to be deleted is there
\* or not.
LEMMA VerdictTrue ==
    ASSUME IInv, FenceInv, StoredInv, NEW p \in Procs, req[p] # None,
           NEW k \in Keys, k = req[p].key
    PROVE  /\ req[p].op \in Deleting =>
                /\ DeleteVerdict(p) # "gone"
                /\ DeleteVerdict(p) = "absent" => remote[PlaceOf(objects[k])] = None
                /\ DeleteVerdict(p) = "previous" => remote[PlaceOf(objects[k])] # None
           /\ req[p].op \notin Deleting =>
                /\ Classify(k) \in {"previous", "absent"} => ~Published(k)
                /\ Classify(k) = "published" => Published(k)
<1> USE IndexAssumption
<1>1. Handles(req[p], intents[k]) /\ KeyInv(k)
  BY Handled DEF StoredInv
<1>2. CASE req[p].op \in Deleting
  <2>1. HasPrevious(k)
    BY <1>1, <1>2, KeyFacts DEF Handles
  <2> QED
    BY <1>2, <2>1 DEF DeleteVerdict
<1>3. CASE req[p].op \notin Deleting
  <2>1. /\ intents[k] # None /\ intents[k].op = "put" /\ intents[k].bucket \in Buckets
        /\ intents[k].id # NoId /\ TargetOf(k) = <<intents[k].bucket, k>>
        /\ cleanups[TargetOf(k)] = None
    BY <1>1, <1>3, KeyFacts DEF Handles
  <2> DEFINE seen == remote[TargetOf(k)]
  <2>2. Classify(k) \in {"previous", "absent"} => ~Published(k)
    BY DEF Classify, Published
  <2>3. ASSUME Classify(k) = "published", ~Published(k) PROVE FALSE
    <3>1. seen # None /\ seen.id # intents[k].id
      BY <2>3 DEF Classify, Published
    <3>2. ~(PreviousAtTarget(k) /\ seen.etag = objects[k].etag)
      BY <2>3, <3>1 DEF Classify
    <3>3. objects[k] # None /\ objects[k].bucket = intents[k].bucket
            /\ objects[k].etag = seen.etag
      BY <1>1, <2>1, <3>1, KeyFacts DEF KeyInv, Accounted
    <3>4. PreviousAtTarget(k)
      BY <2>1, <3>3, KeyFacts DEF PreviousAtTarget
    <3> QED
      BY <3>2, <3>3, <3>4
  <2> QED
    BY <1>3, <2>2, <2>3
<1> QED
  BY <1>2, <1>3

\* Handlers that return and leave the bucket, and the row but for its state, alone.
LEMMA ReturnStored ==
    ASSUME IInv, FenceInv, StoredInv, late' = late, NEW p \in Procs, req[p] # None, Done(p),
           \A j \in Keys : Frame(j)
    PROVE  StoredInv'
BY QuietHandler DEF Done

\* Holding an intent for recovery leaves every key alone.
LEMMA HoldFramed ==
    ASSUME IInv, NEW p \in Procs, req[p] # None, HoldForRecovery(p), UNCHANGED remote
    PROVE  \A j \in Keys : Frame(j)
<1>1. req[p].key \in Keys /\ intents[req[p].key] # None
  BY Handled DEF Handles
<1>2. UpdateWriteState(req[p].key, "recovery", None)
  BY DEF HoldForRecovery
<1> QED
  BY <1>1, <1>2, UpdateFramed DEF WriteStates

\* The steps that hold or leave an intent.
LEMMA StoredReturns ==
    ASSUME IInv, FenceInv, StoredInv, NEW p \in Procs,
           CommitFails(p) \/ LeaveIntent(p) \/ HoldUnresolved(p)
    PROVE  StoredInv'
<1>1. req[p] # None /\ Done(p) /\ late' = late /\ remote' = remote
  BY DEF CommitFails, LeaveIntent, HoldUnresolved, HoldForRecovery
<1>2. HoldForRecovery(p) \/ UNCHANGED indexVars
  BY DEF CommitFails, LeaveIntent, HoldUnresolved
<1>3. \A j \in Keys : Frame(j)
  BY <1>1, <1>2, HoldFramed, AllFramed DEF indexVars
<1> QED
  BY <1>1, <1>3, ReturnStored

\* The steps that give an intent up: it has stored nothing, or removed nothing.
LEMMA StoredAborts ==
    ASSUME IInv, FenceInv, StoredInv, NEW p \in Procs,
           GiveUp(p) \/ AbortRejected(p) \/ AbortResolved(p)
    PROVE  StoredInv'
<1>1. PICK k : k = req[p].key
  OBVIOUS
<1>2. /\ req[p] # None /\ Done(p) /\ late' = late /\ remote' = remote /\ AbortWrite(k)
      /\ \/ req[p].pc \in {"begun", "rejected"}
         \/ req[p].pc = "seen" /\ req[p].seen \in AbortVerdicts(req[p].op)
  BY <1>1 DEF GiveUp, AbortRejected, AbortResolved
<1>3. k \in Keys /\ Handles(req[p], intents[k]) /\ req[p] \in Request /\ KeyInv(k)
      /\ Knows(req[p])
  BY <1>1, <1>2, Handled DEF StoredInv
<1>4. ASSUME intents[k].op = "put" PROVE ~Published(k)
  BY <1>1, <1>2, <1>3, <1>4 DEF Handles, Deleting, Knows, KnowsPut, NotSent, Saw, AbortVerdicts
<1>5. ASSUME intents[k].op = "delete" PROVE remote[PlaceOf(objects[k])] # None
  BY <1>1, <1>2, <1>3, <1>5 DEF Handles, Deleting, Knows, KnowsDelete, NotSent, Saw, AbortVerdicts
<1>6. KeyInv(k)' /\ \A j \in Keys : j # k => Frame(j)
  BY <1>2, <1>3, <1>4, <1>5, AbortStored DEF Handles
<1>7. req' = [req EXCEPT ![p] = None]
  BY <1>2 DEF Done
<1> QED
  BY <1>1, <1>2, <1>3, <1>6, <1>7, OneHandler

\* The steps of a handler between its calls to R2, and the calls without an effect.
LEMMA StoredAdvances ==
    ASSUME IInv, FenceInv, StoredInv, ~LateArrivals, NEW p \in Procs,
           \/ SendPut(p) \/ SendDelete(p) \/ RequestFails(p) \/ Refused(p)
           \/ MarkCompleting(p) \/ DeleteAgain(p)
    PROVE  StoredInv'
<1>1. req[p] # None /\ late' = late /\ remote' = remote
  BY DEF SendPut, SendDelete, RequestFails, Refused, MarkCompleting, DeleteAgain
<1>2. /\ req[p].key \in Keys /\ req[p] \in Request /\ intents[req[p].key] # None
      /\ Handles(req[p], intents[req[p].key]) /\ Knows(req[p])
  BY <1>1, Handled DEF StoredInv, Handles
<1>3. \A j \in Keys : Frame(j)
  <2>1. CASE SendPut(p)
    BY <1>1, <1>2, <2>1, UpdateFramed DEF SendPut, WriteStates
  <2>2. CASE MarkCompleting(p)
    <3>1. UpdateWriteState(req[p].key, "completing", req[p].etag) /\ req[p].etag \in Contents
      BY <1>2, <2>2 DEF MarkCompleting, Handles, Awaits
    <3> QED
      BY <1>1, <1>2, <3>1, UpdateFramed DEF WriteStates
  <2>3. CASE UNCHANGED indexVars
    BY <1>1, <2>3, AllFramed DEF indexVars
  <2> QED
    BY <2>1, <2>2, <2>3 DEF SendDelete, RequestFails, Refused, DeleteAgain
<1>4. PICK r : r = req'[p]
  OBVIOUS
<1>5. /\ req' = [req EXCEPT ![p] = r] /\ r.key = req[p].key /\ r.op = req[p].op
      /\ \/ /\ r.seen = req[p].seen
            /\ \/ r.pc = "sending" /\ req[p].pc = "begun"
               \/ r.pc = "sending" /\ r.op = "redelete"
               \/ r.pc = "rejected" /\ req[p].pc = "sending" /\ req[p].op # "redelete"
               \/ r.pc = "unsure" /\ req[p].pc = "sending"
               \/ r.pc = "completing" /\ req[p].pc = "published"
         \/ r.pc = "seen" /\ r.seen = "error" /\ r.op = "redelete"
  BY <1>2, <1>4 DEF SendPut, SendDelete, RequestFails, Refused, MarkCompleting, DeleteAgain,
     Goto, Unanswered, Request, IInv, HandlersInv
<1>6. Knows(r)
  <2>1. CASE r.op \in Deleting
    BY <1>2, <1>5, <2>1 DEF Knows, KnowsDelete, NotSent, Saw, Deleting
  <2>2. CASE r.op \notin Deleting
    BY <1>2, <1>5, <2>2 DEF Knows, KnowsPut, NotSent, Saw, Awaits, Deleting
  <2> QED
    BY <2>1, <2>2
<1> QED
  BY <1>1, <1>3, <1>5, <1>6, QuietHandler

\* Looking with HEAD.
LEMMA StoredHeads ==
    ASSUME IInv, FenceInv, StoredInv, NEW p \in Procs, Head(p) \/ HeadFails(p)
    PROVE  StoredInv'
<1>1. req[p] # None /\ late' = late /\ UNCHANGED <<objects, intents, cleanups, remote>>
  BY DEF Head, HeadFails, indexVars
<1>2. PICK k : k = req[p].key
  OBVIOUS
<1>3. k \in Keys /\ req[p] \in Request /\ Handles(req[p], intents[k]) /\ Knows(req[p])
  BY <1>1, <1>2, Handled DEF StoredInv
<1>4. \A j \in Keys : Frame(j)
  BY <1>1, AllFramed
<1>5. PICK r : r = req'[p]
  OBVIOUS
<1>6. /\ req' = [req EXCEPT ![p] = r] /\ r.key = req[p].key /\ r.op = req[p].op /\ r.pc = "seen"
      /\ \/ r.seen = "error"
         \/ r.op \in Deleting /\ r.seen = DeleteVerdict(p)
         \/ r.op \notin Deleting /\ r.seen = Classify(k)
  BY <1>2, <1>3, <1>5 DEF Head, HeadFails, Request, IInv, HandlersInv, Handles
<1>7. Knows(r)
  <2>1. CASE r.op \in Deleting
    BY <1>1, <1>2, <1>3, <1>6, <2>1, VerdictTrue DEF Knows, KnowsDelete, NotSent, Saw
  <2>2. CASE r.op \notin Deleting
    BY <1>1, <1>2, <1>3, <1>6, <2>2, VerdictTrue DEF Knows, KnowsPut, NotSent, Saw, Awaits
  <2> QED
    BY <2>1, <2>2
<1> QED
  BY <1>1, <1>4, <1>6, <1>7, QuietHandler

\* Only the place <<b, k>> changes: the other keys are left alone.
LEMMA PlaceFramed ==
    ASSUME IInv, NEW b \in Buckets, NEW k \in Keys, NEW what,
           remote' = [remote EXCEPT ![<<b, k>>] = what], UNCHANGED <<objects, intents, cleanups>>
    PROVE  /\ remote'[<<b, k>>] = what
           /\ \A d \in Buckets : d # b => remote'[<<d, k>>] = remote[<<d, k>>]
           /\ \A j \in Keys : j # k => Frame(j)
BY DEF IInv, RemoteOK, Places, Frame, SameIntent

\* A put that takes effect publishes its bytes at its target, possibly in place of the
\* version it replaces.
LEMMA PutStores ==
    ASSUME IInv, FenceInv, NEW k \in Keys, intents[k] # None, intents[k].op = "put", KeyInv(k),
           remote' = [remote EXCEPT ![TargetOf(k)] =
                         [id |-> intents[k].id, etag |-> intents[k].body]],
           UNCHANGED <<objects, intents, cleanups>>
    PROVE  KeyInv(k)' /\ Published(k)' /\ \A j \in Keys : j # k => Frame(j)
<1> USE IndexAssumption, WritesAssumption
<1>1. PICK version : version = [id |-> intents[k].id, etag |-> intents[k].body]
  OBVIOUS
<1>2. /\ version # None /\ version.id = intents[k].id /\ version.etag = intents[k].body
      /\ intents[k].bucket \in Buckets /\ TargetOf(k) = <<intents[k].bucket, k>>
  <2>1. intents[k].body \in Contents /\ intents[k].id \in Ids
    BY DEF IInv, IndexInv, IntentsWellFormed, RowsTypeOK, Intent
  <2>2. version \in Remote
    BY <1>1, <2>1 DEF Remote, Ids
  <2> QED
    BY <1>1, <2>2, KeyFacts
<1>3. PICK b : b = intents[k].bucket
  OBVIOUS
<1>4. /\ remote'[<<b, k>>] = version
      /\ \A d \in Buckets : d # b => remote'[<<d, k>>] = remote[<<d, k>>]
      /\ \A j \in Keys : j # k => Frame(j)
  <2>1. remote' = [remote EXCEPT ![<<b, k>>] = version] /\ b \in Buckets
    BY <1>1, <1>2, <1>3
  <2> QED
    BY <2>1 DEF IInv, RemoteOK, Places, Frame, SameIntent
<1>5. TargetOf(k)' = TargetOf(k) /\ intents' = intents /\ objects' = objects
      /\ PreviousAtTarget(k)' = PreviousAtTarget(k)
  BY DEF TargetOf, PreviousAtTarget, HasPrevious, CurrentId
<1>6. Published(k)' /\ remote'[TargetOf(k)] = version
  BY <1>2, <1>3, <1>4, <1>5 DEF Published
<1>7. Accounted(k)'
  BY <1>2, <1>3, <1>4, <1>5 DEF Accounted, KeyInv
<1>8. ASSUME objects[k] # None PROVE Kept(k)' \/ Overtaken(k)'
  <2>0. /\ PlaceOf(objects[k]) = <<objects[k].bucket, k>> /\ objects[k].bucket \in Buckets
        /\ HasPrevious(k) /\ intents[k].prev = objects[k].id
    BY <1>8, KeyFacts DEF HasPrevious, CurrentId
  <2>1. CASE objects[k].bucket = b
    <3>1. PreviousAtTarget(k)
      BY <1>2, <1>3, <2>0, <2>1 DEF PreviousAtTarget
    <3> QED
      BY <1>2, <1>5, <1>6, <2>0, <3>1 DEF Overtaken
  <2>2. CASE objects[k].bucket # b
    <3>1. ~PreviousAtTarget(k)
      BY <1>2, <1>3, <2>0, <2>2 DEF PreviousAtTarget
    <3>2. Kept(k)
      BY <1>8, <3>1 DEF KeyInv, Overtaken
    <3>3. remote'[PlaceOf(objects[k])] = remote[PlaceOf(objects[k])]
      BY <1>4, <2>0, <2>2
    <3> QED
      BY <1>5, <3>2, <3>3 DEF Kept
  <2> QED
    BY <2>1, <2>2
<1> QED
  BY <1>4, <1>5, <1>6, <1>7, <1>8 DEF KeyInv

\* A delete that takes effect removes the object its intent names.
LEMMA DeleteRemoves ==
    ASSUME IInv, FenceInv, NEW k \in Keys, intents[k] # None, intents[k].op = "delete", KeyInv(k),
           remote' = [remote EXCEPT ![PlaceOf(objects[k])] = None],
           UNCHANGED <<objects, intents, cleanups>>
    PROVE  /\ KeyInv(k)' /\ remote'[PlaceOf(objects[k])] = None
           /\ \A j \in Keys : j # k => Frame(j)
<1>1. PICK b : b = objects[k].bucket
  OBVIOUS
<1>2. /\ objects[k] # None /\ PlaceOf(objects[k]) = <<b, k>> /\ b \in Buckets
      /\ intents[k].prev = objects[k].id
  BY <1>1, KeyFacts DEF CurrentId
<1>3. /\ remote'[<<b, k>>] = None
      /\ \A d \in Buckets : d # b => remote'[<<d, k>>] = remote[<<d, k>>]
      /\ \A j \in Keys : j # k => Frame(j)
  BY <1>2, PlaceFramed
<1>4. Accounted(k)'
  BY <1>3 DEF Accounted, KeyInv
<1>5. Overtaken(k)'
  BY <1>2, <1>3 DEF Overtaken
<1> QED
  BY <1>2, <1>3, <1>4, <1>5 DEF KeyInv

\* Requests that take effect, answered or not.
LEMMA StoredAnswers ==
    ASSUME IInv, FenceInv, StoredInv, NEW p \in Procs, Answered(p) \/ AnswerLost(p)
    PROVE  StoredInv'
<1>1. PICK k : k = req[p].key
  OBVIOUS
<1>2. /\ req[p] # None /\ req[p].pc = "sending" /\ late' = late
      /\ UNCHANGED <<objects, intents, cleanups>> /\ remote' = After(Outgoing(p))
  BY DEF Answered, AnswerLost, indexVars
<1>3. /\ k \in Keys /\ req[p] \in Request /\ Handles(req[p], intents[k]) /\ KeyInv(k)
      /\ Knows(req[p])
  BY <1>1, <1>2, Handled DEF StoredInv
<1>4. PICK r : r = req'[p]
  OBVIOUS
<1>5. /\ req' = [req EXCEPT ![p] = r] /\ r.key = k /\ r.op = req[p].op
      /\ r.seen \in {req[p].seen, "error"}
      /\ r.op \in {"put", "move"} => r.pc \in {"published", "unsure"}
      /\ r.op = "delete" => r.pc \in {"removed", "unsure"}
      /\ r.op = "redelete" => r.pc \in {"confirm", "seen"}
      /\ r.pc = "seen" => r.seen = "error"
  BY <1>1, <1>2, <1>3, <1>4 DEF Answered, AnswerLost, Unanswered, Request, IInv, HandlersInv
<1>6. CASE req[p].op \in {"put", "move"}
  <2>1. /\ intents[k] # None /\ intents[k].op = "put" /\ intents[k].id = req[p].id
        /\ req[p].op \notin Deleting
    BY <1>3, <1>6, KeyFacts DEF Handles, Deleting
  <2>2. remote' = [remote EXCEPT ![TargetOf(k)] =
                      [id |-> intents[k].id, etag |-> intents[k].body]]
    BY <1>1, <1>2, <1>6, <2>1 DEF After, Outgoing
  <2>3. KeyInv(k)' /\ Published(k)' /\ \A j \in Keys : j # k => Frame(j)
    BY <1>2, <1>3, <2>1, <2>2, PutStores
  <2>4. Knows(r)'
    BY <1>5, <1>6, <2>1, <2>3 DEF Knows, KnowsPut, NotSent, Saw
  <2> QED
    BY <1>1, <1>2, <1>3, <1>5, <2>3, <2>4, OneHandler
<1>7. CASE req[p].op \in Deleting
  <2>1. intents[k] # None /\ intents[k].op = "delete"
    BY <1>3, <1>7 DEF Handles
  <2>2. remote' = [remote EXCEPT ![PlaceOf(objects[k])] = None]
    BY <1>1, <1>2, <1>7 DEF After, Outgoing, Deleting
  <2>3. /\ KeyInv(k)' /\ remote'[PlaceOf(objects[k])] = None
        /\ \A j \in Keys : j # k => Frame(j)
    BY <1>2, <1>3, <2>1, <2>2, DeleteRemoves
  <2>4. req[p].seen # "gone"
    BY <1>3, <1>7 DEF Knows, KnowsDelete
  <2>5. Knows(r)'
    BY <1>2, <1>5, <1>7, <2>3, <2>4 DEF Knows, KnowsDelete, NotSent, Saw, Deleting
  <2> QED
    BY <1>1, <1>2, <1>3, <1>5, <2>3, <2>5, OneHandler
<1> QED
  BY <1>2, <1>3, <1>6, <1>7 DEF Handles, Request, Operations, Deleting

\* A commit makes what its put has stored the indexed object, and the version it
\* replaces, where that lies elsewhere, an old copy.
LEMMA CommitKeeps ==
    ASSUME IInv, FenceInv, NEW k \in Keys, intents[k] # None, KeyInv(k), Published(k),
           NEW etag \in Contents, remote[TargetOf(k)].etag = etag, CommitWrite(k, etag),
           UNCHANGED remote
    PROVE  KeyInv(k)' /\ \A j \in Keys : j # k => Frame(j)
<1> DEFINE b == intents[k].bucket
           old == objects[k].bucket
<1>0. RowsTypeOK /\ cleanups \in [Places -> Contents \union {None}]
  BY DEF IInv, IndexInv, RowsTypeOK
<1>1. /\ b \in Buckets /\ intents[k].op = "put" /\ TargetOf(k) = <<b, k>>
      /\ HasPrevious(k) <=> objects[k] # None
      /\ cleanups[<<b, k>>] = None
  BY KeyFacts DEF CommitWrite, CommitAllowed
<1>2. objects[k] # None => /\ old \in Buckets /\ PlaceOf(objects[k]) = <<old, k>>
                           /\ objects[k].etag \in Contents
                           /\ cleanups[<<old, k>>] = None
  BY KeyFacts
<1>3. /\ intents'[k] = None /\ objects'[k] # None
      /\ objects'[k].id = intents[k].id /\ objects'[k].bucket = b
      /\ objects'[k].pkey = k /\ objects'[k].etag = etag
      /\ \A j \in Keys : j # k => intents'[j] = intents[j] /\ objects'[j] = objects[j]
  <2>1. [id |-> intents[k].id, bucket |-> b, pkey |-> k, etag |-> etag] \in Object
    BY <1>1, KeyFacts DEF Object
  <2> QED
    BY <1>0, <2>1, IndexAssumption DEF CommitWrite, RowsTypeOK
<1> HIDE DEF b, old
<1>4. /\ objects[k] # None /\ old # b => cleanups'[<<old, k>>] = objects[k].etag
      /\ \A d \in Buckets : ~(objects[k] # None /\ old # b /\ d = old)
            => cleanups'[<<d, k>>] = cleanups[<<d, k>>]
      /\ \A d \in Buckets, j \in Keys : j # k => cleanups'[<<d, j>>] = cleanups[<<d, j>>]
  <2>1. CASE objects[k] # None /\ old # b
    <3>1. PreviousNeedsCleanup(k)
      BY <1>1, <1>2, <2>1 DEF PreviousNeedsCleanup, PreviousAtTarget
    <3>2. cleanups' = [cleanups EXCEPT ![<<old, k>>] = objects[k].etag]
      BY <1>2, <2>1, <3>1 DEF CommitWrite
    <3> QED
      BY <1>0, <1>2, <2>1, <3>2 DEF Places
  <2>2. CASE ~(objects[k] # None /\ old # b)
    <3>1. ~PreviousNeedsCleanup(k)
      BY <1>1, <1>2, <2>2 DEF PreviousNeedsCleanup, PreviousAtTarget
    <3> QED
      BY <2>2, <3>1 DEF CommitWrite
  <2> QED
    BY <2>1, <2>2
<1>5. \A j \in Keys : j # k => Frame(j)
  BY <1>3, <1>4 DEF Frame, SameIntent
<1>6. Accounted(k)'
  <2> SUFFICES ASSUME NEW d \in Buckets, remote[<<d, k>>] # None
               PROVE  \/ d = b /\ remote[<<d, k>>].etag = etag
                      \/ cleanups'[<<d, k>>] = remote[<<d, k>>].etag
    BY <1>3 DEF Accounted
  <2>1. CASE d = b
    BY <1>1, <2>1
  <2>2. CASE d # b
    <3>1. \/ objects[k] # None /\ old = d /\ objects[k].etag = remote[<<d, k>>].etag
          \/ cleanups[<<d, k>>] = remote[<<d, k>>].etag
      BY <2>2 DEF KeyInv, Accounted, b, old
    <3>2. remote[<<d, k>>].etag # None
      BY KeyFacts
    <3> QED
      BY <1>2, <1>4, <2>2, <3>1, <3>2
  <2> QED
    BY <2>1, <2>2
<1>7. Kept(k)'
  <2>1. PlaceOf(objects[k])' = TargetOf(k)
    BY <1>1, <1>3 DEF PlaceOf
  <2> QED
    BY <1>3, <2>1 DEF Kept, Published
<1> QED
  BY <1>3, <1>5, <1>6, <1>7 DEF KeyInv

\* The commit of a put that R2 has confirmed, or that HEAD has found published.
LEMMA StoredCommits ==
    ASSUME IInv, FenceInv, RequestInv, StoredInv, NEW p \in Procs, CommitPut(p)
    PROVE  StoredInv'
<1>1. PICK k : k = req[p].key
  OBVIOUS
<1>2. PICK etag : etag = req[p].etag
  OBVIOUS
<1>3. /\ req[p] # None /\ Awaits(req[p]) /\ CommitWrite(k, etag) /\ Done(p)
      /\ UNCHANGED <<remote, late>>
  BY <1>1, <1>2 DEF CommitPut, Awaits
<1>4. /\ k \in Keys /\ intents[k] # None /\ etag \in Contents
      /\ Handles(req[p], intents[k]) /\ KeyInv(k) /\ Knows(req[p])
  BY <1>1, <1>2, <1>3, Handled DEF StoredInv, Handles
<1>5. req[p].op \notin Deleting
  BY <1>3, <1>4 DEF CommitWrite, CommitAllowed, Handles
<1>6. Published(k) /\ etag = intents[k].body
  BY <1>1, <1>2, <1>3, <1>4, <1>5 DEF Knows, KnowsPut, RequestInv, KnowsBody
<1>7. remote[TargetOf(k)].etag = etag
  BY <1>4, <1>6, KeyFacts DEF RequestInv, BodiesSent, Published
<1>8. KeyInv(k)' /\ \A j \in Keys : j # k => Frame(j)
  BY <1>3, <1>4, <1>6, <1>7, CommitKeeps
<1>9. req' = [req EXCEPT ![p] = None]
  BY <1>3 DEF Done
<1> QED
  BY <1>1, <1>3, <1>4, <1>8, <1>9, OneHandler

\* The commit of a delete whose object is gone.
LEMMA StoredRemovals ==
    ASSUME IInv, FenceInv, StoredInv, NEW p \in Procs, CommitRemoval(p)
    PROVE  StoredInv'
<1>1. PICK k : k = req[p].key
  OBVIOUS
<1>2. /\ req[p] # None /\ CommitDeleteWrite(k) /\ Done(p) /\ UNCHANGED <<remote, late>>
      /\ req[p].pc = "removed" \/ Saw(req[p], "absent")
  BY <1>1 DEF CommitRemoval, Saw
<1>3. /\ k \in Keys /\ Handles(req[p], intents[k]) /\ KeyInv(k) /\ Knows(req[p])
      /\ intents[k].op = "delete" /\ objects[k] # None
      /\ PlaceOf(objects[k]) = <<objects[k].bucket, k>>
  BY <1>1, <1>2, Handled, KeyFacts DEF StoredInv, Handles, CommitDeleteWrite, CommitDeleteAllowed
<1>4. remote[<<objects[k].bucket, k>>] = None
  BY <1>1, <1>2, <1>3 DEF Handles, Knows, KnowsDelete
<1>5. /\ intents'[k] = None /\ objects'[k] = None /\ cleanups' = cleanups
      /\ \A j \in Keys : j # k => intents'[j] = intents[j] /\ objects'[j] = objects[j]
  BY <1>2, <1>3 DEF CommitDeleteWrite, IInv, IndexInv, RowsTypeOK
<1>6. \A j \in Keys : j # k => Frame(j)
  BY <1>2, <1>5 DEF Frame, SameIntent
<1>7. KeyInv(k)'
  BY <1>2, <1>3, <1>4, <1>5 DEF KeyInv, Accounted
<1>8. req' = [req EXCEPT ![p] = None]
  BY <1>2 DEF Done
<1> QED
  BY <1>1, <1>2, <1>3, <1>6, <1>7, <1>8, OneHandler

\* A handler that starts concerns the free key it takes only.
LEMMA OneStarts ==
    ASSUME IInv, FenceInv, StoredInv, late' = late,
           NEW p \in Procs, req[p] = None, NEW k \in Keys, KeyFree(k),
           NEW r, req' = [req EXCEPT ![p] = r],
           \A j \in Keys : j # k => Frame(j), Frame(k) \/ KeyInv(k)', Knows(r)'
    PROVE  StoredInv'
<1>1. \A q \in Procs : req[q] # None => req[q].key \in Keys /\ req[q].key # k
  BY Handled DEF KeyFree, HeldKeys
<1>2. req'[p] = r /\ \A q \in Procs : q # p => req'[q] = req[q]
  BY DEF IInv, HandlersInv
<1>3. ASSUME NEW q \in Procs, req'[q] # None
      PROVE  \/ Knows(req[q])'
             \/ req'[q] = req[q] /\ Frame(req[q].key)
  <2>1. CASE q = p
    BY <1>2, <1>3, <2>1
  <2>2. CASE q # p
    BY <1>1, <1>2, <1>3, <2>2
  <2> QED
    BY <2>1, <2>2
<1> QED
  BY <1>3, StoredMoves

\* A put that begins has published nothing yet.
LEMMA BeginWriteStored ==
    ASSUME IInv, FenceInv, RequestInv, NEW k \in Keys, KeyInv(k),
           NEW body \in Contents, NEW cond \in Conditions, NEW b \in Buckets,
           nextId <= MaxId, BeginWrite(k, body, cond, b), UNCHANGED remote
    PROVE  KeyInv(k)' /\ ~Published(k)' /\ \A j \in Keys : j # k => Frame(j)
<1>1. /\ intents[k] = None /\ intents'[k].id = nextId /\ intents'[k].bucket = b
      /\ intents'[k].op = "put" /\ UNCHANGED <<objects, cleanups>>
      /\ \A j \in Keys : j # k => intents'[j] = intents[j]
  BY DEF BeginWrite, IInv, IndexInv, RowsTypeOK
<1>2. \A j \in Keys : j # k => Frame(j)
  BY <1>1 DEF Frame, SameIntent
<1>3. KeyInv(k)'
  BY <1>1 DEF KeyInv, Accounted, Kept, Overtaken
<1>4. ~Published(k)'
  <2>1. TargetOf(k)' = <<b, k>>
    BY <1>1 DEF TargetOf
  <2>2. remote[<<b, k>>] # None => /\ remote[<<b, k>>].id \in Nat
                                   /\ Drawn(remote[<<b, k>>].id)
    BY KeyFacts DEF RequestInv, IdsDrawn, Remote
  <2>3. nextId \in Nat /\ MaxId \in Nat
    BY WritesAssumption DEF IInv, IndexInv, RowsTypeOK, Ids
  <2> QED
    BY <1>1, <2>1, <2>2, <2>3 DEF Published, Drawn
<1> QED
  BY <1>2, <1>3, <1>4

\* A delete that begins has its object before it.
LEMMA BeginDeleteStored ==
    ASSUME IInv, FenceInv, NEW k \in Keys, KeyInv(k), NEW cond \in Conditions,
           BeginDeleteWrite(k, cond), UNCHANGED remote
    PROVE  /\ KeyInv(k)' /\ remote[PlaceOf(objects[k])] # None
           /\ \A j \in Keys : j # k => Frame(j)
<1>1. /\ intents[k] = None /\ intents'[k].bucket = objects[k].bucket /\ objects[k] # None
      /\ intents'[k].op = "delete" /\ UNCHANGED <<objects, cleanups>>
      /\ \A j \in Keys : j # k => intents'[j] = intents[j]
  BY DEF BeginDeleteWrite, IInv, IndexInv, RowsTypeOK
<1>2. \A j \in Keys : j # k => Frame(j)
  BY <1>1 DEF Frame, SameIntent
<1>3. Kept(k)
  BY <1>1 DEF KeyInv, Overtaken
<1>4. KeyInv(k)'
  BY <1>1, <1>3 DEF KeyInv, Accounted, Kept
<1> QED
  BY <1>2, <1>3, <1>4 DEF Kept

\* Mutations that begin.
LEMMA StoredBegins ==
    ASSUME IInv, FenceInv, RequestInv, StoredInv, NEW p \in Procs, NEW k \in Keys,
           \/ \E body \in Contents, cond \in Conditions, b \in Buckets : BeginPut(p, k, body, cond, b)
           \/ \E cond \in Conditions : BeginDelete(p, k, cond)
           \/ \E b \in Buckets : p = Job /\ BeginMove(k, b)
           \/ p = Job /\ BeginRecovery(k)
    PROVE  StoredInv'
<1>1. /\ req[p] = None /\ KeyFree(k) /\ UNCHANGED <<remote, late>> /\ KeyInv(k)
  BY DEF BeginPut, BeginDelete, BeginMove, BeginRecovery, Meets, TakeUp, JobFree, StoredInv
<1>2. PICK r : r = req'[p]
  OBVIOUS
<1>3. ASSUME NEW op \in Operations, NEW pc \in Steps, NEW id, Start(p, op, pc, k, id)
      PROVE  /\ req' = [req EXCEPT ![p] = r] /\ r.key = k /\ r.op = op /\ r.pc = pc
             /\ r.seen = "none"
  BY <1>2, <1>3 DEF Start, IInv, HandlersInv
<1>4. CASE \/ \E body \in Contents, cond \in Conditions, b \in Buckets :
                 BeginPut(p, k, body, cond, b)
           \/ \E b \in Buckets : p = Job /\ BeginMove(k, b)
  <2>1. PICK body \in Contents, cond \in Conditions, b \in Buckets, op \in {"put", "move"} :
           nextId <= MaxId /\ BeginWrite(k, body, cond, b) /\ Start(p, op, "begun", k, nextId)
    BY <1>4, KeyFacts DEF BeginPut, BeginMove, Conditions
  <2>2. /\ req' = [req EXCEPT ![p] = r] /\ r.key = k /\ r.op \notin Deleting
        /\ r.pc = "begun"
    BY <1>3, <2>1 DEF Operations, Steps, Deleting
  <2>3. KeyInv(k)' /\ ~Published(k)' /\ \A j \in Keys : j # k => Frame(j)
    BY <1>1, <2>1, BeginWriteStored
  <2>4. Knows(r)'
    BY <2>2, <2>3 DEF Knows, KnowsPut, Awaits
  <2> QED
    BY <1>1, <2>2, <2>3, <2>4, OneStarts
<1>5. CASE \E cond \in Conditions : BeginDelete(p, k, cond)
  <2>1. PICK cond \in Conditions :
           BeginDeleteWrite(k, cond) /\ Start(p, "delete", "begun", k, nextId)
    BY <1>5 DEF BeginDelete
  <2>2. /\ req' = [req EXCEPT ![p] = r] /\ r.key = k /\ r.op = "delete" /\ r.pc = "begun"
        /\ r.seen = "none" /\ UNCHANGED objects
    BY <1>3, <2>1 DEF Operations, Steps, BeginDeleteWrite
  <2>3. /\ KeyInv(k)' /\ remote[PlaceOf(objects[k])] # None
        /\ \A j \in Keys : j # k => Frame(j)
    BY <1>1, <2>1, BeginDeleteStored
  <2>4. Knows(r)'
    BY <1>1, <2>2, <2>3 DEF Knows, KnowsDelete, Deleting, Saw
  <2> QED
    BY <1>1, <2>2, <2>3, <2>4, OneStarts
<1>6. CASE p = Job /\ BeginRecovery(k)
  <2>1. /\ req' = [req EXCEPT ![p] = r] /\ r.key = k /\ r.op \in {"recover", "redelete"}
        /\ r.pc = "unsure" /\ r.seen = "none"
    BY <1>3, <1>6 DEF BeginRecovery, TakeUp, Operations, Steps
  <2>2. \A j \in Keys : Frame(j)
    BY <1>6, AllFramed DEF BeginRecovery, TakeUp, indexVars
  <2>3. Knows(r)'
    BY <2>1 DEF Knows, KnowsPut, KnowsDelete, NotSent, Awaits, Saw, Deleting
  <2> QED
    BY <1>1, <2>1, <2>2, <2>3, OneStarts
<1> QED
  BY <1>4, <1>5, <1>6

\* Clearing the place of an old copy, and forgetting an old copy that is gone, touch
\* neither an object nor what a put has stored.
LEMMA OldCopyStored ==
    ASSUME IInv, FenceInv, StoredInv, NEW b \in Buckets, NEW k \in Keys,
           cleanups[<<b, k>>] # None, UNCHANGED <<objects, intents, req, late>>,
           \/ remote' = [remote EXCEPT ![<<b, k>>] = None] /\ UNCHANGED cleanups
           \/ /\ remote[<<b, k>>] = None /\ UNCHANGED remote
              /\ cleanups' = [cleanups EXCEPT ![<<b, k>>] = None]
    PROVE  StoredInv'
<1>1. /\ \A j \in Keys, d \in Buckets : j # k \/ d # b =>
            remote'[<<d, j>>] = remote[<<d, j>>] /\ cleanups'[<<d, j>>] = cleanups[<<d, j>>]
      /\ remote'[<<b, k>>] = None
  BY DEF IInv, IndexInv, RowsTypeOK, RemoteOK, Places
<1>2. \A j \in Keys : j # k => Frame(j)
  BY <1>1 DEF Frame, SameIntent
<1>3. objects[k] # None => /\ PlaceOf(objects[k])' = PlaceOf(objects[k])
                           /\ remote'[PlaceOf(objects[k])] = remote[PlaceOf(objects[k])]
  BY <1>1, KeyFacts DEF PlaceOf
<1>4. intents[k] # None /\ intents[k].op = "put" =>
        /\ TargetOf(k)' = TargetOf(k) /\ remote'[TargetOf(k)] = remote[TargetOf(k)]
        /\ Published(k)' = Published(k)
  BY <1>1, KeyFacts DEF TargetOf, Published
<1>5. KeyInv(k)'
  <2>1. Accounted(k)'
    BY <1>1 DEF StoredInv, KeyInv, Accounted
  <2>2. ASSUME objects[k] # None PROVE (Kept(k) \/ Overtaken(k))'
    <3>1. CASE Kept(k)
      BY <1>3, <2>2, <3>1 DEF Kept
    <3>2. CASE Overtaken(k)
      <4>1. PreviousAtTarget(k)' = PreviousAtTarget(k)
        BY DEF PreviousAtTarget, HasPrevious, CurrentId, PlaceOf, TargetOf
      <4>2. intents[k].op \in {"put", "delete"}
        BY <3>2, KeyFacts DEF Overtaken
      <4> QED
        BY <1>3, <1>4, <2>2, <3>2, <4>1, <4>2 DEF Overtaken
    <3> QED
      BY <2>2, <3>1, <3>2 DEF StoredInv, KeyInv
  <2> QED
    BY <2>1, <2>2 DEF StoredInv, KeyInv
<1>6. ASSUME NEW q \in Procs, req'[q] # None
      PROVE  \/ Knows(req[q])'
             \/ req'[q] = req[q] /\ Frame(req[q].key)
  <2>1. PICK r : r = req[q]
    OBVIOUS
  <2>2. r.key \in Keys /\ Handles(r, intents[r.key]) /\ Knows(r) /\ req'[q] = r
    BY <1>6, <2>1, Handled DEF StoredInv
  <2>3. CASE r.key # k
    BY <1>2, <2>1, <2>2, <2>3
  <2>4. CASE r.key = k /\ r.op \in Deleting
    <3>1. objects[k] # None
      BY <2>2, <2>4, KeyFacts DEF Handles
    <3>2. KnowsDelete(r, k)'
      BY <1>3, <2>2, <2>4, <3>1 DEF Knows, KnowsDelete
    <3> QED
      BY <2>2, <2>4, <3>2 DEF Knows
  <2>5. CASE r.key = k /\ r.op \notin Deleting
    <3>1. intents[k] # None /\ intents[k].op = "put"
      BY <2>2, <2>5, KeyFacts DEF Handles
    <3>2. KnowsPut(r, k)'
      BY <1>4, <2>2, <2>5, <3>1 DEF Knows, KnowsPut
    <3> QED
      BY <2>2, <2>5, <3>2 DEF Knows
  <2> QED
    BY <2>3, <2>4, <2>5
<1> QED
  BY <1>2, <1>5, <1>6, StoredMoves

\* Steps that leave rows, buckets and handlers alone.
LEMMA StoredQuiet ==
    ASSUME IInv, FenceInv, StoredInv,
           UNCHANGED <<objects, intents, cleanups, remote, late>>,
           \A q \in Procs : req'[q] = req[q] \/ req'[q] = None
    PROVE  StoredInv'
<1>1. \A j \in Keys : Frame(j)
  BY AllFramed
<1>2. \A q \in Procs : req[q] # None => req[q].key \in Keys
  BY Handled
<1> QED
  BY <1>1, <1>2, StoredMoves

\* The job on a bucket, or on those of an account.
LEMMA StoredChores ==
    ASSUME IInv, FenceInv, StoredInv, CleanupClaimed, ~LateArrivals, "adopt" \notin Chores,
           ChoreStep
    PROVE  StoredInv'
<1>0. UNCHANGED <<req, late>>
  BY DEF ChoreStep, FinishCleanup, CheckCleanup, DeleteOldCopy, RetryCleanup, CleanupFails,
     ListBucket, ImportObject, FinishScan, ScanFails, LockForSync, FinishSync, SyncFails
<1>1. ASSUME chore # None, chore.kind = "cleanup"
      PROVE  /\ chore.bucket \in Buckets /\ chore.key \in Keys
             /\ cleanups[<<chore.bucket, chore.key>>] # None
             /\ CleanupPlace = <<chore.bucket, chore.key>>
  BY <1>1, ChoreParts DEF IInv, CleanupClaimed, CleanupPlace
<1>2. CASE FinishCleanup
  <2>1. chore # None /\ chore.kind = "cleanup"
    BY <1>2 DEF FinishCleanup, Cleaning
  <2>2. /\ remote[CleanupPlace] = None /\ UNCHANGED <<remote, objects, intents>>
        /\ cleanups' = [cleanups EXCEPT ![CleanupPlace] = None]
    BY <1>2 DEF FinishCleanup, CompletePhysicalCleanup
  <2> QED
    BY <1>0, <1>1, <2>1, <2>2, OldCopyStored
<1>3. CASE /\ Cleaning("delete") /\ remote' = After(CleanupMessage)
           /\ UNCHANGED <<objects, intents, cleanups>>
  <2>1. chore # None /\ chore.kind = "cleanup"
    BY <1>3 DEF Cleaning
  <2>2. remote' = [remote EXCEPT ![CleanupPlace] = None]
    BY <1>3 DEF After, CleanupMessage
  <2> QED
    BY <1>0, <1>1, <1>3, <2>1, <2>2, OldCopyStored
<1>4. CASE \E k \in Keys : ImportObject(k)
  BY <1>4, ChoreParts DEF ImportObject, Scanning, IInv, ChoreOK
<1>5. CASE UNCHANGED <<objects, intents, cleanups, remote>>
  BY <1>0, <1>5, StoredQuiet
<1> QED
  BY <1>2, <1>3, <1>4, <1>5 DEF ChoreStep, CheckCleanup, DeleteOldCopy, RetryCleanup, CleanupFails,
     ListBucket, FinishScan, ScanFails, LockForSync, FinishSync, SyncFails, EndChore,
     ReleaseBucketMaintenance, AcquireBucketMaintenance, FinishBucketScan, ApplyAccountCapacity,
     indexVars

\* The rows that a put, a cleanup and an object have to agree on stay in order.
LEMMA FenceStep ==
    ASSUME "adopt" \notin Chores, IInv, FenceInv, [Next]_vars
    PROVE  FenceInv'
<1>1. IndexMove
  BY IndexMoves
<1> QED
  BY <1>1, OwnKeysStep, PreviousIsCurrentStep, FencesPutsStep, SparesObjectsStep DEF FenceInv

\* Every step keeps what is stored in order.
LEMMA StoredStep ==
    ASSUME ~LateArrivals, "adopt" \notin Chores,
           IInv, FenceInv, RequestInv, CleanupClaimed, StoredInv, [Next]_vars
    PROVE  StoredInv'
<1> USE WritesAssumption DEF Procs
<1>1. ASSUME NEW p \in Clients, ClientStep(p) PROVE StoredInv'
  BY <1>1, StoredBegins DEF ClientStep
<1>2. ASSUME NEW p \in Procs, Proceed(p) PROVE StoredInv'
  BY <1>2, StoredReturns, StoredAborts, StoredAdvances, StoredHeads, StoredAnswers,
     StoredCommits, StoredRemovals DEF Proceed
<1>3. CASE RecoveryStep
  <2>1. ASSUME NEW k \in Keys, BeginRecovery(k) PROVE StoredInv'
    BY <2>1, StoredBegins
  <2>2. CASE UNCHANGED <<objects, intents, cleanups, remote, late, req>>
    BY <2>2, StoredQuiet
  <2> QED
    BY <1>3, <2>1, <2>2 DEF RecoveryStep, SkipIntent, EndPass, indexVars
<1>4. CASE BeginChore
  <2>1. ASSUME NEW k \in Keys, NEW b \in Buckets, BeginMove(k, b) PROVE StoredInv'
    BY <2>1, StoredBegins
  <2>2. CASE UNCHANGED <<objects, intents, cleanups, remote, late, req>>
    BY <2>2, StoredQuiet
  <2> QED
    BY <1>4, <2>1, <2>2
       DEF BeginChore, BeginCleanup, BeginScan, BeginSync, BeginPass,
       AcquireBucketMaintenance, indexVars
<1>5. CASE ChoreStep
  BY <1>5, StoredChores
<1>6. ASSUME NEW message \in late, LateArrival(message) PROVE StoredInv'
  BY <1>6 DEF StoredInv
<1>7. CASE Crash
  <2>1. late' = late
    BY <1>7 DEF Crash
  <2>2. /\ UNCHANGED <<objects, intents, cleanups, remote>>
        /\ \A q \in Procs : req'[q] = None
    BY <1>7 DEF Crash
  <2> QED
    BY <2>1, <2>2, StoredQuiet
<1>8. CASE StartServing \/ UNCHANGED vars
  <2>1. UNCHANGED <<objects, intents, cleanups, remote, late, req>>
    BY <1>8 DEF StartServing, vars, indexVars
  <2> QED
    BY <2>1, StoredQuiet
<1> QED
  BY <1>1, <1>2, <1>3, <1>4, <1>5, <1>6, <1>7, <1>8 DEF Next

\* The pool and R2 as the capacity runs have them: R2 is reliable, nothing but the pool
\* writes to its buckets under the ids it draws, and no bucket is adopted.
ReliablePool ==
    /\ ~LateArrivals /\ "adopt" \notin Chores
    /\ StrayPlaces = {} /\ OtherIds \subseteq {NoId}
    /\ \A k \in Keys : HomeKey[k] = k

\* At the start an object has its bytes and nothing else is stored.
LEMMA StoredInit == Init /\ ReliablePool => FenceInv /\ StoredInv
<1> SUFFICES ASSUME Init, ReliablePool PROVE FenceInv /\ StoredInv
  OBVIOUS
<1> USE IndexAssumption, WritesAssumption
<1>1. PICK first \in StartKeys, b \in Buckets, c \in Contents,
           own \in {1} \union OtherIds, other \in {NoId} \union OtherIds :
             StartsWith(first, b, c, own, other)
  BY DEF Init
<1>2. /\ intents = [k \in Keys |-> None] /\ late = {} /\ req = [p \in Procs |-> None]
      /\ cleanups = [p \in Places |-> None]
  BY DEF Init
<1>3. FenceInv
  <2>1. OwnKeys
    BY <1>1 DEF StartsWith, OwnKeys, ReliablePool
  <2>2. PreviousIsCurrent /\ FencesPuts
    BY <1>2 DEF PreviousIsCurrent, FencesPuts
  <2>3. SparesObjects
    BY <1>2, InitInv DEF SparesObjects, Places, IInv, IndexInv, RowsTypeOK, Object
  <2> QED
    BY <2>1, <2>2, <2>3 DEF FenceInv
<1>4. ASSUME NEW k \in Keys PROVE KeyInv(k)
  <2> DEFINE object == [id |-> 1, bucket |-> b, pkey |-> HomeKey[first], etag |-> c]
             version == [id |-> own, etag |-> c]
  <2>1. /\ objects[k] = IF k = first THEN object ELSE None
        /\ \A d \in Buckets : remote[<<d, k>>] = IF first = k /\ d = b THEN version ELSE None
    BY <1>1 DEF StartsWith, Places, ReliablePool
  <2>2. k = first => object # None /\ object.pkey = k
    <3>1. k = first => object \in Object
      BY DEF Object, Ids, NoId
    <3> QED
      BY <3>1 DEF ReliablePool
  <2>3. object.id = 1 /\ object.bucket = b /\ object.etag = c
    OBVIOUS
  <2>4. version # None /\ version.id \in {NoId, 1} /\ version.etag = c
    <3>1. own \in Nat /\ own \in {NoId, 1}
      BY DEF ReliablePool
    <3>2. version \in Remote
      BY <3>1 DEF Remote
    <3> QED
      BY <3>1, <3>2
  <2> HIDE DEF object, version
  <2>5. Accounted(k)
    BY <2>1, <2>2, <2>3, <2>4 DEF Accounted
  <2>6. objects[k] # None => Kept(k)
    BY <2>1, <2>2, <2>3, <2>4 DEF Kept, PlaceOf
  <2> QED
    BY <1>2, <2>5, <2>6 DEF KeyInv
<1> QED
  BY <1>2, <1>3, <1>4 DEF StoredInv

\* A pool that is reliable in this sense draws its ids alone.
LEMMA PoolIdsForeign == ReliablePool => OtherIdsForeign
BY DEF ReliablePool, OtherIdsForeign

\* What lies in a bucket is in order in every reachable state.
THEOREM Stored ==
    ASSUME ReliablePool
    PROVE  Spec => [](FenceInv /\ StoredInv)
<1>1. Init => FenceInv /\ StoredInv
  BY StoredInit
<1>2. IInv /\ RequestInv /\ (LedgerInv /\ CleanupClaimed) /\ (FenceInv /\ StoredInv) /\ [Next]_vars
         => (FenceInv /\ StoredInv)'
  BY FenceStep, StoredStep DEF ReliablePool
<1>3. OtherIdsForeign
  BY PoolIdsForeign
<1>4. Spec => []RequestInv
  BY <1>3, RequestsTold
<1> QED
  BY <1>1, <1>2, <1>4, Ledger, Inductive, PTL DEF Spec

\* Durability: the bytes an index row names are in its bucket, with their ETag and
\* their write id, unless the object's own pending mutation has already replaced or
\* deleted them.  It holds through lost answers, rejections, crashes between any two
\* steps, recovery, rebalancing and the deletion of old copies; what it needs of R2 is
\* that a request whose caller has given up does not land later.
THEOREM ObjectsStored ==
    ASSUME ReliablePool
    PROVE  Spec => []IndexedObjectStored
<1>1. FenceInv /\ StoredInv => IndexedObjectStored
  <2> SUFFICES ASSUME FenceInv, StoredInv PROVE IndexedObjectStored
    OBVIOUS
  <2>1. ASSUME NEW k \in Keys, objects[k] # None PROVE Kept(k) \/ Overtaken(k)
    BY <2>1 DEF StoredInv, KeyInv
  <2>2. ASSUME NEW k \in Keys, PreviousAtTarget(k) PROVE PlaceOf(objects[k]) = TargetOf(k)
    BY <2>2 DEF PreviousAtTarget
  <2> QED
    BY <2>1, <2>2 DEF IndexedObjectStored, Kept, Overtaken, Published
<1> QED
  BY <1>1, Stored, PTL

-----------------------------------------------------------------------------
(* Proofs: the real bytes against the counters and the limits.             *)

\* The rows of a bucket add up to numbers of bytes, in three parts.
LEMMA RowBytesAre ==
    ASSUME RowsTypeOK, NEW b \in Buckets
    PROVE  /\ \A k \in Keys : RowTerm(b, k) \in Nat
           /\ RowBytes(b) \in Nat
           /\ RowBytes(b) = IndexedBytes(b) + PendingCleanupBytes(b) + ReservedBytes(b)
<1> DEFINE objs == [k \in Keys |-> IndexedTerm(b, k)]
           olds == [k \in Keys |-> CleanupTerm(b, k)]
           puts == [k \in Keys |-> ReservedTerm(b, k)]
           both == [k \in Keys |-> IndexedTerm(b, k) + CleanupTerm(b, k)]
           rows == [k \in Keys |-> RowTerm(b, k)]
<1>0. IsFiniteSet(Keys)
  BY IndexAssumption
<1>1. \A k \in Keys : /\ IndexedTerm(b, k) \in Nat /\ CleanupTerm(b, k) \in Nat
                      /\ ReservedTerm(b, k) \in Nat
  BY RowTermsType, ReservedTermType
<1>2. /\ objs \in [Keys -> Int] /\ olds \in [Keys -> Int] /\ puts \in [Keys -> Int]
      /\ both \in [Keys -> Int] /\ rows \in [Keys -> Nat] /\ rows \in [Keys -> Int]
      /\ \A k \in Keys : both[k] = objs[k] + olds[k]
      /\ \A k \in Keys : rows[k] = both[k] + puts[k]
  BY <1>1 DEF RowTerm
<1>3. \A k \in Keys : RowTerm(b, k) \in Nat
  BY <1>1 DEF RowTerm
<1>4. /\ IndexedBytes(b) = SumFunction(objs) /\ PendingCleanupBytes(b) = SumFunction(olds)
      /\ ReservedBytes(b) = SumFunction(puts) /\ RowBytes(b) = SumFunction(rows)
  BY DEF IndexedBytes, PendingCleanupBytes, ReservedBytes, RowBytes, IndexedTerm, CleanupTerm
<1> HIDE DEF objs, olds, puts, both, rows
<1>5. \A f, g, e \in [Keys -> Int] : (\A k \in Keys : e[k] = f[k] + g[k])
                                       => SumFunction(e) = SumFunction(f) + SumFunction(g)
  BY <1>0, SumAdd
<1>6. /\ SumFunction(both) = SumFunction(objs) + SumFunction(olds)
      /\ SumFunction(rows) = SumFunction(both) + SumFunction(puts)
  BY <1>2, <1>5
<1>7. SumFunction(rows) \in Nat
  BY <1>0, <1>2, SumNat
<1> QED
  BY <1>3, <1>4, <1>5, <1>6, <1>7

\* Every byte in a bucket is accounted for by a row or a reservation.
LEMMA BytesWithinRows ==
    ASSUME IInv, LedgerInv, RequestInv, FenceInv, StoredInv, NEW b \in Buckets
    PROVE  BytesAt(b) \in Nat /\ BytesAt(b) <= RowBytes(b)
<1> USE IndexAssumption
<1> DEFINE Term(k) == IF remote[<<b, k>>] = None THEN 0 ELSE SizeOf[remote[<<b, k>>].etag]
           bytes == [k \in Keys |-> Term(k)]
           rows == [k \in Keys |-> RowTerm(b, k)]
<1>0. RowsTypeOK /\ RemoteOK
  BY DEF IInv, IndexInv
<1>1. ASSUME NEW k \in Keys PROVE Term(k) \in Nat /\ Term(k) <= RowTerm(b, k)
  <2>1. /\ IndexedTerm(b, k) \in Nat /\ CleanupTerm(b, k) \in Nat /\ ReservedTerm(b, k) \in Nat
    BY <1>0, RowTermsType, ReservedTermType
  <2>2. CASE remote[<<b, k>>] = None
    BY <2>1, <2>2 DEF RowTerm
  <2>3. CASE remote[<<b, k>>] # None
    <3>1. /\ remote[<<b, k>>].etag \in Contents /\ remote[<<b, k>>].etag # None
          /\ <<b, k>> \in Places
      BY <2>3, KeyFacts
    <3>2. Term(k) = SizeOf[remote[<<b, k>>].etag] /\ Term(k) \in Nat
      BY <2>3, <3>1
    <3> HIDE DEF Term
    <3>3. CASE /\ objects[k] # None /\ objects[k].bucket = b
               /\ objects[k].etag = remote[<<b, k>>].etag
      <4>1. Term(k) = IndexedTerm(b, k)
        BY <3>2, <3>3 DEF IndexedTerm
      <4> QED
        BY <2>1, <4>1 DEF RowTerm
    <3>4. CASE cleanups[<<b, k>>] = remote[<<b, k>>].etag
      <4>1. Term(k) = CleanupTerm(b, k)
        BY <3>1, <3>2, <3>4 DEF CleanupTerm
      <4> QED
        BY <2>1, <4>1 DEF RowTerm
    <3>5. CASE /\ intents[k] # None /\ intents[k].op = "put" /\ intents[k].bucket = b
               /\ intents[k].id = remote[<<b, k>>].id
      <4>1. remote[<<b, k>>].etag = intents[k].body
        BY <2>3, <3>1, <3>5 DEF RequestInv, BodiesSent
      <4>2. intents[k].reserved = SizeOf[intents[k].body]
        BY <3>5 DEF LedgerInv, ReservesBody
      <4>3. Term(k) = ReservedTerm(b, k)
        BY <3>2, <3>5, <4>1, <4>2 DEF ReservedTerm
      <4> QED
        BY <2>1, <4>3 DEF RowTerm
    <3> QED
      BY <2>3, <3>3, <3>4, <3>5 DEF StoredInv, KeyInv, Accounted
  <2> QED
    BY <2>2, <2>3
<1>2. \A k \in Keys : RowTerm(b, k) \in Nat
  BY <1>0, RowBytesAre
<1>3. BytesAt(b) = SumFunction(bytes) /\ RowBytes(b) = SumFunction(rows)
  BY DEF BytesAt, RowBytes
<1> HIDE DEF Term
<1>4. /\ bytes \in [Keys -> Int] /\ rows \in [Keys -> Int]
      /\ \A k \in Keys : bytes[k] <= rows[k]
  BY <1>1, <1>2
<1>5. BytesAt(b) \in Nat
  BY <1>0, BytesAtType
<1> HIDE DEF bytes, rows
<1> QED
  BY <1>3, <1>4, <1>5, SumMono

\* A bucket counts as stored or reserved at least what its rows add up to.
LEMMA RowsCounted ==
    ASSUME IInv, LedgerInv, StorageCoversRows, NEW b \in Buckets
    PROVE  /\ RowBytes(b) \in Nat /\ storage[b] \in Nat /\ reserved[b] \in Nat
           /\ RowBytes(b) <= storage[b] + reserved[b]
<1>1. RowsTypeOK /\ CountersTypeOK /\ reserved[b] = ReservedBytes(b)
  BY BalancedIs DEF IInv, IndexInv, LedgerInv
<1>2. IndexedBytes(b) \in Nat /\ PendingCleanupBytes(b) \in Nat
  BY <1>1, RowSumsType
<1>3. storage[b] >= IndexedBytes(b) + PendingCleanupBytes(b)
  BY DEF StorageCoversRows
<1>4. storage[b] \in Nat /\ reserved[b] \in Nat
  BY <1>1 DEF CountersTypeOK
<1> QED
  BY <1>1, <1>2, <1>3, <1>4, RowBytesAre

\* "Capacity safety" of docs/operations.md: the bytes that really lie in a bucket
\* never exceed what the manager counts as stored or reserved there.
THEOREM BytesCounted ==
    ASSUME ReliablePool, "scan" \notin Chores
    PROVE  Spec => []RemoteBytesCounted
<1>1. IInv /\ RequestInv /\ (LedgerInv /\ CleanupClaimed) /\ (FenceInv /\ StoredInv)
         /\ StorageCoversRows => RemoteBytesCounted
  <2> SUFFICES ASSUME IInv, RequestInv, LedgerInv, FenceInv, StoredInv, StorageCoversRows,
                      NEW b \in Buckets
               PROVE  BytesAt(b) <= storage[b] + reserved[b]
    BY DEF RemoteBytesCounted
  <2> QED
    BY BytesWithinRows, RowsCounted
<1>2. OtherIdsForeign /\ "adopt" \notin Chores
  BY PoolIdsForeign DEF ReliablePool
<1>3. Spec => []RequestInv
  BY <1>2, RequestsTold
<1>4. Spec => []StorageCoversRows
  BY <1>2, StorageCovers
<1>5. Spec => [](FenceInv /\ StoredInv)
  BY Stored
<1> QED
  BY <1>1, <1>3, <1>4, <1>5, Ledger, Inductive, PTL

\* Where no bucket grows the rows stay within the limits.
LEMMA LimitsKept ==
    ASSUME RowsTypeOK, RowsTypeOK', RowsWithinLimits,
           \A b \in Buckets, k \in Keys : RowTerm(b, k)' <= RowTerm(b, k)
    PROVE  RowsWithinLimits'
<1> USE IndexAssumption
<1>1. ASSUME NEW b \in Buckets
      PROVE  RowBytes(b) \in Nat /\ RowBytes(b)' \in Nat /\ RowBytes(b)' <= RowBytes(b)
  <2> DEFINE before == [k \in Keys |-> RowTerm(b, k)]
             after == [k \in Keys |-> RowTerm(b, k)']
  <2>1. (\A k \in Keys : RowTerm(b, k) \in Nat) /\ RowBytes(b) \in Nat
    BY RowBytesAre
  <2>2. \A k \in Keys : RowTerm(b, k)' \in Nat
    BY DEF RowsTypeOK, Object, Intent, Places, RowTerm, IndexedTerm, CleanupTerm, ReservedTerm
  <2>3. /\ before \in [Keys -> Int] /\ after \in [Keys -> Int] /\ after \in [Keys -> Nat]
        /\ \A k \in Keys : after[k] <= before[k]
    BY <2>1, <2>2
  <2>4. RowBytes(b) = SumFunction(before) /\ RowBytes(b)' = SumFunction(after)
    BY DEF RowBytes
  <2> HIDE DEF before, after
  <2>5. SumFunction(after) <= SumFunction(before) /\ SumFunction(after) \in Nat
    BY <2>3, SumMono, SumNat
  <2> QED
    BY <2>1, <2>4, <2>5
<1>2. ASSUME NEW b \in Buckets \ Overflow PROVE RowBytes(b)' <= BucketLimit
  BY <1>1 DEF RowsWithinLimits
<1>3. ASSUME Overflow = {}, NEW a \in Accounts
      PROVE  SumFunction([b \in Buckets |-> IF AccountOf[b] = a THEN RowBytes(b)' ELSE 0])
                <= AccountLimit
  <2> DEFINE before == [b \in Buckets |-> IF AccountOf[b] = a THEN RowBytes(b) ELSE 0]
             after == [b \in Buckets |-> IF AccountOf[b] = a THEN RowBytes(b)' ELSE 0]
  <2>1. /\ before \in [Buckets -> Int] /\ after \in [Buckets -> Int]
        /\ \A b \in Buckets : after[b] <= before[b]
    BY <1>1
  <2>2. SumFunction(before) <= AccountLimit
    BY <1>3 DEF RowsWithinLimits
  <2> HIDE DEF before, after
  <2>3. SumFunction(after) <= SumFunction(before)
    BY <2>1, SumMono
  <2>4. SumFunction(after) \in Int /\ SumFunction(before) \in Int
    BY <2>1, SumType
  <2>5. SumFunction(after) <= AccountLimit
    BY <2>2, <2>3, <2>4
  <2> QED
    BY <2>5 DEF after
<1> QED
  BY <1>2, <1>3 DEF RowsWithinLimits

\* The rows that a key loses or gains: a commit stores at most what its put reserved,
\* and the version it replaces only becomes an old copy; everything else lets go.
LEMMA RowsShrink ==
    ASSUME "adopt" \notin Chores, IInv, FenceInv, IndexMove,
           ~ \E k \in Keys, body \in Contents, cond \in Conditions, b \in Buckets :
                BeginWrite(k, body, cond, b)
    PROVE  \A b \in Buckets, k \in Keys : RowTerm(b, k)' <= RowTerm(b, k)
<1> USE IndexAssumption
<1> SUFFICES ASSUME NEW b \in Buckets, NEW k \in Keys PROVE RowTerm(b, k)' <= RowTerm(b, k)
  OBVIOUS
<1>0. RowsTypeOK
  BY DEF IInv, IndexInv
<1>1. IndexedTerm(b, k) \in Nat /\ CleanupTerm(b, k) \in Nat /\ ReservedTerm(b, k) \in Nat
  BY <1>0, RowTermsType, ReservedTermType
<1> DEFINE IntentShrinks == \/ intents'[k] = None
                            \/ intents'[k].reserved = 0
                            \/ /\ intents[k] # None
                               /\ intents'[k].bucket = intents[k].bucket
                               /\ intents'[k].reserved = intents[k].reserved
<1>2. ASSUME objects'[k] \in {objects[k], None}, cleanups'[<<b, k>>] \in {cleanups[<<b, k>>], None},
             IntentShrinks
      PROVE  RowTerm(b, k)' <= RowTerm(b, k)
  <2>1. IndexedTerm(b, k)' \in {0, IndexedTerm(b, k)}
    BY <1>2 DEF IndexedTerm
  <2>2. CleanupTerm(b, k)' \in {0, CleanupTerm(b, k)}
    BY <1>2 DEF CleanupTerm
  <2>3. ReservedTerm(b, k)' \in {0, ReservedTerm(b, k)}
    BY <1>2 DEF ReservedTerm
  <2> QED
    BY <1>1, <2>1, <2>2, <2>3 DEF RowTerm
<1> HIDE DEF IntentShrinks
<1>3. ASSUME NEW j \in Keys, NEW cond \in Conditions, BeginDeleteWrite(j, cond)
      PROVE  RowTerm(b, k)' <= RowTerm(b, k)
  <2>1. /\ UNCHANGED <<objects, cleanups>>
        /\ intents[j] = None /\ intents'[j].reserved = 0
        /\ \A i \in Keys : i # j => intents'[i] = intents[i]
    BY <1>0, <1>3 DEF BeginDeleteWrite, RowsTypeOK
  <2>2. IntentShrinks
    BY <2>1 DEF IntentShrinks
  <2> QED
    BY <1>2, <2>1, <2>2
<1>4. ASSUME NEW j \in Keys, intents[j] # None, NEW state \in WriteStates,
             NEW etag \in Contents \union {None}, UpdateWriteState(j, state, etag)
      PROVE  RowTerm(b, k)' <= RowTerm(b, k)
  <2>1. \A i \in Keys : intents[i] # None =>
           intents'[i].bucket = intents[i].bucket /\ intents'[i].reserved = intents[i].reserved
    BY <1>0, <1>4 DEF UpdateWriteState, RowsTypeOK, Intent
  <2>2. \A i \in Keys : intents[i] = None => intents'[i] = None
    BY <1>0, <1>4 DEF UpdateWriteState, RowsTypeOK
  <2>3. IntentShrinks
    BY <2>1, <2>2 DEF IntentShrinks
  <2> QED
    BY <1>2, <1>4, <2>3 DEF UpdateWriteState
<1>5. ASSUME NEW j \in Keys, cleanups' = cleanups, intents'[j] = None,
             \A i \in Keys : i # j => intents'[i] = intents[i],
             \A i \in Keys : objects'[i] = objects[i] \/ objects'[i] = None
      PROVE  RowTerm(b, k)' <= RowTerm(b, k)
  <2>1. IntentShrinks
    BY <1>5 DEF IntentShrinks
  <2> QED
    BY <1>2, <1>5, <2>1
<1>6. ASSUME NEW j \in Keys, NEW etag \in Contents, intents[j] # None, CommitWrite(j, etag)
      PROVE  RowTerm(b, k)' <= RowTerm(b, k)
  <2>1. /\ intents'[j] = None /\ intents[j].op = "put" /\ intents[j].bucket \in Buckets
        /\ SizeOf[etag] <= intents[j].reserved /\ intents[j].reserved \in Nat
        /\ \A i \in Keys : i # j => intents'[i] = intents[i] /\ objects'[i] = objects[i]
        /\ TargetOf(j) = <<intents[j].bucket, j>>
        /\ HasPrevious(j) <=> objects[j] # None
    BY <1>0, <1>6, KeyFacts DEF CommitWrite, CommitAllowed, RowsTypeOK, Intent
  <2>2. /\ objects'[j] # None
        /\ objects'[j].bucket = intents[j].bucket /\ objects'[j].etag = etag
    <3>1. [id |-> intents[j].id, bucket |-> intents[j].bucket, pkey |-> j, etag |-> etag] \in Object
      BY <1>6, KeyFacts DEF Object
    <3> QED
      BY <1>0, <1>6, <3>1 DEF CommitWrite, RowsTypeOK
  <2>3. objects[j] # None => /\ PlaceOf(objects[j]) = <<objects[j].bucket, j>>
                             /\ cleanups[<<objects[j].bucket, j>>] = None
                             /\ objects[j].etag \in Contents /\ objects[j].bucket \in Buckets
    BY KeyFacts
  <2>4. CASE k # j
    <3>1. cleanups'[<<b, k>>] = cleanups[<<b, k>>]
      BY <1>0, <1>6, <2>1, <2>3, <2>4 DEF CommitWrite, PreviousNeedsCleanup, RowsTypeOK, Places
    <3>2. UNCHANGED <<objects[k], intents[k]>>
      BY <2>1, <2>4
    <3>3. UNCHANGED <<IndexedTerm(b, k), CleanupTerm(b, k), ReservedTerm(b, k)>>
      BY <3>1, <3>2 DEF IndexedTerm, CleanupTerm, ReservedTerm
    <3> QED
      BY <1>1, <3>3 DEF RowTerm
  <2>5. CASE k = j /\ b = intents[j].bucket
    <3>1. cleanups'[<<b, k>>] = cleanups[<<b, k>>]
      BY <1>0, <1>6, <2>1, <2>3, <2>5
         DEF CommitWrite, PreviousNeedsCleanup, PreviousAtTarget, RowsTypeOK, Places
    <3>2. IndexedTerm(b, k)' = SizeOf[etag] /\ ReservedTerm(b, k)' = 0
      BY <2>1, <2>2, <2>5 DEF IndexedTerm, ReservedTerm
    <3>3. ReservedTerm(b, k) = intents[j].reserved
      BY <1>6, <2>5 DEF ReservedTerm
    <3>4. CleanupTerm(b, k)' = CleanupTerm(b, k)
      BY <3>1 DEF CleanupTerm
    <3>5. SizeOf[etag] \in Nat
      OBVIOUS
    <3> QED
      BY <1>1, <2>1, <3>2, <3>3, <3>4, <3>5 DEF RowTerm
  <2>6. CASE k = j /\ b # intents[j].bucket
    <3>1. IndexedTerm(b, k)' = 0 /\ ReservedTerm(b, k)' = 0
      BY <2>1, <2>2, <2>6 DEF IndexedTerm, ReservedTerm
    <3>2. CleanupTerm(b, k)' <= IndexedTerm(b, k) + CleanupTerm(b, k)
      <4>1. CASE objects[j] # None /\ objects[j].bucket = b
        <5>1. PreviousNeedsCleanup(j)
          BY <2>1, <2>3, <2>6, <4>1 DEF PreviousNeedsCleanup, PreviousAtTarget
        <5>2. cleanups'[<<b, k>>] = objects[j].etag
          BY <1>0, <1>6, <2>3, <2>6, <4>1, <5>1 DEF CommitWrite, RowsTypeOK, Places
        <5>3. CleanupTerm(b, k)' = IndexedTerm(b, k)
          BY <2>3, <2>6, <4>1, <5>2 DEF CleanupTerm, IndexedTerm
        <5> QED
          BY <1>1, <5>3
      <4>2. CASE ~(objects[j] # None /\ objects[j].bucket = b)
        <5>1. cleanups'[<<b, k>>] = cleanups[<<b, k>>]
          BY <1>0, <1>6, <2>1, <2>3, <2>6, <4>2
             DEF CommitWrite, PreviousNeedsCleanup, RowsTypeOK, Places
        <5>2. CleanupTerm(b, k)' = CleanupTerm(b, k)
          BY <5>1 DEF CleanupTerm
        <5> QED
          BY <1>1, <5>2
      <4> QED
        BY <4>1, <4>2
    <3>3. CleanupTerm(b, k)' \in Nat
      BY <1>0, <1>6, CommitWriteStep DEF IInv, IndexInv, RowsTypeOK, Places, CleanupTerm
    <3> QED
      BY <1>1, <3>1, <3>2, <3>3 DEF RowTerm
  <2> QED
    BY <2>4, <2>5, <2>6
<1>7. ASSUME UNCHANGED <<objects, intents>>,
             \/ UNCHANGED cleanups
             \/ \E place : cleanups' = [cleanups EXCEPT ![place] = None]
      PROVE  RowTerm(b, k)' <= RowTerm(b, k)
  <2>1. cleanups'[<<b, k>>] \in {cleanups[<<b, k>>], None}
    BY <1>0, <1>7 DEF RowsTypeOK, Places
  <2>2. IntentShrinks
    BY <1>7 DEF IntentShrinks
  <2> QED
    BY <1>2, <1>7, <2>1, <2>2
<1>8. CASE \E p \in Procs : /\ req[p].etag \in Contents /\ req[p].key \in Keys
                           /\ intents[req[p].key] # None
                           /\ CommitWrite(req[p].key, req[p].etag)
  <2>1. PICK j \in Keys, etag \in Contents : intents[j] # None /\ CommitWrite(j, etag)
    BY <1>8
  <2> QED
    BY <1>6, <2>1
<1>9. CASE \E j \in Keys, cond \in Conditions : BeginDeleteWrite(j, cond)
  BY <1>3, <1>9
<1>10. CASE \E j \in Keys, state \in WriteStates, etag \in Contents \union {None} :
               intents[j] # None /\ UpdateWriteState(j, state, etag)
  BY <1>4, <1>10
<1>11. CASE \E j \in Keys : AbortWrite(j)
  BY <1>0, <1>5, <1>11 DEF AbortWrite, RowsTypeOK
<1>12. CASE \E j \in Keys : intents[j] # None /\ CommitDeleteWrite(j)
  BY <1>0, <1>5, <1>12 DEF CommitDeleteWrite, RowsTypeOK
<1>13. CASE \E d \in Buckets, j \in Keys : CompletePhysicalCleanup(<<d, j>>)
  BY <1>7, <1>13 DEF CompletePhysicalCleanup
<1>14. CASE UNCHANGED <<objects, intents, cleanups>>
  BY <1>7, <1>14
<1> QED
  BY <1>8, <1>9, <1>10, <1>11, <1>12, <1>13, <1>14
     DEF IndexMove, FinishBucketScan, ApplyAccountCapacity

\* A put that begins adds the bytes it reserves to the rows of its bucket.
LEMMA RowsGrow ==
    ASSUME IInv, IInv', NEW k \in Keys, NEW body \in Contents, NEW cond \in Conditions,
           NEW b \in Buckets, BeginWrite(k, body, cond, b)
    PROVE  /\ RowBytes(b) \in Nat /\ RowBytes(b)' = RowBytes(b) + SizeOf[body]
           /\ \A d \in Buckets : d # b => RowBytes(d)' = RowBytes(d)
<1> USE IndexAssumption
<1>0. RowsTypeOK /\ RowsTypeOK'
  BY DEF IInv, IndexInv
<1>1. /\ UNCHANGED <<objects, cleanups>> /\ intents[k] = None /\ intents'[k] # None
      /\ intents'[k].bucket = b /\ intents'[k].reserved = SizeOf[body]
      /\ \A j \in Keys : j # k => intents'[j] = intents[j]
  <2>1. intents'[k] \in Intent
    BY BeginWriteStep DEF IInv
  <2> QED
    BY <1>0, <2>1 DEF BeginWrite, RowsTypeOK
<1>2. ASSUME NEW d \in Buckets
      PROVE  /\ \A j \in Keys \ {k} : RowTerm(d, j)' = RowTerm(d, j)
             /\ RowTerm(d, k)' = RowTerm(d, k) + (IF d = b THEN SizeOf[body] ELSE 0)
             /\ \A j \in Keys : RowTerm(d, j) \in Nat
  <2>1. \A j \in Keys : /\ IndexedTerm(d, j)' = IndexedTerm(d, j) /\ IndexedTerm(d, j) \in Nat
                        /\ CleanupTerm(d, j)' = CleanupTerm(d, j) /\ CleanupTerm(d, j) \in Nat
                        /\ ReservedTerm(d, j) \in Nat
    BY <1>0, <1>1, RowTermsType, ReservedTermType DEF IndexedTerm, CleanupTerm
  <2>2. \A j \in Keys \ {k} : ReservedTerm(d, j)' = ReservedTerm(d, j)
    BY <1>1 DEF ReservedTerm
  <2>3. ReservedTerm(d, k) = 0 /\ ReservedTerm(d, k)' = IF d = b THEN SizeOf[body] ELSE 0
    BY <1>1 DEF ReservedTerm
  <2>4. SizeOf[body] \in Nat
    OBVIOUS
  <2> QED
    BY <2>1, <2>2, <2>3, <2>4 DEF RowTerm
<1>3. ASSUME NEW d \in Buckets
      PROVE  /\ RowBytes(d) \in Nat
             /\ RowBytes(d)' = RowBytes(d) + (IF d = b THEN SizeOf[body] ELSE 0)
  <2> DEFINE before == [j \in Keys |-> RowTerm(d, j)]
             after == [j \in Keys |-> RowTerm(d, j)']
             more == IF d = b THEN SizeOf[body] ELSE 0
  <2>1. more \in Nat
    OBVIOUS
  <2>2. /\ before \in [Keys -> Int] /\ after \in [Keys -> Int]
        /\ \A j \in Keys \ {k} : after[j] = before[j]
        /\ after[k] = before[k] + more /\ before[k] \in Int
    <3>1. \A j \in Keys : RowTerm(d, j)' \in Int
      BY <1>2, <2>1
    <3> QED
      BY <1>2, <3>1
  <2>3. RowBytes(d) = SumFunction(before) /\ RowBytes(d)' = SumFunction(after)
    BY DEF RowBytes
  <2>4. RowBytes(d) \in Nat
    BY <1>0, RowBytesAre
  <2> HIDE DEF before, after, more
  <2>5. SumFunction(after) = SumFunction(before) + after[k] - before[k]
    BY <2>2, SumChange
  <2>6. RowBytes(d)' = RowBytes(d) + more
    BY <2>1, <2>2, <2>3, <2>4, <2>5
  <2> QED
    BY <2>4, <2>6 DEF more
<1>4. SizeOf[body] \in Nat
  OBVIOUS
<1> QED
  BY <1>3, <1>4

\* selectWriteBucket lets a put reserve only what both limits leave, counted by what
\* is at least the rows.
LEMMA LimitsBegin ==
    ASSUME IInv, IInv', LedgerInv, StorageCoversRows, RowsWithinLimits,
           NEW k \in Keys, NEW body \in Contents, NEW cond \in Conditions,
           NEW b \in Buckets, BeginWrite(k, body, cond, b)
    PROVE  RowsWithinLimits'
<1> USE IndexAssumption
<1> DEFINE size == SizeOf[body]
<1>0. size \in Nat
  OBVIOUS
<1>1. /\ RowBytes(b) \in Nat /\ RowBytes(b)' = RowBytes(b) + size
      /\ \A d \in Buckets : d # b => RowBytes(d)' = RowBytes(d)
  BY RowsGrow
<1>2. \A d \in Buckets : /\ RowBytes(d) \in Nat /\ storage[d] \in Nat /\ reserved[d] \in Nat
                         /\ RowBytes(d) <= storage[d] + reserved[d]
  BY RowsCounted
<1>3. \/ b \in Overflow
      \/ /\ storage[b] + reserved[b] + size <= BucketLimit
         /\ AccountBytes(AccountOf[b]) + size <= AccountLimit
  BY DEF BeginWrite, Eligible
<1> HIDE DEF size
<1>4. ASSUME NEW d \in Buckets \ Overflow PROVE RowBytes(d)' <= BucketLimit
  <2>1. CASE d = b
    BY <1>0, <1>1, <1>2, <1>3, <2>1
  <2>2. CASE d # b
    BY <1>1, <2>2 DEF RowsWithinLimits
  <2> QED
    BY <2>1, <2>2
<1>5. ASSUME Overflow = {}, NEW a \in Accounts
      PROVE  SumFunction([d \in Buckets |-> IF AccountOf[d] = a THEN RowBytes(d)' ELSE 0])
                <= AccountLimit
  <2> DEFINE before == [d \in Buckets |-> IF AccountOf[d] = a THEN RowBytes(d) ELSE 0]
             after == [d \in Buckets |-> IF AccountOf[d] = a THEN RowBytes(d)' ELSE 0]
             counted == [d \in Buckets |-> IF AccountOf[d] = a THEN storage[d] + reserved[d]
                                           ELSE 0]
  <2>1. /\ before \in [Buckets -> Int] /\ counted \in [Buckets -> Int]
        /\ after \in [Buckets -> Int]
        /\ \A d \in Buckets \ {b} : after[d] = before[d]
        /\ \A d \in Buckets : before[d] <= counted[d]
    BY <1>0, <1>1, <1>2
  <2>2. after[b] = IF AccountOf[b] = a THEN before[b] + size ELSE before[b]
    BY <1>1
  <2>3. /\ SumFunction(before) <= AccountLimit
        /\ AccountOf[b] = a => SumFunction(counted) + size <= AccountLimit
    BY <1>3, <1>5 DEF RowsWithinLimits, AccountBytes
  <2> HIDE DEF before, after, counted
  <2>4. SumFunction(after) = SumFunction(before) + after[b] - before[b]
    BY <2>1, SumChange
  <2>5. SumFunction(before) <= SumFunction(counted)
    BY <2>1, SumMono
  <2>6. /\ SumFunction(before) \in Int /\ SumFunction(counted) \in Int /\ before[b] \in Int
    BY <2>1, SumType
  <2>7. SumFunction(after) <= AccountLimit
    BY <1>0, <2>2, <2>3, <2>4, <2>5, <2>6
  <2> QED
    BY <2>7 DEF after
<1> QED
  BY <1>4, <1>5 DEF RowsWithinLimits

\* Every step keeps the rows within the limits.
LEMMA LimitsStep ==
    ASSUME "adopt" \notin Chores, IInv, IInv', LedgerInv, FenceInv, StorageCoversRows,
           RowsWithinLimits, [Next]_vars
    PROVE  RowsWithinLimits'
<1>1. CASE \E k \in Keys, body \in Contents, cond \in Conditions, b \in Buckets :
              BeginWrite(k, body, cond, b)
  BY <1>1, LimitsBegin
<1>2. CASE ~ \E k \in Keys, body \in Contents, cond \in Conditions, b \in Buckets :
              BeginWrite(k, body, cond, b)
  <2>1. IndexMove /\ RowsTypeOK /\ RowsTypeOK'
    BY IndexMoves DEF IInv, IndexInv
  <2>2. \A b \in Buckets, k \in Keys : RowTerm(b, k)' <= RowTerm(b, k)
    BY <1>2, <2>1, RowsShrink
  <2> QED
    BY <2>1, <2>2, LimitsKept
<1> QED
  BY <1>1, <1>2

\* At the start the rows of a bucket add up to at most what lies in it.
LEMMA LimitsInit == Init /\ LimitsHold => RowsWithinLimits
<1> SUFFICES ASSUME Init, LimitsHold PROVE RowsWithinLimits
  OBVIOUS
<1> USE IndexAssumption
<1>1. ASSUME NEW b \in Buckets
      PROVE  RowBytes(b) \in Nat /\ RowBytes(b) <= BytesAt(b) /\ BytesAt(b) \in Nat
  <2>1. IInv /\ LedgerInv /\ StorageCoversRows
    BY InitInv, LedgerInit, CoverInit
  <2>2. RowBytes(b) \in Nat /\ RowBytes(b) <= storage[b] + reserved[b]
    BY <2>1, RowsCounted
  <2>3. storage[b] = BytesAt(b) /\ reserved[b] = 0
    BY DEF Init
  <2>4. BytesAt(b) \in Nat
    BY <2>1, BytesAtType DEF IInv
  <2> QED
    BY <2>2, <2>3, <2>4
<1>2. ASSUME NEW b \in Buckets \ Overflow PROVE RowBytes(b) <= BucketLimit
  BY <1>1 DEF LimitsHold
<1>3. ASSUME Overflow = {}, NEW a \in Accounts
      PROVE  SumFunction([b \in Buckets |-> IF AccountOf[b] = a THEN RowBytes(b) ELSE 0])
                <= AccountLimit
  <2> DEFINE rows == [b \in Buckets |-> IF AccountOf[b] = a THEN RowBytes(b) ELSE 0]
             bytes == [b \in Buckets |-> IF AccountOf[b] = a THEN BytesAt(b) ELSE 0]
  <2>1. /\ rows \in [Buckets -> Int] /\ bytes \in [Buckets -> Int]
        /\ \A b \in Buckets : rows[b] <= bytes[b]
    BY <1>1
  <2>2. SumFunction(bytes) <= AccountLimit
    BY <1>3 DEF LimitsHold
  <2> HIDE DEF rows, bytes
  <2>3. /\ SumFunction(rows) <= SumFunction(bytes)
        /\ SumFunction(rows) \in Int /\ SumFunction(bytes) \in Int
    BY <2>1, SumMono, SumType
  <2>4. SumFunction(rows) <= AccountLimit
    BY <2>2, <2>3
  <2> QED
    BY <2>4 DEF rows
<1> QED
  BY <1>2, <1>3 DEF RowsWithinLimits

\* What lies in the buckets is within the limits when the rows are.
LEMMA LimitsFollow ==
    ASSUME IInv, LedgerInv, RequestInv, FenceInv, StoredInv, RowsWithinLimits
    PROVE  LimitsHold
<1> USE IndexAssumption
<1>1. ASSUME NEW b \in Buckets
      PROVE  RowBytes(b) \in Nat /\ BytesAt(b) <= RowBytes(b) /\ BytesAt(b) \in Nat
  BY BytesWithinRows, RowBytesAre DEF IInv, IndexInv
<1>2. ASSUME NEW b \in Buckets \ Overflow PROVE BytesAt(b) <= BucketLimit
  BY <1>1 DEF RowsWithinLimits
<1>3. ASSUME Overflow = {}, NEW a \in Accounts
      PROVE  SumFunction([b \in Buckets |-> IF AccountOf[b] = a THEN BytesAt(b) ELSE 0])
                <= AccountLimit
  <2> DEFINE rows == [b \in Buckets |-> IF AccountOf[b] = a THEN RowBytes(b) ELSE 0]
             bytes == [b \in Buckets |-> IF AccountOf[b] = a THEN BytesAt(b) ELSE 0]
  <2>1. /\ rows \in [Buckets -> Int] /\ bytes \in [Buckets -> Int]
        /\ \A b \in Buckets : bytes[b] <= rows[b]
    BY <1>1
  <2>2. SumFunction(rows) <= AccountLimit
    BY <1>3 DEF RowsWithinLimits
  <2> HIDE DEF rows, bytes
  <2>3. /\ SumFunction(bytes) <= SumFunction(rows)
        /\ SumFunction(rows) \in Int /\ SumFunction(bytes) \in Int
    BY <2>1, SumMono, SumType
  <2>4. SumFunction(bytes) <= AccountLimit
    BY <2>2, <2>3
  <2> QED
    BY <2>4 DEF bytes
<1> QED
  BY <1>2, <1>3 DEF LimitsHold

\* What the counters are for: once the real bytes of each bucket are within
\* limits.StorageBytes and those of each account within limits.AccountStorageBytes,
\* they stay there, whatever is in flight, lost, aborted, recovered or moved.
THEOREM LimitsKeep ==
    ASSUME ReliablePool, "scan" \notin Chores
    PROVE  Spec /\ LimitsHold => []LimitsHold
<1>1. Init /\ LimitsHold => RowsWithinLimits
  BY LimitsInit
<1>2. IInv /\ IInv' /\ (LedgerInv /\ CleanupClaimed) /\ (FenceInv /\ StoredInv)
         /\ StorageCoversRows /\ RowsWithinLimits /\ [Next]_vars => RowsWithinLimits'
  BY LimitsStep DEF ReliablePool
<1>3. IInv /\ RequestInv /\ (LedgerInv /\ CleanupClaimed) /\ (FenceInv /\ StoredInv)
         /\ RowsWithinLimits => LimitsHold
  BY LimitsFollow
<1>4. OtherIdsForeign /\ "adopt" \notin Chores
  BY PoolIdsForeign DEF ReliablePool
<1>5. Spec => []RequestInv
  BY <1>4, RequestsTold
<1>6. Spec => []StorageCoversRows
  BY <1>4, StorageCovers
<1>7. Spec => [](FenceInv /\ StoredInv)
  BY Stored
<1> QED
  BY <1>1, <1>2, <1>3, <1>5, <1>6, <1>7, Ledger, Inductive, PTL DEF Spec
=============================================================================
