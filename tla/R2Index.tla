------------------------------ MODULE R2Index ------------------------------
(***************************************************************************)
(* The R2 index: the SQLite tables that say which physical bucket holds    *)
(* each logical object, which mutation is pending on each key, how many    *)
(* bytes every bucket has committed and reserved, and which old copies     *)
(* still have to be deleted.  One operator per transaction of              *)
(* internal/modules/r2/write_intents.go, cleanup.go and                    *)
(* maintenance_store.go.  A transaction is atomic (SQLite serialises       *)
(* writers), so each one is a single action; the handlers that call them,  *)
(* and everything that happens between two calls, are in R2Writes.         *)
(*                                                                         *)
(* Data abstraction.  An R2 ETag is a digest of the bytes, so a member of  *)
(* Contents stands for the bytes, their ETag and (by SizeOf) their size.   *)
(* Object ids, intent ids and the write id stored with an upload are       *)
(* UUIDs: here the numbers 1, 2, ...; 0 is "none".  A row that is absent   *)
(* is None.  UNIQUE(object_key) makes intents a function of the key and    *)
(* UNIQUE(physical_bucket_id, physical_key) makes cleanups a function of   *)
(* the place.                                                              *)
(***************************************************************************)
EXTENDS Integers, FiniteSetsExt, Functions

CONSTANTS
    Keys,           \* logical keys; a physical key is one of them too
    Buckets,        \* registered physical buckets, all in state "active"
    Accounts,       \* Cloudflare accounts
    AccountOf,      \* the account that owns a bucket
    Contents,       \* byte strings, told apart by their ETag
    SizeOf,         \* their length
    BucketLimit,    \* limits.StorageBytes
    AccountLimit,   \* limits.AccountStorageBytes less the unmanaged bytes
    Overflow,       \* buckets whose overflow_until lies in the future
    None            \* an absent row, object or value

NoId == 0
Ids == Nat \ {NoId}

\* MutationConditions: no condition, If-None-Match: *, or If-Match: <etag>.
Conditions == {"any", "absent"} \union Contents

WriteStates == {"reserved", "uploading", "completing", "recovery", "deleting"}

Places == Buckets \X Keys

Object == [id : Ids, bucket : Buckets, pkey : Keys, etag : Contents]

\* body and cond are not columns: they record, for the properties, the bytes
\* the request carries and the condition its client attached to it.
Intent == [id : Ids, bucket : Buckets, prev : Nat, reserved : Nat,
           op : {"put", "delete"}, state : WriteStates,
           etag : Contents \union {None},
           body : Contents \union {None}, cond : Conditions]

ASSUME IndexAssumption ==
    /\ IsFiniteSet(Keys) /\ IsFiniteSet(Buckets)
    /\ AccountOf \in [Buckets -> Accounts]
    /\ SizeOf \in [Contents -> Nat]
    /\ BucketLimit \in Nat /\ AccountLimit \in Nat
    /\ Overflow \subseteq Buckets
    /\ None \notin Keys /\ None \notin Object /\ None \notin Intent /\ None \notin Contents
    /\ {"any", "absent"} \cap Contents = {}

VARIABLES
    objects,    \* r2_objects in state committed
    intents,    \* r2_write_intents
    storage,    \* r2_physical_buckets.storage_bytes
    reserved,   \* r2_physical_buckets.reserved_storage_bytes
    cleanups,   \* r2_physical_cleanups: the expected ETag of an old copy
    locked,     \* r2_bucket_maintenance_locks: buckets under maintenance
    nextId      \* the next fresh UUID

indexVars == <<objects, intents, storage, reserved, cleanups, locked, nextId>>

RowsTypeOK ==
    /\ objects \in [Keys -> Object \union {None}]
    /\ intents \in [Keys -> Intent \union {None}]
    /\ cleanups \in [Places -> Contents \union {None}]
    /\ locked \in [Buckets -> BOOLEAN]
    /\ nextId \in Ids

CountersTypeOK ==
    /\ storage \in [Buckets -> Nat]
    /\ reserved \in [Buckets -> Nat]

IndexTypeOK == RowsTypeOK /\ CountersTypeOK

-----------------------------------------------------------------------------
(* Reading the index.                                                      *)

Less(a, b) == IF a > b THEN a - b ELSE 0           \* SQL MAX(a - b, 0)

PlaceOf(object) == <<object.bucket, object.pkey>>

\* Where the pending put on k writes: its physical key is the logical key.
TargetOf(k) == <<intents[k].bucket, k>>

CurrentId(k) == IF objects[k] = None THEN NoId ELSE objects[k].id

\* The object an intent names as its previous version (GetObjectByID).
HasPrevious(k) == intents[k].prev # NoId /\ CurrentId(k) = intents[k].prev

PreviousAtTarget(k) == HasPrevious(k) /\ PlaceOf(objects[k]) = TargetOf(k)

ConditionHolds(k, cond) ==
    \/ cond = "any"
    \/ cond = "absent" /\ objects[k] = None
    \/ objects[k] # None /\ objects[k].etag = cond

AccountBytes(a) ==
    SumFunction([b \in Buckets |->
        IF AccountOf[b] = a THEN storage[b] + reserved[b] ELSE 0])

\* What the rows say a bucket holds: objects, and old copies that may still be there.
IndexedBytes(b) ==
    SumFunction([k \in Keys |->
        IF objects[k] # None /\ objects[k].bucket = b THEN SizeOf[objects[k].etag] ELSE 0])

PendingCleanupBytes(b) ==
    SumFunction([k \in Keys |->
        IF cleanups[<<b, k>>] = None THEN 0 ELSE SizeOf[cleanups[<<b, k>>]]])

\* Mutant: forgets the fence of a pending cleanup.
EligibleUnfenced(b, k, size) ==
    /\ ~locked[b]
    /\ \/ b \in Overflow
       \/ /\ storage[b] + reserved[b] + size <= BucketLimit
          /\ AccountBytes(AccountOf[b]) + size <= AccountLimit

\* Mutant: forgets the bytes that pending puts have reserved.
EligibleUnreserved(b, k, size) ==
    /\ cleanups[<<b, k>>] = None
    /\ ~locked[b]
    /\ storage[b] + size <= BucketLimit

\* A bucket that may receive size more bytes of key k.  The policy then
\* scores the eligible ones; any of them may win.  Health, credentials and
\* monthly operation quotas only make a bucket ineligible.
Eligible(b, k, size) ==
    /\ cleanups[<<b, k>>] = None
    /\ ~locked[b]
    /\ \/ b \in Overflow
       \/ /\ storage[b] + reserved[b] + size <= BucketLimit
          /\ AccountBytes(AccountOf[b]) + size <= AccountLimit

\* Mutant: sees the puts that target b but not the deletes.
ActivePutsOnly(b) ==
    \E k \in Keys : intents[k] # None /\ intents[k].op = "put" /\ intents[k].bucket = b

\* deletionBlockingActivityQuery: an intent that targets b, or whose
\* previous object lives in b.
Active(b) ==
    \E k \in Keys : /\ intents[k] # None
                    /\ \/ intents[k].bucket = b
                       \/ HasPrevious(k) /\ objects[k].bucket = b

-----------------------------------------------------------------------------
(* The transactions.                                                       *)

\* Mutant: the conditions are not checked again inside the transaction.
BeginWriteUnchecked(k, body, cond, b) ==
    /\ intents[k] = None
    /\ Eligible(b, k, SizeOf[body])
    /\ intents' = [intents EXCEPT ![k] =
           [id |-> nextId, bucket |-> b, prev |-> CurrentId(k),
            reserved |-> SizeOf[body], op |-> "put", state |-> "reserved",
            etag |-> None, body |-> body, cond |-> cond]]
    /\ reserved' = [reserved EXCEPT ![b] = @ + SizeOf[body]]
    /\ nextId' = nextId + 1
    /\ UNCHANGED <<objects, storage, cleanups, locked>>

BeginWrite(k, body, cond, b) ==
    /\ intents[k] = None
    /\ ConditionHolds(k, cond)
    /\ Eligible(b, k, SizeOf[body])
    /\ intents' = [intents EXCEPT ![k] =
           [id |-> nextId, bucket |-> b, prev |-> CurrentId(k),
            reserved |-> SizeOf[body], op |-> "put", state |-> "reserved",
            etag |-> None, body |-> body, cond |-> cond]]
    /\ reserved' = [reserved EXCEPT ![b] = @ + SizeOf[body]]
    /\ nextId' = nextId + 1
    /\ UNCHANGED <<objects, storage, cleanups, locked>>

BeginDeleteWrite(k, cond) ==
    /\ intents[k] = None
    /\ objects[k] # None
    /\ ConditionHolds(k, cond)
    /\ ~locked[objects[k].bucket]
    /\ intents' = [intents EXCEPT ![k] =
           [id |-> nextId, bucket |-> objects[k].bucket, prev |-> objects[k].id,
            reserved |-> 0, op |-> "delete", state |-> "deleting",
            etag |-> None, body |-> None, cond |-> cond]]
    /\ nextId' = nextId + 1
    /\ UNCHANGED <<objects, storage, reserved, cleanups, locked>>

\* MarkWriteUploading, MarkWriteCompleting and HoldWriteForRecovery; an empty
\* ETag leaves the column alone.
UpdateWriteState(k, state, etag) ==
    /\ intents' = [intents EXCEPT ![k].state = state,
                                  ![k].etag = IF etag = None THEN @ ELSE etag]
    /\ UNCHANGED <<objects, storage, reserved, cleanups, locked, nextId>>

\* Mutant: drops the intent and keeps its reservation.
AbortWriteLeaky(k) ==
    /\ intents' = [intents EXCEPT ![k] = None]
    /\ UNCHANGED <<objects, storage, reserved, cleanups, locked, nextId>>

AbortWrite(k) ==
    /\ reserved' = [reserved EXCEPT ![intents[k].bucket] =
                        Less(@, intents[k].reserved)]
    /\ intents' = [intents EXCEPT ![k] = None]
    /\ UNCHANGED <<objects, storage, cleanups, locked, nextId>>

\* The previous version lies somewhere else, so its bytes outlive the commit.
PreviousNeedsCleanup(k) == HasPrevious(k) /\ ~PreviousAtTarget(k)

\* What commitWriteAt verifies before it changes a row, the UNIQUE constraint
\* of r2_physical_cleanups included.
CommitAllowed(k, etag) ==
    /\ intents[k].op = "put"
    /\ SizeOf[etag] <= intents[k].reserved
    /\ CurrentId(k) = intents[k].prev
    /\ PreviousNeedsCleanup(k) => cleanups[PlaceOf(objects[k])] = None

CommitWrite(k, etag) ==
    LET b == intents[k].bucket
        replaced == IF PreviousAtTarget(k) THEN SizeOf[objects[k].etag] ELSE 0
    IN  /\ CommitAllowed(k, etag)
        /\ cleanups' = IF PreviousNeedsCleanup(k)
                       THEN [cleanups EXCEPT ![PlaceOf(objects[k])] = objects[k].etag]
                       ELSE cleanups
        /\ storage' = [storage EXCEPT ![b] = Less(@ + SizeOf[etag], replaced)]
        /\ reserved' = [reserved EXCEPT ![b] = Less(@, intents[k].reserved)]
        /\ objects' = [objects EXCEPT ![k] =
               [id |-> intents[k].id, bucket |-> b, pkey |-> k, etag |-> etag]]
        /\ intents' = [intents EXCEPT ![k] = None]
        /\ UNCHANGED <<locked, nextId>>

CommitDeleteAllowed(k) ==
    /\ intents[k].op = "delete"
    /\ HasPrevious(k)
    /\ objects[k].bucket = intents[k].bucket

CommitDeleteWrite(k) ==
    /\ CommitDeleteAllowed(k)
    /\ storage' = [storage EXCEPT ![objects[k].bucket] =
                       Less(@, SizeOf[objects[k].etag])]
    /\ objects' = [objects EXCEPT ![k] = None]
    /\ intents' = [intents EXCEPT ![k] = None]
    /\ UNCHANGED <<reserved, cleanups, locked, nextId>>

AcquireBucketMaintenance(b) ==
    /\ ~locked[b]
    /\ ~Active(b)
    /\ locked' = [locked EXCEPT ![b] = TRUE]
    /\ UNCHANGED <<objects, intents, storage, reserved, cleanups, nextId>>

ReleaseBucketMaintenance(b) ==
    /\ locked' = [locked EXCEPT ![b] = FALSE]
    /\ UNCHANGED <<objects, intents, storage, reserved, cleanups, nextId>>

\* CompletePhysicalCleanup, then the deferred release of the bucket's lock.
CompletePhysicalCleanup(place) ==
    /\ storage' = [storage EXCEPT ![place[1]] = Less(@, SizeOf[cleanups[place]])]
    /\ cleanups' = [cleanups EXCEPT ![place] = None]
    /\ locked' = [locked EXCEPT ![place[1]] = FALSE]
    /\ UNCHANGED <<objects, intents, reserved, nextId>>

\* ON CONFLICT(object_key) DO NOTHING: only a key without a row is imported.
AdoptObject(b, k, etag) ==
    /\ objects[k] = None
    /\ objects' = [objects EXCEPT ![k] =
           [id |-> nextId, bucket |-> b, pkey |-> k, etag |-> etag]]
    /\ nextId' = nextId + 1
    /\ UNCHANGED <<intents, storage, reserved, cleanups, locked>>

\* FinishBucketScan, then the deferred release of the bucket's lock.
FinishBucketScan(b, bytes) ==
    /\ storage' = [storage EXCEPT ![b] = bytes]
    /\ locked' = [locked EXCEPT ![b] = FALSE]
    /\ UNCHANGED <<objects, intents, reserved, cleanups, nextId>>

\* Mutant: the minimum forgets the old copies.
ApplyAccountCapacityIndexed(observed, held) ==
    /\ storage' = [b \in Buckets |-> IF b \in held
                       THEN Max({observed[b], IndexedBytes(b)}) ELSE storage[b]]
    /\ locked' = [b \in Buckets |-> IF b \in held THEN FALSE ELSE locked[b]]
    /\ UNCHANGED <<objects, intents, reserved, cleanups, nextId>>

\* ApplyAccountCapacity for the managed buckets of an account, then the release of
\* their locks.  The unmanaged bytes it stores are in AccountLimit.
ApplyAccountCapacity(observed, held) ==
    /\ storage' = [b \in Buckets |-> IF b \in held
                       THEN Max({observed[b], IndexedBytes(b) + PendingCleanupBytes(b)})
                       ELSE storage[b]]
    /\ locked' = [b \in Buckets |-> IF b \in held THEN FALSE ELSE locked[b]]
    /\ UNCHANGED <<objects, intents, reserved, cleanups, nextId>>

=============================================================================
