-------------------------- MODULE MultipartProofs --------------------------
(***************************************************************************)
(* Uploads in parts, for every set of keys, part numbers and bodies, every *)
(* limit, and any number of sessions and faults.                           *)
(*                                                                         *)
(* The argument, in the order of the definitions below.                    *)
(*                                                                         *)
(*   ShapeInv    what each step of a handler implies about the rows it     *)
(*               works on: which steps an operation goes through, that the *)
(*               intent is there, whether there is a session and in what   *)
(*               state;                                                    *)
(*   LedgerInv   the counters are the sums of the rows;                    *)
(*   RemoteSound ids are fresh, and what R2 may still publish belongs to a *)
(*               pending intent: an intent is given up only when no        *)
(*               completion of its upload was sent, or when the upload is  *)
(*               gone and its object was not published;                    *)
(*   SessionInv  a session that nobody has ended is published, or keeps    *)
(*               its upload while no handler, recovery or request in       *)
(*               flight is about to abort it;                              *)
(*   StoredInv   what R2 has assembled is covered by the reservation.      *)
(*                                                                         *)
(* The first four hold whatever R2 carries out after its caller has given  *)
(* up waiting.  StoredInv needs that no completion is carried out so late: *)
(* until then the client may send smaller parts, whose reservation is      *)
(* smaller than the object that the late completion publishes.             *)
(***************************************************************************)
EXTENDS Multipart, SumTheorems, TLAPS

-----------------------------------------------------------------------------
(* The shape of rows and handlers.                                         *)

\* The steps at which the operations can be.
Goes(pc, flow) ==
    \/ pc \in {"insert", "activate", "failed"} /\ flow = "create"
    \/ pc = "create" /\ flow \in {"create", "putstart"}
    \/ pc = "markUploading" /\ flow = "putstart"
    \/ pc = "chunk" /\ flow = "put"
    \/ pc = "send" /\ flow \in {"part", "put"}
    \/ pc = "keep" /\ flow = "part"
    \/ pc \in {"markCompleting", "complete", "markEtag"} /\ flow \in {"put", "complete"}
    \/ pc = "markConsumed" /\ flow = "consumed"
    \/ pc = "markConflict" /\ flow = "complete"
    \/ pc = "markRecovering" /\ flow = "recover"
    \/ pc = "restore" /\ flow \in {"complete", "resolve", "recover"}
    \/ /\ pc = "markAborting"
       /\ flow \in {"put", "putresolve", "consumed", "abort", "expire", "recover"}
    \/ /\ pc = "abort"
       /\ flow \in {"unstarted", "put", "putresolve", "consumed", "abort", "expire", "recover"}
    \/ /\ pc = "classify"
       /\ flow \in {"putresolve", "consumed", "abort", "expire", "recover"}
    \/ /\ pc = "head"
       /\ flow \in {"resolve", "putresolve", "consumed", "expire", "recover"}
    \/ /\ pc = "commit"
       /\ flow \in {"put", "complete", "resolve", "putresolve", "consumed", "abort",
                      "expire", "recover"}
    \/ /\ pc \in {"release", "hold"}
       /\ flow \in {"create", "unstarted", "putstart", "put", "complete", "resolve",
                      "putresolve", "consumed", "abort", "expire", "recover"}

Route(r) == r = Idle \/ Goes(r.pc, r.flow)

\* A row of a session belongs to the intent of the same id, and a part on its way
\* knows the size of the part it replaces.
RowInv(k) ==
    sessions[k] # None =>
        /\ intents[k] # None /\ sessions[k].id = intents[k].id
        /\ sessions[k].status \in {"active", "completing"} => sessions[k].known
        /\ \A n \in Nos : sessions[k].pending[n] # None =>
              sessions[k].pending[n].prev = SizeOfPart(k, n)

\* The session, if any, of an upload that is being created has just been inserted.
Begun(k) == sessions[k] # None => sessions[k].status = "initiating"

\* The parts a chunked upload has sent, and the one it sends, are the first ones.
ChunksInOrder(r) ==
    \E n \in Nos :
        /\ DOMAIN r.want = 1..n /\ r.sent \in 0..n
        /\ r.pc = "send" => r.sent < n

\* A client uploads one part at a time.
OnePart(r) == \E n \in Nos, body \in Bodies : r.want = Part(n, body)

\* The rows a handler works on.
PlaceInv(k) ==
    /\ Route(h[k])
    /\ h[k] # Idle => intents[k] # None
    /\ h[k].flow \in {"part", "complete", "resolve", "consumed", "abort", "expire"}
          => sessions[k] # None
    /\ h[k].flow \in {"putstart", "put", "putresolve"} => sessions[k] = None
    /\ h[k].flow = "create" /\ h[k].pc \in {"create", "activate", "failed"}
          => sessions[k] # None
    /\ h[k].flow = "create" /\ h[k].pc # "hold" => Begun(k)
    /\ h[k].flow = "unstarted" => Begun(k)
    /\ h[k].pc = "insert" => sessions[k] = None /\ intents[k].reserved = 0
    /\ h[k].flow \in {"complete", "resolve"} \/ h[k].pc = "restore"
          => sessions[k] # None /\ sessions[k].status = "completing"
    /\ h[k].flow \in {"putstart", "put"} => ChunksInOrder(h[k])
    /\ h[k].flow = "part" => OnePart(h[k])

LateMessage == [op : {"part", "complete", "abort"}, key : Keys, id : Ids,
                prev : Ids \union {None}, body : Assembled]

LateOK == \A m \in late : m \in LateMessage /\ m.op \in LateOps

ShapeInv == TypeOK /\ LateOK /\ \A k \in Keys : RowInv(k) /\ PlaceInv(k)

-----------------------------------------------------------------------------
(* The counters.                                                           *)

LedgerInv == PartsReserved /\ storage = StoredBytes

-----------------------------------------------------------------------------
(* What R2 has assembled.                                                  *)

\* Ids are drawn once, and what an intent would replace stays what it was.
IdInv ==
    /\ \A k \in Keys : objects[k] # None => objects[k].id < nextId
    /\ \A k \in Keys : intents[k] # None =>
          /\ intents[k].id < nextId /\ intents[k].prev = CurrentId(k)
          /\ objects[k] # None => objects[k].id < intents[k].id
    /\ \A j, k \in Keys : intents[j] # None /\ intents[k] # None /\ intents[j].id = intents[k].id
          => j = k
    /\ \A m \in late : m.id < nextId

\* R2 has assembled the object of the pending intent.
Published(k) == intents[k] # None /\ stored[k] # None /\ stored[k].id = intents[k].id

\* Steps before a completion is sent, or after one that had no effect.
Unsent(r) ==
    \/ r.pc \in {"insert", "create", "activate", "failed", "markUploading", "chunk", "send",
                 "markCompleting", "complete", "markConflict", "restore", "release"}
    \/ r.flow \in {"create", "unstarted", "putstart"}
    \/ r.flow = "put" /\ r.pc \in {"markAborting", "abort"}

\* What is published fits, and nothing more is reserved or given back for it.
PublishedInv(k) ==
    /\ Published(k) => BytesOf(stored[k].body) <= intents[k].reserved
    /\ Published(k) /\ sessions[k] # None => sessions[k].status = "completing"
    /\ Unsent(h[k]) => ~Published(k)
    /\ h[k].pc \in {"markEtag", "commit"} => Published(k) /\ stored[k].body = h[k].want

\* A chunked upload has reserved what it has sent; what a completion names is reserved.
WantInv(k) ==
    /\ h[k].flow = "putstart" => h[k].sent = 0
    /\ h[k].pc = "chunk" => Total(h[k].want, h[k].sent) <= intents[k].reserved
    /\ h[k].pc = "send" /\ h[k].flow = "put" =>
          Total(h[k].want, h[k].sent + 1) <= intents[k].reserved
    /\ h[k].pc \in {"markCompleting", "complete"} => BytesOf(h[k].want) <= intents[k].reserved

StoredInv == \A k \in Keys : PublishedInv(k) /\ WantInv(k)

-----------------------------------------------------------------------------
(* R2 and the index.                                                       *)

LateComplete(id) == \E m \in late : m.op = "complete" /\ m.id = id

\* R2 has not been asked to complete the upload of the pending intent, or has refused.
Untried(k) == ~Published(k) /\ ~LateComplete(intents[k].id)

\* The id of the upload is not stored, so that it cannot be completed.
Unknown(k) ==
    /\ intents[k] # None
    /\ IF sessions[k] = None THEN ~(intents[k].internal /\ intents[k].known)
       ELSE ~sessions[k].known

\* Steps before a completion is sent, or after one that R2 refused.
Early(r) ==
    \/ r.flow \in {"create", "unstarted", "putstart"}
    \/ /\ r.flow = "put"
       /\ r.pc \in {"chunk", "send", "markCompleting", "complete", "markAborting", "abort",
                    "release"}

UntriedInv(k) ==
    /\ Unknown(k) => Untried(k)
    /\ h[k].flow = "putstart" => intents[k].internal
    /\ h[k].flow = "put" => intents[k].internal /\ intents[k].known
    /\ Early(h[k]) => Untried(k)

\* What is given up cannot be published any more, and what is indexed is published.
DriftInv(k) ==
    /\ stored[k] = objects[k] \/ Published(k)
    /\ Published(k) => uploads[intents[k].id] = None
    /\ UntriedInv(k)
    /\ h[k].pc \in {"markConflict", "classify", "release"}
          => Untried(k) \/ uploads[intents[k].id] = None
    /\ h[k].pc \in {"markConflict", "release"} => ~Published(k)
    /\ h[k].pc \in {"markEtag", "commit"} => Published(k) /\ stored[k].body = h[k].want

\* A completion that may still take effect belongs to a pending intent.
LateInv ==
    \A m \in late : m.op = "complete" /\ uploads[m.id] # None =>
        intents[m.key] # None /\ intents[m.key].id = m.id

RemoteSound == IdInv /\ LateInv /\ \A k \in Keys : DriftInv(k)

-----------------------------------------------------------------------------
(* Sessions that nobody has ended.                                         *)

\* A session whose client may still complete it.
Alive(k) ==
    /\ sessions[k] # None /\ sessions[k].status \in {"active", "completing"}
    /\ sessions[k].id \notin ended

NoLateAbort(id) == \A m \in late : m.op = "abort" => m.id # id

\* Neither its handler nor recovery is about to abort it.
Spared(k) ==
    /\ h[k].flow \in {"none", "part", "complete", "resolve", "recover"}
    /\ h[k].pc \notin {"markAborting", "abort", "classify", "markConflict", "markRecovering",
                       "release"}
    /\ h[k].flow = "recover" => sessions[k].status = "completing"
    /\ intents[k].state \notin {"consumed", "aborting"}
    /\ sessions[k].status = "active" => intents[k].state = "uploading"

\* Its upload is there, and R2 is not about to drop it.
Upstream(k) == uploads[intents[k].id] # None /\ NoLateAbort(intents[k].id)

AliveInv(k) == Alive(k) => Published(k) \/ (Spared(k) /\ Upstream(k))

\* An upload that is being created has not been aborted.
CreatedInv(k) ==
    /\ h[k].pc \in {"insert", "create", "activate"} => NoLateAbort(intents[k].id)
    /\ h[k].pc = "activate" => uploads[intents[k].id] # None

SessionInv == \A k \in Keys : AliveInv(k) /\ CreatedInv(k)

-----------------------------------------------------------------------------
(* Data.                                                                   *)

\* There are finitely many part numbers, and they are positive.
LEMMA NosFinite == IsFiniteSet(Nos) /\ Nos \subseteq Nat /\ 0 \notin Nos
<1>1. Cardinality(PartNos) \in Nat
  BY MultipartAssumption, FS_CardinalityType
<1> QED
  BY <1>1, FS_Interval DEF Nos

\* With a part number come the smaller ones.
LEMMA NosBelow == \A n \in Nos : n \in Nat /\ 1..n \subseteq Nos
<1>1. Cardinality(PartNos) \in Nat
  BY MultipartAssumption, FS_CardinalityType
<1> QED
  BY <1>1 DEF Nos

\* What it is to be assembled from parts.
LEMMA AssembledIs ==
    ASSUME NEW S \in SUBSET Nos, NEW f, \A n \in S : f[n] \in Bodies
    PROVE  [n \in S |-> f[n]] \in Assembled
<1>1. [n \in S |-> f[n]] \in [S -> Bodies]
  OBVIOUS
<1> QED
  BY <1>1 DEF Assembled

\* An assembled object names a body for each of its parts.
LEMMA PartsOf ==
    ASSUME NEW parts \in Assembled
    PROVE  /\ DOMAIN parts \subseteq Nos /\ \A n \in DOMAIN parts : parts[n] \in Bodies
           /\ parts = [n \in DOMAIN parts |-> parts[n]]
BY DEF Assembled

\* The empty upload.
LEMMA NoPartsAssembled == NoParts \in Assembled /\ DOMAIN NoParts = {}
<1>1. NoParts \in [{} -> Bodies] /\ DOMAIN NoParts = {}
  BY DEF NoParts
<1> QED
  BY <1>1 DEF Assembled

\* Parts that are added or replaced.
LEMMA PartsAdded ==
    ASSUME NEW parts \in Assembled, NEW more \in Assembled
    PROVE  /\ WithParts(parts, more) \in Assembled
           /\ DOMAIN WithParts(parts, more) = DOMAIN parts \union DOMAIN more
           /\ \A n \in DOMAIN parts \union DOMAIN more :
                 WithParts(parts, more)[n] = IF n \in DOMAIN more THEN more[n] ELSE parts[n]
<1> DEFINE f == [n \in DOMAIN parts \union DOMAIN more |->
                   IF n \in DOMAIN more THEN more[n] ELSE parts[n]]
<1>1. f \in [DOMAIN parts \union DOMAIN more -> Bodies]
      /\ DOMAIN parts \union DOMAIN more \in SUBSET Nos
  BY PartsOf
<1> QED
  BY <1>1 DEF Assembled, WithParts

\* The bytes of an assembled object.
LEMMA BytesType == \A parts \in Assembled : BytesOf(parts) \in Nat
<1> SUFFICES ASSUME NEW parts \in Assembled PROVE BytesOf(parts) \in Nat
  OBVIOUS
<1> DEFINE f == [n \in Nos |-> IF n \in DOMAIN parts THEN SizeOf[parts[n]] ELSE 0]
<1>1. f \in [Nos -> Nat]
  BY PartsOf, MultipartAssumption
<1> HIDE DEF f
<1>2. SumFunction(f) \in Nat
  BY <1>1, NosFinite, SumNat
<1> QED
  BY <1>2 DEF BytesOf, f

\* Some of the parts have at most the bytes of all.
LEMMA BytesOfSome ==
    ASSUME NEW parts \in Assembled, NEW S \in SUBSET DOMAIN parts
    PROVE  /\ [n \in S |-> parts[n]] \in Assembled
           /\ BytesOf([n \in S |-> parts[n]]) <= BytesOf(parts)
<1> DEFINE f == [n \in Nos |-> IF n \in S THEN SizeOf[[m \in S |-> parts[m]][n]] ELSE 0]
           g == [n \in Nos |-> IF n \in DOMAIN parts THEN SizeOf[parts[n]] ELSE 0]
<1>1. f \in [Nos -> Int] /\ g \in [Nos -> Int] /\ \A n \in Nos : f[n] <= g[n]
  BY PartsOf, MultipartAssumption
<1> HIDE DEF f, g
<1>2. SumFunction(f) <= SumFunction(g)
  BY <1>1, NosFinite, SumMono
<1>3. BytesOf([n \in S |-> parts[n]]) = SumFunction(f)
  BY DEF BytesOf, f
<1> QED
  BY <1>2, <1>3, PartsOf, AssembledIs DEF BytesOf, g

\* Chunks that are parts of what is sent have bytes.
LEMMA TotalType ==
    ASSUME NEW parts \in Assembled, NEW i \in Nat, 1..i \subseteq DOMAIN parts
    PROVE  Total(parts, i) \in Nat /\ Total(parts, i) <= BytesOf(parts)
<1>1. /\ [n \in 1..i |-> parts[n]] \in Assembled
      /\ BytesOf([n \in 1..i |-> parts[n]]) <= BytesOf(parts)
  BY BytesOfSome
<1> QED
  BY <1>1, BytesType DEF Total

-----------------------------------------------------------------------------
(* Every step makes at most one transaction, on the rows of one key.       *)

\* The transactions, with what their callers know when they make them.
Opens(k) == \E size \in Nat, internal \in BOOLEAN : BeginWrite(k, size, internal)

OnIntent(k) ==
    \/ \E total \in Nat : sessions[k] = None /\ EnsureWriteReservation(k, total)
    \/ \E state \in {"completing", "uploading", "consumed", "aborting", "recovery"},
          known \in BOOLEAN : UpdateWriteState(k, state, known)
    \/ sessions[k] = None /\ intents[k].reserved = 0 /\ InsertSession(k)

OnSession(k) ==
    \/ ActivateMultipart(k)
    \/ \E n \in Nos, body \in Bodies : PrepareMultipartPart(k, n, SizeOf[body])
    \/ \E n \in Nos, body \in Bodies : CommitMultipartPart(k, n, body)
    \/ BeginCompleteMultipart(k)
    \/ ResetMultipart(k)
    \/ FailMultipart(k)

Ends(k) == Release(k) \/ \E body \in Assembled : CommitWrite(k, body)

IndexMove(k) ==
    \/ Opens(k)
    \/ intents[k] # None /\ (OnIntent(k) \/ Ends(k))
    \/ intents[k] # None /\ sessions[k] # None /\ OnSession(k)

\* What a step at a place may rely on.
LEMMA Places ==
    ASSUME ShapeInv, NEW k \in Keys
    PROVE  /\ h[k] \in Handler /\ Route(h[k])
           /\ h[k].pc # "idle" => intents[k] # None /\ intents[k] \in Intent
           /\ sessions[k] # None => intents[k] # None /\ sessions[k] \in Session
           /\ h[k].pc = "idle" => h[k] = Idle
<1>1. h[k] \in Handler /\ PlaceInv(k) /\ RowInv(k) /\ TypeOK
  BY DEF ShapeInv, TypeOK
<1>2. h[k].pc = "idle" => h[k] = Idle
  BY <1>1 DEF PlaceInv, Route, Goes
<1>3. h[k].pc # "idle" => intents[k] # None
  BY <1>1 DEF PlaceInv, Idle
<1> QED
  BY <1>1, <1>2, <1>3 DEF PlaceInv, RowInv, TypeOK

\* The states that handlers give their intents, and where they go then.
LEMMA Marks ==
    /\ DOMAIN StateAt = {"markCompleting", "markEtag", "markUploading", "markConsumed",
                         "markConflict", "markAborting", "markRecovering", "hold"}
    /\ StateAt["markCompleting"] = "completing" /\ StateAt["markEtag"] = "completing"
    /\ StateAt["markConsumed"] = "consumed" /\ StateAt["markConflict"] = "aborting"
    /\ StateAt["markAborting"] = "aborting" /\ StateAt["markRecovering"] = "aborting"
    /\ StateAt["hold"] = "recovery"
    /\ AfterMark["markCompleting"] = "complete" /\ AfterMark["markEtag"] = "commit"
    /\ AfterMark["markConsumed"] = "head" /\ AfterMark["markConflict"] = "release"
    /\ AfterMark["markAborting"] = "abort" /\ AfterMark["markRecovering"] = "head"
    /\ AfterMark["hold"] = "idle"
BY DEF StateAt, AfterMark

\* What a step of a key's handler does to the index.
IndexStepOf(k) ==
    \/ UNCHANGED <<objects, intents, sessions, storage, reserved, nextId>>
    \/ IndexMove(k) /\ (Opens(k) \/ UNCHANGED nextId)


\* The statements of a handler.
LEMMA StatementMoves ==
    ASSUME ShapeInv, NEW k \in Keys,
           \/ Insert(k) \/ Activate(k) \/ CreateFailed(k) \/ KeepPart(k)
           \/ Restore(k) \/ Chunk(k) \/ Mark(k) \/ MarkUploading(k)
           \/ AbortRows(k) \/ Commit(k)
    PROVE  IndexStepOf(k)
<1> USE DEF history, index
<1>0. /\ h[k] \in Handler /\ Route(h[k]) /\ PlaceInv(k)
      /\ h[k].pc # "idle" => intents[k] # None
  BY Places DEF ShapeInv
<1>1. CASE Insert(k)
  <2>1. intents[k] # None /\ sessions[k] = None /\ intents[k].reserved = 0
    BY <1>0, <1>1 DEF Insert, At, PlaceInv
  <2> QED
    BY <1>1, <2>1 DEF Insert, Transaction, IndexStepOf, IndexMove, OnIntent
<1>2. CASE Activate(k)
  <2>1. intents[k] # None /\ sessions[k] # None
    BY <1>0, <1>2 DEF Activate, At, PlaceInv, Route, Goes, Idle
  <2> QED
    BY <1>2, <2>1 DEF Activate, IndexStepOf, IndexMove, OnSession
<1>3. CASE CreateFailed(k)
  <2>1. intents[k] # None /\ sessions[k] # None
    BY <1>0, <1>3 DEF CreateFailed, At, PlaceInv, Route, Goes, Idle
  <2> QED
    BY <1>3, <2>1 DEF CreateFailed, Transaction, IndexStepOf, IndexMove, OnSession
<1>4. CASE KeepPart(k)
  <2>1. intents[k] # None /\ sessions[k] # None /\ OnePart(h[k])
    BY <1>0, <1>4 DEF KeepPart, At, PlaceInv, Route, Goes, Idle
  <2>2. PICK n \in Nos, body \in Bodies : h[k].want = Part(n, body)
    BY <2>1 DEF OnePart
  <2>3. (CHOOSE m \in DOMAIN h[k].want : TRUE) = n /\ h[k].want[n] = body
    BY <2>2 DEF Part
  <2>4. CommitMultipartPart(k, n, body) \/ UNCHANGED index
    BY <1>4, <2>3 DEF KeepPart, Transaction
  <2>5. UNCHANGED nextId
    BY <1>4 DEF KeepPart, Transaction
  <2> QED
    BY <2>1, <2>4, <2>5 DEF IndexStepOf, IndexMove, OnSession
<1>5. CASE Restore(k)
  <2>1. intents[k] # None /\ sessions[k] # None
    BY <1>0, <1>5 DEF Restore, At, PlaceInv
  <2> QED
    BY <1>5, <2>1 DEF Restore, Transaction, IndexStepOf, IndexMove, OnSession
<1>6. CASE Chunk(k)
  <2>1. intents[k] # None /\ sessions[k] = None
    BY <1>0, <1>6 DEF Chunk, At, PlaceInv, Route, Goes, Idle
  <2>2. UNCHANGED nextId
    BY <1>6 DEF Chunk
  <2>3. CASE UNCHANGED index
    BY <2>2, <2>3 DEF IndexStepOf
  <2>4. CASE /\ h[k].sent + 1 \in DOMAIN h[k].want
             /\ EnsureWriteReservation(k, Total(h[k].want, h[k].sent + 1))
    <3>1. h[k].want \in Assembled /\ h[k].sent \in Nat
      BY <1>0 DEF Handler
    <3>2. h[k].flow = "put"
      BY <1>0, <1>6 DEF Chunk, At, Route, Goes, Idle
    <3>3. ChunksInOrder(h[k])
      BY <1>0, <3>2 DEF PlaceInv
    <3>4. PICK n \in Nos : DOMAIN h[k].want = 1..n
      BY <3>3 DEF ChunksInOrder
    <3>5. Total(h[k].want, h[k].sent + 1) \in Nat
      <4> DEFINE sent == h[k].sent + 1
      <4>1. n \in Nat /\ sent \in Nat /\ sent \in 1..n
        BY <2>4, <3>1, <3>4, NosBelow
      <4> HIDE DEF sent
      <4>2. 1..sent \subseteq 1..n
        BY <4>1
      <4>3. 1..sent \subseteq DOMAIN h[k].want
        BY <3>4, <4>2
      <4> QED
        BY <3>1, <4>1, <4>3, TotalType DEF sent
    <3> QED
      BY <2>1, <2>2, <2>4, <3>5 DEF IndexStepOf, IndexMove, OnIntent
  <2> QED
    BY <1>6, <2>3, <2>4 DEF Chunk
<1>7. CASE Mark(k)
  <2>1. /\ StateAt[h[k].pc] \in {"completing", "uploading", "consumed", "aborting", "recovery"}
        /\ h[k].pc # "idle"
    BY <1>7, Marks DEF Mark
  <2>2. MarkKnows(k) \in BOOLEAN
    BY DEF MarkKnows, In
  <2>3. UpdateWriteState(k, StateAt[h[k].pc], MarkKnows(k)) \/ UNCHANGED index
    BY <1>7 DEF Mark, Transaction
  <2>4. UNCHANGED nextId
    BY <1>7 DEF Mark, Transaction
  <2> QED
    BY <1>0, <2>1, <2>2, <2>3, <2>4 DEF IndexStepOf, IndexMove, OnIntent
<1>8. CASE MarkUploading(k)
  <2>1. UpdateWriteState(k, "uploading", TRUE) \/ UNCHANGED index
    BY <1>8 DEF MarkUploading
  <2>2. UNCHANGED nextId /\ h[k].pc # "idle"
    BY <1>8 DEF MarkUploading, At
  <2> QED
    BY <1>0, <2>1, <2>2 DEF IndexStepOf, IndexMove, OnIntent
<1>9. CASE AbortRows(k)
  <2>1. h[k].pc # "idle"
    BY <1>9 DEF AbortRows, At
  <2> QED
    BY <1>0, <1>9, <2>1 DEF AbortRows, Transaction, IndexStepOf, IndexMove, Ends
<1>10. CASE Commit(k)
  <2>1. h[k].pc # "idle" /\ h[k].want \in Assembled
    BY <1>0, <1>10 DEF Commit, At, Handler
  <2> QED
    BY <1>0, <1>10, <2>1 DEF Commit, IndexStepOf, IndexMove, Ends
<1> QED
  BY <1>1, <1>2, <1>3, <1>4, <1>5, <1>6, <1>7, <1>8, <1>9, <1>10

\* The first step of a request, of expiry or of recovery.
LEMMA StartMoves ==
    ASSUME ShapeInv, NEW k \in Keys, Request(k) \/ StartExpire(k) \/ StartRecover(k)
    PROVE  IndexStepOf(k)
<1> USE DEF history, index
<1>0. sessions[k] # None => intents[k] # None
  BY Places
<1>1. CASE StartCreate(k)
  BY <1>1 DEF StartCreate, IndexStepOf, IndexMove, Opens
<1>2. CASE StartAbort(k) \/ StartExpire(k) \/ StartRecover(k)
  BY <1>2 DEF StartAbort, StartExpire, StartRecover, IndexStepOf
<1>3. ASSUME NEW n \in Nos, NEW body \in Bodies, StartPart(k, n, body) PROVE IndexStepOf(k)
  BY <1>0, <1>3 DEF StartPart, IndexStepOf, IndexMove, OnSession
<1>4. ASSUME NEW S \in SUBSET Nos, StartComplete(k, S) PROVE IndexStepOf(k)
  BY <1>0, <1>4 DEF StartComplete, IndexStepOf, IndexMove, OnSession
<1>5. ASSUME NEW n \in Nos, NEW declared \in BOOLEAN, NEW want \in [1..n -> Bodies],
             StartPut(k, want, declared)
      PROVE  IndexStepOf(k)
  <2>1. want \in Assembled
    <3>1. 1..n \in SUBSET Nos
      BY NosBelow
    <3> QED
      BY <3>1 DEF Assembled
  <2>2. (IF declared THEN BytesOf(want) ELSE 0) \in Nat
    BY <2>1, BytesType
  <2> QED
    BY <1>5, <2>2 DEF StartPut, IndexStepOf, IndexMove, Opens
<1> QED
  BY <1>1, <1>2, <1>3, <1>4, <1>5 DEF Request

\* A call to R2 does not touch the index.
LEMMA StepMoves ==
    ASSUME ShapeInv, NEW k \in Keys, Step(k)
    PROVE  IndexStepOf(k)
<1> USE DEF history, index
<1>1. CASE RemoteCreate(k) \/ RemotePart(k) \/ RemoteComplete(k) \/ RemoteAbort(k) \/ Head(k)
  BY <1>1 DEF RemoteCreate, RemotePart, RemoteComplete, RemoteAbort, Head, IndexStepOf
<1> QED
  BY <1>1, StatementMoves DEF Step

\* What a step does to the index.
IndexStep ==
    \/ UNCHANGED <<objects, intents, sessions, storage, reserved, nextId>>
    \/ \E k \in Keys : IndexStepOf(k)

\* Nor do late requests and crashes.
LEMMA IndexMoves == ShapeInv /\ [Next]_vars => IndexStep
<1> SUFFICES ASSUME ShapeInv, [Next]_vars PROVE IndexStep
  OBVIOUS
<1> USE DEF history, index
<1>1. ASSUME NEW m \in late, LateEffect(m) PROVE IndexStep
  BY <1>1 DEF LateEffect, IndexStep
<1>2. CASE Crash \/ Leave \/ UNCHANGED vars
  BY <1>2 DEF Crash, Leave, vars, IndexStep
<1> QED
  BY <1>1, <1>2, StepMoves, StartMoves DEF Next, IndexStep

-----------------------------------------------------------------------------
(* Rows keep their shape.                                                  *)

\* The part of TypeOK that is about the index.
RowTypes ==
    /\ objects \in [Keys -> Object \union {None}]
    /\ intents \in [Keys -> Intent \union {None}]
    /\ sessions \in [Keys -> Session \union {None}]
    /\ storage \in Nat /\ reserved \in Nat

RowsInv == RowTypes /\ \A k \in Keys : RowInv(k)

\* What a part's reservation comes to.
LEMMA PartSizes ==
    ASSUME RowTypes, NEW k \in Keys, sessions[k] # None, NEW n \in Nos
    PROVE  /\ SizeOfPart(k, n) \in Nat /\ Contribution(sessions[k].pending[n]) \in Nat
           /\ sessions[k].pending[n] # None => sessions[k].pending[n] \in Pending
           /\ \A size \in Nat : Adjustment(k, n, size) \in Int
<1>1. sessions[k] \in Session
  BY DEF RowTypes
<1>2. sessions[k].parts \in Assembled /\ sessions[k].pending[n] \in Pending \union {None}
  BY <1>1 DEF Session
<1>3. SizeOfPart(k, n) \in Nat
  BY <1>2, PartsOf, MultipartAssumption DEF SizeOfPart
<1>4. Contribution(sessions[k].pending[n]) \in Nat
  BY <1>2 DEF Contribution, Max0, Pending
<1> QED
  BY <1>2, <1>3, <1>4 DEF Adjustment, Max0, Pending

\* A new intent, a new session.
LEMMA OpensRows ==
    ASSUME RowsInv, NEW k \in Keys, NEW size \in Nat, NEW internal \in BOOLEAN,
           BeginWrite(k, size, internal)
    PROVE  RowsInv'
<1> USE DEF RowsInv, RowTypes, BeginWrite
<1>1. CurrentId(k) \in Ids \union {None}
  BY DEF CurrentId, Object
<1>2. [id |-> nextId, prev |-> CurrentId(k), reserved |-> size, state |-> "reserved",
       known |-> FALSE, internal |-> internal] \in Intent
  BY <1>1 DEF Intent
<1>3. intents'[k] # None /\ sessions[k] = None
  BY <1>2, MultipartAssumption DEF RowInv
<1>4. RowTypes'
  BY <1>2 DEF RowTypes
<1>5. ASSUME NEW j \in Keys PROVE RowInv(j)'
  BY <1>3, <1>4 DEF RowInv, SizeOfPart
<1> QED
  BY <1>4, <1>5

\* Statements on an intent.
LEMMA OnIntentRows ==
    ASSUME RowsInv, NEW k \in Keys, intents[k] # None, OnIntent(k)
    PROVE  RowsInv'
<1> USE DEF RowsInv, RowTypes
<1>0. intents[k] \in Intent
  OBVIOUS
<1>1. ASSUME NEW total \in Nat, sessions[k] = None, EnsureWriteReservation(k, total)
      PROVE  RowsInv'
  <2> DEFINE delta == Max0(total - intents[k].reserved)
  <2>1. delta \in Nat
    BY <1>0 DEF Intent, Max0
  <2>2. intents' = [intents EXCEPT ![k].reserved = @ + delta] /\ reserved' = reserved + delta
    BY <1>1 DEF EnsureWriteReservation
  <2> HIDE DEF delta
  <2>3. intents'[k] \in Intent
    BY <1>0, <2>1, <2>2 DEF Intent
  <2>4. RowTypes'
    BY <1>1, <2>1, <2>2, <2>3 DEF EnsureWriteReservation
  <2>5. ASSUME NEW j \in Keys PROVE RowInv(j)'
    BY <1>1, <2>2, <2>3, MultipartAssumption DEF RowInv, SizeOfPart, EnsureWriteReservation
  <2> QED
    BY <2>4, <2>5
<1>2. ASSUME NEW state \in {"completing", "uploading", "consumed", "aborting", "recovery"},
             NEW known \in BOOLEAN, UpdateWriteState(k, state, known)
      PROVE  RowsInv'
  <2>1. intents'[k] = [intents[k] EXCEPT !.state = state, !.known = @ \/ known]
    BY <1>2 DEF UpdateWriteState
  <2>2. intents'[k] \in Intent /\ intents'[k].id = intents[k].id
    BY <1>0, <2>1 DEF Intent
  <2>3. RowTypes'
    BY <1>2, <2>2 DEF UpdateWriteState
  <2>4. ASSUME NEW j \in Keys PROVE RowInv(j)'
    BY <1>2, <2>2, MultipartAssumption DEF RowInv, SizeOfPart, UpdateWriteState
  <2> QED
    BY <2>3, <2>4
<1>3. CASE sessions[k] = None /\ InsertSession(k)
  <2> DEFINE session == [id |-> intents[k].id, status |-> "initiating", known |-> FALSE,
                         parts |-> NoParts, pending |-> [n \in Nos |-> None]]
  <2>1. session \in Session
    BY <1>0, NoPartsAssembled DEF Session, Intent
  <2>2. sessions' = [sessions EXCEPT ![k] = session]
    BY <1>3 DEF InsertSession
  <2>3. RowTypes'
    BY <1>3, <2>1, <2>2 DEF InsertSession
  <2>4. RowInv(k)'
    BY <1>3, <2>2 DEF RowInv, InsertSession
  <2> HIDE DEF session
  <2>5. ASSUME NEW j \in Keys \ {k} PROVE RowInv(j)'
    BY <1>3, <2>2 DEF RowInv, SizeOfPart, InsertSession
  <2> QED
    BY <2>3, <2>4, <2>5
<1> QED
  BY <1>1, <1>2, <1>3 DEF OnIntent

\* A statement on the rows of a session that keeps their ids and reservations of parts.
LEMMA SessionRows ==
    ASSUME RowsInv, NEW k \in Keys, NEW i \in Intent, NEW s \in Session,
           intents' = [intents EXCEPT ![k] = i], sessions' = [sessions EXCEPT ![k] = s],
           UNCHANGED objects, storage' \in Nat, reserved' \in Nat,
           s.id = i.id, s.status \in {"active", "completing"} => s.known,
           \A n \in Nos : s.pending[n] # None =>
              s.pending[n].prev = IF n \in DOMAIN s.parts THEN SizeOf[s.parts[n]] ELSE 0
    PROVE  RowsInv'
<1> USE DEF RowsInv, RowTypes
<1>1. RowTypes'
  OBVIOUS
<1>2. RowInv(k)'
  BY MultipartAssumption DEF RowInv, SizeOfPart
<1>3. ASSUME NEW j \in Keys \ {k} PROVE RowInv(j)'
  BY DEF RowInv, SizeOfPart
<1> QED
  BY <1>1, <1>2, <1>3

\* Statements on a session: the part on its way remembers what it replaces.
LEMMA OnSessionRows ==
    ASSUME RowsInv, NEW k \in Keys, intents[k] # None, sessions[k] # None, OnSession(k)
    PROVE  RowsInv'
<1> DEFINE i == intents[k]
           s == sessions[k]
<1>0. /\ i \in Intent /\ s \in Session /\ RowInv(k) /\ storage \in Nat /\ reserved \in Nat
      /\ i.reserved \in Nat
      /\ intents = [intents EXCEPT ![k] = i] /\ sessions = [sessions EXCEPT ![k] = s]
  BY DEF RowsInv, RowTypes, Intent
<1>1. /\ s.id = i.id
      /\ s.status \in {"active", "completing"} => s.known
      /\ \A n \in Nos : s.pending[n] # None =>
            s.pending[n].prev = IF n \in DOMAIN s.parts THEN SizeOf[s.parts[n]] ELSE 0
  BY <1>0 DEF RowInv, SizeOfPart
<1>2. CASE ActivateMultipart(k)
  <2> DEFINE i2 == [i EXCEPT !.state = "uploading", !.known = TRUE]
             s2 == [s EXCEPT !.status = "active", !.known = TRUE]
  <2>1. i2 \in Intent /\ s2 \in Session /\ s2.id = i2.id /\ s2.known
        /\ s2.parts = s.parts /\ s2.pending = s.pending
    BY <1>0, <1>1 DEF Intent, Session
  <2>2. intents' = [intents EXCEPT ![k] = i2] /\ sessions' = [sessions EXCEPT ![k] = s2]
    BY <1>0, <1>2 DEF ActivateMultipart
  <2> HIDE DEF i2, s2, i, s
  <2>3. UNCHANGED objects /\ storage' \in Nat /\ reserved' \in Nat
    BY <1>0, <1>2 DEF ActivateMultipart
  <2>4. \A m \in Nos : s2.pending[m] # None =>
           s2.pending[m].prev = IF m \in DOMAIN s2.parts THEN SizeOf[s2.parts[m]] ELSE 0
    BY <1>1, <2>1
  <2> QED
    BY <1>0, <1>1, <2>1, <2>2, <2>3, <2>4, SessionRows
<1>3. ASSUME NEW n \in Nos, NEW body \in Bodies, PrepareMultipartPart(k, n, SizeOf[body])
      PROVE  RowsInv'
  <2> DEFINE delta == Adjustment(k, n, SizeOf[body])
             prev == IF s.pending[n] = None THEN SizeOfPart(k, n) ELSE s.pending[n].prev
             i2 == [i EXCEPT !.reserved = Max0(@ + delta)]
             s2 == [s EXCEPT !.pending[n] = [prev |-> prev, req |-> SizeOf[body]]]
  <2>1. SizeOf[body] \in Nat
    BY MultipartAssumption
  <2>2. delta \in Int /\ SizeOfPart(k, n) \in Nat /\ Max0(reserved + delta) \in Nat
        /\ Max0(i.reserved + delta) \in Nat
    BY <1>0, <2>1, PartSizes DEF RowsInv, Max0
  <2>3. prev = IF n \in DOMAIN s.parts THEN SizeOf[s.parts[n]] ELSE 0
    BY <1>1 DEF SizeOfPart
  <2>4. prev \in Nat
    BY <2>2, <2>3 DEF SizeOfPart
  <2>5. [prev |-> prev, req |-> SizeOf[body]] \in Pending
    BY <2>1, <2>4 DEF Pending
  <2>6. /\ intents' = [intents EXCEPT ![k] = i2] /\ sessions' = [sessions EXCEPT ![k] = s2]
        /\ reserved' = Max0(reserved + delta) /\ UNCHANGED <<objects, storage>>
    BY <1>0, <1>3 DEF PrepareMultipartPart
  <2> HIDE DEF delta, prev
  <2>7. /\ i2 \in Intent /\ s2 \in Session /\ s2.id = i2.id
        /\ s2.status = s.status /\ s2.known = s.known /\ s2.parts = s.parts
        /\ s2.pending = [s.pending EXCEPT ![n] = [prev |-> prev, req |-> SizeOf[body]]]
    BY <1>0, <1>1, <2>2, <2>5 DEF Intent, Session
  <2>8. \A m \in Nos : s2.pending[m] # None =>
           s2.pending[m].prev = IF m \in DOMAIN s2.parts THEN SizeOf[s2.parts[m]] ELSE 0
    <3>1. s.pending \in [Nos -> Pending \union {None}]
      BY <1>0 DEF Session
    <3> HIDE DEF s2, s
    <3> QED
      BY <1>1, <2>3, <2>7, <3>1
  <2> HIDE DEF i2, s2, i, s
  <2> QED
    BY <1>0, <1>1, <2>2, <2>6, <2>7, <2>8, SessionRows
<1>4. ASSUME NEW n \in Nos, NEW body \in Bodies, CommitMultipartPart(k, n, body)
      PROVE  RowsInv'
  <2> DEFINE delta == -Max0(s.pending[n].prev - SizeOf[body])
             parts == WithParts(s.parts, Part(n, body))
             i2 == [i EXCEPT !.reserved = Max0(@ + delta)]
             s2 == [s EXCEPT !.parts = parts, !.pending[n] = None]
  <2>1. Part(n, body) \in Assembled /\ DOMAIN Part(n, body) = {n}
    BY AssembledIs DEF Part
  <2>2. s.parts \in Assembled /\ s.pending \in [Nos -> Pending \union {None}]
    BY <1>0 DEF Session
  <2>3. /\ parts \in Assembled
        /\ DOMAIN parts = DOMAIN s.parts \union {n}
        /\ \A m \in Nos \ {n} : m \in DOMAIN s.parts => parts[m] = s.parts[m]
    BY <2>1, <2>2, PartsAdded
  <2>4. SizeOf[body] \in Nat /\ s.pending[n] \in Pending
    BY <1>0, <1>4, <2>2, MultipartAssumption DEF CommitMultipartPart
  <2>5. delta \in Int /\ Max0(reserved + delta) \in Nat /\ Max0(i.reserved + delta) \in Nat
    BY <1>0, <2>4 DEF Max0, Pending
  <2>6. /\ sessions' = [sessions EXCEPT ![k] = s2]
        /\ intents' = [intents EXCEPT ![k].reserved = Max0(@ + delta)]
        /\ reserved' = Max0(reserved + delta) /\ UNCHANGED <<objects, storage>>
    <3>1. sessions[k] = s /\ intents[k] = i
      OBVIOUS
    <3>2. sessions' = [sessions EXCEPT ![k] = s2]
      BY <1>4 DEF CommitMultipartPart
    <3>3. /\ intents' = [intents EXCEPT ![k].reserved = Max0(@ + delta)]
          /\ reserved' = Max0(reserved + delta) /\ UNCHANGED <<objects, storage>>
      BY <1>4 DEF CommitMultipartPart
    <3> QED
      BY <3>2, <3>3
  <2> HIDE DEF delta, parts
  <2>9. intents' = [intents EXCEPT ![k] = i2]
    BY <1>0, <2>6
  <2>7. /\ i2 \in Intent /\ s2 \in Session /\ s2.id = i2.id
        /\ s2.status = s.status /\ s2.known = s.known /\ s2.parts = parts
        /\ s2.pending = [s.pending EXCEPT ![n] = None]
    BY <1>0, <1>1, <2>3, <2>5 DEF Intent, Session
  <2>8. \A m \in Nos : s2.pending[m] # None =>
           s2.pending[m].prev = IF m \in DOMAIN s2.parts THEN SizeOf[s2.parts[m]] ELSE 0
    <3> HIDE DEF s2, s
    <3> QED
      BY <1>1, <2>2, <2>3, <2>7
  <2> HIDE DEF i2, s2, i, s
  <2> QED
    <3>1. s2.status \in {"active", "completing"} => s2.known
      BY <1>1, <2>7
    <3>2. storage' \in Nat /\ reserved' \in Nat /\ UNCHANGED objects
      BY <1>0, <2>5, <2>6
    <3> QED
      BY <2>6, <2>7, <2>8, <2>9, <3>1, <3>2, SessionRows
<1>5. CASE BeginCompleteMultipart(k) \/ FailMultipart(k)
  <2>1. PICK status \in {"completing", "error"} :
           /\ sessions' = [sessions EXCEPT ![k].status = status]
           /\ status = "completing" => s.status = "active"
           /\ UNCHANGED <<objects, intents, storage, reserved>>
    BY <1>5 DEF BeginCompleteMultipart, FailMultipart
  <2> DEFINE s2 == [s EXCEPT !.status = status]
  <2>2. s2 \in Session /\ s2.id = i.id /\ (s2.status \in {"active", "completing"} => s2.known)
        /\ s2.parts = s.parts /\ s2.pending = s.pending
    BY <1>0, <1>1, <2>1 DEF Session
  <2>3. /\ sessions' = [sessions EXCEPT ![k] = s2] /\ intents' = [intents EXCEPT ![k] = i]
        /\ storage' \in Nat /\ reserved' \in Nat /\ UNCHANGED objects
    BY <1>0, <2>1
  <2> HIDE DEF s2, i, s
  <2>4. \A m \in Nos : s2.pending[m] # None =>
           s2.pending[m].prev = IF m \in DOMAIN s2.parts THEN SizeOf[s2.parts[m]] ELSE 0
    BY <1>1, <2>2
  <2> QED
    BY <1>0, <2>2, <2>3, <2>4, SessionRows
<1>6. CASE ResetMultipart(k)
  <2> DEFINE i2 == [i EXCEPT !.state = "uploading", !.known = @ \/ s.known]
             s2 == [s EXCEPT !.status = "active"]
  <2>1. i2 \in Intent /\ s2 \in Session /\ s2.id = i2.id /\ s2.known
        /\ s2.parts = s.parts /\ s2.pending = s.pending
    BY <1>0, <1>1, <1>6 DEF Intent, Session, ResetMultipart
  <2>2. intents' = [intents EXCEPT ![k] = i2] /\ sessions' = [sessions EXCEPT ![k] = s2]
    BY <1>0, <1>6 DEF ResetMultipart
  <2>3. UNCHANGED objects /\ storage' \in Nat /\ reserved' \in Nat
    BY <1>0, <1>6 DEF ResetMultipart
  <2> HIDE DEF i2, s2, i, s
  <2>4. \A m \in Nos : s2.pending[m] # None =>
           s2.pending[m].prev = IF m \in DOMAIN s2.parts THEN SizeOf[s2.parts[m]] ELSE 0
    BY <1>1, <2>1
  <2> QED
    BY <1>0, <1>1, <2>1, <2>2, <2>3, <2>4, SessionRows
<1> QED
  BY <1>2, <1>3, <1>4, <1>5, <1>6 DEF OnSession

\* The rows of an intent go together.
LEMMA EndsRows ==
    ASSUME RowsInv, NEW k \in Keys, intents[k] # None, Ends(k)
    PROVE  RowsInv'
<1> USE DEF RowsInv, RowTypes
<1>1. /\ sessions' = [sessions EXCEPT ![k] = None] /\ intents' = [intents EXCEPT ![k] = None]
      /\ storage' \in Nat /\ reserved' \in Nat
  <2>1. CASE Release(k)
    BY <2>1 DEF Release, Max0, Intent
  <2>2. ASSUME NEW body \in Assembled, CommitWrite(k, body)
        PROVE  storage' \in Nat /\ reserved' \in Nat
    <3>1. BytesOf(body) \in Nat
      BY BytesType
    <3>2. (IF objects[k] = None THEN 0 ELSE BytesOf(objects[k].body)) \in Nat
      BY BytesType DEF Object
    <3> QED
      BY <2>2, <3>1, <3>2 DEF CommitWrite, Max0, Intent
  <2> QED
    BY <2>1, <2>2 DEF Ends, CommitWrite
<1>2. objects' \in [Keys -> Object \union {None}]
  BY DEF Ends, Release, CommitWrite, Object, Intent
<1>3. RowTypes'
  BY <1>1, <1>2
<1>4. ASSUME NEW j \in Keys PROVE RowInv(j)'
  BY <1>1 DEF RowInv, SizeOfPart
<1> QED
  BY <1>3, <1>4

\* The shape of the rows is kept.
LEMMA RowsStep ==
    ASSUME ShapeInv, IndexStep
    PROVE  RowsInv'
<1>1. RowsInv
  BY DEF ShapeInv, TypeOK, RowsInv, RowTypes
<1>2. CASE UNCHANGED <<objects, intents, sessions, storage, reserved, nextId>>
  BY <1>1, <1>2 DEF RowsInv, RowTypes, RowInv, SizeOfPart
<1>3. ASSUME NEW k \in Keys, IndexMove(k) PROVE RowsInv'
  <2>1. CASE Opens(k)
    BY <1>1, <2>1, OpensRows DEF Opens
  <2>2. CASE intents[k] # None /\ (OnIntent(k) \/ Ends(k))
    BY <1>1, <2>2, OnIntentRows, EndsRows
  <2>3. CASE intents[k] # None /\ sessions[k] # None /\ OnSession(k)
    BY <1>1, <2>3, OnSessionRows
  <2> QED
    BY <1>3, <2>1, <2>2, <2>3 DEF IndexMove
<1> QED
  BY <1>2, <1>3 DEF IndexStep, IndexStepOf

-----------------------------------------------------------------------------
(* The counters.                                                           *)

\* What an intent reserves, what an object stores.
ReservedTerm(k) == IF intents[k] = None THEN 0 ELSE intents[k].reserved

StoredTerm(k) == IF objects[k] = None THEN 0 ELSE BytesOf(objects[k].body)

\* Both are natural numbers, and so are their sums.
LEMMA TermTypes ==
    ASSUME RowTypes
    PROVE  /\ \A k \in Keys : ReservedTerm(k) \in Nat /\ StoredTerm(k) \in Nat
           /\ ReservedBytes = SumFunction([k \in Keys |-> ReservedTerm(k)])
           /\ StoredBytes = SumFunction([k \in Keys |-> StoredTerm(k)])
           /\ ReservedBytes \in Nat /\ StoredBytes \in Nat
           /\ \A k \in Keys : ReservedTerm(k) <= ReservedBytes /\ StoredTerm(k) <= StoredBytes
<1> DEFINE r == [k \in Keys |-> ReservedTerm(k)]
           s == [k \in Keys |-> StoredTerm(k)]
<1>1. \A k \in Keys : ReservedTerm(k) \in Nat /\ StoredTerm(k) \in Nat
  BY BytesType DEF RowTypes, ReservedTerm, StoredTerm, Intent, Object
<1>2. ReservedBytes = SumFunction(r) /\ StoredBytes = SumFunction(s)
  BY DEF ReservedBytes, ReservedTerm, StoredBytes, StoredTerm
<1>3. /\ r \in [Keys -> Nat] /\ s \in [Keys -> Nat]
      /\ \A k \in Keys : r[k] = ReservedTerm(k) /\ s[k] = StoredTerm(k)
  BY <1>1
<1> HIDE DEF r, s
<1>4. SumFunction(r) \in Nat /\ SumFunction(s) \in Nat
  BY <1>3, SumNat, MultipartAssumption
<1>5. \A k \in Keys : r[k] <= SumFunction(r) /\ s[k] <= SumFunction(s)
  BY <1>3, SumCovers, MultipartAssumption
<1> QED
  BY <1>1, <1>2, <1>3, <1>4, <1>5 DEF r, s

\* The sum of the reservations follows the one that changes.
LEMMA ReservedChange ==
    ASSUME RowTypes, RowTypes', NEW k \in Keys, \A j \in Keys \ {k} : intents'[j] = intents[j]
    PROVE  ReservedBytes' = ReservedBytes + ReservedTerm(k)' - ReservedTerm(k)
<1> DEFINE f == [j \in Keys |-> ReservedTerm(j)]
           g == [j \in Keys |-> ReservedTerm(j)']
<1>1. ReservedBytes = SumFunction(f) /\ ReservedBytes' = SumFunction(g)
  BY DEF ReservedBytes, ReservedTerm
<1>2. \A j \in Keys : ReservedTerm(j) \in Int /\ ReservedTerm(j)' \in Int
  BY DEF RowTypes, ReservedTerm, Intent
<1>3. f \in [Keys -> Int] /\ g \in [Keys -> Int] /\ \A j \in Keys \ {k} : g[j] = f[j]
  BY <1>2 DEF ReservedTerm
<1>4. f[k] = ReservedTerm(k) /\ g[k] = ReservedTerm(k)'
  OBVIOUS
<1> HIDE DEF f, g
<1>5. SumFunction(g) = SumFunction(f) + g[k] - f[k]
  BY <1>3, SumChange, MultipartAssumption
<1> QED
  BY <1>1, <1>4, <1>5

\* So does the sum of what is stored.
LEMMA StoredChange ==
    ASSUME RowTypes, RowTypes', NEW k \in Keys, \A j \in Keys \ {k} : objects'[j] = objects[j]
    PROVE  StoredBytes' = StoredBytes + StoredTerm(k)' - StoredTerm(k)
<1> DEFINE f == [j \in Keys |-> StoredTerm(j)]
           g == [j \in Keys |-> StoredTerm(j)']
<1>1. StoredBytes = SumFunction(f) /\ StoredBytes' = SumFunction(g)
  BY DEF StoredBytes, StoredTerm
<1>2. \A j \in Keys : StoredTerm(j) \in Int /\ StoredTerm(j)' \in Int
  BY BytesType DEF RowTypes, StoredTerm, Object
<1>3. f \in [Keys -> Int] /\ g \in [Keys -> Int] /\ \A j \in Keys \ {k} : g[j] = f[j]
  BY <1>2 DEF StoredTerm
<1>4. f[k] = StoredTerm(k) /\ g[k] = StoredTerm(k)'
  OBVIOUS
<1> HIDE DEF f, g
<1>5. SumFunction(g) = SumFunction(f) + g[k] - f[k]
  BY <1>3, SumChange, MultipartAssumption
<1> QED
  BY <1>1, <1>4, <1>5

\* What part n of the session of key k holds.
HeldTerm(k, n) == SizeOfPart(k, n) + Contribution(sessions[k].pending[n])

\* It is a natural number, and Held is the sum.
LEMMA HeldTypes ==
    ASSUME RowTypes, NEW k \in Keys, sessions[k] # None
    PROVE  /\ \A n \in Nos : HeldTerm(k, n) \in Nat /\ HeldTerm(k, n) <= Held(k)
           /\ Held(k) \in Nat /\ Held(k) = SumFunction([n \in Nos |-> HeldTerm(k, n)])
<1> DEFINE f == [n \in Nos |-> HeldTerm(k, n)]
<1>1. \A n \in Nos : HeldTerm(k, n) \in Nat
  BY PartSizes DEF HeldTerm
<1>2. f \in [Nos -> Nat] /\ \A n \in Nos : f[n] = HeldTerm(k, n)
  BY <1>1
<1>3. Held(k) = SumFunction(f)
  BY DEF Held, HeldTerm
<1> HIDE DEF f
<1>4. SumFunction(f) \in Nat /\ \A n \in Nos : f[n] <= SumFunction(f)
  BY <1>2, SumNat, SumCovers, NosFinite
<1> QED
  BY <1>1, <1>2, <1>3, <1>4 DEF f

\* The sum follows the part that changes.
LEMMA HeldChange ==
    ASSUME RowTypes, RowTypes', NEW k \in Keys, sessions[k] # None, sessions'[k] # None,
           NEW n \in Nos, \A m \in Nos \ {n} : HeldTerm(k, m)' = HeldTerm(k, m)
    PROVE  Held(k)' = Held(k) + HeldTerm(k, n)' - HeldTerm(k, n)
<1> DEFINE f == [m \in Nos |-> HeldTerm(k, m)]
           g == [m \in Nos |-> HeldTerm(k, m)']
<1>1. Held(k) = SumFunction(f) /\ Held(k)' = SumFunction(g)
  BY DEF Held, HeldTerm
<1>2. \A m \in Nos : HeldTerm(k, m) \in Int
  BY PartSizes DEF HeldTerm
<1>3. HeldTerm(k, n)' \in Int
  <2>1. sessions'[k] \in Session
    BY DEF RowTypes
  <2>2. sessions'[k].parts \in Assembled /\ sessions'[k].pending[n] \in Pending \union {None}
    BY <2>1 DEF Session
  <2>3. SizeOfPart(k, n)' \in Nat
    BY <2>2, PartsOf, MultipartAssumption DEF SizeOfPart
  <2> QED
    BY <2>2, <2>3 DEF HeldTerm, Contribution, Max0, Pending
<1>4. f \in [Nos -> Int] /\ g \in [Nos -> Int] /\ \A m \in Nos \ {n} : g[m] = f[m]
  BY <1>2, <1>3
<1>5. f[n] = HeldTerm(k, n) /\ g[n] = HeldTerm(k, n)'
  OBVIOUS
<1> HIDE DEF f, g
<1>6. SumFunction(g) = SumFunction(f) + g[n] - f[n]
  BY <1>4, SumChange, NosFinite
<1> QED
  BY <1>1, <1>5, <1>6

\* A transaction that changes the counters as it changes the rows of its key.
LEMMA LedgerMove ==
    ASSUME LedgerInv, RowsInv, RowsInv', NEW k \in Keys,
           \A j \in Keys \ {k} : /\ intents'[j] = intents[j] /\ sessions'[j] = sessions[j]
                                 /\ objects'[j] = objects[j],
           reserved' = reserved + ReservedTerm(k)' - ReservedTerm(k),
           storage' = storage + StoredTerm(k)' - StoredTerm(k),
           (Overflow \/ storage' + reserved' <= Limit),
           sessions'[k] # None => intents'[k].reserved = Held(k)'
    PROVE  LedgerInv'
<1> USE DEF RowsInv
<1>1. ReservedBytes' = ReservedBytes + ReservedTerm(k)' - ReservedTerm(k)
  BY ReservedChange
<1>2. StoredBytes' = StoredBytes + StoredTerm(k)' - StoredTerm(k)
  BY StoredChange
<1>3. reserved' = ReservedBytes' /\ storage' = StoredBytes'
  BY <1>1, <1>2 DEF LedgerInv, PartsReserved
<1>4. \A j \in Keys : sessions'[j] # None => intents'[j].reserved = Held(j)'
  <2>1. ASSUME NEW j \in Keys \ {k} PROVE Held(j)' = Held(j)
    BY DEF Held, SizeOfPart, Contribution
  <2> QED
    BY <2>1 DEF LedgerInv, PartsReserved
<1> QED
  BY <1>3, <1>4 DEF LedgerInv, PartsReserved

\* The counters bound what any intent reserves.
LEMMA LedgerFacts ==
    ASSUME LedgerInv, RowsInv, NEW k \in Keys
    PROVE  /\ storage \in Nat /\ reserved \in Nat /\ Limit \in Nat
           /\ (Overflow \/ storage + reserved <= Limit)
           /\ ReservedTerm(k) \in Nat /\ ReservedTerm(k) <= reserved
           /\ StoredTerm(k) \in Nat /\ StoredTerm(k) <= storage
           /\ intents[k] # None => intents[k].reserved = ReservedTerm(k)
           /\ sessions[k] # None => intents[k].reserved = Held(k)
BY TermTypes, MultipartAssumption DEF LedgerInv, PartsReserved, RowsInv, RowTypes, ReservedTerm

\* An intent that begins reserves what the bucket adds.
LEMMA OpensLedger ==
    ASSUME LedgerInv, RowsInv, RowsInv', NEW k \in Keys, Opens(k)
    PROVE  LedgerInv'
<1>0. PICK size \in Nat, internal \in BOOLEAN : BeginWrite(k, size, internal)
  BY DEF Opens
<1>1. intents'[k] # None /\ intents'[k].reserved = size /\ intents[k] = None
      /\ sessions[k] = None
  <2> DEFINE intent == [id |-> nextId, prev |-> CurrentId(k), reserved |-> size,
                        state |-> "reserved", known |-> FALSE, internal |-> internal]
  <2>1. CurrentId(k) \in Ids \union {None}
    BY DEF CurrentId, Object, RowsInv, RowTypes
  <2>2. nextId \in Ids /\ intents[k] = None /\ intents' = [intents EXCEPT ![k] = intent]
    BY <1>0 DEF BeginWrite
  <2>3. intent \in Intent /\ intent.reserved = size
    BY <2>1, <2>2 DEF Intent
  <2>4. sessions[k] = None
    BY <2>2 DEF RowsInv, RowInv
  <2> HIDE DEF intent
  <2>5. intents'[k] = intent /\ intent # None
    BY <2>2, <2>3, MultipartAssumption DEF RowsInv, RowTypes
  <2> QED
    BY <2>2, <2>3, <2>4, <2>5
<1>2. ReservedTerm(k) = 0 /\ ReservedTerm(k)' = size /\ StoredTerm(k)' = StoredTerm(k)
  BY <1>0, <1>1 DEF ReservedTerm, StoredTerm, BeginWrite
<1>3. \A j \in Keys \ {k} : /\ intents'[j] = intents[j] /\ sessions'[j] = sessions[j]
                            /\ objects'[j] = objects[j]
  BY <1>0 DEF BeginWrite, RowsInv, RowTypes
<1>4. /\ reserved' = reserved + ReservedTerm(k)' - ReservedTerm(k)
      /\ storage' = storage + StoredTerm(k)' - StoredTerm(k)
      /\ (Overflow \/ storage' + reserved' <= Limit) /\ sessions'[k] = None
  BY <1>0, <1>1, <1>2, LedgerFacts DEF BeginWrite, Fits
<1> QED
  BY <1>3, <1>4, LedgerMove

\* Statements on an intent: what it reserves more the bucket reserves more.
LEMMA OnIntentLedger ==
    ASSUME LedgerInv, RowsInv, RowsInv', NEW k \in Keys, intents[k] # None, OnIntent(k)
    PROVE  LedgerInv'
<1>0. /\ intents[k] \in Intent /\ intents[k].reserved \in Nat
      /\ ReservedTerm(k) = intents[k].reserved
  BY DEF RowsInv, RowTypes, Intent, ReservedTerm
<1>1. ASSUME NEW total \in Nat, sessions[k] = None, EnsureWriteReservation(k, total)
      PROVE  LedgerInv'
  <2> DEFINE delta == Max0(total - intents[k].reserved)
  <2>1. delta \in Nat
    BY <1>0 DEF Max0
  <2>2. /\ intents' = [intents EXCEPT ![k].reserved = @ + delta] /\ reserved' = reserved + delta
        /\ delta > 0 => Fits(delta)
        /\ UNCHANGED <<objects, sessions, storage>>
    BY <1>1 DEF EnsureWriteReservation
  <2> HIDE DEF delta
  <2>3. intents'[k].reserved = intents[k].reserved + delta /\ intents'[k] # None
    <3>1. intents'[k] = [intents[k] EXCEPT !.reserved = @ + delta]
      BY <2>2 DEF RowsInv, RowTypes
    <3>2. intents'[k] \in Intent
      BY <1>0, <2>1, <3>1 DEF Intent
    <3> QED
      BY <1>0, <3>1, <3>2, MultipartAssumption DEF Intent
  <2>4. ReservedTerm(k)' = ReservedTerm(k) + delta /\ StoredTerm(k)' = StoredTerm(k)
    BY <1>0, <2>2, <2>3 DEF ReservedTerm, StoredTerm
  <2>5. \A j \in Keys \ {k} : /\ intents'[j] = intents[j] /\ sessions'[j] = sessions[j]
                              /\ objects'[j] = objects[j]
    BY <2>2 DEF RowsInv, RowTypes
  <2>6. /\ reserved' = reserved + ReservedTerm(k)' - ReservedTerm(k)
        /\ storage' = storage + StoredTerm(k)' - StoredTerm(k)
        /\ (Overflow \/ storage' + reserved' <= Limit) /\ sessions'[k] = None
    BY <1>1, <2>1, <2>2, <2>4, LedgerFacts DEF Fits
  <2> QED
    BY <2>5, <2>6, LedgerMove
<1>2. ASSUME NEW state \in {"completing", "uploading", "consumed", "aborting", "recovery"},
             NEW known \in BOOLEAN, UpdateWriteState(k, state, known)
      PROVE  LedgerInv'
  <2>1. intents'[k] = [intents[k] EXCEPT !.state = state, !.known = @ \/ known]
    BY <1>2 DEF UpdateWriteState, RowsInv, RowTypes
  <2>2. intents'[k] \in Intent /\ intents'[k].reserved = intents[k].reserved
    BY <1>0, <2>1 DEF Intent
  <2>3. ReservedTerm(k)' = ReservedTerm(k) /\ StoredTerm(k)' = StoredTerm(k)
    BY <1>0, <1>2, <2>2, MultipartAssumption DEF ReservedTerm, StoredTerm, UpdateWriteState
  <2>4. \A j \in Keys \ {k} : /\ intents'[j] = intents[j] /\ sessions'[j] = sessions[j]
                              /\ objects'[j] = objects[j]
    BY <1>2 DEF UpdateWriteState, RowsInv, RowTypes
  <2>5. Held(k)' = Held(k) /\ UNCHANGED <<sessions, storage, reserved>>
    BY <1>2 DEF UpdateWriteState, Held, SizeOfPart, Contribution
  <2>6. /\ reserved' = reserved + ReservedTerm(k)' - ReservedTerm(k)
        /\ storage' = storage + StoredTerm(k)' - StoredTerm(k)
        /\ (Overflow \/ storage' + reserved' <= Limit)
        /\ sessions'[k] # None => intents'[k].reserved = Held(k)'
    BY <2>2, <2>3, <2>5, LedgerFacts
  <2> QED
    BY <2>4, <2>6, LedgerMove
<1>3. CASE sessions[k] = None /\ intents[k].reserved = 0 /\ InsertSession(k)
  <2>1. /\ sessions'[k].parts = NoParts /\ sessions'[k].pending = [n \in Nos |-> None]
        /\ UNCHANGED <<objects, intents, storage, reserved>>
    BY <1>3 DEF InsertSession, RowsInv, RowTypes
  <2>2. ASSUME NEW n \in Nos PROVE HeldTerm(k, n)' = 0
    BY <2>1, NoPartsAssembled DEF HeldTerm, SizeOfPart, Contribution
  <2>3. Held(k)' = 0
    <3>1. [n \in Nos |-> HeldTerm(k, n)'] = [n \in Nos |-> 0]
      BY <2>2
    <3>2. Held(k)' = SumFunction([n \in Nos |-> HeldTerm(k, n)'])
      BY DEF Held, HeldTerm
    <3> QED
      BY <3>1, <3>2, SumZero, NosFinite
  <2>4. \A j \in Keys \ {k} : /\ intents'[j] = intents[j] /\ sessions'[j] = sessions[j]
                              /\ objects'[j] = objects[j]
    BY <1>3 DEF InsertSession, RowsInv, RowTypes
  <2>5. /\ ReservedTerm(k)' = ReservedTerm(k) /\ StoredTerm(k)' = StoredTerm(k)
        /\ ReservedTerm(k) \in Int /\ StoredTerm(k) \in Int
    BY <2>1, LedgerFacts DEF ReservedTerm, StoredTerm
  <2>6. /\ reserved' = reserved + ReservedTerm(k)' - ReservedTerm(k)
        /\ storage' = storage + StoredTerm(k)' - StoredTerm(k)
        /\ (Overflow \/ storage' + reserved' <= Limit)
        /\ sessions'[k] # None => intents'[k].reserved = Held(k)'
    BY <1>3, <2>1, <2>3, <2>5, LedgerFacts
  <2> QED
    BY <2>4, <2>6, LedgerMove
<1> QED
  BY <1>1, <1>2, <1>3 DEF OnIntent

\* A statement that moves what one part of a session holds, and the counters with it:
\* what it gives back was held, so that the MAX(..., 0) of the statement cuts nothing off.
LEMMA HeldLedger ==
    ASSUME LedgerInv, RowsInv, RowsInv', NEW k \in Keys, intents[k] # None, sessions[k] # None,
           sessions'[k] # None, \A j \in Keys \ {k} : sessions'[j] = sessions[j],
           NEW delta \in Int, delta > 0 => Fits(delta),
           reserved' = Max0(reserved + delta),
           intents' = [intents EXCEPT ![k].reserved = Max0(@ + delta)],
           UNCHANGED <<objects, storage>>,
           NEW n \in Nos, \A m \in Nos \ {n} : HeldTerm(k, m)' = HeldTerm(k, m),
           HeldTerm(k, n)' = HeldTerm(k, n) + delta, HeldTerm(k, n)' >= 0
    PROVE  LedgerInv'
<1>1. /\ intents[k] \in Intent /\ intents[k].reserved \in Nat /\ sessions'[k] \in Session
      /\ intents'[k] = [intents[k] EXCEPT !.reserved = Max0(@ + delta)]
  BY DEF RowsInv, RowTypes, Intent
<1>2. HeldTerm(k, n) \in Nat /\ HeldTerm(k, n) <= Held(k) /\ Held(k) \in Nat
  BY HeldTypes DEF RowsInv
<1>3. Held(k)' = Held(k) + delta
  <2>1. Held(k)' = Held(k) + HeldTerm(k, n)' - HeldTerm(k, n)
    BY HeldChange DEF RowsInv
  <2> QED
    BY <1>2, <2>1
<1>4. /\ intents[k].reserved = Held(k) /\ intents[k].reserved = ReservedTerm(k)
      /\ ReservedTerm(k) <= reserved /\ reserved \in Nat /\ storage \in Nat /\ Limit \in Nat
      /\ (Overflow \/ storage + reserved <= Limit) /\ StoredTerm(k) \in Nat
  BY LedgerFacts
<1>5. Held(k) + delta >= 0
  BY <1>2
<1>6. reserved' = reserved + delta /\ intents'[k].reserved = intents[k].reserved + delta
  BY <1>1, <1>2, <1>4, <1>5 DEF Max0, Intent
<1>7. intents'[k] # None
  <2>1. Max0(intents[k].reserved + delta) \in Nat
    BY <1>1 DEF Max0
  <2>2. intents'[k] \in Intent
    BY <1>1, <2>1 DEF Intent
  <2> QED
    BY <2>2, MultipartAssumption
<1>8. ReservedTerm(k)' = ReservedTerm(k) + delta /\ StoredTerm(k)' = StoredTerm(k)
  BY <1>4, <1>6, <1>7 DEF ReservedTerm, StoredTerm
<1>9. \A j \in Keys \ {k} : /\ intents'[j] = intents[j] /\ sessions'[j] = sessions[j]
                            /\ objects'[j] = objects[j]
  BY DEF RowsInv, RowTypes
<1>10. /\ reserved' = reserved + ReservedTerm(k)' - ReservedTerm(k)
       /\ storage' = storage + StoredTerm(k)' - StoredTerm(k)
       /\ (Overflow \/ storage' + reserved' <= Limit)
       /\ sessions'[k] # None => intents'[k].reserved = Held(k)'
  <2>1. (Overflow \/ storage' + reserved' <= Limit)
    BY <1>4, <1>6 DEF Fits
  <2>2. ReservedTerm(k) \in Int /\ delta \in Int
    BY <1>1, <1>4
  <2>3. reserved' = reserved + ReservedTerm(k)' - ReservedTerm(k)
    BY <1>4, <1>6, <1>8, <2>2
  <2>4. storage' = storage + StoredTerm(k)' - StoredTerm(k)
    BY <1>4, <1>8
  <2>5. intents'[k].reserved = Held(k)'
    BY <1>3, <1>4, <1>6
  <2> QED
    BY <2>1, <2>3, <2>4, <2>5
<1> QED
  BY <1>9, <1>10, LedgerMove

\* A statement on a session that moves no bytes.
LEMMA QuietLedger ==
    ASSUME LedgerInv, RowsInv, RowsInv', NEW k \in Keys, intents[k] # None, sessions[k] # None,
           sessions'[k] # None, \A j \in Keys \ {k} : sessions'[j] = sessions[j],
           sessions'[k].parts = sessions[k].parts, sessions'[k].pending = sessions[k].pending,
           intents'[k] # None, intents'[k].reserved = intents[k].reserved,
           \A j \in Keys \ {k} : intents'[j] = intents[j],
           UNCHANGED <<objects, storage, reserved>>
    PROVE  LedgerInv'
<1>1. Held(k)' = Held(k)
  BY DEF Held, SizeOfPart, Contribution
<1>2. ReservedTerm(k)' = ReservedTerm(k) /\ StoredTerm(k)' = StoredTerm(k)
  BY DEF ReservedTerm, StoredTerm
<1>3. /\ reserved' = reserved + ReservedTerm(k)' - ReservedTerm(k)
      /\ storage' = storage + StoredTerm(k)' - StoredTerm(k)
      /\ (Overflow \/ storage' + reserved' <= Limit)
      /\ sessions'[k] # None => intents'[k].reserved = Held(k)'
  BY <1>1, <1>2, LedgerFacts
<1>4. \A j \in Keys \ {k} : /\ intents'[j] = intents[j] /\ sessions'[j] = sessions[j]
                            /\ objects'[j] = objects[j]
  OBVIOUS
<1> QED
  BY <1>3, <1>4, LedgerMove

\* Statements on a session: a part that is announced, or stored, changes the reservation by
\* what the session needs more or less, so that Max0 never cuts anything off.
LEMMA OnSessionLedger ==
    ASSUME LedgerInv, RowsInv, RowsInv', NEW k \in Keys, intents[k] # None, sessions[k] # None,
           OnSession(k)
    PROVE  LedgerInv'
<1>0. /\ intents \in [Keys -> Intent \union {None}] /\ sessions \in [Keys -> Session \union {None}]
      /\ intents[k] \in Intent /\ sessions[k] \in Session /\ RowInv(k)
      /\ sessions'[k] \in Session \union {None} /\ intents'[k] \in Intent \union {None}
  BY DEF RowsInv, RowTypes
<1>1. ASSUME NEW n \in Nos, NEW body \in Bodies, PrepareMultipartPart(k, n, SizeOf[body])
      PROVE  LedgerInv'
  <2> DEFINE delta == Adjustment(k, n, SizeOf[body])
             prev == IF sessions[k].pending[n] = None THEN SizeOfPart(k, n)
                     ELSE sessions[k].pending[n].prev
             p == [prev |-> prev, req |-> SizeOf[body]]
  <2>1. SizeOf[body] \in Nat
    BY MultipartAssumption
  <2>2. delta \in Int /\ SizeOfPart(k, n) \in Nat /\ Contribution(sessions[k].pending[n]) \in Nat
    BY <2>1, PartSizes DEF RowsInv
  <2>3. prev = SizeOfPart(k, n)
    BY <1>0 DEF RowInv
  <2>4. delta = Max0(SizeOf[body] - SizeOfPart(k, n)) - Contribution(sessions[k].pending[n])
    BY <2>3 DEF Adjustment
  <2>5. p # None /\ p \in Pending
    BY <2>1, <2>2, <2>3, MultipartAssumption DEF Pending
  <2>6. /\ sessions' = [sessions EXCEPT ![k].pending[n] = p]
        /\ reserved' = Max0(reserved + delta)
        /\ intents' = [intents EXCEPT ![k].reserved = Max0(@ + delta)]
        /\ UNCHANGED <<objects, storage>> /\ (delta > 0 => Fits(delta))
    BY <1>1 DEF PrepareMultipartPart
  <2>7. p.prev = SizeOfPart(k, n) /\ p.req = SizeOf[body]
    BY <2>3
  <2> HIDE DEF p, delta, prev
  <2>8. /\ sessions'[k] = [sessions[k] EXCEPT !.pending[n] = p]
        /\ \A j \in Keys \ {k} : sessions'[j] = sessions[j]
    BY <1>0, <2>6
  <2>9. /\ sessions'[k].parts = sessions[k].parts
        /\ sessions'[k].pending = [sessions[k].pending EXCEPT ![n] = p]
        /\ sessions[k].pending \in [Nos -> Pending \union {None}]
    BY <1>0, <2>8 DEF Session
  <2>10. sessions'[k] # None
    <3>1. sessions'[k] \in Session
      BY <1>0, <2>5, <2>8 DEF Session
    <3> QED
      BY <3>1, MultipartAssumption
  <2>11. \A m \in Nos \ {n} : HeldTerm(k, m)' = HeldTerm(k, m)
    BY <2>9 DEF HeldTerm, SizeOfPart, Contribution
  <2>12. HeldTerm(k, n)' = SizeOfPart(k, n) + Max0(SizeOf[body] - SizeOfPart(k, n))
    BY <2>5, <2>7, <2>9 DEF HeldTerm, SizeOfPart, Contribution
  <2>13. HeldTerm(k, n)' = HeldTerm(k, n) + delta /\ HeldTerm(k, n)' >= 0
    BY <2>1, <2>2, <2>4, <2>12 DEF HeldTerm, Max0
  <2> QED
    BY <2>2, <2>6, <2>8, <2>10, <2>11, <2>13, HeldLedger
<1>2. ASSUME NEW n \in Nos, NEW body \in Bodies, CommitMultipartPart(k, n, body)
      PROVE  LedgerInv'
  <2> DEFINE delta == -Max0(sessions[k].pending[n].prev - SizeOf[body])
             parts == WithParts(sessions[k].parts, Part(n, body))
  <2>1. SizeOf[body] \in Nat
    BY MultipartAssumption
  <2>2. SizeOfPart(k, n) \in Nat
    BY PartSizes DEF RowsInv
  <2>3. /\ sessions[k].pending[n] # None /\ sessions[k].pending[n].req = SizeOf[body]
        /\ sessions[k].pending[n].prev = SizeOfPart(k, n)
    BY <1>0, <1>2 DEF RowInv, CommitMultipartPart
  <2>4. HeldTerm(k, n) = SizeOfPart(k, n) + Max0(SizeOf[body] - SizeOfPart(k, n))
    BY <2>3 DEF HeldTerm, Contribution
  <2>5. delta = -Max0(SizeOfPart(k, n) - SizeOf[body]) /\ delta \in Int /\ ~(delta > 0)
    BY <2>1, <2>2, <2>3 DEF Max0
  <2>6. /\ sessions'[k] = [sessions[k] EXCEPT !.parts = parts, !.pending[n] = None]
        /\ \A j \in Keys \ {k} : sessions'[j] = sessions[j]
    BY <1>0, <1>2 DEF CommitMultipartPart
  <2>7. /\ reserved' = Max0(reserved + delta)
        /\ intents' = [intents EXCEPT ![k].reserved = Max0(@ + delta)]
        /\ UNCHANGED <<objects, storage>>
    BY <1>2 DEF CommitMultipartPart
  <2>8. Part(n, body) \in Assembled /\ DOMAIN Part(n, body) = {n} /\ Part(n, body)[n] = body
    BY AssembledIs DEF Part
  <2>9. sessions[k].parts \in Assembled /\ sessions[k].pending \in [Nos -> Pending \union {None}]
    BY <1>0 DEF Session
  <2>10. /\ parts \in Assembled /\ DOMAIN parts = DOMAIN sessions[k].parts \union {n}
         /\ parts[n] = body
         /\ \A m \in Nos \ {n} : m \in DOMAIN sessions[k].parts =>
                parts[m] = sessions[k].parts[m]
    BY <2>8, <2>9, PartsAdded
  <2> HIDE DEF parts, delta
  <2>11. /\ sessions'[k].parts = parts
         /\ sessions'[k].pending = [sessions[k].pending EXCEPT ![n] = None]
    BY <1>0, <2>6 DEF Session
  <2>12. sessions'[k] # None
    <3> DEFINE pending == [sessions[k].pending EXCEPT ![n] = None]
    <3>1. pending \in [Nos -> Pending \union {None}]
      BY <2>9
    <3>2. sessions'[k] = [sessions[k] EXCEPT !.parts = parts, !.pending = pending]
      BY <2>6
    <3> HIDE DEF pending
    <3>3. sessions'[k] \in Session
      BY <1>0, <2>10, <3>1, <3>2 DEF Session
    <3> QED
      BY <3>3, MultipartAssumption
  <2>13. \A m \in Nos \ {n} : HeldTerm(k, m)' = HeldTerm(k, m)
    BY <2>9, <2>10, <2>11 DEF HeldTerm, SizeOfPart, Contribution
  <2>14. HeldTerm(k, n)' = SizeOf[body]
    BY <2>1, <2>9, <2>10, <2>11 DEF HeldTerm, SizeOfPart, Contribution
  <2>15. HeldTerm(k, n)' = HeldTerm(k, n) + delta /\ HeldTerm(k, n)' >= 0
    BY <2>1, <2>2, <2>4, <2>5, <2>14 DEF Max0
  <2> QED
    BY <2>5, <2>6, <2>7, <2>12, <2>13, <2>15, HeldLedger
<1>3. CASE BeginCompleteMultipart(k) \/ FailMultipart(k)
  <2>1. PICK status \in {"completing", "error"} :
           /\ sessions' = [sessions EXCEPT ![k].status = status]
           /\ UNCHANGED <<objects, intents, storage, reserved>>
    BY <1>3 DEF BeginCompleteMultipart, FailMultipart
  <2>2. sessions'[k] = [sessions[k] EXCEPT !.status = status] /\ sessions'[k] \in Session
    BY <1>0, <2>1 DEF Session
  <2>3. /\ sessions'[k] # None /\ sessions'[k].parts = sessions[k].parts
        /\ sessions'[k].pending = sessions[k].pending
        /\ \A j \in Keys \ {k} : sessions'[j] = sessions[j]
    BY <1>0, <2>1, <2>2, MultipartAssumption DEF Session
  <2> QED
    BY <2>1, <2>3, QuietLedger
<1>4. CASE ActivateMultipart(k) \/ ResetMultipart(k)
  <2>1. /\ sessions'[k] \in Session /\ sessions'[k].parts = sessions[k].parts
        /\ sessions'[k].pending = sessions[k].pending
        /\ \A j \in Keys \ {k} : sessions'[j] = sessions[j]
    BY <1>0, <1>4 DEF ActivateMultipart, ResetMultipart, Session
  <2>2. /\ intents'[k] \in Intent /\ intents'[k].reserved = intents[k].reserved
        /\ \A j \in Keys \ {k} : intents'[j] = intents[j]
        /\ UNCHANGED <<objects, storage, reserved>>
    BY <1>0, <1>4 DEF ActivateMultipart, ResetMultipart, Intent, Session
  <2> QED
    BY <2>1, <2>2, QuietLedger, MultipartAssumption
<1> QED
  BY <1>1, <1>2, <1>3, <1>4 DEF OnSession

\* An intent that ends gives back what it holds, and its object's bytes become storage.
LEMMA EndsLedger ==
    ASSUME LedgerInv, RowsInv, RowsInv', NEW k \in Keys, intents[k] # None, Ends(k)
    PROVE  LedgerInv'
<1>0. /\ intents[k] \in Intent /\ intents[k].reserved = ReservedTerm(k)
      /\ ReservedTerm(k) \in Nat /\ ReservedTerm(k) <= reserved /\ reserved \in Nat
      /\ StoredTerm(k) \in Nat /\ StoredTerm(k) <= storage /\ storage \in Nat
      /\ Limit \in Nat /\ (Overflow \/ storage + reserved <= Limit)
  BY LedgerFacts DEF RowsInv, RowTypes
<1>1. /\ intents'[k] = None /\ sessions'[k] = None
      /\ reserved' = reserved - ReservedTerm(k) /\ ReservedTerm(k)' = 0
      /\ \A j \in Keys \ {k} : intents'[j] = intents[j] /\ sessions'[j] = sessions[j]
  BY <1>0 DEF Ends, Release, CommitWrite, Max0, ReservedTerm, RowsInv, RowTypes
<1>2. CASE Release(k)
  <2>1. UNCHANGED <<objects, storage>> /\ StoredTerm(k)' = StoredTerm(k)
    BY <1>2 DEF Release, StoredTerm
  <2> QED
    BY <1>0, <1>1, <2>1, LedgerMove
<1>3. ASSUME NEW body \in Assembled, CommitWrite(k, body) PROVE LedgerInv'
  <2>1. BytesOf(body) \in Nat /\ BytesOf(body) <= ReservedTerm(k)
    BY <1>0, <1>3, BytesType DEF CommitWrite, CommitAllowed
  <2>2. storage' = storage + BytesOf(body) - StoredTerm(k)
    BY <1>0, <1>3, <2>1 DEF CommitWrite, StoredTerm, Max0
  <2>3. /\ \A j \in Keys \ {k} : objects'[j] = objects[j]
        /\ StoredTerm(k)' = BytesOf(body)
    <3> DEFINE object == [id |-> intents[k].id, body |-> body]
    <3>1. objects' = [objects EXCEPT ![k] = object]
      BY <1>3 DEF CommitWrite
    <3>2. object \in Object /\ object.body = body
      BY <1>0 DEF Object, Intent
    <3> HIDE DEF object
    <3> QED
      BY <3>1, <3>2, MultipartAssumption DEF StoredTerm, RowsInv, RowTypes
  <2> QED
    BY <1>0, <1>1, <2>1, <2>2, <2>3, LedgerMove
<1> QED
  BY <1>2, <1>3 DEF Ends

\* The counters stay the sums of the rows.
LEMMA LedgerStep ==
    ASSUME ShapeInv, LedgerInv, IndexStep
    PROVE  LedgerInv'
<1>1. RowsInv /\ RowsInv'
  BY RowsStep DEF ShapeInv, TypeOK, RowsInv, RowTypes
<1>2. CASE UNCHANGED <<objects, intents, sessions, storage, reserved, nextId>>
  BY <1>2 DEF LedgerInv, PartsReserved, StoredBytes, ReservedBytes, Held, SizeOfPart, Contribution
<1>3. ASSUME NEW k \in Keys, IndexMove(k) PROVE LedgerInv'
  BY <1>1, <1>3, OpensLedger, OnIntentLedger, OnSessionLedger, EndsLedger DEF IndexMove
<1> QED
  BY <1>2, <1>3 DEF IndexStep, IndexStepOf

-----------------------------------------------------------------------------
(* Handlers keep to the steps of their operations.                         *)

\* A transaction touches the rows of one key.
LEMMA OtherRows ==
    ASSUME ShapeInv, NEW k \in Keys, IndexStepOf(k)
    PROVE  /\ \A j \in Keys \ {k} : /\ intents'[j] = intents[j] /\ sessions'[j] = sessions[j]
                                    /\ objects'[j] = objects[j]
           /\ nextId' \in 1..MaxIds + 1 /\ nextId' \in {nextId, nextId + 1}
<1>1. /\ objects \in [Keys -> Object \union {None}] /\ intents \in [Keys -> Intent \union {None}]
      /\ sessions \in [Keys -> Session \union {None}] /\ nextId \in 1..MaxIds + 1 /\ MaxIds \in Nat
  BY MultipartAssumption DEF ShapeInv, TypeOK
<1>2. CASE UNCHANGED <<objects, intents, sessions, storage, reserved, nextId>>
  BY <1>1, <1>2
<1>3. CASE Opens(k)
  BY <1>1, <1>3 DEF Opens, BeginWrite, Ids
<1>4. CASE OnIntent(k) /\ UNCHANGED nextId
  BY <1>1, <1>4 DEF OnIntent, EnsureWriteReservation, UpdateWriteState, InsertSession
<1>5. CASE OnSession(k) /\ UNCHANGED nextId
  BY <1>1, <1>5 DEF OnSession, ActivateMultipart, PrepareMultipartPart, CommitMultipartPart,
                    BeginCompleteMultipart, ResetMultipart, FailMultipart
<1>6. CASE Ends(k) /\ UNCHANGED nextId
  BY <1>1, <1>6 DEF Ends, Release, CommitWrite
<1> QED
  BY <1>2, <1>3, <1>4, <1>5, <1>6 DEF IndexStepOf, IndexMove

\* Where a step takes its handler.
HandlerMoves(k) ==
    /\ h' \in [Keys -> Handler] /\ \A j \in Keys \ {k} : h'[j] = h[j]
    /\ PlaceInv(k)'

\* No handler.
LEMMA IdleType == Idle \in Handler
<1>1. NoParts \in Assembled
  BY NoPartsAssembled
<1>2. [pc |-> "idle", flow |-> "none", want |-> NoParts, sent |-> 0]
         \in [pc : Steps, flow : Flows, want : Assembled, sent : Nat]
  BY <1>1 DEF Steps, Flows
<1> QED
  BY <1>2 DEF Idle, Handler

\* Going to a step.
LEMMA GotoIs ==
    ASSUME ShapeInv, NEW k \in Keys, NEW pc, NEW flow, Goto(k, pc, flow)
    PROVE  /\ \A j \in Keys \ {k} : h'[j] = h[j]
           /\ pc = "idle" => h'[k] = Idle
           /\ pc # "idle" => /\ h'[k].pc = pc /\ h'[k].flow = flow
                             /\ h'[k].want = h[k].want /\ h'[k].sent = h[k].sent
           /\ pc \in Steps /\ flow \in Flows => h' \in [Keys -> Handler]
<1>1. h \in [Keys -> Handler] /\ h[k] \in Handler
  BY DEF ShapeInv, TypeOK
<1>2. CASE pc = "idle"
  BY <1>1, <1>2, IdleType DEF Goto
<1>3. CASE pc # "idle"
  <2>1. h' = [h EXCEPT ![k] = [h[k] EXCEPT !.pc = pc, !.flow = flow]]
    BY <1>1, <1>3 DEF Goto
  <2>2. pc \in Steps /\ flow \in Flows => [h[k] EXCEPT !.pc = pc, !.flow = flow] \in Handler
    BY <1>1 DEF Handler
  <2>3. h'[k] = [h[k] EXCEPT !.pc = pc, !.flow = flow] /\ \A j \in Keys \ {k} : h'[j] = h[j]
    BY <1>1, <2>1
  <2>4. /\ h'[k].pc = pc /\ h'[k].flow = flow
        /\ h'[k].want = h[k].want /\ h'[k].sent = h[k].sent
    BY <1>1, <2>3 DEF Handler
  <2> QED
    BY <1>1, <1>3, <2>1, <2>2, <2>3, <2>4
<1> QED
  BY <1>2, <1>3

\* Staying in the operation.
LEMMA StayIs ==
    ASSUME ShapeInv, NEW k \in Keys, NEW pc \in Steps, Stay(k, pc)
    PROVE  /\ h' \in [Keys -> Handler] /\ \A j \in Keys \ {k} : h'[j] = h[j]
           /\ pc = "idle" => h'[k] = Idle
           /\ pc # "idle" => /\ h'[k].pc = pc /\ h'[k].flow = h[k].flow
                             /\ h'[k].want = h[k].want /\ h'[k].sent = h[k].sent
<1>1. h[k].flow \in Flows
  BY DEF ShapeInv, TypeOK, Handler
<1> QED
  BY <1>1, GotoIs DEF Stay

\* A handler that is done makes no claim on the rows.
LEMMA PlaceIdle ==
    ASSUME NEW k \in Keys, h'[k] = Idle
    PROVE  PlaceInv(k)'
BY DEF PlaceInv, Route, Goes, Idle


\* A transaction on an intent leaves it there, and the session as it was.
LEMMA IntentStays ==
    ASSUME ShapeInv, NEW k \in Keys, intents[k] # None,
           \/ UNCHANGED index
           \/ \E total \in Nat : EnsureWriteReservation(k, total)
           \/ \E state \in {"completing", "uploading", "consumed", "aborting", "recovery"},
                 known \in BOOLEAN : UpdateWriteState(k, state, known)
    PROVE  intents'[k] # None /\ intents'[k] \in Intent /\ sessions' = sessions
           /\ objects' = objects /\ intents'[k].id = intents[k].id
<1>0. intents \in [Keys -> Intent \union {None}] /\ intents[k] \in Intent
  BY DEF ShapeInv, TypeOK
<1>1. ASSUME NEW total \in Nat, EnsureWriteReservation(k, total)
      PROVE  intents'[k] \in Intent /\ sessions' = sessions /\ objects' = objects
             /\ intents'[k].id = intents[k].id
  <2> DEFINE delta == Max0(total - intents[k].reserved)
  <2>1. delta \in Nat
    BY <1>0 DEF Max0, Intent
  <2>2. intents' = [intents EXCEPT ![k].reserved = @ + delta]
        /\ UNCHANGED <<objects, sessions, storage>>
    BY <1>1 DEF EnsureWriteReservation
  <2> HIDE DEF delta
  <2> QED
    BY <1>0, <2>1, <2>2 DEF Intent
<1>2. ASSUME NEW state \in {"completing", "uploading", "consumed", "aborting", "recovery"},
             NEW known \in BOOLEAN, UpdateWriteState(k, state, known)
      PROVE  intents'[k] \in Intent /\ sessions' = sessions /\ objects' = objects
             /\ intents'[k].id = intents[k].id
  BY <1>0, <1>2 DEF UpdateWriteState, Intent
<1>3. CASE UNCHANGED index
  BY <1>0, <1>3 DEF index
<1> QED
  BY <1>0, <1>1, <1>2, <1>3, MultipartAssumption

\* The steps that create an upload.
LEMMA CreatePlaces ==
    ASSUME ShapeInv, NEW k \in Keys, Insert(k) \/ Activate(k) \/ CreateFailed(k) \/ MarkUploading(k)
    PROVE  HandlerMoves(k)
<1> USE DEF Steps, Flows
<1>0. /\ h[k] \in Handler /\ Route(h[k]) /\ PlaceInv(k) /\ RowInv(k)
      /\ h[k].pc # "idle" => intents[k] # None /\ intents[k] \in Intent
      /\ sessions \in [Keys -> Session \union {None}]
  BY Places DEF ShapeInv, TypeOK
<1>1. CASE Insert(k)
  <2>1. h[k].pc = "insert" /\ h[k].flow = "create" /\ intents[k] # None /\ sessions[k] = None
    BY <1>0, <1>1 DEF Insert, At, Route, Goes, Idle, PlaceInv
  <2>2. CASE InsertSession(k) /\ Stay(k, "create")
    <3> DEFINE s == [id |-> intents[k].id, status |-> "initiating", known |-> FALSE,
                     parts |-> NoParts, pending |-> [n \in Nos |-> None]]
    <3>1. s \in Session /\ s.status = "initiating"
      BY <1>0, <2>1, NoPartsAssembled DEF Session, Intent
    <3>2. sessions'[k] = s /\ intents' = intents
      BY <1>0, <2>2 DEF InsertSession
    <3> HIDE DEF s
    <3>3. sessions'[k] # None /\ sessions'[k].status = "initiating" /\ intents'[k] # None
      BY <2>1, <3>1, <3>2, MultipartAssumption
    <3>4. h'[k].pc = "create" /\ h'[k].flow = "create"
      BY <2>1, <2>2, StayIs
    <3>5. PlaceInv(k)'
      BY <3>3, <3>4 DEF PlaceInv, Route, Goes, Begun, Idle
    <3> QED
      BY <2>2, <3>5, StayIs DEF HandlerMoves
  <2>3. CASE Stay(k, "release") /\ UNCHANGED index
    <3>1. h'[k].pc = "release" /\ h'[k].flow = "create" /\ sessions'[k] = None /\ intents'[k] # None
      BY <2>1, <2>3, StayIs DEF index
    <3>2. PlaceInv(k)'
      BY <3>1 DEF PlaceInv, Route, Goes, Begun, Idle
    <3> QED
      BY <2>3, <3>2, StayIs DEF HandlerMoves
  <2> QED
    BY <1>1, <2>2, <2>3 DEF Insert, Transaction
<1>2. CASE Activate(k)
  <2>1. h[k].pc = "activate" /\ h[k].flow = "create" /\ intents[k] # None /\ Begun(k)
    BY <1>0, <1>2 DEF Activate, At, Route, Goes, Idle, PlaceInv
  <2>2. CASE Stay(k, "idle")
    BY <2>2, StayIs, PlaceIdle DEF HandlerMoves
  <2>3. CASE Goto(k, "abort", "unstarted") /\ UNCHANGED index
    <3>1. h'[k].pc = "abort" /\ h'[k].flow = "unstarted" /\ intents'[k] # None /\ Begun(k)'
      BY <2>1, <2>3, GotoIs DEF index, Begun
    <3>2. PlaceInv(k)'
      BY <3>1 DEF PlaceInv, Route, Goes, Begun, Idle
    <3> QED
      BY <2>3, <3>2, GotoIs DEF HandlerMoves
  <2> QED
    BY <1>2, <2>2, <2>3 DEF Activate
<1>3. CASE CreateFailed(k)
  <2>1. h[k].pc = "failed" /\ h[k].flow = "create" /\ intents[k] # None /\ sessions[k] # None
    BY <1>0, <1>3 DEF CreateFailed, At, Route, Goes, Idle, PlaceInv
  <2>2. Stay(k, "hold") /\ intents' = intents
    BY <1>3 DEF CreateFailed, Transaction, FailMultipart, index
  <2>3. h'[k].pc = "hold" /\ h'[k].flow = "create" /\ intents'[k] # None
    BY <2>1, <2>2, StayIs
  <2>4. PlaceInv(k)'
    BY <2>3 DEF PlaceInv, Route, Goes, Idle
  <2> QED
    BY <2>2, <2>4, StayIs DEF HandlerMoves
<1>4. CASE MarkUploading(k)
  <2>1. h[k].pc = "markUploading" /\ h[k].flow = "putstart" /\ intents[k] # None
        /\ sessions[k] = None /\ ChunksInOrder(h[k])
    BY <1>0, <1>4 DEF MarkUploading, At, Route, Goes, Idle, PlaceInv
  <2>2. UNCHANGED index \/ UpdateWriteState(k, "uploading", TRUE)
    BY <1>4 DEF MarkUploading
  <2>3. intents'[k] # None /\ sessions'[k] = None
    BY <2>1, <2>2, IntentStays
  <2>4. CASE Goto(k, "chunk", "put")
    <3>1. /\ h'[k].pc = "chunk" /\ h'[k].flow = "put"
          /\ h'[k].want = h[k].want /\ h'[k].sent = h[k].sent
      BY <2>4, GotoIs
    <3>2. ChunksInOrder(h'[k])
      BY <2>1, <3>1 DEF ChunksInOrder
    <3>3. PlaceInv(k)'
      BY <2>3, <3>1, <3>2 DEF PlaceInv, Route, Goes, Idle
    <3> QED
      BY <2>4, <3>3, GotoIs DEF HandlerMoves
  <2>5. CASE Goto(k, "abort", "unstarted")
    <3>1. h'[k].pc = "abort" /\ h'[k].flow = "unstarted"
      BY <2>5, GotoIs
    <3>2. PlaceInv(k)'
      BY <2>3, <3>1 DEF PlaceInv, Route, Goes, Idle, Begun
    <3> QED
      BY <2>5, <3>2, GotoIs DEF HandlerMoves
  <2> QED
    BY <1>4, <2>4, <2>5 DEF MarkUploading
<1> QED
  BY <1>1, <1>2, <1>3, <1>4

\* The other statements on sessions, and the end of an operation.
LEMMA SessionPlaces ==
    ASSUME ShapeInv, NEW k \in Keys, KeepPart(k) \/ Restore(k) \/ AbortRows(k) \/ Commit(k)
    PROVE  HandlerMoves(k)
<1> USE DEF Steps, Flows
<1>0. /\ h[k] \in Handler /\ Route(h[k]) /\ PlaceInv(k) /\ RowInv(k)
      /\ h[k].pc # "idle" => intents[k] # None /\ intents[k] \in Intent
  BY Places DEF ShapeInv, TypeOK
<1>1. CASE KeepPart(k) \/ AbortRows(k)
  <2>1. Stay(k, "idle")
    BY <1>1 DEF KeepPart, AbortRows, Transaction
  <2> QED
    BY <2>1, StayIs, PlaceIdle DEF HandlerMoves
<1>2. CASE Restore(k)
  <2>1. h[k].pc = "restore" /\ intents[k] # None /\ h[k].flow \in {"complete", "resolve", "recover"}
    BY <1>0, <1>2 DEF Restore, At, Route, Goes, Idle
  <2>2. CASE Stay(k, "idle")
    BY <2>2, StayIs, PlaceIdle DEF HandlerMoves
  <2>3. CASE Stay(k, "hold") /\ UNCHANGED index
    <3>1. /\ h'[k].pc = "hold" /\ h'[k].flow = h[k].flow /\ intents'[k] # None
          /\ sessions'[k] = sessions[k]
      BY <2>1, <2>3, StayIs DEF index
    <3>2. PlaceInv(k)'
      BY <1>0, <2>1, <3>1 DEF PlaceInv, Route, Goes, Idle
    <3> QED
      BY <2>3, <3>2, StayIs DEF HandlerMoves
  <2> QED
    BY <1>2, <2>2, <2>3 DEF Restore, Transaction
<1>3. CASE Commit(k)
  <2>1. /\ h[k].pc = "commit" /\ intents[k] # None
        /\ h[k].flow \in {"put", "complete", "resolve", "putresolve", "consumed", "abort",
                          "expire", "recover"}
    BY <1>0, <1>3 DEF Commit, At, Route, Goes, Idle
  <2>2. CASE Stay(k, "idle")
    BY <2>2, StayIs, PlaceIdle DEF HandlerMoves
  <2>3. CASE Stay(k, "hold") /\ UNCHANGED index
    <3>1. /\ h'[k].pc = "hold" /\ h'[k].flow = h[k].flow /\ intents'[k] # None
          /\ sessions'[k] = sessions[k] /\ h'[k].want = h[k].want /\ h'[k].sent = h[k].sent
      BY <2>1, <2>3, StayIs DEF index
    <3>2. ChunksInOrder(h[k]) => ChunksInOrder(h'[k])
      BY <3>1 DEF ChunksInOrder
    <3>3. PlaceInv(k)'
      BY <1>0, <2>1, <3>1, <3>2 DEF PlaceInv, Route, Goes, Idle
    <3> QED
      BY <2>3, <3>3, StayIs DEF HandlerMoves
  <2> QED
    BY <1>3, <2>2, <2>3 DEF Commit, UnlessCommitted
<1> QED
  BY <1>1, <1>2, <1>3

\* The chunks of a chunked upload.
LEMMA ChunkPlaces ==
    ASSUME ShapeInv, NEW k \in Keys, Chunk(k)
    PROVE  HandlerMoves(k)
<1> USE DEF Steps, Flows
<1>0. /\ h[k] \in Handler /\ Route(h[k]) /\ PlaceInv(k)
      /\ h[k].pc # "idle" => intents[k] # None /\ intents[k] \in Intent
  BY Places DEF ShapeInv, TypeOK
<1>1. h[k].pc = "chunk" /\ h[k].flow = "put" /\ intents[k] # None /\ sessions[k] = None
  BY <1>0 DEF Chunk, At, Route, Goes, Idle, PlaceInv
<1>2. ChunksInOrder(h[k])
  BY <1>0, <1>1 DEF PlaceInv
<1>3. PICK n \in Nos : DOMAIN h[k].want = 1..n /\ h[k].sent \in 0..n
  BY <1>2 DEF ChunksInOrder
<1>4. n \in Nat /\ h[k].sent \in Nat
  BY <1>0, NosBelow DEF Handler
<1>5. intents'[k] # None /\ sessions'[k] = None
  <2>1. CASE UNCHANGED index
    BY <1>1, <2>1 DEF index
  <2>2. CASE /\ h[k].sent + 1 \in DOMAIN h[k].want
             /\ EnsureWriteReservation(k, Total(h[k].want, h[k].sent + 1))
    <3>1. intents' = [intents EXCEPT ![k].reserved =
             @ + Max0(Total(h[k].want, h[k].sent + 1) - intents[k].reserved)]
          /\ sessions' = sessions
      BY <2>2 DEF EnsureWriteReservation
    <3> DEFINE i == h[k].sent + 1
    <3>2. h[k].want \in Assembled /\ i \in Nat /\ 1..i \subseteq DOMAIN h[k].want
      BY <1>0, <1>3, <1>4, <2>2 DEF Handler
    <3>3. Total(h[k].want, i) \in Nat
      BY <3>2, TotalType
    <3> HIDE DEF i
    <3> QED
      BY <1>1, <2>2, <3>3, IntentStays DEF i
  <2> QED
    BY <2>1, <2>2 DEF Chunk
<1>6. \/ h[k].sent + 1 \in DOMAIN h[k].want /\ Stay(k, "send")
      \/ Stay(k, "markCompleting") \/ Stay(k, "markAborting")
  BY DEF Chunk
<1>7. PICK pc \in {"send", "markCompleting", "markAborting"} :
         Stay(k, pc) /\ (pc = "send" => h[k].sent + 1 \in DOMAIN h[k].want)
  BY <1>6
<1>8. /\ h'[k].pc = pc /\ h'[k].flow = "put" /\ h'[k].want = h[k].want /\ h'[k].sent = h[k].sent
      /\ h' \in [Keys -> Handler] /\ \A j \in Keys \ {k} : h'[j] = h[j]
  BY <1>1, <1>7, StayIs
<1>9. ChunksInOrder(h'[k])
  BY <1>3, <1>4, <1>7, <1>8 DEF ChunksInOrder
<1>10. PlaceInv(k)'
  BY <1>5, <1>7, <1>8, <1>9 DEF PlaceInv, Route, Goes, Idle
<1> QED
  BY <1>8, <1>10 DEF HandlerMoves

\* The steps that give an intent its state.
LEMMA MarkPlaces ==
    ASSUME ShapeInv, NEW k \in Keys, Mark(k)
    PROVE  HandlerMoves(k)
<1> USE DEF Steps, Flows
<1>0. /\ h[k] \in Handler /\ Route(h[k]) /\ PlaceInv(k)
      /\ h[k].pc # "idle" => intents[k] # None /\ intents[k] \in Intent
  BY Places DEF ShapeInv, TypeOK
<1>1. /\ h[k].pc \in {"markCompleting", "markEtag", "markConsumed", "markConflict",
                      "markAborting", "markRecovering", "hold"}
      /\ StateAt[h[k].pc] \in {"completing", "uploading", "consumed", "aborting", "recovery"}
  BY Marks DEF Mark
<1>2. intents'[k] # None /\ sessions'[k] = sessions[k]
  <2>1. MarkKnows(k) \in BOOLEAN
    BY DEF MarkKnows, In
  <2>2. UpdateWriteState(k, StateAt[h[k].pc], MarkKnows(k)) \/ UNCHANGED index
    BY DEF Mark, Transaction
  <2> QED
    BY <1>0, <1>1, <2>1, <2>2, IntentStays
<1>3. Stay(k, AfterMark[h[k].pc]) \/ Stay(k, UnlessMarked(k))
  BY DEF Mark, Transaction
<1>4. ASSUME NEW pc \in Steps, Stay(k, pc), pc # "idle",
             \/ h[k].pc = "markCompleting" /\ pc \in {"complete", "restore", "markAborting"}
                /\ (pc = "markAborting" <=> pc # "complete" /\ h[k].flow = "put")
             \/ h[k].pc = "markEtag" /\ pc \in {"commit", "hold"}
             \/ h[k].pc = "markConsumed" /\ pc = "head"
             \/ h[k].pc = "markConflict" /\ pc = "release"
             \/ h[k].pc = "markAborting" /\ pc = "abort"
             \/ h[k].pc = "markRecovering" /\ pc = "head"
      PROVE  HandlerMoves(k)
  <2>1. /\ h'[k].pc = pc /\ h'[k].flow = h[k].flow /\ h'[k].want = h[k].want
        /\ h'[k].sent = h[k].sent
        /\ h' \in [Keys -> Handler] /\ \A j \in Keys \ {k} : h'[j] = h[j]
    BY <1>4, StayIs
  <2>2. ChunksInOrder(h[k]) => ChunksInOrder(h'[k])
    BY <1>4, <2>1 DEF ChunksInOrder
  <2>3. Route(h'[k])
    BY <1>0, <1>4, <2>1 DEF Route, Goes, Idle
  <2>4. /\ h[k].flow \notin {"part", "create", "unstarted", "putstart"}
        /\ pc = "restore" => h[k].flow = "complete"
        /\ pc # "insert" /\ h[k] # Idle
    BY <1>0, <1>1, <1>4 DEF Route, Goes, Idle
  <2>5. PlaceInv(k)'
    <3>1. h[k].flow \in {"complete", "resolve"} \/ pc = "restore"
             => sessions[k] # None /\ sessions[k].status = "completing"
      BY <1>0, <2>4 DEF PlaceInv
    <3>2. /\ h[k].flow \in {"part", "complete", "resolve", "consumed", "abort", "expire"}
                => sessions[k] # None
          /\ h[k].flow \in {"putstart", "put", "putresolve"} => sessions[k] = None
          /\ h[k].flow \in {"putstart", "put"} => ChunksInOrder(h[k])
      BY <1>0 DEF PlaceInv
    <3> QED
      BY <1>2, <2>1, <2>2, <2>3, <2>4, <3>1, <3>2 DEF PlaceInv
  <2> QED
    BY <2>1, <2>5 DEF HandlerMoves
<1>5. CASE Stay(k, "idle")
  BY <1>5, StayIs, PlaceIdle DEF HandlerMoves
<1>6. CASE Stay(k, AfterMark[h[k].pc])
  BY <1>1, <1>4, <1>5, <1>6, Marks
<1>7. CASE Stay(k, UnlessMarked(k))
  BY <1>0, <1>1, <1>4, <1>5, <1>7 DEF UnlessMarked, At, In, Route, Goes, Idle
<1> QED
  BY <1>3, <1>6, <1>7

\* Where a call to R2 takes its handler: the rows are as they were.
LEMMA CallPlaces ==
    ASSUME ShapeInv, NEW k \in Keys, intents[k] # None, sessions' = sessions, intents' = intents,
           h[k].pc # "idle", NEW pc \in Steps, pc \notin {"idle", "insert"}, NEW flow \in Flows,
           Goto(k, pc, flow),
           Goes(pc, flow),
           \/ flow = h[k].flow
           \/ h[k].flow = "put" /\ flow = "putresolve"
           \/ h[k].flow = "complete" /\ flow \in {"resolve", "consumed"},
           h[k].flow # "part",
           pc = "restore" => \/ h[k].flow \in {"complete", "resolve"}
                             \/ h[k].flow = "recover" /\ Completing(k),
           pc # "send",
           flow = "create" => h[k].pc # "hold" /\ (pc \in {"create", "activate", "failed"}
                                                      => h[k].pc \in {"create", "activate"})
    PROVE  HandlerMoves(k)
<1>0. h[k] \in Handler /\ Route(h[k]) /\ PlaceInv(k)
  BY Places DEF ShapeInv
<1>1. /\ h'[k].pc = pc /\ h'[k].flow = flow /\ h'[k].want = h[k].want /\ h'[k].sent = h[k].sent
      /\ h' \in [Keys -> Handler] /\ \A j \in Keys \ {k} : h'[j] = h[j]
  <2>1. pc \in Steps /\ pc # "idle"
    OBVIOUS
  <2> QED
    BY <2>1, GotoIs
<1>2. Route(h'[k])
  BY <1>1 DEF Route
<1>3. ChunksInOrder(h[k]) => ChunksInOrder(h'[k])
  BY <1>1 DEF ChunksInOrder
<1>4. /\ h[k] # Idle
      /\ flow \in {"part", "complete", "resolve", "consumed", "abort", "expire"}
            => sessions[k] # None
      /\ flow \in {"putstart", "put", "putresolve"} => sessions[k] = None
      /\ flow \in {"putstart", "put"} => ChunksInOrder(h[k])
      /\ flow \in {"create", "unstarted"} => Begun(k)
      /\ flow \in {"complete", "resolve"} \/ pc = "restore"
            => sessions[k] # None /\ sessions[k].status = "completing"
      /\ flow = "create" /\ pc \in {"create", "activate", "failed"} => sessions[k] # None
  BY <1>0 DEF PlaceInv, Idle, Route, Goes, Completing
<1>5. flow # "part"
  BY <1>0, <1>1, <1>2 DEF Route, Goes, Idle
<1>6. Begun(k) => Begun(k)'
  BY DEF Begun
<1>7. PlaceInv(k)'
  BY <1>1, <1>2, <1>3, <1>4, <1>5, <1>6 DEF PlaceInv
<1> QED
  BY <1>1, <1>7 DEF HandlerMoves

\* Where the answer to a creation leads.
LEMMA RemoteCreatePlaces ==
    ASSUME ShapeInv, NEW k \in Keys, RemoteCreate(k)
    PROVE  HandlerMoves(k)
<1>0. /\ h[k].pc = "create" /\ h[k].flow \in {"create", "putstart"} /\ intents[k] # None
      /\ h[k].flow \in Flows /\ intents' = intents /\ sessions' = sessions
  BY Places DEF RemoteCreate, At, Route, Goes, Idle, Handler, index
<1>1. PICK pc \in {"activate", "markUploading", "release", "failed"} :
         /\ Goto(k, pc, h[k].flow)
         /\ pc = "activate" => h[k].flow = "create"
         /\ pc = "markUploading" => h[k].flow = "putstart"
         /\ pc = "failed" => h[k].flow = "create"
  <2>1. CASE Stay(k, IF In(k, {"create"}) THEN "activate" ELSE "markUploading")
    BY <1>0, <2>1 DEF Stay, In
  <2>2. CASE Refused(k, "release", h[k].flow)
    BY <1>0, <2>2 DEF Refused
  <2>3. CASE In(k, {"create"}) /\ Refused(k, "failed", "create")
    BY <1>0, <2>3 DEF Refused, In
  <2> QED
    BY <2>1, <2>2, <2>3 DEF RemoteCreate
<1>2. pc \in Steps
  BY DEF Steps
<1> QED
  BY <1>0, <1>1, <1>2, CallPlaces DEF Goes

\* Where the answer to a part leads.
LEMMA RemotePartPlaces ==
    ASSUME ShapeInv, NEW k \in Keys, RemotePart(k)
    PROVE  HandlerMoves(k)
<1>0. /\ h[k].pc = "send" /\ h[k].flow \in {"part", "put"} /\ intents[k] # None
      /\ h[k].flow \in Flows /\ intents' = intents /\ sessions' = sessions
      /\ h[k] \in Handler /\ PlaceInv(k) /\ h \in [Keys -> Handler]
  BY Places DEF RemotePart, At, Route, Goes, Idle, Handler, index, ShapeInv, TypeOK
<1>1. CASE h' = [h EXCEPT ![k].pc = IF In(k, {"part"}) THEN "keep" ELSE "chunk",
                          ![k].sent = IF In(k, {"part"}) THEN 0 ELSE @ + 1]
  <2>1. h[k].sent \in Nat
    BY <1>0 DEF Handler
  <2>2. PICK pc \in {"keep", "chunk"}, sent \in {0, h[k].sent + 1} :
           /\ h' = [h EXCEPT ![k].pc = pc, ![k].sent = sent]
           /\ pc = "keep" <=> h[k].flow = "part"
           /\ h[k].flow = "put" => sent = h[k].sent + 1
    BY <1>0, <1>1 DEF In
  <2>3. pc \in Steps /\ sent \in Nat
    BY <2>1 DEF Steps
  <2>4. h'[k] = [h[k] EXCEPT !.pc = pc, !.sent = sent] /\ h'[k] \in Handler
    BY <1>0, <2>2, <2>3 DEF Handler
  <2>5. /\ h'[k].pc = pc /\ h'[k].flow = h[k].flow /\ h'[k].want = h[k].want /\ h'[k].sent = sent
        /\ h' \in [Keys -> Handler] /\ \A j \in Keys \ {k} : h'[j] = h[j]
    BY <1>0, <2>2, <2>4 DEF Handler
  <2>6. h[k].flow = "part" => OnePart(h'[k]) /\ sessions[k] # None
    BY <1>0, <2>5 DEF PlaceInv, OnePart
  <2>7. h[k].flow = "put" => ChunksInOrder(h'[k]) /\ sessions[k] = None
    <3>1. SUFFICES ASSUME h[k].flow = "put" PROVE ChunksInOrder(h'[k]) /\ sessions[k] = None
      OBVIOUS
    <3>2. ChunksInOrder(h[k]) /\ sessions[k] = None
      BY <1>0, <3>1 DEF PlaceInv
    <3>3. PICK n \in Nos : DOMAIN h[k].want = 1..n /\ h[k].sent \in 0..n /\ h[k].sent < n
      BY <1>0, <3>2 DEF ChunksInOrder
    <3>4. sent \in 0..n
      BY <2>1, <2>2, <3>1, <3>3, NosBelow
    <3> QED
      BY <2>2, <2>5, <3>1, <3>2, <3>3, <3>4 DEF ChunksInOrder
  <2>8. PlaceInv(k)'
    BY <1>0, <2>2, <2>5, <2>6, <2>7 DEF PlaceInv, Route, Goes, Idle
  <2> QED
    BY <2>5, <2>8 DEF HandlerMoves
<1>2. CASE Stay(k, IF In(k, {"part"}) THEN "idle" ELSE "markAborting")
  <2>1. CASE h[k].flow = "part"
    <3>1. Stay(k, "idle") /\ "idle" \in Steps
      BY <1>2, <2>1 DEF In, Steps
    <3> QED
      BY <3>1, StayIs, PlaceIdle DEF HandlerMoves
  <2>2. CASE h[k].flow = "put"
    <3>1. Goto(k, "markAborting", h[k].flow) /\ "markAborting" \in Steps
      BY <1>2, <2>2 DEF In, Steps, Stay
    <3> QED
      BY <1>0, <2>2, <3>1, CallPlaces DEF Goes
  <2> QED
    BY <1>0, <2>1, <2>2
<1> QED
  BY <1>1, <1>2 DEF RemotePart, Unanswered, Stay

\* Where the answer to a completion leads.
LEMMA RemoteCompletePlaces ==
    ASSUME ShapeInv, NEW k \in Keys, RemoteComplete(k)
    PROVE  HandlerMoves(k)
<1>0. /\ h[k].pc = "complete" /\ h[k].flow \in {"put", "complete"} /\ intents[k] # None
      /\ h[k].flow \in Flows /\ intents' = intents /\ sessions' = sessions
  BY Places DEF RemoteComplete, At, Route, Goes, Idle, Handler, index
<1>1. PICK pc \in {"markEtag", "head", "markConsumed", "markAborting", "restore", "markConflict"},
           flow \in {"put", "complete", "putresolve", "resolve", "consumed"} :
         /\ Goto(k, pc, flow) /\ Goes(pc, flow)
         /\ \/ flow = h[k].flow
            \/ h[k].flow = "put" /\ flow = "putresolve"
            \/ h[k].flow = "complete" /\ flow \in {"resolve", "consumed"}
         /\ pc = "restore" => h[k].flow = "complete"
  <2>1. CASE Serve(k, "complete", "markEtag", h[k].flow)
    BY <1>0, <2>1 DEF Serve, Goes
  <2>2. CASE IF In(k, {"put"}) THEN Goto(k, "head", "putresolve")
             ELSE Goto(k, "markConsumed", "consumed")
    BY <1>0, <2>2 DEF In, Goes
  <2>3. CASE Goto(k, "head", Resolving(k))
    BY <1>0, <2>3 DEF Resolving, In, Goes
  <2>4. CASE Refused(k, IF In(k, {"put"}) THEN "markAborting" ELSE "restore", h[k].flow)
    BY <1>0, <2>4 DEF Refused, In, Goes
  <2>5. CASE Stay(k, IF In(k, {"put"}) THEN "markAborting" ELSE "markConflict")
    BY <1>0, <2>5 DEF Stay, In, Goes
  <2> QED
    BY <2>1, <2>2, <2>3, <2>4, <2>5 DEF RemoteComplete, Unanswered
<1>2. pc \in Steps /\ flow \in Flows
  BY DEF Steps, Flows
<1>3. /\ pc # "send" /\ flow # "create" /\ h[k].flow # "part" /\ h[k].pc # "idle"
      /\ pc \notin {"idle", "insert"}
      /\ pc = "restore" => \/ h[k].flow \in {"complete", "resolve"}
                           \/ h[k].flow = "recover" /\ Completing(k)
  BY <1>0, <1>1
<1>4. Goto(k, pc, flow) /\ Goes(pc, flow)
  BY <1>1
<1>5. \/ flow = h[k].flow
      \/ h[k].flow = "put" /\ flow = "putresolve"
      \/ h[k].flow = "complete" /\ flow \in {"resolve", "consumed"}
  BY <1>1
<1> HIDE <1>1
<1> QED
  BY <1>0, <1>2, <1>3, <1>4, <1>5, CallPlaces

\* Where the answer to an abort leads.
LEMMA RemoteAbortPlaces ==
    ASSUME ShapeInv, NEW k \in Keys, RemoteAbort(k)
    PROVE  HandlerMoves(k)
<1>0. /\ h[k].pc = "abort" /\ intents[k] # None
      /\ h[k].flow \in {"unstarted", "put", "putresolve", "consumed", "abort", "expire", "recover"}
      /\ h[k].flow \in Flows /\ intents' = intents /\ sessions' = sessions
  BY Places DEF RemoteAbort, At, Route, Goes, Idle, Handler, index
<1>1. PICK pc \in {"release", "classify", "idle", "hold"} :
         Goto(k, pc, h[k].flow) /\ (pc = "idle" \/ Goes(pc, h[k].flow))
  <2>1. CASE Serve(k, "abort", IF In(k, {"unstarted", "put"}) THEN "release" ELSE "classify",
                   h[k].flow)
    BY <1>0, <2>1 DEF Serve, Goes, In
  <2>2. CASE Unanswered(k, Message(k, "abort"),
                        IF In(k, {"expire", "consumed", "put"}) THEN "idle" ELSE "hold", h[k].flow)
    BY <1>0, <2>2 DEF Unanswered, Goes, In
  <2> QED
    BY <2>1, <2>2 DEF RemoteAbort
<1>2. pc \in Steps
  BY DEF Steps
<1>3. CASE pc = "idle"
  BY <1>0, <1>1, <1>2, <1>3, GotoIs, PlaceIdle DEF HandlerMoves
<1>4. CASE pc # "idle"
  <2>1. h[k].flow \notin {"part", "create"} /\ pc \notin {"restore", "send", "insert"}
    BY <1>0, <1>1
  <2> QED
    BY <1>0, <1>1, <1>2, <1>4, <2>1, CallPlaces
<1> QED
  BY <1>3, <1>4

\* Where what a HEAD shows leads.
LEMMA HeadPlaces ==
    ASSUME ShapeInv, NEW k \in Keys, Head(k)
    PROVE  HandlerMoves(k)
<1>0. /\ h[k].pc \in {"head", "classify"} /\ intents[k] # None /\ Goes(h[k].pc, h[k].flow)
      /\ h[k].flow \in Flows /\ intents' = intents /\ sessions' = sessions
      /\ h[k] \in Handler /\ PlaceInv(k) /\ h \in [Keys -> Handler]
      /\ stored[k] \in Object \union {None}
  BY Places DEF Head, Route, Idle, Handler, index, ShapeInv, TypeOK
<1>1. /\ h[k].flow \in {"resolve", "putresolve", "consumed", "abort", "expire", "recover"}
      /\ h[k].flow \notin {"put", "complete", "part", "create", "unstarted"}
  BY <1>0 DEF Goes
<1>2. CASE /\ Verdict(k) = "published"
           /\ h' = [h EXCEPT ![k].pc = "commit", ![k].want = stored[k].body]
  <2>1. stored[k] # None
    BY <1>2 DEF Verdict
  <2>2. stored[k].body \in Assembled
    BY <1>0, <2>1 DEF Object
  <2>3. h'[k] = [h[k] EXCEPT !.pc = "commit", !.want = stored[k].body] /\ "commit" \in Steps
    BY <1>0, <1>2 DEF Steps
  <2>4. h'[k] \in Handler /\ h'[k].pc = "commit" /\ h'[k].flow = h[k].flow
    BY <1>0, <2>2, <2>3 DEF Handler
  <2>5. PlaceInv(k)'
    <3>1. /\ h[k].flow \in {"resolve", "consumed", "abort", "expire"} => sessions[k] # None
          /\ h[k].flow = "putresolve" => sessions[k] = None
          /\ h[k].flow = "resolve" => sessions[k].status = "completing"
      BY <1>0 DEF PlaceInv
    <3> QED
      BY <1>0, <1>1, <2>4, <3>1 DEF PlaceInv, Route, Goes
  <2> QED
    BY <1>0, <1>2, <2>4, <2>5 DEF HandlerMoves
<1>3. CASE Stay(k, Unpublished(k))
  <2>1. PICK pc \in {"release", "restore", "markAborting", "markRecovering", "idle"} :
           /\ Goto(k, pc, h[k].flow) /\ (pc = "idle" \/ Goes(pc, h[k].flow))
           /\ pc = "restore" => \/ h[k].flow = "resolve"
                                \/ h[k].flow = "recover" /\ Completing(k)
    <3>1. CASE h[k].pc = "classify" \/ h[k].flow \in {"resolve", "consumed", "putresolve", "expire"}
      <4>1. Goto(k, Unpublished(k), h[k].flow)
        BY <1>3 DEF Stay
      <4>2. CASE h[k].pc = "classify"
        <5>1. Unpublished(k) = "release"
          BY <4>2 DEF Unpublished, At
        <5> QED
          BY <1>1, <4>1, <5>1 DEF Goes
      <4>3. CASE h[k].pc = "head" /\ h[k].flow \in {"resolve", "consumed", "putresolve", "expire"}
        <5>1. /\ Unpublished(k) \in {"restore", "markAborting", "release"}
              /\ Unpublished(k) = "restore" => h[k].flow = "resolve"
              /\ h[k].flow = "resolve" => Unpublished(k) = "restore"
          BY <4>3 DEF Unpublished, At, In
        <5> QED
          BY <4>1, <4>3, <5>1 DEF Goes
      <4> QED
        BY <1>0, <3>1, <4>2, <4>3
    <3>2. CASE h[k].pc = "head" /\ h[k].flow = "recover"
      <4>1. Goto(k, Unpublished(k), "recover")
        BY <1>3, <3>2 DEF Stay
      <4>2. /\ Unpublished(k) \in {"release", "restore", "markAborting", "markRecovering", "idle"}
            /\ Unpublished(k) = "restore" => Completing(k)
        <5>1. CASE Completing(k)
          BY <3>2, <5>1 DEF Unpublished, At, In, Completing
        <5>2. CASE ~Completing(k)
          BY <3>2, <5>2 DEF Unpublished, At, In, Completing
        <5> QED
          BY <5>1, <5>2
      <4> QED
        BY <3>2, <4>1, <4>2 DEF Goes
    <3> QED
      BY <1>0, <1>1, <3>1, <3>2 DEF Goes
  <2>2. pc \in Steps
    BY DEF Steps
  <2>3. CASE pc = "idle"
    BY <1>0, <2>1, <2>2, <2>3, GotoIs, PlaceIdle DEF HandlerMoves
  <2>4. CASE pc # "idle"
    BY <1>0, <1>1, <2>1, <2>2, <2>4, CallPlaces DEF Completing
  <2> QED
    BY <2>3, <2>4
<1>4. CASE Stay(k, Uncertain(k))
  <2>1. PICK pc \in {"idle", "hold"} :
           Goto(k, pc, h[k].flow) /\ (pc = "idle" \/ Goes(pc, h[k].flow))
    BY <1>1, <1>4 DEF Uncertain, Stay, Goes
  <2>2. pc \in Steps
    BY DEF Steps
  <2>3. CASE pc = "idle"
    BY <1>0, <2>1, <2>2, <2>3, GotoIs, PlaceIdle DEF HandlerMoves
  <2>4. CASE pc # "idle"
    BY <1>0, <1>1, <2>1, <2>2, <2>4, CallPlaces
  <2> QED
    BY <2>3, <2>4
<1> QED
  BY <1>2, <1>3, <1>4 DEF Head

\* The first step of an operation.
LEMMA StartIs ==
    ASSUME ShapeInv, NEW k \in Keys, NEW pc, NEW flow, NEW want, Start(k, pc, flow, want)
    PROVE  /\ \A j \in Keys \ {k} : h'[j] = h[j]
           /\ h'[k].pc = pc /\ h'[k].flow = flow /\ h'[k].want = want /\ h'[k].sent = 0
           /\ pc \in Steps /\ flow \in Flows /\ want \in Assembled => h' \in [Keys -> Handler]
<1>1. h \in [Keys -> Handler]
  BY DEF ShapeInv, TypeOK
<1>2. pc \in Steps /\ flow \in Flows /\ want \in Assembled
        => [pc |-> pc, flow |-> flow, want |-> want, sent |-> 0] \in Handler
  BY DEF Handler
<1> QED
  BY <1>1, <1>2 DEF Start

\* A session that takes part in a statement of its client stays.
LEMMA SessionStays ==
    ASSUME ShapeInv, NEW k \in Keys, sessions[k] # None,
           \/ \E n \in Nos, body \in Bodies : PrepareMultipartPart(k, n, SizeOf[body])
           \/ BeginCompleteMultipart(k)
    PROVE  sessions'[k] # None /\ (BeginCompleteMultipart(k) => sessions'[k].status = "completing")
<1>0. sessions \in [Keys -> Session \union {None}] /\ sessions[k] \in Session
      /\ RowTypes
  BY DEF ShapeInv, TypeOK, RowTypes
<1>1. ASSUME NEW n \in Nos, NEW body \in Bodies, PrepareMultipartPart(k, n, SizeOf[body])
      PROVE  sessions'[k] # None
  <2> DEFINE prev == IF sessions[k].pending[n] = None THEN SizeOfPart(k, n)
                     ELSE sessions[k].pending[n].prev
             p == [prev |-> prev, req |-> SizeOf[body]]
  <2>1. prev \in Nat /\ SizeOf[body] \in Nat
    BY <1>0, PartSizes, MultipartAssumption DEF Pending
  <2>2. p \in Pending
    BY <2>1 DEF Pending
  <2>3. sessions' = [sessions EXCEPT ![k].pending[n] = p]
    BY <1>1 DEF PrepareMultipartPart
  <2> HIDE DEF p
  <2>4. sessions'[k] \in Session
    BY <1>0, <2>2, <2>3 DEF Session
  <2> QED
    BY <2>4, MultipartAssumption
<1>2. CASE BeginCompleteMultipart(k)
  <2>1. sessions'[k] \in Session /\ sessions'[k].status = "completing"
    BY <1>0, <1>2 DEF BeginCompleteMultipart, Session
  <2> QED
    BY <2>1, MultipartAssumption
<1> QED
  BY <1>1, <1>2 DEF BeginCompleteMultipart, PrepareMultipartPart

\* Where operations begin.
LEMMA StartPlaces ==
    ASSUME ShapeInv, NEW k \in Keys, Request(k) \/ StartExpire(k) \/ StartRecover(k)
    PROVE  HandlerMoves(k)
<1> USE DEF Steps, Flows
<1>0. /\ RowInv(k) /\ intents \in [Keys -> Intent \union {None}]
      /\ sessions[k] \in Session \union {None}
      /\ sessions[k] # None => intents[k] # None
  BY Places DEF ShapeInv, TypeOK, RowInv
<1>1. RowInv(k)'
  <2>1. IndexStepOf(k)
    BY StartMoves
  <2>2. RowsInv'
    BY <2>1, RowsStep DEF IndexStep
  <2> QED
    BY <2>2 DEF RowsInv
<1>2. ASSUME NEW size \in Nat, NEW internal \in BOOLEAN, BeginWrite(k, size, internal)
      PROVE  /\ intents'[k] # None /\ intents'[k].reserved = size
             /\ sessions'[k] = None /\ sessions[k] = None
  <2> DEFINE intent == [id |-> nextId, prev |-> CurrentId(k), reserved |-> size,
                        state |-> "reserved", known |-> FALSE, internal |-> internal]
  <2>1. CurrentId(k) \in Ids \union {None}
    BY DEF CurrentId, Object, ShapeInv, TypeOK
  <2>2. nextId \in Ids /\ intents[k] = None /\ intents' = [intents EXCEPT ![k] = intent]
        /\ sessions' = sessions
    BY <1>2 DEF BeginWrite
  <2>3. intent \in Intent /\ intent.reserved = size
    BY <2>1, <2>2 DEF Intent
  <2> HIDE DEF intent
  <2> QED
    BY <1>0, <2>2, <2>3, MultipartAssumption
<1>3. CASE StartCreate(k)
  <2>1. Start(k, "insert", "create", NoParts) /\ BeginWrite(k, 0, FALSE)
    BY <1>3 DEF StartCreate
  <2>2. /\ h' \in [Keys -> Handler] /\ \A j \in Keys \ {k} : h'[j] = h[j]
        /\ h'[k].pc = "insert" /\ h'[k].flow = "create"
    BY <2>1, StartIs, NoPartsAssembled
  <2>3. intents'[k] # None /\ intents'[k].reserved = 0 /\ sessions'[k] = None
    BY <1>2, <2>1
  <2>4. PlaceInv(k)'
    BY <2>2, <2>3 DEF PlaceInv, Route, Goes, Begun
  <2> QED
    BY <2>2, <2>4 DEF HandlerMoves
<1>4. ASSUME NEW n \in Nos, NEW declared \in BOOLEAN, NEW want \in [1..n -> Bodies],
             StartPut(k, want, declared)
      PROVE  HandlerMoves(k)
  <2>1. want \in Assembled
    <3>1. 1..n \in SUBSET Nos
      BY NosBelow
    <3> QED
      BY <3>1 DEF Assembled
  <2>2. (IF declared THEN BytesOf(want) ELSE 0) \in Nat
    BY <2>1, BytesType
  <2>3. /\ Start(k, "create", "putstart", want)
        /\ BeginWrite(k, IF declared THEN BytesOf(want) ELSE 0, TRUE)
    BY <1>4 DEF StartPut
  <2>4. intents'[k] # None /\ sessions'[k] = None
    BY <1>2, <2>2, <2>3
  <2>5. /\ h' \in [Keys -> Handler] /\ \A j \in Keys \ {k} : h'[j] = h[j]
        /\ h'[k].pc = "create" /\ h'[k].flow = "putstart" /\ h'[k].want = want /\ h'[k].sent = 0
    BY <2>1, <2>3, StartIs
  <2>6. ChunksInOrder(h'[k])
    <3>1. DOMAIN want = 1..n /\ 0 \in 0..n
      BY NosBelow
    <3> QED
      BY <2>5, <3>1 DEF ChunksInOrder
  <2>7. PlaceInv(k)'
    BY <2>4, <2>5, <2>6 DEF PlaceInv, Route, Goes, Begun
  <2> QED
    BY <2>5, <2>7 DEF HandlerMoves
<1>5. ASSUME NEW n \in Nos, NEW body \in Bodies, StartPart(k, n, body) PROVE HandlerMoves(k)
  <2>1. Part(n, body) \in Assembled
    BY AssembledIs DEF Part
  <2>2. sessions'[k] # None /\ intents'[k] # None
    BY <1>1, <1>5, SessionStays DEF StartPart, RowInv
  <2>3. /\ h' \in [Keys -> Handler] /\ \A j \in Keys \ {k} : h'[j] = h[j]
        /\ h'[k].pc = "send" /\ h'[k].flow = "part" /\ h'[k].want = Part(n, body)
    BY <1>5, <2>1, StartIs DEF StartPart
  <2>4. OnePart(h'[k])
    BY <2>3 DEF OnePart
  <2>5. PlaceInv(k)'
    BY <2>2, <2>3, <2>4 DEF PlaceInv, Route, Goes
  <2> QED
    BY <2>3, <2>5 DEF HandlerMoves
<1>6. ASSUME NEW S \in SUBSET Nos, StartComplete(k, S) PROVE HandlerMoves(k)
  <2>1. [n \in S |-> sessions[k].parts[n]] \in Assembled
    BY <1>0, <1>6, BytesOfSome DEF StartComplete, Session
  <2>2. sessions'[k] # None /\ sessions'[k].status = "completing" /\ intents'[k] # None
    BY <1>1, <1>6, SessionStays DEF StartComplete, RowInv
  <2>3. /\ h' \in [Keys -> Handler] /\ \A j \in Keys \ {k} : h'[j] = h[j]
        /\ h'[k].pc = "markCompleting" /\ h'[k].flow = "complete"
    BY <1>6, <2>1, StartIs DEF StartComplete
  <2>4. PlaceInv(k)'
    BY <2>2, <2>3 DEF PlaceInv, Route, Goes
  <2> QED
    BY <2>3, <2>4 DEF HandlerMoves
<1>7. CASE StartAbort(k) \/ StartExpire(k)
  <2>1. PICK pc \in {"head", "markAborting", "release"}, flow \in {"abort", "expire"} :
           Start(k, pc, flow, NoParts) /\ (pc = "head" => flow = "expire")
    BY <1>7 DEF StartAbort, StartExpire
  <2>2. /\ h' \in [Keys -> Handler] /\ \A j \in Keys \ {k} : h'[j] = h[j]
        /\ h'[k].pc = pc /\ h'[k].flow = flow
    BY <2>1, StartIs, NoPartsAssembled
  <2>3. sessions'[k] # None /\ intents'[k] # None
    BY <1>0, <1>7 DEF StartAbort, StartExpire, Expirable, index
  <2>4. PlaceInv(k)'
    BY <2>1, <2>2, <2>3 DEF PlaceInv, Route, Goes
  <2> QED
    BY <2>2, <2>4 DEF HandlerMoves
<1>8. CASE StartRecover(k)
  <2>1. PICK pc \in {"head", "markAborting"} : Start(k, pc, "recover", NoParts)
    BY <1>8 DEF StartRecover
  <2>2. /\ h' \in [Keys -> Handler] /\ \A j \in Keys \ {k} : h'[j] = h[j]
        /\ h'[k].pc = pc /\ h'[k].flow = "recover"
    BY <2>1, StartIs, NoPartsAssembled
  <2>3. intents'[k] # None
    BY <1>8 DEF StartRecover, Recoverable, index
  <2>4. PlaceInv(k)'
    BY <2>1, <2>2, <2>3 DEF PlaceInv, Route, Goes
  <2> QED
    BY <2>2, <2>4 DEF HandlerMoves
<1> QED
  BY <1>3, <1>4, <1>5, <1>6, <1>7, <1>8 DEF Request

-----------------------------------------------------------------------------
(* What R2 holds keeps its type, and so do the requests it may still serve. *)

RemoteInv ==
    /\ stored \in [Keys -> Object \union {None}] /\ uploads \in [Ids -> Assembled \union {None}]
    /\ LateOK /\ faults \in 0..MaxFaults

\* A request says whose it is.
LEMMA MessageIs ==
    ASSUME ShapeInv, NEW k \in Keys, intents[k] # None, NEW op \in {"part", "complete", "abort"}
    PROVE  /\ Message(k, op) \in LateMessage /\ Message(k, op).op = op
           /\ Message(k, op).key = k /\ Message(k, op).id = intents[k].id
           /\ Message(k, op).prev = intents[k].prev /\ Message(k, op).body = h[k].want
           /\ intents[k].id \in Ids
<1>1. intents[k] \in Intent /\ h[k] \in Handler
  BY DEF ShapeInv, TypeOK
<1>2. intents[k].id \in Ids /\ intents[k].prev \in Ids \union {None} /\ h[k].want \in Assembled
  BY <1>1 DEF Intent, Handler
<1> QED
  BY <1>2 DEF Message, LateMessage, Id

\* The part that is sent.
LEMMA SentPartIs ==
    ASSUME ShapeInv, NEW k \in Keys, h[k].pc = "send"
    PROVE  /\ SentPart(k) \in LateMessage /\ SentPart(k).op = "part"
           /\ SentPart(k).id = intents[k].id /\ intents[k] # None
<1>0. /\ h[k].flow \in {"part", "put"} /\ intents[k] # None /\ h[k] \in Handler /\ PlaceInv(k)
  BY Places DEF Route, Goes, Idle, ShapeInv
<1>1. Message(k, "part") \in LateMessage /\ Message(k, "part").op = "part"
      /\ Message(k, "part").id = intents[k].id
  BY <1>0, MessageIs
<1> DEFINE body == IF In(k, {"part"}) THEN h[k].want
                   ELSE Part(h[k].sent + 1, h[k].want[h[k].sent + 1])
<1>2. body \in Assembled
  <2>1. CASE h[k].flow = "part"
    BY <1>0, <2>1 DEF In, Handler
  <2>2. CASE h[k].flow = "put"
    <3>1. PICK n \in Nos : DOMAIN h[k].want = 1..n /\ h[k].sent \in 0..n /\ h[k].sent < n
      BY <1>0, <2>2 DEF PlaceInv, ChunksInOrder
    <3>2. h[k].sent \in Nat /\ h[k].want \in Assembled
      BY <1>0 DEF Handler
    <3> DEFINE i == h[k].sent + 1
    <3>3. i \in Nat /\ i \in 1..n
      BY <3>1, <3>2, NosBelow
    <3> HIDE DEF i
    <3>4. i \in Nos /\ h[k].want[i] \in Bodies
      BY <3>1, <3>2, <3>3, PartsOf
    <3>5. Part(i, h[k].want[i]) \in Assembled
      BY <3>4, AssembledIs DEF Part
    <3> QED
      BY <2>2, <3>5 DEF In, i
  <2> QED
    BY <1>0, <2>1, <2>2
<1>3. SentPart(k) = [Message(k, "part") EXCEPT !.body = body]
  BY DEF SentPart
<1> HIDE DEF body
<1> QED
  BY <1>0, <1>1, <1>2, <1>3 DEF LateMessage

\* What R2 does on a request.
LEMMA EffectTypes ==
    ASSUME ShapeInv, NEW m \in LateMessage, Effect(m)
    PROVE  /\ stored' \in [Keys -> Object \union {None}]
           /\ uploads' \in [Ids -> Assembled \union {None}]
<1>0. /\ stored \in [Keys -> Object \union {None}] /\ uploads \in [Ids -> Assembled \union {None}]
      /\ m.id \in Ids /\ m.key \in Keys /\ m.body \in Assembled
      /\ m.op \in {"part", "complete", "abort"}
  BY DEF ShapeInv, TypeOK, LateMessage
<1>1. CASE m.op = "part"
  <2>1. ASSUME uploads[m.id] # None PROVE WithParts(uploads[m.id], m.body) \in Assembled
    <3>1. uploads[m.id] \in Assembled /\ m.body \in Assembled
      BY <1>0, <2>1
    <3> QED
      BY <3>1, PartsAdded
  <2>2. UNCHANGED stored
        /\ uploads' = IF uploads[m.id] = None THEN uploads
                      ELSE [uploads EXCEPT ![m.id] = WithParts(uploads[m.id], m.body)]
    BY <1>0, <1>1 DEF Effect
  <2> QED
    BY <1>0, <2>1, <2>2
<1>2. CASE m.op = "complete"
  <2>1. [id |-> m.id, body |-> m.body] \in Object
    BY <1>0 DEF Object
  <2> QED
    BY <1>0, <1>2, <2>1 DEF Effect
<1>3. CASE m.op = "abort"
  BY <1>0, <1>3 DEF Effect
<1> QED
  BY <1>0, <1>1, <1>2, <1>3

\* A request without an answer.
LEMMA UnansweredTypes ==
    ASSUME ShapeInv, NEW k \in Keys, NEW m \in LateMessage, NEW next, NEW flow,
           Unanswered(k, m, next, flow)
    PROVE  RemoteInv'
<1>1. faults' \in 0..MaxFaults
  BY MultipartAssumption DEF Unanswered, Fault, ShapeInv, TypeOK
<1>2. LateOK'
  BY DEF Unanswered, LateOK, ShapeInv
<1>3. stored' \in [Keys -> Object \union {None}] /\ uploads' \in [Ids -> Assembled \union {None}]
  BY EffectTypes DEF Unanswered, ShapeInv, TypeOK
<1> QED
  BY <1>1, <1>2, <1>3 DEF RemoteInv

\* R2 and the requests in flight keep their types.
LEMMA RemoteStep ==
    ASSUME ShapeInv, [Next]_vars
    PROVE  RemoteInv'
<1> USE DEF remote
<1>0. /\ stored \in [Keys -> Object \union {None}] /\ uploads \in [Ids -> Assembled \union {None}]
      /\ LateOK /\ faults \in 0..MaxFaults /\ MaxFaults \in Nat
  BY MultipartAssumption DEF ShapeInv, TypeOK
<1>1. Fault => faults' \in 0..MaxFaults
  BY <1>0 DEF Fault
<1>2. ASSUME UNCHANGED remote, faults' \in 0..MaxFaults PROVE RemoteInv'
  BY <1>0, <1>2 DEF RemoteInv, LateOK
<1>3. ASSUME UNCHANGED remote, UNCHANGED faults PROVE RemoteInv'
  BY <1>0, <1>3 DEF RemoteInv, LateOK
<1>4. ASSUME NEW k \in Keys, Step(k) PROVE RemoteInv'
  <2>1. CASE \/ Insert(k) \/ CreateFailed(k) \/ KeepPart(k) \/ Restore(k) \/ Mark(k) \/ AbortRows(k)
    BY <1>1, <1>2, <1>3, <2>1
       DEF Insert, CreateFailed, KeepPart, Restore, Mark, AbortRows, Transaction
  <2>2. CASE Activate(k) \/ Chunk(k) \/ MarkUploading(k)
    BY <1>1, <1>2, <1>3, <2>2 DEF Activate, Chunk, MarkUploading
  <2>3. CASE Commit(k) \/ Head(k)
    BY <1>1, <1>2, <1>3, <2>3 DEF Commit, Head
  <2>4. CASE RemoteCreate(k)
    <3>1. h[k].pc = "create"
      BY <2>4 DEF RemoteCreate, At
    <3>2. Id(k) \in Ids
      BY <3>1, Places, MessageIs DEF Id
    <3>3. CASE uploads' = [uploads EXCEPT ![Id(k)] = NoParts] /\ UNCHANGED <<stored, late, faults>>
      BY <1>0, <3>2, <3>3, NoPartsAssembled DEF RemoteInv, LateOK
    <3>4. CASE Fault /\ UNCHANGED remote
      BY <1>1, <1>2, <3>4
    <3> QED
      BY <2>4, <3>3, <3>4 DEF RemoteCreate, Refused
  <2>5. CASE RemotePart(k)
    <3>1. h[k].pc = "send" /\ SentPart(k) \in LateMessage
      BY <2>5, SentPartIs DEF RemotePart, At
    <3>2. CASE Effect(SentPart(k)) /\ UNCHANGED <<late, faults>>
      BY <1>0, <3>1, <3>2, EffectTypes DEF RemoteInv, LateOK
    <3>3. CASE UNCHANGED <<remote, faults>>
      BY <1>3, <3>3
    <3>4. CASE Unanswered(k, SentPart(k), IF In(k, {"part"}) THEN "idle" ELSE "markAborting",
                          h[k].flow)
      BY <3>1, <3>4, UnansweredTypes
    <3> QED
      BY <2>5, <3>2, <3>3, <3>4 DEF RemotePart
  <2>6. CASE RemoteComplete(k)
    <3>1. h[k].pc = "complete" /\ intents[k] # None
      BY <2>6, Places DEF RemoteComplete, At
    <3>2. Message(k, "complete") \in LateMessage /\ Message(k, "complete").id \in Ids
      BY <3>1, MessageIs
    <3>3. CASE Serve(k, "complete", "markEtag", h[k].flow)
      BY <1>0, <3>2, <3>3, EffectTypes DEF Serve, RemoteInv, LateOK
    <3>4. CASE UNCHANGED <<remote, faults>>
      BY <1>3, <3>4
    <3>5. CASE Unanswered(k, Message(k, "complete"), "head", Resolving(k))
      BY <3>2, <3>5, UnansweredTypes
    <3>6. CASE Refused(k, IF In(k, {"put"}) THEN "markAborting" ELSE "restore", h[k].flow)
      BY <1>1, <1>2, <3>6 DEF Refused
    <3>7. CASE /\ Fault /\ uploads' = [uploads EXCEPT ![Message(k, "complete").id] = None]
               /\ UNCHANGED <<stored, late>>
      BY <1>0, <1>1, <3>2, <3>7 DEF RemoteInv, LateOK
    <3> QED
      BY <2>6, <3>3, <3>4, <3>5, <3>6, <3>7 DEF RemoteComplete
  <2>7. CASE RemoteAbort(k)
    <3>1. h[k].pc = "abort" /\ intents[k] # None
      BY <2>7, Places DEF RemoteAbort, At
    <3>2. Message(k, "abort") \in LateMessage
      BY <3>1, MessageIs
    <3>3. ASSUME NEW next, Serve(k, "abort", next, h[k].flow) PROVE RemoteInv'
      BY <1>0, <3>2, <3>3, EffectTypes DEF Serve, RemoteInv, LateOK
    <3>4. ASSUME NEW next, Unanswered(k, Message(k, "abort"), next, h[k].flow) PROVE RemoteInv'
      BY <3>2, <3>4, UnansweredTypes
    <3> QED
      BY <2>7, <3>3, <3>4 DEF RemoteAbort
  <2> QED
    BY <1>4, <2>1, <2>2, <2>3, <2>4, <2>5, <2>6, <2>7 DEF Step
<1>5. ASSUME NEW k \in Keys, Request(k) \/ StartExpire(k) \/ StartRecover(k) PROVE RemoteInv'
  BY <1>3, <1>5 DEF Request, StartCreate, StartPut, StartPart, StartComplete, StartAbort,
                    StartExpire, StartRecover
<1>6. ASSUME NEW m \in late, LateEffect(m) PROVE RemoteInv'
  <2>1. m \in LateMessage
    BY <1>0 DEF LateOK
  <2> QED
    BY <1>0, <1>6, <2>1, EffectTypes DEF LateEffect, RemoteInv, LateOK
<1>7. CASE Crash \/ Leave \/ UNCHANGED vars
  BY <1>1, <1>2, <1>3, <1>7 DEF Crash, Leave, vars
<1> QED
  BY <1>4, <1>5, <1>6, <1>7 DEF Next

-----------------------------------------------------------------------------
(* Shape and counters are invariants.                                      *)

\* Whoever holds a key's mutex, the handlers of the other keys stay where they are.
LEMMA MovesPlaces ==
    ASSUME ShapeInv, [Next]_vars
    PROVE  h' \in [Keys -> Handler] /\ \A k \in Keys : PlaceInv(k)'
<1>0. h \in [Keys -> Handler] /\ \A k \in Keys : PlaceInv(k)
  BY DEF ShapeInv, TypeOK
<1>1. ASSUME NEW k \in Keys, HandlerMoves(k), IndexStepOf(k)
      PROVE  h' \in [Keys -> Handler] /\ \A j \in Keys : PlaceInv(j)'
  <2>1. ASSUME NEW j \in Keys \ {k} PROVE PlaceInv(j)'
    <3>1. h'[j] = h[j] /\ intents'[j] = intents[j] /\ sessions'[j] = sessions[j]
      BY <1>1, <2>1, OtherRows DEF HandlerMoves
    <3>2. PlaceInv(j)
      BY <1>0
    <3> QED
      BY <3>1, <3>2 DEF PlaceInv, Begun
  <2> QED
    BY <1>1, <2>1 DEF HandlerMoves
<1>2. ASSUME NEW k \in Keys, Step(k) PROVE HandlerMoves(k)
  BY <1>2, CreatePlaces, SessionPlaces, ChunkPlaces, MarkPlaces, RemoteCreatePlaces,
     RemotePartPlaces, RemoteCompletePlaces, RemoteAbortPlaces, HeadPlaces DEF Step
<1>3. CASE UNCHANGED <<index, h>>
  BY <1>0, <1>3 DEF index, PlaceInv, Begun
<1>4. CASE h' = [k \in Keys |-> Idle]
  BY <1>4, IdleType, PlaceIdle
<1>5. (\E m \in late : LateEffect(m)) \/ Leave \/ UNCHANGED vars => UNCHANGED <<index, h>>
  BY DEF LateEffect, Leave, vars, index
<1> QED
  BY <1>1, <1>2, <1>3, <1>4, <1>5, StepMoves, StartMoves, StartPlaces DEF Next, Crash

\* Initially there are at most objects.
LEMMA ShapeInit == Init => ShapeInv /\ LedgerInv
<1> SUFFICES ASSUME Init PROVE ShapeInv /\ LedgerInv
  OBVIOUS
<1>0. /\ Limit \in Nat /\ MaxIds \in Nat /\ MaxIds >= 1 /\ MaxFaults \in Nat
      /\ 1 \in Ids /\ 1 \in Nos
  <2>1. Cardinality(PartNos) \in Nat
    BY MultipartAssumption, FS_CardinalityType
  <2>2. \E n \in 1..Cardinality(PartNos) : TRUE
    BY MultipartAssumption DEF Nos
  <2>3. 1 \in Nos
    BY <2>1, <2>2 DEF Nos
  <2> QED
    BY <2>3, MultipartAssumption DEF Ids
<1>1. /\ objects \in [Keys -> Object \union {None}]
      /\ stored \in [Keys -> Object \union {None}]
  <2>1. ASSUME NEW o \in [id : {1}, body : [{1} -> Bodies]] PROVE o \in Object
    <3>1. [{1} -> Bodies] \subseteq Assembled
      BY <1>0 DEF Assembled
    <3>2. o.id \in Ids /\ o.body \in Assembled /\ o = [id |-> o.id, body |-> o.body]
      BY <1>0, <2>1, <3>1
    <3> QED
      BY <3>2 DEF Object
  <2> QED
    BY <2>1 DEF Init
<1>2. /\ intents = [k \in Keys |-> None] /\ sessions = [k \in Keys |-> None]
      /\ h = [k \in Keys |-> Idle] /\ late = {} /\ reserved = 0 /\ storage = StoredBytes
      /\ (Overflow \/ storage <= Limit) /\ nextId = 2 /\ faults = 0 /\ uploads = [id \in Ids |-> None]
  BY DEF Init
<1>3. StoredBytes \in Nat
  <2>1. \A k \in Keys : StoredTerm(k) \in Nat
    BY <1>1, BytesType DEF StoredTerm, Object
  <2> DEFINE s == [k \in Keys |-> StoredTerm(k)]
  <2>2. s \in [Keys -> Nat]
    BY <2>1
  <2>3. StoredBytes = SumFunction(s)
    BY DEF StoredBytes, StoredTerm
  <2> HIDE DEF s
  <2> QED
    BY <2>2, <2>3, SumNat, MultipartAssumption
<1>4. ReservedBytes = 0
  <2>1. ReservedBytes = SumFunction([k \in Keys |-> 0])
    <3>1. [k \in Keys |-> IF intents[k] = None THEN 0 ELSE intents[k].reserved]
             = [k \in Keys |-> 0]
      BY <1>2
    <3> QED
      BY <3>1 DEF ReservedBytes
  <2> QED
    BY <2>1, SumZero, MultipartAssumption
<1>5. TypeOK
  BY <1>0, <1>1, <1>2, <1>3, IdleType DEF TypeOK
<1>6. LateOK /\ \A k \in Keys : RowInv(k) /\ PlaceInv(k)
  BY <1>2 DEF LateOK, RowInv, PlaceInv, Route, Idle
<1>7. LedgerInv
  BY <1>0, <1>2, <1>3, <1>4 DEF LedgerInv, PartsReserved
<1> QED
  BY <1>5, <1>6, <1>7 DEF ShapeInv

\* Every step.
LEMMA ShapeStep == ShapeInv /\ LedgerInv /\ [Next]_vars => ShapeInv' /\ LedgerInv'
<1> SUFFICES ASSUME ShapeInv, LedgerInv, [Next]_vars PROVE ShapeInv' /\ LedgerInv'
  OBVIOUS
<1>1. IndexStep
  BY IndexMoves
<1>2. RowsInv' /\ LedgerInv'
  BY <1>1, RowsStep, LedgerStep
<1>3. RemoteInv'
  BY RemoteStep
<1>4. h' \in [Keys -> Handler] /\ \A k \in Keys : PlaceInv(k)'
  BY MovesPlaces
<1>5. nextId' \in 1..MaxIds + 1
  BY <1>1, OtherRows DEF IndexStep, ShapeInv, TypeOK
<1> QED
  BY <1>2, <1>3, <1>4, <1>5 DEF ShapeInv, TypeOK, RowsInv, RowTypes, RemoteInv

\* The types of rows and handlers, what each step of a handler says about its rows, and the
\* counters, for any number of keys, parts, sessions and faults.
THEOREM TypesAndCounters == Spec => [](ShapeInv /\ LedgerInv)
<1>1. Init => ShapeInv /\ LedgerInv
  BY ShapeInit
<1>2. ShapeInv /\ LedgerInv /\ [Next]_vars => (ShapeInv /\ LedgerInv)'
  BY ShapeStep
<1> QED
  BY <1>1, <1>2, PTL DEF Spec

\* SessionsSound, for every instance: rows have their type, a session's intent holds
\* exactly what its parts need (the larger of the part stored and the part on its way),
\* the bucket what the intents hold, and both are within the limit; whatever parts are
\* sent again, whatever statement fails, wherever the process dies.
THEOREM PartsAddUp == Spec => []SessionsSound
<1>1. ShapeInv /\ LedgerInv => SessionsSound
  BY DEF ShapeInv, LedgerInv, SessionsSound
<1> QED
  BY <1>1, TypesAndCounters, PTL

-----------------------------------------------------------------------------
(* R2 and the index.                                                       *)

\* What a transaction does to an intent: it keeps it, with its id and the version it is
\* opened on; it opens it, with a fresh id; or it ends it.
IntentKept(k) ==
    /\ UNCHANGED <<objects, nextId>>
    /\ intents'[k] = None <=> intents[k] = None
    /\ intents[k] # None =>
          /\ intents'[k].id = intents[k].id /\ intents'[k].prev = intents[k].prev
          /\ intents'[k].internal = intents[k].internal
          /\ intents[k].known => intents'[k].known

IntentOpened(k) ==
    /\ UNCHANGED objects /\ intents[k] = None /\ intents'[k] # None
    /\ intents'[k].id = nextId /\ intents'[k].prev = CurrentId(k)
    /\ nextId' = nextId + 1

IntentEnded(k) ==
    /\ intents[k] # None /\ intents'[k] = None /\ UNCHANGED nextId
    /\ objects'[k] = objects[k] \/ objects'[k].id = intents[k].id

\* A transaction on an intent, or on its session, keeps the intent.
LEMMA IntentKeeps ==
    ASSUME ShapeInv, NEW k \in Keys, intents[k] # None, UNCHANGED nextId,
           OnIntent(k) \/ (sessions[k] # None /\ OnSession(k))
    PROVE  IntentKept(k)
<1>0. /\ intents \in [Keys -> Intent \union {None}] /\ intents[k] \in Intent \union {None}
      /\ objects \in [Keys -> Object \union {None}]
      /\ sessions[k] \in Session \union {None} /\ RowTypes /\ reserved \in Nat
  BY DEF ShapeInv, TypeOK, RowTypes
<1>3. CASE intents[k] # None /\ OnIntent(k) /\ UNCHANGED nextId
  <2>0. intents[k] \in Intent
    BY <1>0, <1>3
  <2>1. ASSUME NEW total \in Nat, EnsureWriteReservation(k, total) PROVE IntentKept(k)
    <3> DEFINE delta == Max0(total - intents[k].reserved)
    <3>1. delta \in Nat
      BY <2>0 DEF Max0, Intent
    <3>2. intents' = [intents EXCEPT ![k].reserved = @ + delta] /\ UNCHANGED objects
      BY <2>1 DEF EnsureWriteReservation
    <3> HIDE DEF delta
    <3>3. /\ intents'[k] \in Intent /\ intents'[k].id = intents[k].id
          /\ intents'[k].prev = intents[k].prev
          /\ intents'[k].internal = intents[k].internal /\ (intents[k].known => intents'[k].known)
      BY <1>0, <2>0, <3>1, <3>2 DEF Intent
    <3> QED
      BY <1>3, <3>2, <3>3, MultipartAssumption DEF IntentKept
  <2>2. ASSUME NEW state \in {"completing", "uploading", "consumed", "aborting", "recovery"},
               NEW known \in BOOLEAN, UpdateWriteState(k, state, known)
        PROVE  IntentKept(k)
    <3>1. /\ intents'[k] \in Intent /\ intents'[k].id = intents[k].id
          /\ intents'[k].prev = intents[k].prev
          /\ intents'[k].internal = intents[k].internal /\ (intents[k].known => intents'[k].known)
      BY <1>0, <2>0, <2>2 DEF Intent, UpdateWriteState
    <3> QED
      BY <1>3, <2>2, <3>1, MultipartAssumption DEF IntentKept, UpdateWriteState
  <2>3. CASE InsertSession(k)
    BY <1>3, <2>3 DEF InsertSession, IntentKept
  <2> QED
    BY <1>3, <2>1, <2>2, <2>3 DEF OnIntent
<1>4. CASE intents[k] # None /\ sessions[k] # None /\ OnSession(k) /\ UNCHANGED nextId
  <2>0. intents[k] \in Intent /\ sessions[k] \in Session /\ intents[k].reserved \in Nat
    BY <1>0, <1>4 DEF Intent
  <2>1. ASSUME NEW delta \in Int, intents' = [intents EXCEPT ![k].reserved = Max0(@ + delta)],
               UNCHANGED objects
        PROVE  IntentKept(k)
    <3>1. Max0(intents[k].reserved + delta) \in Nat
      BY <2>0 DEF Max0
    <3>2. /\ intents'[k] \in Intent /\ intents'[k].id = intents[k].id
          /\ intents'[k].prev = intents[k].prev
          /\ intents'[k].internal = intents[k].internal /\ (intents[k].known => intents'[k].known)
      BY <1>0, <2>0, <2>1, <3>1 DEF Intent
    <3> QED
      BY <1>4, <2>1, <3>2, MultipartAssumption DEF IntentKept
  <2>2. ASSUME NEW n \in Nos, NEW body \in Bodies, PrepareMultipartPart(k, n, SizeOf[body])
        PROVE  IntentKept(k)
    <3>1. Adjustment(k, n, SizeOf[body]) \in Int
      BY <1>0, <1>4, PartSizes, MultipartAssumption
    <3> QED
      BY <2>1, <2>2, <3>1 DEF PrepareMultipartPart
  <2>3. ASSUME NEW n \in Nos, NEW body \in Bodies, CommitMultipartPart(k, n, body)
        PROVE  IntentKept(k)
    <3>1. -Max0(sessions[k].pending[n].prev - SizeOf[body]) \in Int
      BY <1>0, <1>4, <2>3, PartSizes, MultipartAssumption DEF CommitMultipartPart, Max0, Pending
    <3> QED
      BY <2>1, <2>3, <3>1 DEF CommitMultipartPart
  <2>4. CASE BeginCompleteMultipart(k) \/ FailMultipart(k)
    BY <1>4, <2>4 DEF BeginCompleteMultipart, FailMultipart, IntentKept
  <2>5. CASE ActivateMultipart(k) \/ ResetMultipart(k)
    <3>1. /\ intents'[k] \in Intent /\ intents'[k].id = intents[k].id
          /\ intents'[k].prev = intents[k].prev /\ UNCHANGED objects
          /\ intents'[k].internal = intents[k].internal /\ (intents[k].known => intents'[k].known)
      BY <1>0, <2>0, <2>5 DEF Intent, Session, ActivateMultipart, ResetMultipart
    <3> QED
      BY <1>4, <3>1, MultipartAssumption DEF IntentKept
  <2> QED
    BY <1>4, <2>2, <2>3, <2>4, <2>5 DEF OnSession
<1> QED
  BY <1>3, <1>4

\* Every transaction of a handler.
LEMMA IntentMoves ==
    ASSUME ShapeInv, NEW k \in Keys, IndexStepOf(k)
    PROVE  IntentKept(k) \/ IntentOpened(k) \/ IntentEnded(k)
<1>0. /\ intents \in [Keys -> Intent \union {None}] /\ intents[k] \in Intent \union {None}
      /\ objects \in [Keys -> Object \union {None}]
      /\ sessions[k] \in Session \union {None} /\ RowTypes /\ reserved \in Nat
  BY DEF ShapeInv, TypeOK, RowTypes
<1>1. CASE UNCHANGED <<objects, intents, sessions, storage, reserved, nextId>>
  BY <1>1 DEF IntentKept
<1>2. CASE Opens(k)
  <2>0. PICK size \in Nat, internal \in BOOLEAN : BeginWrite(k, size, internal)
    BY <1>2 DEF Opens
  <2> DEFINE intent == [id |-> nextId, prev |-> CurrentId(k), reserved |-> size,
                        state |-> "reserved", known |-> FALSE, internal |-> internal]
  <2>1. CurrentId(k) \in Ids \union {None}
    BY <1>0 DEF CurrentId, Object
  <2>2. nextId \in Ids /\ intents[k] = None /\ intents' = [intents EXCEPT ![k] = intent]
        /\ nextId' = nextId + 1 /\ UNCHANGED objects
    BY <2>0 DEF BeginWrite
  <2>3. intent \in Intent /\ intent.id = nextId /\ intent.prev = CurrentId(k)
    BY <2>1, <2>2 DEF Intent
  <2> HIDE DEF intent
  <2> QED
    BY <1>0, <2>2, <2>3, MultipartAssumption DEF IntentOpened
<1>3. CASE intents[k] # None /\ OnIntent(k) /\ UNCHANGED nextId
  BY <1>3, IntentKeeps
<1>4. CASE intents[k] # None /\ sessions[k] # None /\ OnSession(k) /\ UNCHANGED nextId
  BY <1>4, IntentKeeps
<1>5. CASE intents[k] # None /\ Ends(k) /\ UNCHANGED nextId
  <2>1. CASE Release(k)
    BY <1>0, <1>5, <2>1 DEF Release, IntentEnded
  <2>2. ASSUME NEW body \in Assembled, CommitWrite(k, body) PROVE IntentEnded(k)
    <3>1. objects'[k] = [id |-> intents[k].id, body |-> body]
      BY <1>0, <2>2 DEF CommitWrite
    <3> QED
      BY <1>0, <1>5, <2>2, <3>1 DEF CommitWrite, IntentEnded
  <2> QED
    BY <1>5, <2>1, <2>2 DEF Ends
<1> QED
  BY <1>1, <1>2, <1>3, <1>4, <1>5 DEF IndexStepOf, IndexMove

\* An intent ends by being given up, or by its object's being indexed.
LEMMA IntentEnds ==
    ASSUME ShapeInv, NEW k \in Keys, intents[k] # None, intents'[k] = None, PlaceInv(k)',
           Step(k) \/ Request(k) \/ StartExpire(k) \/ StartRecover(k)
    PROVE  AbortRows(k) \/ Commit(k)
<1> USE DEF Steps, Flows
<1>0. /\ h'[k] = Idle /\ h \in [Keys -> Handler] /\ h[k] \in Handler /\ PlaceInv(k)
  BY DEF PlaceInv, ShapeInv, TypeOK
<1>1. ~Insert(k) /\ ~RemoteCreate(k) /\ ~RemotePart(k) /\ ~RemoteComplete(k) /\ ~RemoteAbort(k)
      /\ ~Head(k)
  BY DEF Insert, Transaction, InsertSession, RemoteCreate, RemotePart, RemoteComplete, RemoteAbort,
         Head, index
<1>2. UNCHANGED nextId /\ sessions[k] # None => ~OnSession(k)
  BY IntentKeeps DEF IntentKept
<1>3. ~Activate(k) /\ ~CreateFailed(k) /\ ~Restore(k)
  <2>1. h[k].pc \in {"activate", "failed", "restore"} => sessions[k] # None
    BY <1>0, Places DEF PlaceInv, Route, Goes, Idle
  <2> QED
    BY <1>2, <2>1 DEF Activate, CreateFailed, Restore, Transaction, index, history, At, OnSession
<1>4. ~KeepPart(k)
  <2> SUFFICES ASSUME KeepPart(k) PROVE FALSE
    OBVIOUS
  <2> DEFINE n == CHOOSE n \in DOMAIN h[k].want : TRUE
  <2>1. h[k].pc = "keep" /\ h[k].flow = "part" /\ sessions[k] # None
    BY <1>0, Places DEF KeepPart, At, Route, Goes, Idle, PlaceInv
  <2>2. PICK m \in Nos, body \in Bodies : h[k].want = Part(m, body)
    BY <1>0, <2>1 DEF PlaceInv, OnePart
  <2>3. n = m /\ h[k].want[n] = body
    BY <2>2 DEF Part
  <2>4. UNCHANGED index \/ CommitMultipartPart(k, n, h[k].want[n])
    BY DEF KeepPart, Transaction
  <2>5. UNCHANGED nextId
    BY DEF KeepPart, Transaction, history
  <2> QED
    BY <1>2, <2>1, <2>3, <2>4, <2>5 DEF index, OnSession
<1>5. ~Mark(k)
  <2> SUFFICES ASSUME Mark(k) PROVE FALSE
    OBVIOUS
  <2>1. /\ StateAt[h[k].pc] \in {"completing", "uploading", "consumed", "aborting", "recovery"}
        /\ MarkKnows(k) \in BOOLEAN
    BY Marks DEF Mark, MarkKnows, In
  <2>2. UpdateWriteState(k, StateAt[h[k].pc], MarkKnows(k)) \/ UNCHANGED index
    BY DEF Mark, Transaction
  <2> QED
    BY <2>1, <2>2, IntentStays
<1>6. ~MarkUploading(k) /\ ~Chunk(k)
  <2>1. ASSUME NEW pc \in Steps \ {"idle"}, NEW flow \in Flows, Goto(k, pc, flow) PROVE FALSE
    BY <1>0, <2>1, GotoIs DEF Idle
  <2>2. h[k].flow \in Flows
    BY <1>0 DEF Handler
  <2>3. ~MarkUploading(k)
    BY <1>0, <2>1 DEF MarkUploading
  <2>4. ASSUME Chunk(k) PROVE FALSE
    <3>1. \E pc \in {"send", "markAborting", "markCompleting"} : Goto(k, pc, h[k].flow)
      BY <2>4 DEF Chunk, Stay
    <3> QED
      BY <2>1, <2>2, <3>1
  <2> QED
    BY <2>3, <2>4
<1>7. ~Request(k) /\ ~StartExpire(k) /\ ~StartRecover(k)
  <2>1. ASSUME NEW pc \in Steps \ {"idle"}, NEW flow, NEW want, Start(k, pc, flow, want) PROVE FALSE
    BY <1>0, <2>1 DEF Start, Idle
  <2> QED
    BY <2>1 DEF Request, StartCreate, StartPut, StartPart, StartComplete, StartAbort, StartExpire,
                StartRecover
<1> QED
  BY <1>1, <1>3, <1>4, <1>5, <1>6, <1>7 DEF Step

\* A request that R2 may still serve was sent for an intent.
LEMMA LateIds ==
    ASSUME ShapeInv, [Next]_vars, NEW m \in late', m \notin late
    PROVE  \E k \in Keys : intents[k] # None /\ m.id = intents[k].id /\ m.op \in LateOps
<1> USE DEF remote
<1>1. ASSUME NEW k \in Keys, NEW e, NEW next, NEW flow, Unanswered(k, e, next, flow),
             intents[k] # None, e.id = intents[k].id
      PROVE  \E j \in Keys : intents[j] # None /\ m.id = intents[j].id /\ m.op \in LateOps
  BY <1>1 DEF Unanswered
<1>2. ASSUME NEW k \in Keys, Step(k)
      PROVE  \E j \in Keys : intents[j] # None /\ m.id = intents[j].id /\ m.op \in LateOps
  <2>1. late' # late
    OBVIOUS
  <2>2. CASE RemotePart(k)
    <3>1. h[k].pc = "send"
      BY <2>2 DEF RemotePart, At
    <3>2. SentPart(k).id = intents[k].id /\ intents[k] # None
      BY <3>1, SentPartIs
    <3>3. Unanswered(k, SentPart(k), IF In(k, {"part"}) THEN "idle" ELSE "markAborting", h[k].flow)
      BY <2>1, <2>2 DEF RemotePart
    <3> QED
      BY <1>1, <3>2, <3>3
  <2>3. CASE RemoteComplete(k)
    <3>1. h[k].pc = "complete" /\ intents[k] # None
      BY <2>3, Places DEF RemoteComplete, At
    <3>2. Message(k, "complete").id = intents[k].id
      BY <3>1, MessageIs
    <3>3. Unanswered(k, Message(k, "complete"), "head", Resolving(k))
      BY <2>1, <2>3 DEF RemoteComplete, Serve, Refused
    <3> QED
      BY <1>1, <3>1, <3>2, <3>3
  <2>4. CASE RemoteAbort(k)
    <3>1. h[k].pc = "abort" /\ intents[k] # None
      BY <2>4, Places DEF RemoteAbort, At
    <3>2. Message(k, "abort").id = intents[k].id
      BY <3>1, MessageIs
    <3>3. \E next : Unanswered(k, Message(k, "abort"), next, h[k].flow)
      BY <2>1, <2>4 DEF RemoteAbort, Serve
    <3> QED
      BY <1>1, <3>1, <3>2, <3>3
  <2>5. CASE RemoteCreate(k) \/ Head(k) \/ Commit(k)
    BY <2>1, <2>5 DEF RemoteCreate, Head, Commit, Refused
  <2>6. CASE \/ Insert(k) \/ CreateFailed(k) \/ KeepPart(k) \/ Restore(k) \/ Mark(k) \/ AbortRows(k)
    BY <2>1, <2>6 DEF Insert, CreateFailed, KeepPart, Restore, Mark, AbortRows, Transaction
  <2>7. CASE Activate(k) \/ Chunk(k) \/ MarkUploading(k)
    BY <2>1, <2>7 DEF Activate, Chunk, MarkUploading
  <2> QED
    BY <1>2, <2>2, <2>3, <2>4, <2>5, <2>6, <2>7 DEF Step
<1>3. ASSUME NEW k \in Keys, Request(k) \/ StartExpire(k) \/ StartRecover(k) PROVE late' = late
  BY <1>3 DEF Request, StartCreate, StartPut, StartPart, StartComplete, StartAbort,
                    StartExpire, StartRecover
<1>4. ASSUME NEW e \in late, LateEffect(e) PROVE late' \subseteq late
  BY <1>4 DEF LateEffect
<1>5. CASE Crash \/ Leave \/ UNCHANGED vars
  BY <1>5 DEF Crash, Leave, vars
<1> QED
  BY <1>2, <1>3, <1>4, <1>5 DEF Next

\* The part of IdInv that is about rows.
IdRows ==
    /\ \A k \in Keys : objects[k] # None => objects[k].id < nextId
    /\ \A k \in Keys : intents[k] # None =>
          /\ intents[k].id < nextId /\ intents[k].prev = CurrentId(k)
          /\ objects[k] # None => objects[k].id < intents[k].id
    /\ \A j, k \in Keys : intents[j] # None /\ intents[k] # None /\ intents[j].id = intents[k].id
          => j = k

\* Ids are drawn once.
LEMMA IdStep ==
    ASSUME ShapeInv, IdInv, [Next]_vars
    PROVE  IdInv'
<1>0. /\ nextId \in Nat
      /\ \A k \in Keys : /\ objects[k] # None => objects[k].id \in Nat
                         /\ intents[k] # None => intents[k].id \in Nat
  BY DEF ShapeInv, TypeOK, Object, Intent, Ids
<1>1. ASSUME NEW k \in Keys, IndexStepOf(k) PROVE IdRows' /\ nextId' \in Nat /\ nextId' >= nextId
  <2>1. \A j \in Keys \ {k} : /\ intents'[j] = intents[j] /\ objects'[j] = objects[j]
                              /\ CurrentId(j)' = CurrentId(j)
    BY <1>1, OtherRows DEF CurrentId
  <2>2. CASE IntentKept(k)
    <3>1. CurrentId(k)' = CurrentId(k) /\ objects' = objects /\ nextId' = nextId
      BY <2>2 DEF CurrentId, IntentKept
    <3>2. /\ intents'[k] # None => /\ intents[k] # None /\ intents'[k].id = intents[k].id
                                   /\ intents'[k].prev = intents[k].prev
      BY <2>2 DEF IntentKept
    <3>3. ASSUME NEW j \in Keys, intents'[j] # None
          PROVE  /\ intents[j] # None /\ intents'[j].id = intents[j].id
                 /\ intents'[j].prev = intents[j].prev /\ CurrentId(j)' = CurrentId(j)
      BY <2>1, <3>1, <3>2, <3>3
    <3> QED
      BY <1>0, <3>1, <3>3 DEF IdRows, IdInv
  <2>3. CASE IntentOpened(k)
    <3>1. CurrentId(k)' = CurrentId(k) /\ objects' = objects /\ nextId' = nextId + 1
      BY <2>3 DEF CurrentId, IntentOpened
    <3>2. intents'[k].id = nextId /\ intents'[k].prev = CurrentId(k)'
      BY <2>3, <3>1 DEF IntentOpened
    <3>3. ASSUME NEW j \in Keys \ {k}, intents'[j] # None
          PROVE  /\ intents[j] # None /\ intents'[j].id = intents[j].id /\ intents[j].id < nextId
                 /\ intents'[j].prev = intents[j].prev /\ CurrentId(j)' = CurrentId(j)
      BY <2>1, <3>1, <3>3 DEF IdInv
    <3> QED
      BY <1>0, <3>1, <3>2, <3>3 DEF IdRows, IdInv
  <2>4. CASE IntentEnded(k)
    <3>1. /\ intents'[k] = None /\ nextId' = nextId
          /\ objects'[k] # None => objects'[k].id < nextId
      BY <1>0, <2>4 DEF IntentEnded, IdInv
    <3>2. ASSUME NEW j \in Keys, intents'[j] # None
          PROVE  /\ intents[j] # None /\ intents'[j] = intents[j] /\ objects'[j] = objects[j]
                 /\ CurrentId(j)' = CurrentId(j)
      BY <2>1, <3>1, <3>2
    <3> QED
      BY <1>0, <2>1, <3>1, <3>2 DEF IdRows, IdInv
  <2> QED
    BY <1>1, <2>2, <2>3, <2>4, IntentMoves
<1>2. IdRows' /\ nextId' \in Nat /\ nextId' >= nextId
  <2>1. CASE UNCHANGED <<objects, intents, sessions, storage, reserved, nextId>>
    BY <1>0, <2>1 DEF IdRows, IdInv, CurrentId
  <2> QED
    BY <1>1, <2>1, IndexMoves DEF IndexStep
<1>3. ASSUME NEW m \in late' PROVE m.id < nextId'
  <2>1. CASE m \in late
    <3>1. m.id < nextId /\ m.id \in Nat
      BY <2>1 DEF IdInv, ShapeInv, LateOK, LateMessage, Ids
    <3> QED
      BY <1>0, <1>2, <3>1
  <2>2. CASE m \notin late
    <3>1. PICK k \in Keys : intents[k] # None /\ m.id = intents[k].id
      BY <1>3, <2>2, LateIds
    <3> QED
      BY <1>0, <1>2, <3>1 DEF IdInv
  <2> QED
    BY <2>1, <2>2
<1> QED
  BY <1>2, <1>3 DEF IdInv, IdRows

\* What a request does to the objects of R2.
LEMMA EffectStored ==
    ASSUME ShapeInv, NEW m \in LateMessage, Effect(m)
    PROVE  \/ stored' = stored
           \/ /\ m.op = "complete" /\ Accepted(m)
              /\ stored' = [stored EXCEPT ![m.key] = [id |-> m.id, body |-> m.body]]
BY DEF Effect, LateMessage

\* What R2 does to the uploads on a request.
LEMMA EffectUploads ==
    ASSUME ShapeInv, NEW m \in LateMessage, Effect(m)
    PROVE  /\ \A id \in Ids \ {m.id} : uploads'[id] = uploads[id]
           /\ \A id \in Ids : uploads[id] = None => uploads'[id] = None
           /\ m.op = "part" => \A id \in Ids : uploads[id] # None => uploads'[id] # None
<1>0. /\ uploads \in [Ids -> Assembled \union {None}] /\ m.id \in Ids /\ m.body \in Assembled
      /\ m.op \in {"part", "complete", "abort"}
  BY DEF ShapeInv, TypeOK, LateMessage
<1>1. CASE m.op = "part"
  <2>1. ASSUME uploads[m.id] # None PROVE WithParts(uploads[m.id], m.body) \in Assembled
    <3>1. uploads[m.id] \in Assembled /\ m.body \in Assembled
      BY <1>0, <2>1
    <3> QED
      BY <3>1, PartsAdded
  <2>2. uploads' = IF uploads[m.id] = None THEN uploads
                   ELSE [uploads EXCEPT ![m.id] = WithParts(uploads[m.id], m.body)]
    BY <1>0, <1>1 DEF Effect
  <2> QED
    BY <1>0, <2>1, <2>2, MultipartAssumption
<1>2. CASE m.op = "complete"
  BY <1>0, <1>2 DEF Effect
<1>3. CASE m.op = "abort"
  BY <1>0, <1>3 DEF Effect
<1> QED
  BY <1>0, <1>1, <1>2, <1>3

\* What a key's handler does to the uploads, to the requests in flight and to the sessions
\* that were ended: it touches its own upload, drops it by a completion or an abort only,
\* and leaves requests of its own behind.
RemoteMove(k) ==
    /\ \A id \in Ids : intents[k] = None \/ id # intents[k].id => uploads'[id] = uploads[id]
    /\ \A id \in Ids : uploads[id] # None /\ h[k].pc \notin {"complete", "abort"}
                       => uploads'[id] # None
    /\ \A id \in Ids : uploads[id] = None /\ h[k].pc # "create" => uploads'[id] = None
    /\ \A m \in late' : m \in late \/ /\ intents[k] # None /\ m.id = intents[k].id
                                      /\ m.op = "abort" => h[k].pc = "abort"
                                      /\ m.op = "complete" => h[k].pc = "complete" /\ m.key = k
    /\ ended \subseteq ended'

\* The steps of handlers, seen from R2.
LEMMA RemoteMoves ==
    ASSUME ShapeInv, NEW k \in Keys,
           Step(k) \/ Request(k) \/ StartExpire(k) \/ StartRecover(k)
    PROVE  RemoteMove(k)
<1> USE DEF remote, history
<1>0. uploads \in [Ids -> Assembled \union {None}]
  BY DEF ShapeInv, TypeOK
<1>1. ASSUME UNCHANGED <<uploads, late>>, ended \subseteq ended' PROVE RemoteMove(k)
  BY <1>1 DEF RemoteMove
<1>2. ASSUME NEW m \in LateMessage, intents[k] # None, m.id = intents[k].id,
             m.op = "part" \/ m.op = h[k].pc, m.op = "complete" => m.key = k,
             \/ Effect(m) /\ UNCHANGED late
             \/ UNCHANGED <<uploads, late>>
             \/ late' = late \union {m} /\ UNCHANGED uploads,
             ended' = ended
      PROVE  RemoteMove(k)
  BY <1>2, EffectUploads DEF RemoteMove, LateMessage
<1>3. CASE RemotePart(k)
  <2>1. h[k].pc = "send"
    BY <1>3 DEF RemotePart, At
  <2>2. SentPart(k) \in LateMessage /\ SentPart(k).op = "part" /\ intents[k] # None
        /\ SentPart(k).id = intents[k].id
    BY <2>1, SentPartIs
  <2>3. \/ Effect(SentPart(k)) /\ UNCHANGED late
        \/ UNCHANGED <<uploads, late>>
        \/ late' = late \union {SentPart(k)} /\ UNCHANGED uploads
    BY <1>3 DEF RemotePart, Unanswered
  <2> QED
    BY <1>2, <1>3, <2>1, <2>2, <2>3 DEF RemotePart
<1>4. CASE RemoteComplete(k)
  <2>1. h[k].pc = "complete" /\ intents[k] # None
    BY <1>4, Places DEF RemoteComplete, At
  <2>2. /\ Message(k, "complete") \in LateMessage /\ Message(k, "complete").op = "complete"
        /\ Message(k, "complete").id = intents[k].id /\ intents[k].id \in Ids
        /\ Message(k, "complete").key = k
    BY <2>1, MessageIs
  <2>3. \/ /\ ended' = ended
           /\ \/ Effect(Message(k, "complete")) /\ UNCHANGED late
              \/ UNCHANGED <<uploads, late>>
              \/ late' = late \union {Message(k, "complete")} /\ UNCHANGED uploads
        \/ /\ uploads' = [uploads EXCEPT ![intents[k].id] = None] /\ late' = late
           /\ ended \subseteq ended'
    BY <1>4, <2>2 DEF RemoteComplete, Serve, Unanswered, Refused
  <2>4. CASE /\ uploads' = [uploads EXCEPT ![intents[k].id] = None] /\ late' = late
             /\ ended \subseteq ended'
    BY <1>0, <2>1, <2>2, <2>4 DEF RemoteMove
  <2> QED
    BY <1>2, <2>1, <2>2, <2>3, <2>4
<1>5. CASE RemoteAbort(k)
  <2>1. h[k].pc = "abort" /\ intents[k] # None
    BY <1>5, Places DEF RemoteAbort, At
  <2>2. /\ Message(k, "abort") \in LateMessage /\ Message(k, "abort").op = "abort"
        /\ Message(k, "abort").id = intents[k].id
    BY <2>1, MessageIs
  <2>3. \/ Effect(Message(k, "abort")) /\ UNCHANGED late
        \/ UNCHANGED <<uploads, late>>
        \/ late' = late \union {Message(k, "abort")} /\ UNCHANGED uploads
    BY <1>5 DEF RemoteAbort, Serve, Unanswered
  <2> QED
    BY <1>2, <1>5, <2>1, <2>2, <2>3 DEF RemoteAbort
<1>6. CASE RemoteCreate(k)
  <2>1. h[k].pc = "create" /\ intents[k] # None /\ ended' = ended
    BY <1>6, Places DEF RemoteCreate, At
  <2>2. intents[k].id \in Ids /\ NoParts # None
    BY <2>1, NoPartsAssembled, MultipartAssumption DEF ShapeInv, TypeOK, Intent
  <2>3. /\ late' = late
        /\ uploads' = uploads \/ uploads' = [uploads EXCEPT ![intents[k].id] = NoParts]
    BY <1>6 DEF RemoteCreate, Refused, Id
  <2> QED
    BY <1>0, <2>1, <2>2, <2>3 DEF RemoteMove
<1>7. CASE \/ Insert(k) \/ CreateFailed(k) \/ KeepPart(k) \/ Restore(k) \/ Mark(k) \/ AbortRows(k)
           \/ Activate(k) \/ Chunk(k) \/ MarkUploading(k) \/ Head(k) \/ Commit(k)
  BY <1>1, <1>7 DEF Insert, CreateFailed, KeepPart, Restore, Mark, AbortRows, Transaction,
              Activate, Chunk, MarkUploading, Head, Commit
<1>8. CASE Request(k) \/ StartExpire(k) \/ StartRecover(k)
  BY <1>1, <1>8 DEF Request, StartCreate, StartPut, StartPart, StartComplete, StartAbort,
              StartExpire, StartRecover
<1> QED
  BY <1>3, <1>4, <1>5, <1>6, <1>7, <1>8 DEF Step

\* A step of a key's handler leaves the objects at the other keys alone.
LEMMA OtherObjects ==
    ASSUME ShapeInv, NEW k \in Keys,
           Step(k) \/ Request(k) \/ StartExpire(k) \/ StartRecover(k)
    PROVE  \A j \in Keys \ {k} : stored'[j] = stored[j]
<1> USE DEF remote
<1>0. stored \in [Keys -> Object \union {None}]
  BY DEF ShapeInv, TypeOK
<1>1. ASSUME NEW m \in LateMessage, m.op = "complete" => m.key = k, Effect(m)
      PROVE  \A j \in Keys \ {k} : stored'[j] = stored[j]
  BY <1>0, <1>1, EffectStored
<1>2. CASE RemotePart(k)
  <2>1. h[k].pc = "send"
    BY <1>2 DEF RemotePart, At
  <2>2. SentPart(k) \in LateMessage /\ SentPart(k).op = "part"
    BY <2>1, SentPartIs
  <2>3. Effect(SentPart(k)) \/ stored' = stored
    BY <1>2 DEF RemotePart, Unanswered
  <2> QED
    BY <1>1, <2>2, <2>3
<1>3. ASSUME NEW op \in {"complete", "abort"}, h[k].pc = op,
             Effect(Message(k, op)) \/ stored' = stored
      PROVE  \A j \in Keys \ {k} : stored'[j] = stored[j]
  <2>1. intents[k] # None
    BY <1>3, Places
  <2>2. Message(k, op) \in LateMessage /\ Message(k, op).key = k
    BY <2>1, MessageIs
  <2> QED
    BY <1>1, <1>3, <2>2
<1>4. CASE RemoteComplete(k)
  BY <1>3, <1>4 DEF RemoteComplete, At, Serve, Unanswered, Refused
<1>5. CASE RemoteAbort(k)
  BY <1>3, <1>5 DEF RemoteAbort, At, Serve, Unanswered
<1>6. CASE \/ Insert(k) \/ CreateFailed(k) \/ KeepPart(k) \/ Restore(k) \/ Mark(k) \/ AbortRows(k)
           \/ Activate(k) \/ Chunk(k) \/ MarkUploading(k) \/ RemoteCreate(k) \/ Head(k) \/ Commit(k)
  BY <1>6 DEF Insert, CreateFailed, KeepPart, Restore, Mark, AbortRows, Transaction,
              Activate, Chunk, MarkUploading, RemoteCreate, Head, Commit, Refused
<1>7. CASE Request(k) \/ StartExpire(k) \/ StartRecover(k)
  BY <1>7 DEF Request, StartCreate, StartPut, StartPart, StartComplete, StartAbort,
              StartExpire, StartRecover
<1> QED
  BY <1>2, <1>4, <1>5, <1>6, <1>7 DEF Step

\* A HEAD that finds the version before, or nothing, shows that nothing was published.
LEMMA VerdictSays ==
    ASSUME ShapeInv, IdInv, NEW k \in Keys, intents[k] # None,
           Verdict(k) \in {"absent", "previous"}
    PROVE  ~Published(k)
<1>1. /\ intents[k].prev = CurrentId(k)
      /\ objects[k] # None => objects[k].id < intents[k].id
      /\ objects[k] # None => objects[k].id \in Nat
      /\ intents[k].id \in Nat /\ None \notin Ids /\ intents[k].id \in Ids
  BY MultipartAssumption DEF IdInv, ShapeInv, TypeOK, Object, Intent, Ids
<1>2. stored[k] = None \/ stored[k].id = intents[k].prev
  BY DEF Verdict
<1>3. intents[k].prev # intents[k].id
  BY <1>1 DEF CurrentId
<1> QED
  BY <1>2, <1>3 DEF Published

\* A session keeps its row, and its upload's id once it knows it.
LEMMA SessionKnown ==
    ASSUME ShapeInv, NEW k \in Keys, sessions[k] # None, OnSession(k)
    PROVE  sessions'[k] # None /\ (sessions[k].known => sessions'[k].known)
<1>0. /\ sessions \in [Keys -> Session \union {None}] /\ sessions[k] \in Session
      /\ None \notin Session
  BY MultipartAssumption DEF ShapeInv, TypeOK
<1>1. ASSUME \/ ActivateMultipart(k) \/ ResetMultipart(k)
             \/ FailMultipart(k) \/ BeginCompleteMultipart(k)
      PROVE  sessions'[k] \in Session /\ (sessions[k].known => sessions'[k].known)
  <2>1. ASSUME NEW status \in {"active", "completing", "error"}, NEW known \in BOOLEAN,
               sessions' = [sessions EXCEPT ![k].status = status, ![k].known = known],
               sessions[k].known => known
        PROVE  sessions'[k] \in Session /\ (sessions[k].known => sessions'[k].known)
    BY <1>0, <2>1 DEF Session
  <2>2. ASSUME NEW status \in {"active", "completing", "error"},
               sessions' = [sessions EXCEPT ![k].status = status]
        PROVE  sessions'[k] \in Session /\ (sessions[k].known => sessions'[k].known)
    BY <1>0, <2>2 DEF Session
  <2> QED
    BY <1>1, <2>1, <2>2 DEF ActivateMultipart, ResetMultipart, FailMultipart, BeginCompleteMultipart
<1>2. ASSUME NEW n \in Nos, NEW p, sessions' = [sessions EXCEPT ![k].pending[n] = p],
             p \in Pending
      PROVE  sessions'[k] \in Session /\ sessions'[k].known = sessions[k].known
  BY <1>0, <1>2 DEF Session
<1>3. ASSUME NEW n \in Nos, NEW body \in Bodies, PrepareMultipartPart(k, n, SizeOf[body])
      PROVE  sessions'[k] \in Session /\ sessions'[k].known = sessions[k].known
  <2> DEFINE prev == IF sessions[k].pending[n] = None THEN SizeOfPart(k, n)
                     ELSE sessions[k].pending[n].prev
             p == [prev |-> prev, req |-> SizeOf[body]]
  <2>1. prev \in Nat /\ SizeOf[body] \in Nat
    BY <1>0, PartSizes, MultipartAssumption DEF Pending, RowTypes, ShapeInv, TypeOK
  <2>2. p \in Pending
    BY <2>1 DEF Pending
  <2>3. sessions' = [sessions EXCEPT ![k].pending[n] = p]
    BY <1>3 DEF PrepareMultipartPart
  <2> HIDE DEF p
  <2> QED
    BY <1>2, <2>2, <2>3
<1>4. ASSUME NEW n \in Nos, NEW body \in Bodies, CommitMultipartPart(k, n, body)
      PROVE  sessions'[k] \in Session /\ sessions'[k].known = sessions[k].known
  <2> DEFINE parts == WithParts(sessions[k].parts, Part(n, body))
             s == [sessions[k] EXCEPT !.parts = parts, !.pending[n] = None]
  <2>1. parts \in Assembled
    <3>1. sessions[k].parts \in Assembled /\ Part(n, body) \in Assembled
      BY <1>0, AssembledIs DEF Session, Part
    <3> QED
      BY <3>1, PartsAdded
  <2>2. sessions' = [sessions EXCEPT ![k] = s]
    BY <1>0, <1>4 DEF CommitMultipartPart
  <2> HIDE DEF parts
  <2>3. s \in Session /\ s.known = sessions[k].known
    BY <1>0, <2>1 DEF Session
  <2> HIDE DEF s
  <2> QED
    BY <1>0, <2>2, <2>3
<1> QED
  BY <1>0, <1>1, <1>3, <1>4 DEF OnSession

\* An intent that stays does not forget its upload's id; only a session that begins may
\* not know it yet.
LEMMA KnownMoves ==
    ASSUME ShapeInv, NEW k \in Keys, IndexStepOf(k), intents[k] # None, intents'[k] # None
    PROVE  /\ IntentKept(k)
           /\ Unknown(k)' => Unknown(k) \/ (sessions[k] = None /\ sessions'[k] # None)
<1>1. IntentKept(k)
  BY IntentMoves DEF IntentOpened, IntentEnded
<1>2. CASE sessions[k] = None
  BY <1>1, <1>2 DEF Unknown, IntentKept
<1>3. CASE sessions[k] # None
  <2>1. sessions'[k] = sessions[k]
        \/ (sessions'[k] # None /\ (sessions[k].known => sessions'[k].known))
    <3>1. ~Opens(k)
      BY DEF Opens, BeginWrite
    <3>2. ~Ends(k)
      BY DEF Ends, Release, CommitWrite, ShapeInv, TypeOK
    <3>3. OnIntent(k) => sessions' = sessions
      BY <1>3 DEF OnIntent, UpdateWriteState
    <3> QED
      BY <1>3, <3>1, <3>2, <3>3, SessionKnown DEF IndexStepOf, IndexMove
  <2> QED
    BY <1>1, <1>3, <2>1 DEF Unknown, IntentKept
<1> QED
  BY <1>1, <1>2, <1>3

\* Where a handler goes, in one fact.
LEMMA StepPlaces ==
    ASSUME ShapeInv, NEW k \in Keys,
           Step(k) \/ Request(k) \/ StartExpire(k) \/ StartRecover(k)
    PROVE  HandlerMoves(k) /\ IndexStepOf(k) /\ RemoteMove(k)
BY CreatePlaces, SessionPlaces, ChunkPlaces, MarkPlaces, RemoteCreatePlaces,
   RemotePartPlaces, RemoteCompletePlaces, RemoteAbortPlaces, HeadPlaces,
   StartPlaces, StepMoves, StartMoves, RemoteMoves DEF Step

\* Only giving up and indexing end an intent.
LEMMA IntentLives ==
    ASSUME ShapeInv, NEW k \in Keys, h[k].pc \notin {"release", "commit"}, intents[k] # None,
           Step(k) \/ Request(k) \/ StartExpire(k) \/ StartRecover(k)
    PROVE  intents'[k] # None
BY StepPlaces, IntentEnds DEF HandlerMoves, AbortRows, Commit, At

\* The other keys.
LEMMA DriftOfOthers ==
    ASSUME ShapeInv, IdInv, NEW k \in Keys, NEW j \in Keys \ {k}, DriftInv(j), RemoteMove(k),
           h'[j] = h[j], intents'[j] = intents[j], sessions'[j] = sessions[j],
           objects'[j] = objects[j], stored'[j] = stored[j]
    PROVE  DriftInv(j)'
<1>1. Published(j)' <=> Published(j)
  BY DEF Published
<1>2. CASE intents[j] = None
  <2>1. h[j] = Idle /\ ~Published(j) /\ ~Unknown(j)'
    BY <1>2 DEF ShapeInv, PlaceInv, Published, Unknown
  <2> QED
    BY <1>1, <2>1 DEF DriftInv, UntriedInv, Early, Idle
<1>3. CASE intents[j] # None
  <2>1. intents[j].id \in Ids /\ (intents[k] = None \/ intents[k].id # intents[j].id)
    BY <1>3 DEF IdInv, ShapeInv, TypeOK, Intent
  <2>2. uploads'[intents[j].id] = uploads[intents[j].id]
    BY <2>1 DEF RemoteMove
  <2>3. LateComplete(intents[j].id)' => LateComplete(intents[j].id)
    BY <2>1 DEF RemoteMove, LateComplete
  <2>4. Untried(j) => Untried(j)'
    BY <1>1, <2>3 DEF Untried
  <2>5. Unknown(j)' <=> Unknown(j)
    BY DEF Unknown
  <2> QED
    BY <1>1, <2>2, <2>4, <2>5 DEF DriftInv, UntriedInv
<1> QED
  BY <1>2, <1>3

\* The steps that neither complete nor end an upload.
LEMMA DriftQuiet ==
    ASSUME ShapeInv, NEW k \in Keys, DriftInv(k), RemoteMove(k), IndexStepOf(k),
           intents[k] # None, intents'[k] # None, stored'[k] = stored[k],
           h[k].pc # "complete", h[k].pc = "create" => ~Published(k),
           sessions[k] = None /\ sessions'[k] # None => Untried(k),
           h'[k].flow = "putstart" => intents[k].internal,
           h'[k].flow = "put" => intents[k].internal /\ intents'[k].known,
           Early(h'[k]) => Untried(k),
           h'[k].pc \in {"markConflict", "classify", "release"}
              => Untried(k) \/ uploads'[intents[k].id] = None,
           h'[k].pc \in {"markConflict", "release"} => ~Published(k),
           h'[k].pc \in {"markEtag", "commit"} => Published(k) /\ stored[k].body = h'[k].want
    PROVE  DriftInv(k)'
<1>1. /\ IntentKept(k) /\ intents[k].id \in Ids /\ intents'[k].id = intents[k].id
      /\ objects'[k] = objects[k] /\ intents'[k].internal = intents[k].internal
      /\ Unknown(k)' => Unknown(k) \/ (sessions[k] = None /\ sessions'[k] # None)
  BY KnownMoves DEF IntentKept, ShapeInv, TypeOK, Intent
<1>2. Published(k)' <=> Published(k)
  BY <1>1 DEF Published
<1>3. LateComplete(intents[k].id)' => LateComplete(intents[k].id)
  BY <1>1 DEF RemoteMove, LateComplete
<1>4. Untried(k) => Untried(k)'
  BY <1>2, <1>3 DEF Untried
<1>5. Published(k) => uploads'[intents'[k].id] = None
  BY <1>1 DEF DriftInv, RemoteMove
<1>6. UntriedInv(k)'
  BY <1>1, <1>4 DEF DriftInv, UntriedInv
<1>7. stored'[k] = objects'[k] \/ Published(k)'
  BY <1>1, <1>2 DEF DriftInv
<1> QED
  BY <1>1, <1>2, <1>4, <1>5, <1>6, <1>7 DEF DriftInv

\* A handler that goes when its intent has ended.
LEMMA DriftEnded ==
    ASSUME NEW k \in Keys, intents'[k] = None, h'[k] = Idle, stored'[k] = objects'[k]
    PROVE  DriftInv(k)'
BY DEF DriftInv, UntriedInv, Published, Unknown, Early, Idle

\* The steps that create an upload.
LEMMA CreateDrift ==
    ASSUME ShapeInv, NEW k \in Keys, DriftInv(k),
           Insert(k) \/ Activate(k) \/ CreateFailed(k) \/ MarkUploading(k) \/ RemoteCreate(k)
    PROVE  DriftInv(k)'
<1> USE DEF Steps, Flows
<1>0. /\ h[k].pc \in {"insert", "activate", "failed", "markUploading", "create"}
      /\ h[k].flow \in {"create", "putstart"} /\ intents[k] # None /\ h[k] \in Handler
      /\ h[k].pc = "markUploading" => h[k].flow = "putstart"
      /\ IndexStepOf(k) /\ RemoteMove(k) /\ intents'[k] # None
  <2>1. h[k].pc \in {"insert", "activate", "failed", "markUploading", "create"}
    BY DEF Insert, Activate, CreateFailed, MarkUploading, RemoteCreate, At
  <2>2. IndexStepOf(k) /\ RemoteMove(k)
    BY StepPlaces DEF Step
  <2>3. Goes(h[k].pc, h[k].flow) /\ intents[k] # None /\ h[k] \in Handler
    BY <2>1, Places DEF Route, Idle
  <2>4. intents'[k] # None
    BY <2>1, <2>3, IntentLives DEF Step
  <2> QED
    BY <2>1, <2>2, <2>3, <2>4 DEF Goes
<1>1. Untried(k) /\ ~Published(k) /\ (h[k].flow = "putstart" => intents[k].internal)
  BY <1>0 DEF DriftInv, UntriedInv, Early, Untried
<1>2. stored' = stored
  BY DEF Insert, Activate, CreateFailed, MarkUploading, RemoteCreate, Transaction, Refused, remote
<1>3. /\ h'[k].pc \in {"create", "release", "idle", "abort", "hold", "activate", "markUploading",
                       "failed", "chunk"}
      /\ h'[k].flow \in {h[k].flow, "unstarted", "create", "none", "put"}
      /\ h'[k].flow = "put" => h[k].flow = "putstart" /\ UpdateWriteState(k, "uploading", TRUE)
  <2>1. CASE Insert(k) \/ CreateFailed(k)
    <3>1. PICK pc \in {"create", "release", "hold"} : Stay(k, pc)
      BY <2>1 DEF Insert, CreateFailed, Transaction
    <3>2. h'[k].pc = pc /\ h'[k].flow = h[k].flow
      BY <3>1, StayIs
    <3>3. h'[k].flow # "put"
      BY <1>0, <3>2
    <3> QED
      BY <3>1, <3>2, <3>3
  <2>2. CASE Activate(k)
    <3>1. CASE Stay(k, "idle")
      <4>1. h'[k].pc = "idle" /\ h'[k].flow = "none"
        BY <3>1, StayIs DEF Idle
      <4> QED
        BY <4>1
    <3>2. CASE Goto(k, "abort", "unstarted")
      <4>1. h'[k].pc = "abort" /\ h'[k].flow = "unstarted"
        BY <3>2, GotoIs
      <4> QED
        BY <4>1
    <3> QED
      BY <2>2, <3>1, <3>2 DEF Activate
  <2>3. CASE MarkUploading(k)
    <3>1. CASE Goto(k, "chunk", "put") /\ UpdateWriteState(k, "uploading", TRUE)
      <4>1. h'[k].pc = "chunk" /\ h'[k].flow = "put"
        BY <3>1, GotoIs
      <4>2. h[k].flow = "putstart"
        BY <1>0, <2>3 DEF MarkUploading, At
      <4> QED
        BY <3>1, <4>1, <4>2
    <3>2. CASE Goto(k, "abort", "unstarted")
      <4>1. h'[k].pc = "abort" /\ h'[k].flow = "unstarted"
        BY <3>2, GotoIs
      <4> QED
        BY <4>1
    <3> QED
      BY <2>3, <3>1, <3>2 DEF MarkUploading
  <2>4. CASE RemoteCreate(k)
    <3>1. PICK pc \in {"activate", "markUploading", "release", "failed"},
               flow \in {h[k].flow, "create"} : Goto(k, pc, flow)
      BY <2>4 DEF RemoteCreate, Refused, Stay
    <3>2. flow \in Flows
      BY <1>0, <3>1
    <3>3. h'[k].pc = pc /\ h'[k].flow = flow
      BY <3>1, <3>2, GotoIs
    <3>4. h'[k].flow # "put"
      BY <1>0, <3>1, <3>3
    <3> QED
      BY <3>1, <3>3, <3>4
  <2> QED
    BY <2>1, <2>2, <2>3, <2>4
<1>4. h'[k].flow = "put" => intents'[k].known
  <2>1. intents \in [Keys -> Intent \union {None}] /\ intents[k] \in Intent
    BY <1>0 DEF ShapeInv, TypeOK
  <2> QED
    BY <1>3, <2>1 DEF UpdateWriteState, Intent
<1>5. h'[k].flow = "putstart" => h[k].flow = "putstart"
  BY <1>3
<1>6. /\ h'[k].flow = "putstart" => intents[k].internal
      /\ h'[k].flow = "put" => intents[k].internal /\ intents'[k].known
      /\ h'[k].pc \notin {"markEtag", "commit"}
  BY <1>1, <1>3, <1>4, <1>5
<1> QED
  BY <1>0, <1>1, <1>2, <1>6, DriftQuiet

\* Parts and chunks.
LEMMA PartsDrift ==
    ASSUME ShapeInv, NEW k \in Keys, DriftInv(k), KeepPart(k) \/ Chunk(k) \/ RemotePart(k)
    PROVE  DriftInv(k)'
<1> USE DEF Steps, Flows
<1>0. /\ intents[k] # None /\ h[k] \in Handler /\ h \in [Keys -> Handler] /\ PlaceInv(k)
      /\ h[k].pc \in {"keep", "chunk", "send"} /\ h[k].flow \in {"part", "put"}
      /\ h[k].pc = "keep" => h[k].flow = "part"
      /\ IndexStepOf(k) /\ RemoteMove(k) /\ intents'[k] # None
  <2>1. h[k].pc \in {"keep", "chunk", "send"}
    BY DEF KeepPart, Chunk, RemotePart, At
  <2>2. IndexStepOf(k) /\ RemoteMove(k)
    BY StepPlaces DEF Step
  <2>3. Goes(h[k].pc, h[k].flow) /\ intents[k] # None /\ h[k] \in Handler
    BY <2>1, Places DEF Route, Idle
  <2>4. intents'[k] # None
    BY <2>1, <2>3, IntentLives DEF Step
  <2> QED
    BY <2>1, <2>2, <2>3, <2>4 DEF Goes, ShapeInv, TypeOK
<1>1. stored' = stored
  <2>1. ASSUME RemotePart(k) PROVE stored' = stored
    <3>1. Effect(SentPart(k)) => stored' = stored
      BY <2>1, SentPartIs, EffectStored DEF RemotePart, At
    <3> QED
      BY <2>1, <3>1 DEF RemotePart, Unanswered, remote
  <2> QED
    BY <2>1 DEF KeepPart, Chunk, Transaction, remote
<1>2. /\ h'[k].pc \in {"idle", "keep", "chunk", "send", "markAborting", "markCompleting"}
      /\ h'[k].flow \in {h[k].flow, "none"}
  <2>1. ASSUME NEW pc \in {"idle", "send", "markAborting", "markCompleting"}, Stay(k, pc)
        PROVE  h'[k].pc = pc /\ h'[k].flow \in {h[k].flow, "none"}
    BY <2>1, StayIs DEF Idle
  <2>2. CASE h' = [h EXCEPT ![k].pc = IF In(k, {"part"}) THEN "keep" ELSE "chunk",
                            ![k].sent = IF In(k, {"part"}) THEN 0 ELSE @ + 1]
    BY <1>0, <2>2 DEF Handler
  <2> QED
    BY <2>1, <2>2 DEF KeepPart, Chunk, RemotePart, Transaction, Unanswered, Stay
<1>3. h[k].flow = "put" => Untried(k) /\ intents[k].internal /\ intents'[k].known
  <2>1. h[k].flow = "put" => Untried(k) /\ intents[k].internal /\ intents[k].known
    BY <1>0 DEF DriftInv, UntriedInv, Early
  <2> QED
    BY <1>0, <2>1, KnownMoves DEF IntentKept
<1>4. h[k].flow = "part" => sessions[k] # None
  BY <1>0 DEF PlaceInv
<1>5. /\ h'[k].flow # "putstart" /\ (h'[k].flow = "put" => h[k].flow = "put")
      /\ Early(h'[k]) => h[k].flow = "put"
      /\ h'[k].pc \notin {"markConflict", "classify", "release", "markEtag", "commit"}
      /\ h[k].pc \notin {"create", "complete"}
  BY <1>0, <1>2 DEF Early
<1> QED
  BY <1>0, <1>1, <1>3, <1>4, <1>5, DriftQuiet

\* Restoring a session, and giving up its rows.
LEMMA RowsDrift ==
    ASSUME ShapeInv, NEW k \in Keys, DriftInv(k), Restore(k) \/ AbortRows(k)
    PROVE  DriftInv(k)'
<1> USE DEF Steps, Flows
<1>0. /\ h[k].pc \in {"restore", "release"} /\ intents[k] # None
      /\ h[k].pc = "restore" => /\ h[k].flow \in {"complete", "resolve", "recover"}
                                /\ sessions[k] # None
      /\ IndexStepOf(k) /\ RemoteMove(k) /\ stored' = stored
      /\ intents \in [Keys -> Intent \union {None}]
  <2>1. h[k].pc \in {"restore", "release"}
    BY DEF Restore, AbortRows, At
  <2>2. IndexStepOf(k) /\ RemoteMove(k)
    BY StepPlaces DEF Step
  <2>3. stored' = stored
    BY DEF Restore, AbortRows, Transaction, remote
  <2> QED
    BY <2>1, <2>2, <2>3, Places DEF Route, Goes, Idle, ShapeInv, PlaceInv, TypeOK
<1>1. CASE Restore(k)
  <2>1. h[k].pc = "restore"
    BY <1>1 DEF Restore, At
  <2>2. intents'[k] # None
    BY <1>0, <1>1, <2>1, IntentLives DEF Step
  <2>3. PICK pc \in {"idle", "hold"} : Stay(k, pc)
    BY <1>1 DEF Restore, Transaction
  <2>4. h'[k].pc = pc /\ h'[k].flow \in {h[k].flow, "none"}
    BY <2>3, StayIs DEF Idle
  <2>5. ~Early(h'[k]) /\ h'[k].flow \notin {"put", "putstart"}
    BY <1>0, <2>1, <2>4 DEF Early
  <2> QED
    BY <1>0, <2>1, <2>2, <2>4, <2>5, DriftQuiet
<1>2. CASE AbortRows(k)
  <2>1. h[k].pc = "release" /\ h'[k] = Idle
    BY <1>2, StayIs DEF AbortRows, At, Transaction
  <2>2. stored[k] = objects[k]
    BY <2>1 DEF DriftInv
  <2>3. CASE Release(k)
    <3>1. intents'[k] = None /\ stored'[k] = objects'[k]
      BY <1>0, <2>2, <2>3 DEF Release
    <3> QED
      BY <2>1, <3>1, DriftEnded
  <2>4. CASE UNCHANGED index
    <3>1. intents' = intents /\ sessions' = sessions
      BY <2>4 DEF index
    <3>2. ~Early(h'[k]) /\ h'[k].flow = "none" /\ h'[k].pc = "idle"
      BY <2>1 DEF Early, Idle
    <3> QED
      BY <1>0, <2>1, <3>1, <3>2, DriftQuiet
  <2> QED
    BY <1>2, <2>3, <2>4 DEF AbortRows, Transaction
<1> QED
  BY <1>1, <1>2

\* The states of intents.
LEMMA MarkDrift ==
    ASSUME ShapeInv, NEW k \in Keys, DriftInv(k), Mark(k)
    PROVE  DriftInv(k)'
<1> USE DEF Steps, Flows
<1>0. /\ h[k].pc \in {"markCompleting", "markEtag", "markConsumed", "markConflict",
                      "markAborting", "markRecovering", "hold"}
      /\ StateAt[h[k].pc] \in {"completing", "uploading", "consumed", "aborting", "recovery"}
  BY Marks DEF Mark
<1>1. /\ intents[k] # None /\ Goes(h[k].pc, h[k].flow) /\ IndexStepOf(k) /\ RemoteMove(k)
      /\ intents'[k] # None
  <2>1. IndexStepOf(k) /\ RemoteMove(k)
    BY StepPlaces DEF Step
  <2>2. intents[k] # None /\ Goes(h[k].pc, h[k].flow)
    BY <1>0, Places DEF Route, Idle
  <2> QED
    BY <1>0, <2>1, <2>2, IntentLives DEF Step
<1>2. sessions' = sessions /\ stored' = stored
  BY DEF Mark, Transaction, UpdateWriteState, index, remote
<1>3. ASSUME NEW pc \in Steps, Stay(k, pc), pc # "idle",
             \/ h[k].pc = "markCompleting" /\ pc \in {"complete", "restore", "markAborting"}
             \/ h[k].pc = "markEtag" /\ pc \in {"commit", "hold"}
             \/ h[k].pc = "markConsumed" /\ pc = "head"
             \/ h[k].pc = "markConflict" /\ pc = "release"
             \/ h[k].pc = "markAborting" /\ pc = "abort"
             \/ h[k].pc = "markRecovering" /\ pc = "head"
      PROVE  DriftInv(k)'
  <2>1. h'[k].pc = pc /\ h'[k].flow = h[k].flow /\ h'[k].want = h[k].want
    BY <1>3, StayIs
  <2>2. h[k].flow \notin {"putstart", "create", "unstarted"}
        /\ (h[k].pc = "markConflict" => h[k].flow = "complete")
    BY <1>1, <1>3 DEF Goes
  <2>3. Early(h'[k]) => Early(h[k])
    BY <1>3, <2>1, <2>2 DEF Early
  <2>4. Early(h'[k]) => Untried(k)
    BY <2>3 DEF DriftInv, UntriedInv
  <2>5. h'[k].flow = "put" => intents[k].internal /\ intents'[k].known
    <3>1. h'[k].flow = "put" => intents[k].internal /\ intents[k].known
      BY <2>1 DEF DriftInv, UntriedInv
    <3> QED
      BY <1>1, <3>1, KnownMoves DEF IntentKept
  <2>6. h'[k].pc \in {"markConflict", "classify", "release"}
           => ~Published(k) /\ (Untried(k) \/ uploads'[intents[k].id] = None)
    <3>1. h'[k].pc \in {"markConflict", "classify", "release"} => h[k].pc = "markConflict"
      BY <1>3, <2>1
    <3>2. intents[k].id \in Ids
      BY <1>1 DEF ShapeInv, TypeOK, Intent
    <3>3. h[k].pc = "markConflict"
             => ~Published(k) /\ (Untried(k) \/ uploads'[intents[k].id] = None)
      BY <1>1, <3>2 DEF DriftInv, RemoteMove
    <3> QED
      BY <3>1, <3>3
  <2>7. h'[k].pc \in {"markEtag", "commit"} => Published(k) /\ stored[k].body = h'[k].want
    BY <1>3, <2>1 DEF DriftInv
  <2> QED
    BY <1>0, <1>1, <1>2, <2>1, <2>2, <2>4, <2>5, <2>6, <2>7, DriftQuiet
<1>4. CASE Stay(k, "idle")
  <2>1. h'[k] = Idle
    BY <1>4, StayIs
  <2>2. ~Early(h'[k]) /\ h'[k].flow = "none" /\ h'[k].pc = "idle"
    BY <2>1 DEF Early, Idle
  <2> QED
    BY <1>0, <1>1, <1>2, <2>2, DriftQuiet
<1>5. CASE Stay(k, AfterMark[h[k].pc])
  BY <1>0, <1>3, <1>4, <1>5, Marks
<1>6. CASE Stay(k, UnlessMarked(k))
  BY <1>0, <1>3, <1>4, <1>6 DEF UnlessMarked, At, In
<1> QED
  BY <1>5, <1>6 DEF Mark, Transaction

\* The index takes what is published.
LEMMA CommitDrift ==
    ASSUME ShapeInv, NEW k \in Keys, DriftInv(k), Commit(k)
    PROVE  DriftInv(k)'
<1> USE DEF Steps, Flows
<1>0. /\ h[k].pc = "commit" /\ intents[k] # None /\ Goes(h[k].pc, h[k].flow) /\ stored' = stored
      /\ IndexStepOf(k) /\ RemoteMove(k)
  <2>1. IndexStepOf(k) /\ RemoteMove(k)
    BY StepPlaces DEF Step
  <2> QED
    BY <2>1, Places DEF Commit, At, Route, Idle, remote
<1>1. Published(k) /\ stored[k].body = h[k].want
  BY <1>0 DEF DriftInv
<1>2. /\ stored[k] = [id |-> intents[k].id, body |-> h[k].want]
      /\ objects \in [Keys -> Object \union {None}] /\ intents \in [Keys -> Intent \union {None}]
  <2>1. stored[k] \in Object /\ stored[k].id = intents[k].id
    BY <1>1 DEF Published, ShapeInv, TypeOK
  <2>2. stored[k] = [id |-> stored[k].id, body |-> stored[k].body]
    BY <2>1 DEF Object
  <2> QED
    BY <1>1, <2>1, <2>2 DEF ShapeInv, TypeOK
<1>3. CASE CommitWrite(k, h[k].want) /\ Stay(k, "idle")
  <2>1. h'[k] = Idle
    BY <1>3, StayIs
  <2>2. intents'[k] = None /\ stored'[k] = objects'[k]
    BY <1>0, <1>2, <1>3 DEF CommitWrite
  <2> QED
    BY <2>1, <2>2, DriftEnded
<1>4. CASE Stay(k, UnlessCommitted(k)) /\ UNCHANGED index
  <2>1. PICK pc \in {"hold", "idle"} : Stay(k, pc)
    BY <1>4 DEF UnlessCommitted
  <2>2. h'[k].pc = pc /\ h'[k].flow \in {h[k].flow, "none"}
    BY <2>1, StayIs DEF Idle
  <2>3. h[k].flow \notin {"putstart", "create", "unstarted"}
    BY <1>0 DEF Goes
  <2>4. ~Early(h'[k]) /\ h'[k].flow # "putstart"
    BY <2>2, <2>3 DEF Early
  <2>5. intents' = intents /\ sessions' = sessions
    BY <1>4 DEF index
  <2>6. h'[k].flow = "put" => intents[k].internal /\ intents'[k].known
    BY <2>2, <2>5 DEF DriftInv, UntriedInv
  <2> QED
    BY <1>0, <2>2, <2>4, <2>5, <2>6, DriftQuiet
<1> QED
  BY <1>3, <1>4 DEF Commit

\* A completion is sent only for an upload whose id is stored; it publishes the object and
\* ends the upload.
LEMMA CompleteDrift ==
    ASSUME ShapeInv, NEW k \in Keys, DriftInv(k), RemoteComplete(k)
    PROVE  DriftInv(k)'
<1> USE DEF Steps, Flows
<1>0. /\ h[k].pc = "complete" /\ intents[k] # None /\ intents[k] \in Intent
      /\ h[k].flow \in {"put", "complete"} /\ PlaceInv(k) /\ RowInv(k) /\ RemoteMove(k)
      /\ intents' = intents /\ sessions' = sessions /\ objects' = objects
      /\ stored \in [Keys -> Object \union {None}] /\ uploads \in [Ids -> Assembled \union {None}]
  <2>1. h[k].pc = "complete" /\ UNCHANGED index
    BY DEF RemoteComplete, At
  <2>2. RemoteMove(k)
    BY StepPlaces DEF Step
  <2> QED
    BY <2>1, <2>2, Places DEF Route, Goes, Idle, ShapeInv, index, TypeOK
<1>1. /\ Message(k, "complete") \in LateMessage /\ Message(k, "complete").op = "complete"
      /\ Message(k, "complete").key = k /\ Message(k, "complete").id = intents[k].id
      /\ Message(k, "complete").body = h[k].want /\ intents[k].id \in Ids
  BY <1>0, MessageIs
<1>2. ~Unknown(k)'
  <2>1. CASE h[k].flow = "put"
    BY <1>0, <2>1 DEF DriftInv, UntriedInv, Unknown, PlaceInv
  <2>2. CASE h[k].flow = "complete"
    BY <1>0, <2>2 DEF Unknown, PlaceInv, RowInv
  <2> QED
    BY <1>0, <2>1, <2>2
<1>3. h[k].flow = "put" => /\ intents'[k].internal /\ intents'[k].known
                           /\ ~Published(k) /\ ~LateComplete(intents[k].id)
  BY <1>0 DEF DriftInv, UntriedInv, Early, Untried
<1>4. ASSUME NEW pc \in Steps, NEW flow \in Flows, Goto(k, pc, flow),
             \/ pc = "head" /\ flow \in {"putresolve", "resolve"}
             \/ pc = "markConsumed" /\ flow = "consumed"
             \/ pc = "restore" /\ flow = "complete"
             \/ /\ pc = "markAborting" /\ flow = "put" /\ h[k].flow = "put"
                /\ UNCHANGED <<stored, late>>
             \/ /\ pc = "markConflict" /\ flow = "complete"
                /\ stored' = stored /\ uploads[intents[k].id] # None
                /\ uploads' = [uploads EXCEPT ![intents[k].id] = None],
             stored'[k] = objects'[k] \/ Published(k)',
             Published(k)' => uploads'[intents'[k].id] = None
      PROVE  DriftInv(k)'
  <2>1. h'[k].pc = pc /\ h'[k].flow = flow
    <3>1. pc # "idle"
      BY <1>4
    <3>2. Goto(k, pc, flow)
      BY <1>4
    <3> QED
      BY <3>1, <3>2, GotoIs
  <2>2. Early(h'[k]) => Untried(k)'
    <3>1. CASE pc = "markAborting"
      <4>1. stored' = stored /\ late' = late /\ h[k].flow = "put"
        BY <1>4, <3>1
      <4> QED
        BY <1>0, <1>3, <4>1 DEF Untried, Published, LateComplete
    <3>2. CASE pc # "markAborting"
      BY <1>4, <2>1, <3>2 DEF Early
    <3> QED
      BY <3>1, <3>2
  <2>3. h'[k].flow # "putstart" /\ (h'[k].flow = "put" => h[k].flow = "put")
    BY <1>4, <2>1
  <2>4. pc = "markConflict" => ~Published(k)' /\ uploads'[intents'[k].id] = None
    BY <1>0, <1>1, <1>4 DEF DriftInv, Published
  <2>5. UntriedInv(k)'
    BY <1>2, <1>3, <2>2, <2>3 DEF UntriedInv
  <2>6. h'[k].pc \notin {"classify", "release", "markEtag", "commit"}
    BY <1>4, <2>1
  <2> QED
    BY <1>4, <2>1, <2>4, <2>5, <2>6 DEF DriftInv
<1>5. ASSUME UNCHANGED stored
      PROVE  /\ stored'[k] = objects'[k] \/ Published(k)'
             /\ Published(k)' => uploads'[intents'[k].id] = None
  BY <1>0, <1>1, <1>5 DEF DriftInv, Published, RemoteMove
<1>6. ASSUME Accepted(Message(k, "complete")), Effect(Message(k, "complete"))
      PROVE  /\ Published(k)' /\ stored'[k].body = h[k].want
             /\ uploads'[intents'[k].id] = None
  <2> DEFINE o == [id |-> intents[k].id, body |-> h[k].want]
  <2>1. o \in Object
    BY <1>1 DEF LateMessage, Object
  <2>2. stored'[k] = o /\ uploads' = [uploads EXCEPT ![intents[k].id] = None]
    BY <1>0, <1>1, <1>6 DEF Effect
  <2>3. stored'[k] # None /\ stored'[k].id = intents[k].id /\ stored'[k].body = h[k].want
    BY <2>1, <2>2, MultipartAssumption
  <2> QED
    BY <1>0, <1>1, <2>2, <2>3 DEF Published
<1>7. CASE Accepted(Message(k, "complete")) /\ Serve(k, "complete", "markEtag", h[k].flow)
  <2>1. h'[k].pc = "markEtag" /\ h'[k].want = h[k].want /\ h'[k].flow = h[k].flow
    <3>1. Goto(k, "markEtag", h[k].flow) /\ h[k].flow \in Flows
      BY <1>0, <1>7 DEF Serve
    <3> QED
      BY <3>1, GotoIs
  <2>2. Published(k)' /\ stored'[k].body = h'[k].want /\ uploads'[intents'[k].id] = None
    BY <1>6, <1>7, <2>1 DEF Serve
  <2>3. ~Early(h'[k]) /\ h'[k].flow # "putstart"
    BY <1>0, <2>1 DEF Early
  <2>4. UntriedInv(k)'
    BY <1>2, <1>3, <2>1, <2>3 DEF UntriedInv
  <2> QED
    BY <2>1, <2>2, <2>4 DEF DriftInv
<1>8. CASE /\ IF In(k, {"put"}) THEN Goto(k, "head", "putresolve")
              ELSE Goto(k, "markConsumed", "consumed")
           /\ UNCHANGED remote
  BY <1>4, <1>5, <1>8 DEF remote
<1>9. Resolving(k) \in {"putresolve", "resolve"}
  BY DEF Resolving
<1>10. CASE Goto(k, "head", Resolving(k)) /\ UNCHANGED remote
  BY <1>4, <1>5, <1>9, <1>10 DEF remote
<1>11. CASE Unanswered(k, Message(k, "complete"), "head", Resolving(k))
  <2>1. UNCHANGED stored \/ (Accepted(Message(k, "complete")) /\ Effect(Message(k, "complete")))
    BY <1>1, <1>11 DEF Unanswered, Effect
  <2> QED
    BY <1>4, <1>5, <1>6, <1>9, <1>11, <2>1 DEF Unanswered
<1>12. CASE Refused(k, IF In(k, {"put"}) THEN "markAborting" ELSE "restore", h[k].flow)
  BY <1>0, <1>4, <1>5, <1>12 DEF Refused, remote, In
<1>13. CASE /\ uploads[intents[k].id] # None
            /\ uploads' = [uploads EXCEPT ![intents[k].id] = None]
            /\ Stay(k, IF In(k, {"put"}) THEN "markAborting" ELSE "markConflict")
            /\ UNCHANGED <<stored, late>>
  BY <1>0, <1>4, <1>5, <1>13 DEF Stay, In
<1> QED
  BY <1>1, <1>7, <1>8, <1>10, <1>11, <1>12, <1>13 DEF RemoteComplete

\* An upload that was aborted is gone.
LEMMA AbortDrift ==
    ASSUME ShapeInv, NEW k \in Keys, DriftInv(k), RemoteAbort(k)
    PROVE  DriftInv(k)'
<1> USE DEF Steps, Flows
<1>0. /\ h[k].pc = "abort" /\ intents[k] # None
      /\ h[k].flow \in {"unstarted", "put", "putresolve", "consumed", "abort", "expire", "recover"}
      /\ intents' = intents /\ sessions' = sessions /\ objects' = objects
      /\ IndexStepOf(k) /\ RemoteMove(k) /\ uploads \in [Ids -> Assembled \union {None}]
  <2>1. IndexStepOf(k) /\ RemoteMove(k)
    BY StepPlaces DEF Step
  <2> QED
    BY <2>1, Places DEF RemoteAbort, At, Route, Goes, Idle, index, ShapeInv, TypeOK
<1>1. /\ Message(k, "abort") \in LateMessage /\ Message(k, "abort").op = "abort"
      /\ Message(k, "abort").id = intents[k].id /\ intents[k].id \in Ids
  BY <1>0, MessageIs
<1>2. stored' = stored
  <2>1. Effect(Message(k, "abort")) => stored' = stored
    BY <1>1, EffectStored
  <2> QED
    BY <2>1 DEF RemoteAbort, Serve, Unanswered
<1>3. PICK pc \in {"release", "classify", "idle", "hold"} :
         /\ Goto(k, pc, h[k].flow)
         /\ pc = "release" => h[k].flow \in {"unstarted", "put"}
         /\ pc \in {"release", "classify"} => Effect(Message(k, "abort"))
  BY DEF RemoteAbort, Serve, Unanswered, In
<1>4. /\ h'[k].pc = pc
      /\ pc = "idle" => h'[k].flow = "none"
      /\ pc # "idle" => h'[k].flow = h[k].flow
  <2>1. Goto(k, pc, h[k].flow) /\ h[k].flow \in Flows
    BY <1>0, <1>3
  <2> QED
    BY <2>1, GotoIs DEF Idle
<1>5. Early(h'[k]) => Early(h[k])
  BY <1>0, <1>3, <1>4 DEF Early
<1>6. Early(h'[k]) => Untried(k)
  BY <1>5 DEF DriftInv, UntriedInv
<1>7. h'[k].flow # "putstart" /\ (h'[k].flow = "put" => intents[k].internal /\ intents'[k].known)
  BY <1>0, <1>4 DEF DriftInv, UntriedInv
<1>8. pc \in {"release", "classify"} => uploads'[intents[k].id] = None
  BY <1>0, <1>1, <1>3 DEF Effect
<1>9. pc = "release" => ~Published(k)
  <2>1. pc = "release" => Early(h[k])
    BY <1>0, <1>3 DEF Early
  <2> QED
    BY <2>1 DEF DriftInv, UntriedInv, Untried
<1>10. h'[k].pc \notin {"markConflict", "markEtag", "commit"}
  BY <1>3, <1>4
<1> QED
  BY <1>0, <1>2, <1>4, <1>6, <1>7, <1>8, <1>9, <1>10, DriftQuiet

\* What a HEAD shows: rows are given up only when no completion can have been sent, or the
\* upload is gone.
LEMMA HeadDrift ==
    ASSUME ShapeInv, IdInv, NEW k \in Keys, DriftInv(k), Head(k)
    PROVE  DriftInv(k)'
<1> USE DEF Steps, Flows
<1>0. /\ h[k].pc \in {"head", "classify"} /\ intents[k] # None /\ h \in [Keys -> Handler]
      /\ h[k].flow \in {"resolve", "putresolve", "consumed", "abort", "expire", "recover"}
      /\ h[k].pc = "head" => h[k].flow # "abort"
      /\ intents' = intents /\ sessions' = sessions /\ stored' = stored /\ uploads' = uploads
      /\ IndexStepOf(k) /\ RemoteMove(k) /\ PlaceInv(k)
  <2>1. h[k].pc \in {"head", "classify"}
    BY DEF Head
  <2>2. Goes(h[k].pc, h[k].flow)
    BY <2>1, Places DEF Route, Idle
  <2>3. IndexStepOf(k) /\ RemoteMove(k)
    BY StepPlaces DEF Step
  <2> QED
    BY <2>1, <2>2, <2>3, Places DEF Goes, Head, index, remote, ShapeInv, TypeOK
<1>1. CASE /\ Verdict(k) = "published"
           /\ h' = [h EXCEPT ![k].pc = "commit", ![k].want = stored[k].body]
  <2>1. Published(k)
    BY <1>0, <1>1 DEF Verdict, Published, Id
  <2>2. h'[k].pc = "commit" /\ h'[k].want = stored[k].body /\ h'[k].flow = h[k].flow
    BY <1>0, <1>1 DEF Handler
  <2>3. ~Early(h'[k]) /\ h'[k].flow \notin {"put", "putstart"}
    BY <1>0, <2>2 DEF Early
  <2> QED
    BY <1>0, <2>1, <2>2, <2>3, DriftQuiet
<1>2. CASE Verdict(k) \in {"absent", "previous"} /\ Stay(k, Unpublished(k))
  <2>1. ~Published(k)
    BY <1>0, <1>2, VerdictSays
  <2>2. /\ Unpublished(k) \in {"release", "restore", "markAborting", "markRecovering", "idle"}
        /\ Unpublished(k) = "release" => h[k].pc = "classify" \/ Unknown(k)
    <3>1. CASE h[k].pc = "classify"
      BY <3>1 DEF Unpublished, At
    <3>2. CASE h[k].pc = "head" /\ h[k].flow # "recover"
      BY <1>0, <3>2 DEF Unpublished, At, In, Unknown, PlaceInv
    <3>3. CASE h[k].pc = "head" /\ h[k].flow = "recover" /\ Completing(k)
      BY <3>3 DEF Unpublished, At, In, Completing
    <3>4. CASE h[k].pc = "head" /\ h[k].flow = "recover" /\ ~Completing(k)
      BY <1>0, <3>4 DEF Unpublished, At, In, Completing, Unknown
    <3> QED
      BY <1>0, <3>1, <3>2, <3>3, <3>4
  <2>3. PICK pc \in {"release", "restore", "markAborting", "markRecovering", "idle"} :
           Stay(k, pc) /\ (pc = "release" => h[k].pc = "classify" \/ Unknown(k))
    BY <1>2, <2>2
  <2>4. h'[k].pc = pc /\ h'[k].flow \in {h[k].flow, "none"}
    BY <2>3, StayIs DEF Idle
  <2>5. ~Early(h'[k]) /\ h'[k].flow \notin {"put", "putstart"}
        /\ h'[k].pc \notin {"markEtag", "commit", "markConflict", "classify"}
    BY <1>0, <2>3, <2>4 DEF Early
  <2>6. h'[k].pc = "release" => Untried(k) \/ uploads'[intents[k].id] = None
    BY <1>0, <2>3, <2>4 DEF DriftInv, UntriedInv
  <2> QED
    BY <1>0, <2>1, <2>5, <2>6, DriftQuiet
<1>3. CASE Stay(k, Uncertain(k))
  <2>1. PICK pc \in {"idle", "hold"} : Stay(k, pc)
    BY <1>3 DEF Uncertain
  <2>2. h'[k].pc = pc /\ h'[k].flow \in {h[k].flow, "none"}
    BY <2>1, StayIs DEF Idle
  <2>3. ~Early(h'[k]) /\ h'[k].flow \notin {"put", "putstart"}
    BY <1>0, <2>2 DEF Early
  <2> QED
    BY <1>0, <2>2, <2>3, DriftQuiet
<1> QED
  BY <1>1, <1>2, <1>3 DEF Head

\* Requests of clients, expiry, recovery.
LEMMA StartDrift ==
    ASSUME ShapeInv, IdInv, NEW k \in Keys, DriftInv(k),
           Request(k) \/ StartExpire(k) \/ StartRecover(k)
    PROVE  DriftInv(k)'
<1> USE DEF Steps, Flows
<1>0. /\ h[k].pc = "idle" /\ RowInv(k) /\ IndexStepOf(k) /\ RemoteMove(k)
      /\ stored' = stored /\ objects' = objects /\ uploads' = uploads /\ late' = late
      /\ sessions[k] # None => intents[k] # None
  <2>1. h[k].pc = "idle"
    BY DEF Request, StartCreate, StartPut, StartPart, StartComplete, StartAbort, StartExpire,
           StartRecover, Client, At
  <2>2. IndexStepOf(k) /\ RemoteMove(k)
    BY StepPlaces
  <2>3. stored' = stored /\ objects' = objects /\ uploads' = uploads /\ late' = late
    BY DEF Request, StartCreate, StartPut, StartPart, StartComplete, StartAbort, StartExpire,
           StartRecover, BeginWrite, PrepareMultipartPart, BeginCompleteMultipart, remote, index
  <2> QED
    BY <2>1, <2>2, <2>3, Places DEF ShapeInv
<1>1. intents[k] # None => intents'[k] # None
  BY <1>0, IntentLives
<1>2. ASSUME NEW size \in Nat, NEW internal \in BOOLEAN, BeginWrite(k, size, internal),
             NEW pc \in {"insert", "create"}, NEW flow \in {"create", "putstart"},
             flow = "putstart" => internal,
             NEW want \in Assembled, Start(k, pc, flow, want)
      PROVE  DriftInv(k)'
  <2>1. intents[k] = None /\ stored[k] = objects[k]
    BY <1>2 DEF BeginWrite, DriftInv, Published
  <2>2. h'[k].pc = pc /\ h'[k].flow = flow
    BY <1>2, StartIs
  <2>3. intents'[k].id = nextId
    <3>1. IntentOpened(k) \/ IntentKept(k) \/ IntentEnded(k)
      BY <1>0, IntentMoves
    <3>2. nextId' = nextId + 1 /\ nextId \in Nat
      BY <1>2 DEF BeginWrite, Ids
    <3>3. nextId' # nextId
      BY <3>2
    <3> QED
      BY <3>1, <3>3 DEF IntentOpened, IntentKept, IntentEnded
  <2>4. /\ objects[k] # None => objects[k].id # nextId
        /\ \A m \in late : m.id # nextId
    BY DEF IdInv, ShapeInv, TypeOK, Object, Ids, LateOK, LateMessage
  <2>5. Untried(k)'
    BY <1>0, <2>1, <2>3, <2>4 DEF Untried, Published, LateComplete
  <2>6. flow = "putstart" => intents'[k].internal
    <3>1. intents \in [Keys -> Intent \union {None}]
      BY DEF ShapeInv, TypeOK
    <3> QED
      BY <1>2, <3>1 DEF BeginWrite
  <2>7. UntriedInv(k)'
    BY <2>2, <2>5, <2>6 DEF UntriedInv
  <2> QED
    BY <1>0, <2>1, <2>2, <2>5, <2>7 DEF DriftInv, Untried
<1>3. CASE StartCreate(k)
  BY <1>2, <1>3, NoPartsAssembled DEF StartCreate
<1>4. ASSUME NEW n \in Nos, NEW declared \in BOOLEAN, NEW want \in [1..n -> Bodies],
             StartPut(k, want, declared)
      PROVE  DriftInv(k)'
  <2>1. want \in Assembled
    BY NosBelow DEF Assembled
  <2>2. BytesOf(want) \in Nat
    BY <2>1, BytesType
  <2> DEFINE size == IF declared THEN BytesOf(want) ELSE 0
  <2>3. size \in Nat /\ BeginWrite(k, size, TRUE) /\ Start(k, "create", "putstart", want)
    BY <1>4, <2>2 DEF StartPut
  <2> HIDE DEF size
  <2> QED
    BY <1>2, <2>1, <2>3
<1>5. ASSUME NEW pc \in {"send", "markCompleting", "head", "markAborting", "release"},
             NEW flow \in {"part", "complete", "abort", "expire", "recover"},
             NEW want \in Assembled, Start(k, pc, flow, want), intents[k] # None,
             sessions[k] # None \/ sessions' = sessions,
             pc = "release" => Unknown(k)
      PROVE  DriftInv(k)'
  <2>1. h'[k].pc = pc /\ h'[k].flow = flow
    BY <1>5, StartIs
  <2>2. ~Early(h'[k]) /\ h'[k].flow \notin {"put", "putstart"}
        /\ h'[k].pc \notin {"markConflict", "classify", "markEtag", "commit"}
    BY <1>5, <2>1 DEF Early
  <2>3. h'[k].pc = "release" => Untried(k) /\ ~Published(k)
    BY <1>5, <2>1 DEF DriftInv, UntriedInv, Untried
  <2> QED
    BY <1>0, <1>1, <1>5, <2>2, <2>3, DriftQuiet
<1>6. ASSUME NEW n \in Nos, NEW body \in Bodies, StartPart(k, n, body) PROVE DriftInv(k)'
  <2>1. Part(n, body) \in Assembled
    BY AssembledIs DEF Part
  <2>2. sessions[k] # None /\ Start(k, "send", "part", Part(n, body))
    BY <1>6 DEF StartPart
  <2> QED
    BY <1>0, <1>5, <2>1, <2>2
<1>7. ASSUME NEW S \in SUBSET Nos, StartComplete(k, S) PROVE DriftInv(k)'
  <2> DEFINE want == [n \in S |-> sessions[k].parts[n]]
  <2>1. sessions[k] # None /\ S \in SUBSET DOMAIN sessions[k].parts
    BY <1>7 DEF StartComplete
  <2>2. want \in Assembled
    <3>1. sessions[k] \in Session
      BY <2>1 DEF ShapeInv, TypeOK
    <3>2. sessions[k].parts \in Assembled
      BY <3>1 DEF Session
    <3> QED
      BY <2>1, <3>2, BytesOfSome
  <2>3. Start(k, "markCompleting", "complete", want)
    BY <1>7 DEF StartComplete
  <2> HIDE DEF want
  <2> QED
    BY <1>0, <1>5, <2>1, <2>2, <2>3
<1>8. CASE StartAbort(k) \/ StartExpire(k)
  <2>1. sessions[k] # None /\ intents[k] # None
    BY <1>0, <1>8 DEF StartAbort, StartExpire, Expirable
  <2>2. PICK pc \in {"head", "markAborting", "release"}, flow \in {"abort", "expire"} :
           Start(k, pc, flow, NoParts) /\ (pc = "release" => ~sessions[k].known)
    BY <1>8 DEF StartAbort, StartExpire
  <2>3. pc = "release" => Unknown(k)
    BY <2>1, <2>2 DEF Unknown
  <2> QED
    BY <1>5, <2>1, <2>2, <2>3, NoPartsAssembled
<1>9. CASE StartRecover(k)
  <2>1. intents[k] # None /\ sessions' = sessions
    BY <1>9 DEF StartRecover, Recoverable, index
  <2>2. PICK pc \in {"head", "markAborting"} : Start(k, pc, "recover", NoParts)
    BY <1>9 DEF StartRecover
  <2> QED
    BY <1>5, <2>1, <2>2, NoPartsAssembled
<1> QED
  BY <1>3, <1>4, <1>6, <1>7, <1>8, <1>9 DEF Request

\* A completion that R2 carries out late publishes the object of an intent that is still
\* pending: no other is still owed an upload.
LEMMA LateDrift ==
    ASSUME ShapeInv, LateInv, NEW m \in late, LateEffect(m), NEW k \in Keys, DriftInv(k)
    PROVE  DriftInv(k)'
<1>0. /\ m \in LateMessage /\ Effect(m) /\ late' \subseteq late /\ late' = late \ {m}
      /\ intents' = intents /\ sessions' = sessions /\ objects' = objects /\ h' = h
      /\ stored \in [Keys -> Object \union {None}] /\ uploads \in [Ids -> Assembled \union {None}]
      /\ m.id \in Ids /\ m.key \in Keys /\ m.body \in Assembled
  BY DEF LateEffect, index, ShapeInv, LateOK, TypeOK, LateMessage
<1>1. Unknown(k)' <=> Unknown(k)
  BY <1>0 DEF Unknown
<1>2. LateComplete(intents[k].id)' => LateComplete(intents[k].id)
  BY <1>0 DEF LateComplete
<1>3. intents[k] # None => /\ intents[k].id \in Ids
                           /\ uploads[intents[k].id] = None => uploads'[intents[k].id] = None
  <2>1. intents[k] # None => intents[k].id \in Ids
    BY DEF ShapeInv, TypeOK, Intent
  <2> QED
    BY <1>0, <2>1, EffectUploads
<1>4. h[k] # Idle => intents[k] # None
  BY DEF ShapeInv, PlaceInv
<1>5. CASE stored'[k] = stored[k]
  <2>1. Published(k)' <=> Published(k)
    BY <1>0, <1>5 DEF Published
  <2>2. Untried(k) => Untried(k)'
    BY <1>0, <1>2, <2>1 DEF Untried
  <2>3. UntriedInv(k)'
    BY <1>0, <1>1, <2>2 DEF DriftInv, UntriedInv
  <2>4. h[k].pc \in {"markConflict", "classify", "release"} => intents[k] # None
    BY <1>4 DEF Idle
  <2>5. Published(k) => intents[k] # None
    BY DEF Published
  <2> QED
    BY <1>0, <1>3, <1>5, <2>1, <2>2, <2>3, <2>4, <2>5 DEF DriftInv
<1>6. CASE stored'[k] # stored[k]
  <2> DEFINE o == [id |-> m.id, body |-> m.body]
  <2>1. /\ m.op = "complete" /\ m.key = k /\ uploads[m.id] # None /\ stored'[k] = o
    BY <1>0, <1>6, EffectStored DEF Accepted
  <2>2. uploads' = [uploads EXCEPT ![m.id] = None]
    <3>1. stored' # stored
      BY <1>6
    <3> QED
      BY <1>0, <2>1, <3>1 DEF Effect
  <2>3. intents[k] # None /\ intents[k].id = m.id
    BY <2>1 DEF LateInv
  <2>4. o \in Object /\ o # None
    BY <1>0, MultipartAssumption DEF Object
  <2>5. Published(k)' /\ uploads'[intents'[k].id] = None
    BY <1>0, <2>1, <2>2, <2>3, <2>4 DEF Published
  <2>6. ~Untried(k)
    BY <2>1, <2>3 DEF Untried, LateComplete
  <2>7. ~Published(k)
    BY <2>1, <2>3 DEF DriftInv
  <2>8. ~Unknown(k) /\ ~Early(h[k])
    BY <2>6 DEF DriftInv, UntriedInv
  <2>9. h[k].pc \notin {"markConflict", "classify", "release", "markEtag", "commit"}
    BY <2>1, <2>3, <2>6, <2>7 DEF DriftInv
  <2>10. UntriedInv(k)'
    BY <1>0, <1>1, <2>8 DEF DriftInv, UntriedInv
  <2> QED
    BY <1>0, <2>5, <2>9, <2>10 DEF DriftInv
<1> QED
  BY <1>5, <1>6

\* A completion that may still take effect keeps its intent: it is not given up before the
\* upload is gone, and not indexed before that either.
LEMMA LateStep ==
    ASSUME ShapeInv, IdInv, LateInv, NEW k \in Keys, DriftInv(k),
           Step(k) \/ Request(k) \/ StartExpire(k) \/ StartRecover(k)
    PROVE  LateInv'
<1>0. HandlerMoves(k) /\ IndexStepOf(k) /\ RemoteMove(k)
  BY StepPlaces
<1> SUFFICES ASSUME NEW m \in late', m.op = "complete", uploads'[m.id] # None
             PROVE  intents'[m.key] # None /\ intents'[m.key].id = m.id
  BY DEF LateInv
<1>1. CASE m \in late
  <2>1. m.id \in Ids /\ m.key \in Keys
    BY <1>1 DEF ShapeInv, LateOK, LateMessage
  <2>2. uploads[m.id] # None
    <3> SUFFICES ASSUME uploads[m.id] = None PROVE FALSE
      OBVIOUS
    <3>1. h[k].pc = "create" /\ intents[k] # None /\ m.id = intents[k].id
      BY <1>0, <2>1 DEF RemoteMove
    <3>2. h[k].flow \in {"create", "putstart"}
      BY <3>1, Places DEF Route, Goes, Idle
    <3>3. Untried(k)
      BY <3>2 DEF DriftInv, UntriedInv, Early
    <3> QED
      BY <1>1, <3>1, <3>3 DEF Untried, LateComplete
  <2>3. intents[m.key] # None /\ intents[m.key].id = m.id
    BY <1>1, <2>2 DEF LateInv
  <2>4. CASE m.key # k
    BY <1>0, <2>1, <2>3, <2>4, OtherRows
  <2>5. CASE m.key = k
    <3>1. intents'[k] # None
      <4> SUFFICES ASSUME intents'[k] = None PROVE FALSE
        OBVIOUS
      <4>1. AbortRows(k) \/ Commit(k)
        BY <1>0, <2>3, <2>5, IntentEnds DEF HandlerMoves
      <4>2. h[k].pc \in {"release", "commit"}
        BY <4>1 DEF AbortRows, Commit, At
      <4>3. ~Untried(k)
        BY <1>1, <2>3, <2>5 DEF Untried, LateComplete
      <4> QED
        BY <2>2, <2>3, <2>5, <4>2, <4>3 DEF DriftInv
    <3> QED
      BY <1>0, <2>3, <2>5, <3>1, KnownMoves DEF IntentKept
  <2> QED
    BY <2>4, <2>5
<1>2. CASE m \notin late
  <2>1. intents[k] # None /\ m.id = intents[k].id /\ h[k].pc = "complete" /\ m.key = k
    BY <1>0, <1>2 DEF RemoteMove
  <2>2. intents'[k] # None
    BY <2>1, IntentLives
  <2> QED
    BY <1>0, <2>1, <2>2, KnownMoves DEF IntentKept
<1> QED
  BY <1>1, <1>2

\* Every step.
LEMMA RemoteSoundStep ==
    ASSUME ShapeInv, RemoteSound, [Next]_vars
    PROVE  RemoteSound'
<1>0. IdInv /\ LateInv /\ IdInv' /\ \A j \in Keys : DriftInv(j)
  BY IdStep DEF RemoteSound
<1>1. ASSUME NEW k \in Keys, Step(k) \/ Request(k) \/ StartExpire(k) \/ StartRecover(k)
      PROVE  LateInv' /\ \A j \in Keys : DriftInv(j)'
  <2>1. HandlerMoves(k) /\ IndexStepOf(k) /\ RemoteMove(k)
    BY <1>1, StepPlaces
  <2>2. ASSUME NEW j \in Keys \ {k} PROVE DriftInv(j)'
    <3>1. /\ h'[j] = h[j] /\ intents'[j] = intents[j] /\ sessions'[j] = sessions[j]
          /\ objects'[j] = objects[j] /\ stored'[j] = stored[j]
      BY <1>1, <2>1, <2>2, OtherRows, OtherObjects DEF HandlerMoves
    <3> QED
      BY <1>0, <2>1, <3>1, DriftOfOthers
  <2>3. DriftInv(k)'
    BY <1>0, <1>1, CreateDrift, PartsDrift, RowsDrift, MarkDrift, CommitDrift,
       CompleteDrift, AbortDrift, HeadDrift, StartDrift DEF Step
  <2>4. LateInv'
    BY <1>0, <1>1, LateStep
  <2> QED
    BY <2>2, <2>3, <2>4
<1>2. ASSUME NEW m \in late, LateEffect(m)
      PROVE  LateInv' /\ \A j \in Keys : DriftInv(j)'
  <2>1. ASSUME NEW e \in late', e.op = "complete", uploads'[e.id] # None
        PROVE  intents'[e.key] # None /\ intents'[e.key].id = e.id
    <3>1. e \in late /\ e \in LateMessage /\ m \in LateMessage /\ intents' = intents /\ Effect(m)
      BY <1>2 DEF LateEffect, ShapeInv, LateOK, index
    <3>2. e.id \in Ids
      BY <3>1 DEF LateMessage
    <3>3. uploads[e.id] # None
      BY <2>1, <3>1, <3>2, EffectUploads
    <3> QED
      BY <1>0, <2>1, <3>1, <3>3 DEF LateInv
  <2>2. LateInv'
    BY <2>1 DEF LateInv
  <2> QED
    BY <1>0, <1>2, <2>2, LateDrift
<1>3. ASSUME UNCHANGED <<index, remote>>, \A j \in Keys : h'[j] \in {h[j], Idle}
      PROVE  LateInv' /\ \A j \in Keys : DriftInv(j)'
  <2>1. LateInv'
    BY <1>0, <1>3 DEF LateInv, index, remote
  <2>2. ASSUME NEW j \in Keys PROVE DriftInv(j)'
    <3>1. (Published(j)' <=> Published(j)) /\ (Untried(j)' <=> Untried(j))
          /\ (Unknown(j)' <=> Unknown(j))
      BY <1>3 DEF Published, Untried, Unknown, LateComplete, index, remote
    <3>2. CASE h'[j] = h[j]
      BY <1>0, <1>3, <3>1, <3>2 DEF DriftInv, UntriedInv, index, remote
    <3>3. CASE h'[j] = Idle
      BY <1>0, <1>3, <3>1, <3>3 DEF DriftInv, UntriedInv, Early, Idle, index, remote
    <3> QED
      BY <1>3, <3>2, <3>3
  <2> QED
    BY <2>1, <2>2
<1>4. ASSUME Crash
      PROVE  LateInv' /\ \A j \in Keys : DriftInv(j)'
  BY <1>3, <1>4 DEF Crash, index, remote
<1>5. ASSUME Leave \/ UNCHANGED vars
      PROVE  LateInv' /\ \A j \in Keys : DriftInv(j)'
  BY <1>3, <1>5 DEF Leave, vars, index, remote
<1>7. LateInv' /\ \A j \in Keys : DriftInv(j)'
  <2>1. CASE \E k \in Keys : Step(k) \/ Request(k) \/ StartExpire(k) \/ StartRecover(k)
    BY <1>1, <2>1
  <2>2. CASE \E m \in late : LateEffect(m)
    BY <1>2, <2>2
  <2> QED
    BY <1>4, <1>5, <2>1, <2>2 DEF Next
<1> QED
  BY <1>0, <1>7 DEF RemoteSound

\* Before the first upload R2 has what the index has.
LEMMA RemoteSoundInit == Init => RemoteSound
<1> SUFFICES ASSUME Init PROVE RemoteSound
  OBVIOUS
<1>1. /\ intents = [k \in Keys |-> None] /\ h = [k \in Keys |-> Idle]
      /\ late = {} /\ nextId = 2 /\ stored = objects
  BY DEF Init
<1>2. ASSUME NEW k \in Keys, objects[k] # None PROVE objects[k].id = 1
  <2>1. objects[k] \in [id : {1}, body : [{1} -> Bodies]]
    BY <1>2 DEF Init
  <2> QED
    BY <2>1
<1>3. IdInv /\ LateInv
  BY <1>1, <1>2 DEF IdInv, LateInv
<1>4. ASSUME NEW k \in Keys PROVE DriftInv(k)
  BY <1>1 DEF DriftInv, UntriedInv, Published, Unknown, Early, Idle
<1> QED
  BY <1>3, <1>4 DEF RemoteSound

\* What is pending, published or given up, whatever R2 carries out late.
THEOREM PendingOrStored == Spec => []RemoteSound
<1>1. Init => RemoteSound
  BY RemoteSoundInit
<1>2. ShapeInv /\ LedgerInv /\ RemoteSound /\ [Next]_vars => RemoteSound'
  BY RemoteSoundStep
<1> QED
  BY <1>1, <1>2, TypesAndCounters, PTL DEF Spec

\* StoredOrPending, for every instance: a key of R2 holds the indexed version, or the one
\* of an intent that is pending and was opened on the indexed version; no step, no
\* failing statement, no lost answer, no completion that R2 carries out late and no crash
\* makes R2 and the index differ without a row that says so.
THEOREM NoSilentDrift == Spec => []StoredOrPending
<1>1. RemoteSound => StoredOrPending
  BY DEF RemoteSound, IdInv, DriftInv, Published, StoredOrPending, CurrentId
<1> QED
  BY <1>1, PendingOrStored, PTL

-----------------------------------------------------------------------------
(* Sessions end by their clients.                                          *)

\* The other keys' sessions and uploads.
LEMMA AliveOfOthers ==
    ASSUME ShapeInv, IdInv, NEW k \in Keys, NEW j \in Keys \ {k}, AliveInv(j), CreatedInv(j),
           RemoteMove(k), h'[j] = h[j], intents'[j] = intents[j], sessions'[j] = sessions[j],
           stored'[j] = stored[j]
    PROVE  AliveInv(j)' /\ CreatedInv(j)'
<1>1. ASSUME intents[j] # None
      PROVE  /\ uploads'[intents[j].id] = uploads[intents[j].id]
             /\ NoLateAbort(intents[j].id) => NoLateAbort(intents[j].id)'
  <2>1. intents[k] = None \/ intents[k].id # intents[j].id
    BY <1>1 DEF IdInv
  <2>2. intents[j].id \in Ids
    BY <1>1 DEF ShapeInv, TypeOK, Intent
  <2> QED
    BY <2>1, <2>2 DEF RemoteMove, NoLateAbort
<1>2. Alive(j)' => Alive(j)
  BY DEF Alive, RemoteMove
<1>3. Published(j)' <=> Published(j)
  BY DEF Published
<1>4. Alive(j) => intents[j] # None
  BY DEF Alive, ShapeInv, RowInv
<1>5. h[j].pc \in {"insert", "create", "activate"} => intents[j] # None
  BY Places
<1>6. AliveInv(j)'
  BY <1>1, <1>2, <1>3, <1>4 DEF AliveInv, Spared, Upstream
<1>7. CreatedInv(j)'
  BY <1>1, <1>5 DEF CreatedInv
<1> QED
  BY <1>6, <1>7

\* A request that R2 carries out late: an abort is of another upload, a completion
\* publishes.
LEMMA AliveLate ==
    ASSUME ShapeInv, RemoteSound, NEW m \in late, LateEffect(m),
           NEW j \in Keys, AliveInv(j), CreatedInv(j)
    PROVE  AliveInv(j)' /\ CreatedInv(j)'
<1>0. /\ m \in LateMessage /\ Effect(m) /\ m.id \in Ids /\ m.key \in Keys
      /\ m.op \in {"part", "complete", "abort"}
  BY DEF ShapeInv, LateOK, LateEffect, LateMessage
<1>1. /\ intents' = intents /\ sessions' = sessions /\ h' = h /\ ended' = ended
      /\ late' \subseteq late
  BY DEF LateEffect, index, history
<1>2. ASSUME intents[j] # None, NoLateAbort(intents[j].id), uploads[intents[j].id] # None
      PROVE  \/ uploads'[intents[j].id] # None
             \/ m.op = "complete" /\ m.id = intents[j].id /\ Published(j)'
  <2>1. intents[j].id \in Ids
    BY <1>2 DEF ShapeInv, TypeOK, Intent
  <2>2. CASE m.id # intents[j].id \/ m.op = "part"
    BY <1>0, <1>2, <2>1, <2>2, EffectUploads
  <2>3. m.op = "abort" => m.id # intents[j].id
    BY <1>2 DEF NoLateAbort
  <2>4. CASE m.op = "complete" /\ m.id = intents[j].id
    <3>1. m.key = j
      BY <1>0, <1>2, <2>4 DEF RemoteSound, LateInv, IdInv
    <3> DEFINE o == [id |-> m.id, body |-> m.body]
    <3>2. o \in Object /\ o # None /\ o.id = m.id
      BY <1>0, MultipartAssumption DEF LateMessage, Object
    <3>3. stored \in [Keys -> Object \union {None}]
      BY DEF ShapeInv, TypeOK
    <3>4. CASE Accepted(m)
      <4>1. stored'[j] = o
        BY <1>0, <2>4, <3>1, <3>3, <3>4 DEF Effect
      <4> HIDE DEF o
      <4> QED
        BY <1>1, <1>2, <2>4, <3>2, <4>1 DEF Published
    <3>5. CASE ~Accepted(m)
      BY <1>0, <1>2, <2>4, <3>5 DEF Effect
    <3> QED
      BY <3>4, <3>5
  <2> QED
    BY <1>0, <2>2, <2>3, <2>4
<1>3. intents[j] # None /\ NoLateAbort(intents[j].id) => NoLateAbort(intents[j].id)'
  BY <1>1 DEF NoLateAbort
<1>4. Alive(j) => intents[j] # None
  BY DEF Alive, ShapeInv, RowInv
<1>5. h[j].pc \in {"insert", "create", "activate"} => intents[j] # None
  BY Places
<1>6. (Alive(j)' <=> Alive(j)) /\ (Spared(j)' <=> Spared(j))
  BY <1>1 DEF Alive, Spared
<1>7. Published(j) => Published(j)'
  <2> SUFFICES ASSUME Published(j), stored'[j] # stored[j] PROVE FALSE
    BY <1>1 DEF Published
  <2>1. m.op = "complete" /\ m.key = j /\ uploads[m.id] # None
    BY <1>0, EffectStored DEF Accepted, ShapeInv, TypeOK
  <2>2. intents[j].id = m.id
    BY <2>1 DEF RemoteSound, LateInv
  <2> QED
    BY <2>1, <2>2 DEF RemoteSound, DriftInv
<1>8. AliveInv(j)'
  BY <1>1, <1>2, <1>3, <1>4, <1>6, <1>7 DEF AliveInv, Upstream
<1>9. h[j].pc = "activate" => m.op # "complete" \/ m.id # intents[j].id
  <2>1. h[j].pc = "activate" => h[j].flow = "create"
    BY Places DEF Route, Goes, Idle
  <2>2. h[j].pc = "activate" => Untried(j)
    BY <2>1 DEF RemoteSound, DriftInv, UntriedInv, Early
  <2> QED
    BY <2>2 DEF Untried, LateComplete
<1>10. CreatedInv(j)'
  BY <1>1, <1>2, <1>3, <1>5, <1>9 DEF CreatedInv
<1> QED
  BY <1>8, <1>10

\* What is said of the session at a handler's key.
AliveKept(k) == AliveInv(k)' /\ CreatedInv(k)'

\* A session that was not alive, or is not any more, needs nothing.
LEMMA AliveNot ==
    ASSUME NEW k \in Keys, ~Alive(k)', h'[k].pc \notin {"insert", "create", "activate"}
    PROVE  AliveKept(k)
BY DEF AliveKept, AliveInv, CreatedInv

\* R2 keeps what it has published: there is no upload that could be completed again.
LEMMA PublishedStays ==
    ASSUME ShapeInv, NEW k \in Keys, DriftInv(k), Published(k),
           Step(k) \/ Request(k) \/ StartExpire(k) \/ StartRecover(k)
    PROVE  stored'[k] = stored[k]
<1> USE DEF remote
<1>0. uploads[intents[k].id] = None /\ intents[k] # None
  BY DEF DriftInv, Published
<1>1. CASE RemotePart(k)
  <2>1. SentPart(k) \in LateMessage /\ SentPart(k).op = "part"
    BY <1>1, SentPartIs DEF RemotePart, At
  <2>2. Effect(SentPart(k)) => stored' = stored
    BY <2>1, EffectStored
  <2> QED
    BY <1>1, <2>2 DEF RemotePart, Unanswered
<1>2. ASSUME NEW op \in {"complete", "abort"}, Effect(Message(k, op)), h[k].pc = op
      PROVE  stored' = stored
  <2>1. Message(k, op) \in LateMessage /\ Message(k, op).id = intents[k].id
    BY <1>0, <1>2, MessageIs
  <2> QED
    BY <1>0, <1>2, <2>1, EffectStored DEF Accepted
<1>3. CASE RemoteComplete(k)
  BY <1>2, <1>3 DEF RemoteComplete, At, Serve, Unanswered, Refused
<1>4. CASE RemoteAbort(k)
  BY <1>2, <1>4 DEF RemoteAbort, At, Serve, Unanswered
<1>5. CASE \/ Insert(k) \/ CreateFailed(k) \/ KeepPart(k) \/ Restore(k) \/ Mark(k) \/ AbortRows(k)
           \/ Activate(k) \/ Chunk(k) \/ MarkUploading(k) \/ RemoteCreate(k) \/ Head(k) \/ Commit(k)
  BY <1>5 DEF Insert, CreateFailed, KeepPart, Restore, Mark, AbortRows, Transaction,
              Activate, Chunk, MarkUploading, RemoteCreate, Head, Commit, Refused
<1>6. CASE Request(k) \/ StartExpire(k) \/ StartRecover(k)
  BY <1>6 DEF Request, StartCreate, StartPut, StartPart, StartComplete, StartAbort,
              StartExpire, StartRecover
<1> QED
  BY <1>1, <1>3, <1>4, <1>5, <1>6 DEF Step

\* A session whose object is published keeps it until its rows go.
LEMMA PublishedAlive ==
    ASSUME ShapeInv, ShapeInv', NEW k \in Keys, DriftInv(k), DriftInv(k)', Published(k),
           Step(k) \/ Request(k) \/ StartExpire(k) \/ StartRecover(k)
    PROVE  AliveKept(k)
<1>1. CASE intents'[k] = None
  <2>1. sessions'[k] = None /\ h'[k] = Idle
    BY <1>1 DEF ShapeInv, RowInv, PlaceInv
  <2> QED
    BY <2>1, AliveNot DEF Alive, Idle
<1>2. CASE intents'[k] # None
  <2>1. intents'[k].id = intents[k].id
    BY <1>2, StepPlaces, KnownMoves DEF IntentKept, Published
  <2>2. Published(k)'
    BY <1>2, <2>1, PublishedStays DEF Published
  <2>3. ~Early(h'[k])
    BY <2>2 DEF DriftInv, UntriedInv, Untried
  <2>4. h'[k].pc \notin {"insert", "create", "activate"}
    BY <2>3 DEF ShapeInv, PlaceInv, Route, Goes, Idle, Early
  <2> QED
    BY <2>2, <2>4 DEF AliveKept, AliveInv, CreatedInv
<1> QED
  BY <1>1, <1>2

\* A step that neither completes nor aborts leaves the upload of a session that is
\* still alive and not published.
LEMMA AliveStep ==
    ASSUME ShapeInv, NEW k \in Keys, AliveInv(k), ~Published(k), RemoteMove(k),
           h[k].pc \notin {"complete", "abort"},
           intents[k] # None, intents'[k] # None, intents'[k].id = intents[k].id,
           h'[k].pc \notin {"insert", "create", "activate"},
           Alive(k)' => Alive(k) /\ Spared(k)'
    PROVE  AliveKept(k)
<1>1. intents[k].id \in Ids
  BY DEF ShapeInv, TypeOK, Intent
<1>2. Upstream(k) => Upstream(k)'
  BY <1>1 DEF Upstream, RemoteMove, NoLateAbort
<1>3. AliveInv(k)'
  BY <1>2 DEF AliveInv
<1> QED
  BY <1>3 DEF AliveKept, CreatedInv

\* ... the more so if it leaves the rows alone.
LEMMA AliveRowsStay ==
    ASSUME ShapeInv, NEW k \in Keys, AliveInv(k), ~Published(k), RemoteMove(k),
           h[k].pc \notin {"complete", "abort"}, intents[k] # None,
           intents'[k] = intents[k], sessions'[k] = sessions[k],
           h'[k].pc \notin {"insert", "create", "activate"},
           Alive(k) => /\ h'[k].flow \in {"none", "part", "complete", "resolve", "recover"}
                       /\ h'[k].pc \notin {"markAborting", "abort", "classify", "markConflict",
                                           "markRecovering", "release"}
                       /\ h'[k].flow = "recover" => sessions[k].status = "completing"
    PROVE  AliveKept(k)
<1>1. Alive(k)' => Alive(k)
  BY DEF Alive, RemoteMove
<1>2. Alive(k)' => Spared(k)'
  BY <1>1 DEF AliveInv, Spared
<1> QED
  BY <1>1, <1>2, AliveStep

\* Statements on a session keep its id; those on its parts also its status and the state
\* of its intent.
LEMMA SessionKept ==
    ASSUME ShapeInv, NEW k \in Keys, intents[k] # None, sessions[k] # None,
           \/ \E n \in Nos, body \in Bodies : \/ PrepareMultipartPart(k, n, SizeOf[body])
                                              \/ CommitMultipartPart(k, n, body)
    PROVE  /\ intents'[k] # None
           /\ intents'[k].id = intents[k].id /\ intents'[k].state = intents[k].state
           /\ sessions'[k].id = sessions[k].id /\ sessions'[k].status = sessions[k].status
<1>0. /\ intents \in [Keys -> Intent \union {None}] /\ intents[k] \in Intent
      /\ sessions \in [Keys -> Session \union {None}] /\ sessions[k] \in Session
  BY DEF ShapeInv, TypeOK
<1>1. ASSUME NEW n \in Nos, NEW p, NEW r \in Nat,
             intents' = [intents EXCEPT ![k].reserved = r],
             sessions' = [sessions EXCEPT ![k].pending[n] = p]
      PROVE  /\ intents'[k] # None
             /\ intents'[k].id = intents[k].id /\ intents'[k].state = intents[k].state
             /\ sessions'[k].id = sessions[k].id /\ sessions'[k].status = sessions[k].status
  <2>1. intents'[k] \in Intent /\ intents'[k].id = intents[k].id
        /\ intents'[k].state = intents[k].state
    BY <1>0, <1>1 DEF Intent
  <2>2. sessions'[k].id = sessions[k].id /\ sessions'[k].status = sessions[k].status
    BY <1>0, <1>1 DEF Session
  <2> QED
    BY <2>1, <2>2, MultipartAssumption
<1>2. ASSUME NEW n \in Nos, NEW body \in Bodies, PrepareMultipartPart(k, n, SizeOf[body])
      PROVE  /\ intents'[k] # None
             /\ intents'[k].id = intents[k].id /\ intents'[k].state = intents[k].state
             /\ sessions'[k].id = sessions[k].id /\ sessions'[k].status = sessions[k].status
  <2> DEFINE p == [prev |-> IF sessions[k].pending[n] = None THEN SizeOfPart(k, n)
                            ELSE sessions[k].pending[n].prev,
                   req |-> SizeOf[body]]
             r == Max0(intents[k].reserved + Adjustment(k, n, SizeOf[body]))
  <2>1. /\ intents' = [intents EXCEPT ![k].reserved = r]
        /\ sessions' = [sessions EXCEPT ![k].pending[n] = p]
    BY <1>0, <1>2 DEF PrepareMultipartPart
  <2>2. r \in Nat
    <3>1. Adjustment(k, n, SizeOf[body]) \in Int
      BY PartSizes, MultipartAssumption DEF RowTypes, ShapeInv, TypeOK
    <3> QED
      BY <1>0, <3>1 DEF Max0, Intent
  <2> HIDE DEF p, r
  <2> QED
    BY <1>1, <2>1, <2>2
<1>3. ASSUME NEW n \in Nos, NEW body \in Bodies, CommitMultipartPart(k, n, body)
      PROVE  /\ intents'[k] # None
             /\ intents'[k].id = intents[k].id /\ intents'[k].state = intents[k].state
             /\ sessions'[k].id = sessions[k].id /\ sessions'[k].status = sessions[k].status
  <2> DEFINE r == Max0(intents[k].reserved + -Max0(sessions[k].pending[n].prev - SizeOf[body]))
             parts == WithParts(sessions[k].parts, Part(n, body))
             s == [sessions[k] EXCEPT !.parts = parts, !.pending[n] = None]
  <2>1. /\ intents' = [intents EXCEPT ![k].reserved = r]
        /\ sessions' = [sessions EXCEPT ![k] = s]
    BY <1>0, <1>3 DEF CommitMultipartPart
  <2>2. r \in Nat
    <3>1. sessions[k].pending[n] \in Pending /\ SizeOf[body] \in Nat
      BY <1>0, <1>3, MultipartAssumption DEF CommitMultipartPart, Session
    <3> QED
      BY <1>0, <3>1 DEF Max0, Intent, Pending
  <2> HIDE DEF r, parts
  <2>3. s.id = sessions[k].id /\ s.status = sessions[k].status
    BY <1>0 DEF Session
  <2> HIDE DEF s
  <2>4. intents'[k] \in Intent /\ intents'[k].id = intents[k].id
        /\ intents'[k].state = intents[k].state
    BY <1>0, <2>1, <2>2 DEF Intent
  <2> QED
    BY <1>0, <2>1, <2>3, <2>4, MultipartAssumption
<1> QED
  BY <1>2, <1>3

\* Creating an upload: no session is alive before it is activated.
LEMMA CreateAlive ==
    ASSUME ShapeInv, NEW k \in Keys, CreatedInv(k),
           Insert(k) \/ Activate(k) \/ CreateFailed(k) \/ MarkUploading(k) \/ RemoteCreate(k)
    PROVE  AliveKept(k)
<1> USE DEF Steps, Flows
<1>0. /\ h[k].pc \in {"insert", "activate", "failed", "markUploading", "create"}
      /\ h[k].flow \in {"create", "putstart"} /\ intents[k] # None /\ intents[k] \in Intent
      /\ h[k].pc \in {"insert", "activate", "failed"} => h[k].flow = "create"
      /\ Begun(k) /\ h[k] \in Handler /\ RemoteMove(k)
      /\ sessions \in [Keys -> Session \union {None}] /\ intents \in [Keys -> Intent \union {None}]
  <2>1. h[k].pc \in {"insert", "activate", "failed", "markUploading", "create"}
    BY DEF Insert, Activate, CreateFailed, MarkUploading, RemoteCreate, At
  <2>2. RemoteMove(k) /\ PlaceInv(k)
    BY RemoteMoves DEF Step, ShapeInv
  <2>3. Goes(h[k].pc, h[k].flow)
    BY <2>1, Places DEF Route, Idle
  <2>4. h[k].flow \in {"create", "putstart"}
        /\ (h[k].pc \in {"insert", "activate", "failed"} => h[k].flow = "create")
        /\ (h[k].pc = "markUploading" => h[k].flow = "putstart")
    BY <2>1, <2>3 DEF Goes
  <2>5. Begun(k)
    BY <2>1, <2>2, <2>4 DEF PlaceInv, Begun
  <2> QED
    BY <2>1, <2>2, <2>4, <2>5, Places DEF ShapeInv, TypeOK
<1>1. CASE Insert(k)
  <2>1. sessions'[k] = None \/ sessions'[k].status = "initiating"
    BY <1>0, <1>1 DEF Insert, Transaction, InsertSession, index, Begun
  <2>2. intents' = intents /\ late' = late
    BY <1>1 DEF Insert, Transaction, InsertSession, index, remote
  <2>3. PICK pc \in {"create", "release"} : Stay(k, pc)
    BY <1>1 DEF Insert, Transaction
  <2>4. h'[k].pc = pc
    BY <2>3, StayIs
  <2>5. NoLateAbort(intents[k].id)
    BY <1>1 DEF CreatedInv, Insert, At
  <2> QED
    BY <2>1, <2>2, <2>3, <2>4, <2>5 DEF AliveKept, AliveInv, Alive, CreatedInv, NoLateAbort
<1>2. CASE RemoteCreate(k)
  <2>1. sessions' = sessions /\ intents' = intents /\ late' = late
    BY <1>2 DEF RemoteCreate, index, Refused, remote
  <2>2. sessions[k] = None \/ sessions[k].status = "initiating"
    BY <1>0 DEF Begun
  <2>3. NoLateAbort(intents[k].id)
    BY <1>2 DEF CreatedInv, RemoteCreate, At
  <2>4. h'[k].pc \in {"activate", "markUploading", "release", "failed"}
        /\ (h'[k].pc = "activate" => uploads' = [uploads EXCEPT ![Id(k)] = NoParts])
    <3>1. CASE /\ uploads' = [uploads EXCEPT ![Id(k)] = NoParts]
               /\ Stay(k, IF In(k, {"create"}) THEN "activate" ELSE "markUploading")
      BY <3>1, StayIs
    <3>2. CASE Goto(k, "release", h[k].flow)
      BY <1>0, <3>2, GotoIs
    <3>3. CASE Goto(k, "failed", "create")
      BY <3>3, GotoIs
    <3> QED
      BY <1>2, <3>1, <3>2, <3>3 DEF RemoteCreate, Refused
  <2>5. h'[k].pc = "activate" => uploads'[intents'[k].id] # None
    <3>1. uploads \in [Ids -> Assembled \union {None}] /\ intents[k].id \in Ids /\ NoParts # None
      BY <1>0, NoPartsAssembled, MultipartAssumption DEF ShapeInv, TypeOK, Intent
    <3> QED
      BY <2>1, <2>4, <3>1 DEF Id
  <2> QED
    BY <2>1, <2>2, <2>3, <2>4, <2>5 DEF AliveKept, AliveInv, Alive, CreatedInv, NoLateAbort
<1>3. CASE Activate(k)
  <2>1. /\ NoLateAbort(intents[k].id) /\ uploads[intents[k].id] # None
        /\ uploads' = uploads /\ late' = late
    BY <1>3 DEF CreatedInv, Activate, At, remote
  <2>2. CASE ActivateMultipart(k) /\ Stay(k, "idle")
    <3>1. h'[k] = Idle
      BY <2>2, StayIs
    <3>2. sessions[k] # None /\ sessions[k] \in Session
      BY <1>0, <1>3 DEF ShapeInv, PlaceInv, Activate, At
    <3>3. intents'[k].state = "uploading" /\ intents'[k].id = intents[k].id
      BY <1>0, <2>2 DEF ActivateMultipart, Intent
    <3>4. Spared(k)'
      BY <3>1, <3>3 DEF Spared, Idle
    <3>5. Upstream(k)'
      BY <2>1, <3>3 DEF Upstream, NoLateAbort
    <3> QED
      BY <3>1, <3>4, <3>5 DEF AliveKept, AliveInv, CreatedInv, Idle
  <2>3. CASE Goto(k, "abort", "unstarted") /\ UNCHANGED index
    <3>1. h'[k].pc = "abort"
      BY <2>3, GotoIs
    <3>2. ~Alive(k)'
      BY <1>0, <2>3 DEF index, Begun, Alive
    <3> QED
      BY <3>1, <3>2, AliveNot
  <2> QED
    BY <1>3, <2>2, <2>3 DEF Activate
<1>4. CASE CreateFailed(k)
  <2>1. h'[k].pc = "hold"
    BY <1>4, StayIs DEF CreateFailed, Transaction
  <2>2. ~Alive(k)'
    <3>1. CASE FailMultipart(k)
      <4>1. sessions[k] # None /\ sessions[k] \in Session
        BY <1>0, <1>4 DEF ShapeInv, PlaceInv, CreateFailed, At
      <4> QED
        BY <1>0, <3>1, <4>1 DEF FailMultipart, Alive, Session
    <3>2. CASE UNCHANGED index
      BY <1>0, <3>2 DEF index, Begun, Alive
    <3> QED
      BY <1>4, <3>1, <3>2 DEF CreateFailed, Transaction
  <2> QED
    BY <2>1, <2>2, AliveNot
<1>5. CASE MarkUploading(k)
  <2>1. ~Alive(k)'
    BY <1>0, <1>5 DEF MarkUploading, UpdateWriteState, index, Begun, Alive
  <2>2. h'[k].pc \in {"chunk", "abort"}
    BY <1>5, GotoIs DEF MarkUploading
  <2> QED
    BY <2>1, <2>2, AliveNot
<1> QED
  BY <1>1, <1>2, <1>3, <1>4, <1>5

\* Parts and chunks.
LEMMA PartsAlive ==
    ASSUME ShapeInv, NEW k \in Keys, AliveInv(k), ~Published(k),
           KeepPart(k) \/ Chunk(k) \/ RemotePart(k)
    PROVE  AliveKept(k)
<1> USE DEF Steps, Flows
<1>0. /\ intents[k] # None /\ intents[k] \in Intent /\ h[k] \in Handler /\ RemoteMove(k)
      /\ h[k].pc \in {"keep", "chunk", "send"} /\ Goes(h[k].pc, h[k].flow) /\ PlaceInv(k)
      /\ h \in [Keys -> Handler] /\ IndexStepOf(k)
  <2>1. h[k].pc \in {"keep", "chunk", "send"}
    BY DEF KeepPart, Chunk, RemotePart, At
  <2>2. RemoteMove(k) /\ IndexStepOf(k)
    BY RemoteMoves, StepMoves DEF Step
  <2> QED
    BY <2>1, <2>2, Places DEF Route, Idle, ShapeInv, TypeOK
<1>1. CASE KeepPart(k)
  <2>1. h'[k] = Idle /\ stored' = stored
    BY <1>1, StayIs DEF KeepPart, Transaction, remote
  <2>2. sessions[k] # None /\ h[k].flow = "part"
    BY <1>0, <1>1 DEF KeepPart, At, PlaceInv, Goes
  <2>3. CASE UNCHANGED index
    <3>1. intents'[k] = intents[k] /\ sessions'[k] = sessions[k]
      BY <2>3 DEF index
    <3>2. h'[k].flow = "none" /\ h'[k].pc = "idle"
      BY <2>1 DEF Idle
    <3> QED
      BY <1>0, <2>1, <3>1, <3>2, AliveRowsStay
  <2>4. ASSUME NEW n \in Nos, NEW body \in Bodies, CommitMultipartPart(k, n, body)
        PROVE  AliveKept(k)
    <3>1. /\ intents'[k] # None
          /\ intents'[k].id = intents[k].id /\ intents'[k].state = intents[k].state
          /\ sessions'[k].id = sessions[k].id /\ sessions'[k].status = sessions[k].status
      BY <1>0, <2>2, <2>4, SessionKept
    <3>2. Alive(k)' => Alive(k)
      BY <1>0, <2>2, <3>1 DEF Alive, RemoteMove
    <3>3. Alive(k)' => Spared(k)'
      BY <2>1, <3>1, <3>2 DEF AliveInv, Spared, Idle
    <3> QED
      BY <1>0, <2>1, <3>1, <3>2, <3>3, AliveStep DEF Idle
  <2>5. UNCHANGED index \/ \E n \in Nos, body \in Bodies : CommitMultipartPart(k, n, body)
    <3> DEFINE n == CHOOSE n \in DOMAIN h[k].want : TRUE
    <3>1. PICK m \in Nos, body \in Bodies : h[k].want = Part(m, body)
      BY <1>0, <2>2 DEF PlaceInv, OnePart
    <3>2. n = m /\ h[k].want[n] = body
      BY <3>1 DEF Part
    <3>3. UNCHANGED index \/ CommitMultipartPart(k, n, h[k].want[n])
      BY <1>1 DEF KeepPart, Transaction
    <3> QED
      BY <3>2, <3>3
  <2> QED
    BY <2>3, <2>4, <2>5
<1>2. CASE Chunk(k)
  <2>1. sessions[k] = None
    BY <1>0, <1>2 DEF PlaceInv, Goes, Chunk, At
  <2>2. sessions' = sessions
    BY <1>2 DEF Chunk, EnsureWriteReservation, index
  <2>3. PICK pc \in {"send", "markAborting", "markCompleting"} : Stay(k, pc)
    BY <1>2 DEF Chunk
  <2> QED
    BY <2>1, <2>2, <2>3, StayIs, AliveNot DEF Alive
<1>3. CASE RemotePart(k)
  <2>1. intents' = intents /\ sessions' = sessions
    BY <1>3 DEF RemotePart, index
  <2>2. stored' = stored
    <3>1. SentPart(k) \in LateMessage /\ SentPart(k).op = "part"
      BY <1>3, SentPartIs DEF RemotePart, At
    <3>2. Effect(SentPart(k)) => stored' = stored
      BY <3>1, EffectStored
    <3> QED
      BY <1>3, <3>2 DEF RemotePart, Unanswered, remote
  <2>3. CASE h[k].flow = "put"
    <3>1. ~Alive(k)'
      BY <1>0, <2>1, <2>3 DEF PlaceInv, Alive
    <3>2. h'[k].pc \in {"keep", "chunk", "idle", "markAborting"}
      <4>1. CASE h' = [h EXCEPT ![k].pc = IF In(k, {"part"}) THEN "keep" ELSE "chunk",
                                ![k].sent = IF In(k, {"part"}) THEN 0 ELSE @ + 1]
        BY <1>0, <4>1 DEF Handler
      <4>2. CASE Stay(k, IF In(k, {"part"}) THEN "idle" ELSE "markAborting")
        BY <4>2, StayIs DEF Idle
      <4> QED
        BY <1>3, <4>1, <4>2 DEF RemotePart, Unanswered, Stay
    <3> QED
      BY <3>1, <3>2, AliveNot
  <2>4. CASE h[k].flow = "part"
    <3>1. h'[k].pc \in {"keep", "idle"} /\ h'[k].flow \in {"part", "none"}
      <4>1. CASE h' = [h EXCEPT ![k].pc = IF In(k, {"part"}) THEN "keep" ELSE "chunk",
                                ![k].sent = IF In(k, {"part"}) THEN 0 ELSE @ + 1]
        BY <1>0, <2>4, <4>1 DEF Handler, In
      <4>2. CASE Stay(k, IF In(k, {"part"}) THEN "idle" ELSE "markAborting")
        <5>1. Stay(k, "idle")
          BY <2>4, <4>2 DEF In
        <5> QED
          BY <5>1, StayIs DEF Idle
      <4> QED
        BY <1>3, <4>1, <4>2 DEF RemotePart, Unanswered, Stay
    <3> QED
      BY <1>0, <2>1, <2>2, <3>1, AliveRowsStay
  <2> QED
    BY <1>0, <1>3, <2>3, <2>4 DEF Goes, RemotePart, At
<1> QED
  BY <1>1, <1>2, <1>3

\* Restoring a session, and giving up its rows.
LEMMA RestoreAlive ==
    ASSUME ShapeInv, NEW k \in Keys, AliveInv(k), ~Published(k), Restore(k) \/ AbortRows(k)
    PROVE  AliveKept(k)
<1> USE DEF Steps, Flows
<1>0. /\ h[k].pc \in {"restore", "release"} /\ intents[k] # None /\ intents[k] \in Intent
      /\ h[k].pc = "restore" => /\ h[k].flow \in {"complete", "resolve", "recover"}
                                /\ sessions[k] # None /\ sessions[k].status = "completing"
      /\ RemoteMove(k) /\ stored' = stored
      /\ sessions \in [Keys -> Session \union {None}] /\ intents \in [Keys -> Intent \union {None}]
  <2>1. h[k].pc \in {"restore", "release"}
    BY DEF Restore, AbortRows, At
  <2>2. RemoteMove(k)
    BY RemoteMoves DEF Step
  <2>3. stored' = stored
    BY DEF Restore, AbortRows, Transaction, remote
  <2> QED
    BY <2>1, <2>2, <2>3, Places DEF Route, Goes, Idle, ShapeInv, PlaceInv, TypeOK
<1>1. CASE Restore(k)
  <2>1. h[k].pc = "restore"
    BY <1>1 DEF Restore, At
  <2>2. PICK pc \in {"idle", "hold"} : Stay(k, pc) /\ (pc = "hold" => ~In(k, {"recover"}))
    BY <1>1 DEF Restore, Transaction
  <2>3. h'[k].pc = pc /\ (pc = "idle" => h'[k].flow = "none")
        /\ (pc = "hold" => h'[k].flow \in {"complete", "resolve"})
    BY <1>0, <2>1, <2>2, StayIs DEF Idle, In
  <2>4. CASE UNCHANGED index
    <3>1. intents'[k] = intents[k] /\ sessions'[k] = sessions[k]
      BY <2>4 DEF index
    <3> QED
      BY <1>0, <2>2, <2>3, <3>1, AliveRowsStay
  <2>5. CASE ResetMultipart(k)
    <3>1. sessions[k] \in Session
      BY <1>0, <2>1
    <3>2. /\ sessions'[k].status = "active" /\ sessions'[k].id = sessions[k].id
          /\ intents'[k].state = "uploading" /\ intents'[k].id = intents[k].id
          /\ sessions'[k] # None /\ intents'[k] \in Intent
      <4>1. sessions'[k] \in Session /\ sessions'[k].status = "active"
            /\ sessions'[k].id = sessions[k].id
        BY <1>0, <2>5, <3>1 DEF ResetMultipart, Session
      <4>2. intents'[k].state = "uploading" /\ intents'[k].id = intents[k].id
            /\ intents'[k] \in Intent
        BY <1>0, <2>5, <3>1 DEF ResetMultipart, Intent, Session
      <4> QED
        BY <4>1, <4>2, MultipartAssumption
    <3>3. Alive(k)' => Alive(k)
      BY <1>0, <2>1, <3>2 DEF Alive, RemoteMove
    <3>4. Spared(k)'
      BY <2>3, <3>2 DEF Spared
    <3>5. intents'[k] # None
      BY <3>2, MultipartAssumption
    <3> QED
      BY <1>0, <2>3, <3>2, <3>3, <3>4, <3>5, AliveStep
  <2> QED
    BY <1>1, <2>4, <2>5 DEF Restore, Transaction
<1>2. CASE AbortRows(k)
  <2>1. ~Alive(k)
    BY <1>2 DEF AbortRows, At, AliveInv, Spared
  <2>2. ~Alive(k)'
    BY <1>0, <1>2, <2>1 DEF AbortRows, Transaction, Release, index, Alive, RemoteMove
  <2>3. h'[k].pc = "idle"
    BY <1>2, StayIs DEF AbortRows, Transaction, Idle
  <2> QED
    BY <2>2, <2>3, AliveNot
<1> QED
  BY <1>1, <1>2

\* The states of intents: those of a session that is alive say that it is completing, or
\* that nobody knows how its completion went.
LEMMA MarkAlive ==
    ASSUME ShapeInv, NEW k \in Keys, AliveInv(k), ~Published(k), Mark(k)
    PROVE  AliveKept(k)
<1> USE DEF Steps, Flows
<1>0. /\ h[k].pc \in {"markCompleting", "markEtag", "markConsumed", "markConflict",
                      "markAborting", "markRecovering", "hold"}
      /\ StateAt[h[k].pc] \in {"completing", "uploading", "consumed", "aborting", "recovery"}
  BY Marks DEF Mark
<1>1. intents[k] # None /\ Goes(h[k].pc, h[k].flow) /\ PlaceInv(k) /\ RemoteMove(k)
  <2>1. RemoteMove(k)
    BY RemoteMoves DEF Step
  <2> QED
    BY <1>0, <2>1, Places DEF Route, Idle, ShapeInv
<1>2. /\ intents'[k] # None /\ intents'[k].id = intents[k].id
      /\ intents'[k].state \in {intents[k].state, StateAt[h[k].pc]}
      /\ sessions' = sessions /\ stored' = stored
  <2>1. MarkKnows(k) \in BOOLEAN
    BY DEF MarkKnows, In
  <2>2. UpdateWriteState(k, StateAt[h[k].pc], MarkKnows(k)) \/ UNCHANGED index
    BY DEF Mark, Transaction
  <2>3. stored' = stored
    BY DEF Mark, Transaction, remote
  <2>4. intents \in [Keys -> Intent \union {None}] /\ intents[k] \in Intent
    BY <1>1 DEF ShapeInv, TypeOK
  <2>5. intents'[k].state \in {intents[k].state, StateAt[h[k].pc]}
    <3>1. CASE UpdateWriteState(k, StateAt[h[k].pc], MarkKnows(k))
      <4> DEFINE state == StateAt[h[k].pc]
      <4>1. intents' = [intents EXCEPT ![k].state = state, ![k].known = @ \/ MarkKnows(k)]
        BY <3>1 DEF UpdateWriteState
      <4> HIDE DEF state
      <4>2. intents'[k].state = state
        BY <2>4, <4>1 DEF Intent
      <4> QED
        BY <4>2 DEF state
    <3>2. CASE UNCHANGED index
      BY <3>2 DEF index
    <3> QED
      BY <2>2, <3>1, <3>2
  <2> QED
    BY <1>0, <1>1, <2>1, <2>2, <2>3, <2>5, IntentStays
<1>3. PICK pc \in Steps : Stay(k, pc) /\ pc \in {AfterMark[h[k].pc], UnlessMarked(k)}
  <2>1. AfterMark[h[k].pc] \in Steps /\ UnlessMarked(k) \in Steps
    BY <1>0, Marks DEF UnlessMarked
  <2> QED
    BY <2>1 DEF Mark, Transaction
<1>4. /\ h[k].pc = "markCompleting" => pc \in {"complete", "restore", "markAborting"}
      /\ h[k].pc = "markCompleting" /\ h[k].flow = "complete" => pc \in {"complete", "restore"}
      /\ h[k].pc = "markEtag" => pc \in {"commit", "hold"}
      /\ h[k].pc = "hold" => pc = "idle"
      /\ pc \notin {"insert", "create", "activate"}
  BY <1>0, <1>3, Marks DEF UnlessMarked, At, In
<1>5. /\ h'[k].pc = pc
      /\ pc # "idle" => h'[k].flow = h[k].flow
      /\ pc = "idle" => h'[k].flow = "none"
  BY <1>3, StayIs DEF Idle
<1>6. Alive(k)' => Alive(k)
  BY <1>1, <1>2 DEF Alive, RemoteMove
<1>7. CASE ~Alive(k)
  BY <1>4, <1>5, <1>6, <1>7, AliveNot
<1>8. CASE Alive(k)
  <2>1. /\ h[k].flow \in {"complete", "resolve", "recover"}
        /\ h[k].pc \in {"markCompleting", "markEtag", "hold"}
        /\ h[k].pc # "hold" => h[k].flow = "complete"
    BY <1>0, <1>1, <1>8 DEF AliveInv, Spared, Goes
  <2>2. sessions[k].status = "completing"
    BY <1>1, <1>8, <2>1 DEF PlaceInv, AliveInv, Spared
  <2>3. StateAt[h[k].pc] \in {"completing", "recovery"}
    BY <2>1, Marks
  <2>4. Spared(k)'
    BY <1>2, <1>4, <1>5, <1>8, <2>1, <2>2, <2>3 DEF AliveInv, Spared
  <2> QED
    BY <1>0, <1>1, <1>2, <1>4, <1>5, <1>8, <2>4, AliveStep
<1> QED
  BY <1>7, <1>8

\* Indexing an object ends its session for good.
LEMMA CommitAlive ==
    ASSUME ShapeInv, NEW k \in Keys, AliveInv(k), ~Published(k), Commit(k)
    PROVE  AliveKept(k)
<1> USE DEF Steps, Flows
<1>0. /\ h[k].pc = "commit" /\ intents[k] # None /\ stored' = stored /\ RemoteMove(k)
      /\ sessions \in [Keys -> Session \union {None}]
  <2>1. RemoteMove(k)
    BY RemoteMoves DEF Step
  <2> QED
    BY <2>1, Places DEF Commit, At, remote, ShapeInv, TypeOK
<1>1. CASE CommitWrite(k, h[k].want) /\ Stay(k, "idle")
  <2>1. h'[k].pc = "idle" /\ sessions'[k] = None
    BY <1>0, <1>1, StayIs DEF Idle, CommitWrite
  <2> QED
    BY <2>1, AliveNot DEF Alive
<1>2. CASE Stay(k, UnlessCommitted(k)) /\ UNCHANGED index
  <2>1. PICK pc \in {"hold", "idle"} : Stay(k, pc)
    BY <1>2 DEF UnlessCommitted
  <2>2. h'[k].pc = pc /\ h'[k].flow \in {h[k].flow, "none"}
    BY <2>1, StayIs DEF Idle
  <2>3. intents'[k] = intents[k] /\ sessions'[k] = sessions[k]
    BY <1>2 DEF index
  <2>4. Alive(k) => /\ h'[k].flow \in {"none", "part", "complete", "resolve", "recover"}
                    /\ h'[k].flow = "recover" => sessions[k].status = "completing"
    BY <2>2 DEF AliveInv, Spared
  <2> QED
    BY <1>0, <2>2, <2>3, <2>4, AliveRowsStay
<1> QED
  BY <1>1, <1>2 DEF Commit

\* A completion consumes the upload of a session that is alive by publishing its object,
\* or by refusing it for good.
LEMMA CompleteAlive ==
    ASSUME ShapeInv, NEW k \in Keys, AliveInv(k), ~Published(k), RemoteComplete(k)
    PROVE  AliveKept(k)
<1> USE DEF Steps, Flows
<1>0. /\ h[k].pc = "complete" /\ intents[k] # None /\ intents[k] \in Intent
      /\ h[k].flow \in {"put", "complete"} /\ PlaceInv(k) /\ RemoteMove(k) /\ RowInv(k)
      /\ intents' = intents /\ sessions' = sessions
      /\ stored \in [Keys -> Object \union {None}] /\ uploads \in [Ids -> Assembled \union {None}]
  <2>1. h[k].pc = "complete" /\ UNCHANGED index
    BY DEF RemoteComplete, At
  <2>2. RemoteMove(k)
    BY RemoteMoves DEF Step
  <2> QED
    BY <2>1, <2>2, Places DEF Route, Goes, Idle, ShapeInv, index, TypeOK
<1>2. /\ Message(k, "complete") \in LateMessage /\ Message(k, "complete").op = "complete"
      /\ Message(k, "complete").key = k /\ Message(k, "complete").id = intents[k].id
      /\ Message(k, "complete").body = h[k].want /\ intents[k].id \in Ids
  BY <1>0, MessageIs
<1>3. h'[k].pc \in {"markEtag", "head", "markConsumed", "restore", "markAborting", "markConflict"}
      /\ h'[k].flow \in Flows
  <2>1. \E pc \in {"markEtag", "head", "markConsumed", "restore", "markAborting", "markConflict"},
           flow \in Flows : Goto(k, pc, flow)
    BY <1>0 DEF RemoteComplete, Serve, Unanswered, Refused, Resolving, Stay
  <2> QED
    BY <2>1, GotoIs
<1>4. CASE ~Alive(k)
  <2>1. ~Alive(k)'
    BY <1>0, <1>4 DEF Alive, RemoteMove
  <2> QED
    BY <1>3, <2>1, AliveNot
<1>5. CASE Alive(k)
  <2>0. /\ h[k].flow = "complete" /\ sessions[k].status = "completing"
        /\ sessions[k].id = intents[k].id /\ sessions[k] # None
        /\ uploads[intents[k].id] # None /\ NoLateAbort(intents[k].id)
        /\ intents[k].state \notin {"consumed", "aborting"}
    BY <1>0, <1>5 DEF AliveInv, Spared, Upstream, Alive, RowInv, PlaceInv
  <2>1. NoLateAbort(intents[k].id)'
    BY <1>0, <2>0 DEF RemoteMove, NoLateAbort
  <2>2. ASSUME h'[k].flow \in {"complete", "resolve"},
               h'[k].pc \in {"markEtag", "head", "restore"},
               uploads'[intents[k].id] # None \/ Published(k)'
        PROVE  AliveKept(k)
    <3>1. Spared(k)'
      BY <1>0, <2>0, <2>2 DEF Spared
    <3>2. Published(k)' \/ Upstream(k)'
      BY <1>0, <2>1, <2>2 DEF Upstream, NoLateAbort
    <3> QED
      BY <2>2, <3>1, <3>2 DEF AliveKept, AliveInv, CreatedInv
  <2>3. Accepted(Message(k, "complete")) /\ Effect(Message(k, "complete")) => Published(k)'
    <3> SUFFICES ASSUME Accepted(Message(k, "complete")), Effect(Message(k, "complete"))
                 PROVE  Published(k)'
      OBVIOUS
    <3> DEFINE o == [id |-> intents[k].id, body |-> h[k].want]
    <3>1. o \in Object
      BY <1>2 DEF LateMessage, Object
    <3>2. stored'[k] = o
      BY <1>0, <1>2 DEF Effect
    <3> QED
      BY <1>0, <3>1, <3>2, MultipartAssumption DEF Published
  <2>4. ~Accepted(Message(k, "complete")) /\ Effect(Message(k, "complete")) => uploads' = uploads
    BY <1>2 DEF Effect
  <2>5. CASE Accepted(Message(k, "complete")) /\ Serve(k, "complete", "markEtag", h[k].flow)
    <3>1. h'[k].pc = "markEtag" /\ h'[k].flow = "complete"
      <4>1. Goto(k, "markEtag", "complete")
        BY <2>0, <2>5 DEF Serve
      <4> QED
        BY <4>1, GotoIs
    <3> QED
      BY <2>2, <2>3, <2>5, <3>1 DEF Serve
  <2>6. CASE Goto(k, "head", Resolving(k)) /\ UNCHANGED remote
    <3>1. Resolving(k) = "resolve"
      BY <2>0 DEF Resolving, In
    <3>2. h'[k].pc = "head" /\ h'[k].flow = "resolve"
      BY <2>6, <3>1, GotoIs
    <3> QED
      BY <2>0, <2>2, <2>6, <3>2 DEF remote
  <2>7. CASE Unanswered(k, Message(k, "complete"), "head", Resolving(k))
    <3>1. Resolving(k) = "resolve"
      BY <2>0 DEF Resolving, In
    <3>2. h'[k].pc = "head" /\ h'[k].flow = "resolve"
      BY <2>7, <3>1, GotoIs DEF Unanswered
    <3>3. Effect(Message(k, "complete")) \/ uploads' = uploads
      BY <2>7 DEF Unanswered
    <3> QED
      BY <2>0, <2>2, <2>3, <2>4, <3>2, <3>3
  <2>8. CASE Refused(k, IF In(k, {"put"}) THEN "markAborting" ELSE "restore", h[k].flow)
    <3>1. Goto(k, "restore", "complete")
      BY <2>0, <2>8 DEF Refused, In
    <3>2. h'[k].pc = "restore" /\ h'[k].flow = "complete"
      BY <3>1, GotoIs
    <3> QED
      BY <2>0, <2>2, <2>8, <3>2 DEF Refused, remote
  <2>9. CASE ended' = ended \union {Message(k, "complete").id}
    <3>1. ~Alive(k)'
      BY <1>0, <1>2, <2>0, <2>9 DEF Alive
    <3> QED
      BY <1>3, <3>1, AliveNot
  <2> QED
    BY <1>2, <2>0, <2>5, <2>6, <2>7, <2>8, <2>9 DEF RemoteComplete
<1> QED
  BY <1>4, <1>5

\* Uploads that are aborted are not those of sessions that are alive.
LEMMA AbortAlive ==
    ASSUME ShapeInv, NEW k \in Keys, AliveInv(k), ~Published(k), RemoteAbort(k)
    PROVE  AliveKept(k)
<1> USE DEF Steps, Flows
<1>1. ~Alive(k) /\ h[k].flow \in Flows
  BY Places DEF AliveInv, Spared, RemoteAbort, At, Handler
<1>2. RemoteMove(k) /\ sessions' = sessions
  BY RemoteMoves DEF Step, RemoteAbort, index
<1>3. ~Alive(k)'
  BY <1>1, <1>2 DEF Alive, RemoteMove
<1>4. h'[k].pc \in {"release", "classify", "idle", "hold"}
  <2>1. PICK pc \in {"release", "classify", "idle", "hold"} : Goto(k, pc, h[k].flow)
    BY DEF RemoteAbort, Serve, Unanswered
  <2>2. CASE pc = "idle"
    <3>1. h'[k] = Idle
      BY <1>1, <2>1, <2>2, GotoIs
    <3> QED
      BY <3>1 DEF Idle
  <2>3. CASE pc # "idle"
    <3>1. h'[k].pc = pc
      BY <1>1, <2>1, <2>3, GotoIs
    <3> QED
      BY <2>1, <3>1
  <2> QED
    BY <2>2, <2>3
<1> QED
  BY <1>3, <1>4, AliveNot

\* What a HEAD shows of a session that is alive restores it, indexes its object, or leaves
\* the question open.
LEMMA HeadAlive ==
    ASSUME ShapeInv, NEW k \in Keys, AliveInv(k), ~Published(k), Head(k)
    PROVE  AliveKept(k)
<1> USE DEF Steps, Flows
<1>0. /\ h[k].pc \in {"head", "classify"} /\ intents[k] # None /\ h \in [Keys -> Handler]
      /\ h[k] \in Handler /\ Goes(h[k].pc, h[k].flow)
      /\ intents' = intents /\ sessions' = sessions /\ stored' = stored /\ RemoteMove(k)
  <2>1. RemoteMove(k)
    BY RemoteMoves DEF Step
  <2> QED
    BY <2>1, Places DEF Head, Route, Idle, ShapeInv, TypeOK, index, remote
<1>1. PICK pc \in Steps :
        /\ h'[k].pc = pc /\ h'[k].flow \in {h[k].flow, "none"}
        /\ pc \in {"commit", Unpublished(k), Uncertain(k)}
  <2>1. CASE h' = [h EXCEPT ![k].pc = "commit", ![k].want = stored[k].body]
    BY <1>0, <2>1 DEF Handler
  <2>2. ASSUME NEW pc \in {Unpublished(k), Uncertain(k)}, Stay(k, pc), pc \in Steps
        PROVE  h'[k].pc = pc /\ h'[k].flow \in {h[k].flow, "none"}
    BY <2>2, StayIs DEF Idle
  <2>3. \/ Unpublished(k) \in Steps \/ ~Stay(k, Unpublished(k))
        \/ Verdict(k) \notin {"absent", "previous"}
    <3>1. h[k].flow \in {"resolve", "putresolve", "consumed", "abort", "expire", "recover"}
      BY <1>0 DEF Goes
    <3> QED
      BY <1>0, <3>1 DEF Unpublished, In, At, Goes
  <2>4. Uncertain(k) \in Steps
    BY DEF Uncertain
  <2> QED
    BY <2>1, <2>2, <2>3, <2>4 DEF Head
<1>2. CASE ~Alive(k)
  <2>1. ~Alive(k)'
    BY <1>0, <1>2 DEF Alive, RemoteMove
  <2>2. pc \notin {"insert", "create", "activate"}
    <3>1. h[k].flow \in {"resolve", "putresolve", "consumed", "abort", "expire", "recover"}
      BY <1>0 DEF Goes
    <3> QED
      BY <1>0, <1>1, <3>1 DEF Unpublished, Uncertain, In, At, Goes
  <2> QED
    BY <1>1, <2>1, <2>2, AliveNot
<1>3. CASE Alive(k)
  <2>1. /\ h[k].flow \in {"resolve", "recover"} /\ h[k].pc = "head"
        /\ h[k].flow = "recover" => sessions[k].status = "completing"
        /\ intents[k].state \notin {"consumed", "aborting"} /\ sessions[k] # None
    BY <1>0, <1>3 DEF AliveInv, Spared, Goes, Alive
  <2>2. Unpublished(k) = "restore"
    BY <2>1 DEF Unpublished, At, In, Completing
  <2>3. Uncertain(k) \in {"idle", "hold"}
    BY DEF Uncertain
  <2> QED
    BY <1>0, <1>1, <2>1, <2>2, <2>3, AliveRowsStay
<1> QED
  BY <1>2, <1>3

\* Requests of clients, expiry, recovery.
LEMMA StartAlive ==
    ASSUME ShapeInv, IdInv, NEW k \in Keys, AliveInv(k), ~Published(k),
           Request(k) \/ StartExpire(k) \/ StartRecover(k)
    PROVE  AliveKept(k)
<1> USE DEF Steps, Flows
<1>0. /\ h[k] = Idle /\ PlaceInv(k) /\ RowInv(k) /\ RemoteMove(k)
      /\ stored' = stored /\ uploads' = uploads /\ late' = late
      /\ sessions \in [Keys -> Session \union {None}] /\ intents \in [Keys -> Intent \union {None}]
  <2>1. h[k].pc = "idle"
    BY DEF Request, StartCreate, StartPut, StartPart, StartComplete, StartAbort, StartExpire,
           StartRecover, Client, At
  <2>2. RemoteMove(k)
    BY RemoteMoves
  <2>3. stored' = stored /\ uploads' = uploads /\ late' = late
    BY DEF Request, StartCreate, StartPut, StartPart, StartComplete, StartAbort, StartExpire,
           StartRecover, remote
  <2> QED
    BY <2>1, <2>2, <2>3, Places DEF ShapeInv, TypeOK
<1>1. h[k].pc \notin {"complete", "abort"}
  BY <1>0 DEF Idle
<1>2. ASSUME NEW size \in Nat, NEW internal \in BOOLEAN, BeginWrite(k, size, internal),
             NEW pc \in {"insert", "create"}, NEW flow \in {"create", "putstart"},
             NEW want \in Assembled, Start(k, pc, flow, want)
      PROVE  AliveKept(k)
  <2>1. sessions[k] = None /\ sessions' = sessions
    BY <1>0, <1>2 DEF BeginWrite, RowInv
  <2>2. intents'[k].id = nextId
    BY <1>0, <1>2 DEF BeginWrite
  <2>3. NoLateAbort(nextId)
    <3>1. \A m \in late : m.id < nextId /\ m.id \in Nat /\ nextId \in Nat
      BY DEF IdInv, ShapeInv, LateOK, LateMessage, Ids, TypeOK
    <3> QED
      BY <3>1 DEF NoLateAbort
  <2>4. h'[k].pc = pc
    BY <1>2, StartIs
  <2> QED
    BY <1>0, <2>1, <2>2, <2>3, <2>4 DEF AliveKept, AliveInv, Alive, CreatedInv, NoLateAbort
<1>3. CASE StartCreate(k)
  BY <1>2, <1>3, NoPartsAssembled DEF StartCreate
<1>4. ASSUME NEW n \in Nos, NEW declared \in BOOLEAN, NEW want \in [1..n -> Bodies],
             StartPut(k, want, declared)
      PROVE  AliveKept(k)
  <2>1. want \in Assembled
    BY NosBelow DEF Assembled
  <2>2. BytesOf(want) \in Nat
    BY <2>1, BytesType
  <2> DEFINE size == IF declared THEN BytesOf(want) ELSE 0
  <2>3. size \in Nat /\ BeginWrite(k, size, TRUE) /\ Start(k, "create", "putstart", want)
    BY <1>4, <2>2 DEF StartPut
  <2> HIDE DEF size
  <2> QED
    BY <1>2, <2>1, <2>3
<1>5. ASSUME NEW n \in Nos, NEW body \in Bodies, StartPart(k, n, body) PROVE AliveKept(k)
  <2>1. Part(n, body) \in Assembled
    BY AssembledIs DEF Part
  <2>2. sessions[k] # None /\ PrepareMultipartPart(k, n, SizeOf[body])
    BY <1>5 DEF StartPart
  <2>3. intents[k] # None
    BY <1>0, <2>2 DEF RowInv
  <2>4. h'[k].pc = "send" /\ h'[k].flow = "part"
    BY <1>5, <2>1, StartIs DEF StartPart
  <2>5. /\ intents'[k] # None
        /\ intents'[k].id = intents[k].id /\ intents'[k].state = intents[k].state
        /\ sessions'[k].id = sessions[k].id /\ sessions'[k].status = sessions[k].status
    BY <2>2, <2>3, SessionKept
  <2>6. Alive(k)' => Alive(k)
    BY <1>0, <2>2, <2>5 DEF Alive, RemoteMove
  <2>7. Alive(k)' => Spared(k)'
    BY <2>4, <2>5, <2>6 DEF AliveInv, Spared
  <2> QED
    BY <1>0, <1>1, <2>3, <2>4, <2>5, <2>6, <2>7, AliveStep
<1>6. ASSUME NEW S \in SUBSET Nos, StartComplete(k, S) PROVE AliveKept(k)
  <2> DEFINE want == [n \in S |-> sessions[k].parts[n]]
  <2>1. sessions[k] # None /\ sessions[k] \in Session /\ sessions[k].status = "active"
        /\ S \in SUBSET DOMAIN sessions[k].parts
        /\ intents' = intents /\ sessions' = [sessions EXCEPT ![k].status = "completing"]
    BY <1>0, <1>6 DEF StartComplete, BeginCompleteMultipart
  <2>2. want \in Assembled
    <3>1. sessions[k].parts \in Assembled
      BY <2>1 DEF Session
    <3> QED
      BY <2>1, <3>1, BytesOfSome
  <2>3. Start(k, "markCompleting", "complete", want)
    BY <1>6 DEF StartComplete
  <2> HIDE DEF want
  <2>4. h'[k].pc = "markCompleting" /\ h'[k].flow = "complete"
    BY <2>2, <2>3, StartIs
  <2>5. intents[k] # None
    BY <1>0, <2>1 DEF RowInv
  <2>6. sessions'[k].id = sessions[k].id /\ sessions'[k].status = "completing"
    BY <1>0, <2>1 DEF Session
  <2>7. Alive(k)' => Alive(k)
    BY <1>0, <2>1, <2>6 DEF Alive, RemoteMove
  <2>8. Alive(k)' => Spared(k)'
    BY <2>1, <2>4, <2>6, <2>7 DEF AliveInv, Spared
  <2> QED
    BY <1>0, <1>1, <2>1, <2>4, <2>5, <2>7, <2>8, AliveStep
<1>7. CASE StartAbort(k) \/ StartExpire(k)
  <2>1. sessions' = sessions /\ ended' = ended \union {sessions[k].id}
    BY <1>7 DEF StartAbort, StartExpire, index
  <2>2. PICK pc \in {"head", "markAborting", "release"}, flow \in {"abort", "expire"} :
           Start(k, pc, flow, NoParts)
    BY <1>7 DEF StartAbort, StartExpire
  <2>3. h'[k].pc = pc
    BY <2>2, StartIs, NoPartsAssembled
  <2> QED
    BY <2>1, <2>3, AliveNot DEF Alive
<1>8. CASE StartRecover(k)
  <2>1. intents[k] # None /\ ~InUse(k) /\ intents' = intents /\ sessions' = sessions
    BY <1>8 DEF StartRecover, Recoverable, index
  <2>2. PICK pc \in {"head", "markAborting"} :
           /\ Start(k, pc, "recover", NoParts)
           /\ pc = "markAborting" => ~Completing(k)
    BY <1>8 DEF StartRecover
  <2>3. h'[k].pc = pc /\ h'[k].flow = "recover"
    BY <2>2, StartIs, NoPartsAssembled
  <2>4. Alive(k) => sessions[k].status = "completing" /\ sessions[k] # None
    BY <2>1 DEF Alive, AliveInv, Spared, InUse
  <2>5. Alive(k) => pc = "head"
    BY <2>2, <2>4 DEF Completing
  <2> QED
    BY <1>0, <1>1, <2>1, <2>2, <2>3, <2>4, <2>5, AliveRowsStay
<1> QED
  BY <1>3, <1>4, <1>5, <1>6, <1>7, <1>8 DEF Request

\* Every step.
LEMMA SessionStep ==
    ASSUME ShapeInv, LedgerInv, RemoteSound, SessionInv, [Next]_vars
    PROVE  SessionInv'
<1>0. ShapeInv' /\ RemoteSound' /\ IdInv
  BY ShapeStep, RemoteSoundStep DEF RemoteSound
<1>1. ASSUME NEW k \in Keys, Step(k) \/ Request(k) \/ StartExpire(k) \/ StartRecover(k)
      PROVE  \A j \in Keys : AliveInv(j)' /\ CreatedInv(j)'
  <2>1. HandlerMoves(k) /\ IndexStepOf(k) /\ RemoteMove(k)
    BY <1>1, StepPlaces
  <2>2. ASSUME NEW j \in Keys \ {k} PROVE AliveInv(j)' /\ CreatedInv(j)'
    <3>1. AliveInv(j) /\ CreatedInv(j)
      BY DEF SessionInv
    <3>2. /\ h'[j] = h[j] /\ intents'[j] = intents[j] /\ sessions'[j] = sessions[j]
          /\ stored'[j] = stored[j]
      BY <1>1, <2>1, <2>2, OtherRows, OtherObjects DEF HandlerMoves
    <3> QED
      BY <1>0, <2>1, <3>1, <3>2, AliveOfOthers
  <2>3. AliveKept(k)
    <3>1. AliveInv(k) /\ CreatedInv(k) /\ DriftInv(k) /\ DriftInv(k)'
      BY <1>0 DEF SessionInv, RemoteSound
    <3>2. CASE Published(k)
      BY <1>0, <1>1, <3>1, <3>2, PublishedAlive
    <3>3. CASE ~Published(k)
      BY <1>0, <1>1, <3>1, <3>3, CreateAlive, PartsAlive, RestoreAlive, MarkAlive,
         CommitAlive, CompleteAlive, AbortAlive, HeadAlive, StartAlive DEF Step
    <3> QED
      BY <3>2, <3>3
  <2> QED
    BY <2>2, <2>3 DEF AliveKept
<1>2. ASSUME NEW m \in late, LateEffect(m)
      PROVE  \A j \in Keys : AliveInv(j)' /\ CreatedInv(j)'
  BY <1>2, AliveLate DEF SessionInv
<1>3. ASSUME intents' = intents, sessions' = sessions, stored' = stored, uploads' = uploads,
             late' = late, ended' = ended, \A j \in Keys : h'[j] \in {h[j], Idle}
      PROVE  \A j \in Keys : AliveInv(j)' /\ CreatedInv(j)'
  <2>1. ASSUME NEW j \in Keys PROVE AliveInv(j)' /\ CreatedInv(j)'
    <3>1. AliveInv(j) /\ CreatedInv(j) /\ h'[j] \in {h[j], Idle}
      BY <1>3 DEF SessionInv
    <3>2. /\ Alive(j)' <=> Alive(j)
          /\ Upstream(j)' <=> Upstream(j)
          /\ Published(j)' <=> Published(j)
      BY <1>3 DEF Alive, Upstream, Published, NoLateAbort
    <3>3. Spared(j) => Spared(j)'
      BY <1>3, <3>1 DEF Spared, Idle
    <3>4. CreatedInv(j)'
      BY <1>3, <3>1 DEF CreatedInv, NoLateAbort, Idle
    <3> QED
      BY <3>1, <3>2, <3>3, <3>4 DEF AliveInv
  <2> QED
    BY <2>1
<1>4. ASSUME Crash \/ Leave \/ UNCHANGED vars
      PROVE  \A j \in Keys : AliveInv(j)' /\ CreatedInv(j)'
  BY <1>3, <1>4 DEF Crash, Leave, vars, index, remote, history
<1>5. CASE \E k \in Keys : Step(k) \/ Request(k) \/ StartExpire(k) \/ StartRecover(k)
  BY <1>1, <1>5 DEF SessionInv
<1>6. CASE \E m \in late : LateEffect(m)
  BY <1>2, <1>6 DEF SessionInv
<1>7. CASE Crash \/ Leave \/ UNCHANGED vars
  BY <1>4, <1>7 DEF SessionInv
<1> QED
  BY <1>5, <1>6, <1>7 DEF Next

\* There are no sessions at first.
LEMMA SessionInit == Init => SessionInv
BY DEF Init, SessionInv, AliveInv, Alive, CreatedInv, Idle

\* A session that its client may still complete keeps its upload, or is published: no
\* handler, no recovery and no request in flight is about to abort it.
THEOREM LiveSessions == Spec => []SessionInv
<1>1. Init => SessionInv
  BY SessionInit
<1>2. ShapeInv /\ LedgerInv /\ RemoteSound /\ SessionInv /\ [Next]_vars => SessionInv'
  BY SessionStep
<1> QED
  BY <1>1, <1>2, TypesAndCounters, PendingOrStored, PTL DEF Spec

\* A session goes with its rows, or with its object's being indexed.
LEMMA SessionEnds ==
    ASSUME ShapeInv, NEW k \in Keys, sessions[k] # None, sessions'[k] = None,
           Step(k) \/ Request(k) \/ StartExpire(k) \/ StartRecover(k)
    PROVE  AbortRows(k) \/ Commit(k)
<1>1. intents[k] # None /\ HandlerMoves(k) /\ IndexStepOf(k)
  BY StepPlaces DEF ShapeInv, RowInv
<1>2. ~OnSession(k)
  BY SessionKnown
<1>3. ~OnIntent(k)
  BY DEF OnIntent, EnsureWriteReservation, UpdateWriteState
<1>4. ~Opens(k)
  BY <1>1 DEF Opens, BeginWrite
<1>5. Ends(k)
  <2>1. ~UNCHANGED <<objects, intents, sessions, storage, reserved, nextId>>
    OBVIOUS
  <2> QED
    BY <1>1, <1>2, <1>3, <1>4, <2>1 DEF IndexStepOf, IndexMove
<1>6. intents'[k] = None
  BY <1>5 DEF Ends, Release, CommitWrite, ShapeInv, TypeOK
<1> QED
  BY <1>1, <1>6, IntentEnds DEF HandlerMoves

\* OnlyEndedAborted, for every instance: a session ends by its object's being indexed, by
\* its client's abort, by its expiry or by R2's refusal for good; neither crashes nor
\* recovery nor failing statements end one whose client may still complete it, and no
\* request that R2 carries out late.
THEOREM SessionsLive == Spec => OnlyEndedAborted
<1>1. ASSUME ShapeInv, RemoteSound, SessionInv, [Next]_vars
      PROVE  [\A k \in Keys :
         (/\ sessions[k] # None /\ sessions[k].status \in {"active", "completing"}
          /\ sessions'[k] = None /\ sessions[k].id \notin ended)
         => objects'[k] # None /\ objects'[k].id = sessions[k].id]_vars
  <2> SUFFICES ASSUME NEW k \in Keys,
                      sessions[k] # None, sessions[k].status \in {"active", "completing"},
                      sessions'[k] = None, sessions[k].id \notin ended
               PROVE  objects'[k] # None /\ objects'[k].id = sessions[k].id
    BY <1>1
  <2>1. /\ Published(k) \/ Spared(k)
        /\ intents[k] # None /\ sessions[k].id = intents[k].id
    BY <1>1 DEF SessionInv, AliveInv, Alive, ShapeInv, RowInv
  <2>2. PICK j \in Keys : Step(j) \/ Request(j) \/ StartExpire(j) \/ StartRecover(j)
    BY <1>1 DEF Next, LateEffect, Crash, Leave, vars, index
  <2>3. j = k
    BY <1>1, <2>2, OtherRows, StepMoves, StartMoves
  <2>4. AbortRows(k) \/ Commit(k)
    BY <1>1, <2>2, <2>3, SessionEnds
  <2>5. h[k].pc # "release"
    BY <1>1, <2>1 DEF RemoteSound, DriftInv, Spared
  <2>6. CommitWrite(k, h[k].want)
    BY <2>4, <2>5 DEF AbortRows, At, Commit, index
  <2>7. objects'[k] = [id |-> intents[k].id, body |-> h[k].want]
    BY <1>1, <2>6 DEF CommitWrite, ShapeInv, TypeOK
  <2>8. objects'[k] \in Object
    <3>1. intents[k].id \in Ids /\ h[k].want \in Assembled
      BY <1>1, <2>1 DEF ShapeInv, TypeOK, Intent, Handler
    <3> QED
      BY <2>7, <3>1 DEF Object
  <2> QED
    BY <2>1, <2>7, <2>8, MultipartAssumption
<1> QED
  BY <1>1, TypesAndCounters, PendingOrStored, LiveSessions, PTL DEF Spec, OnlyEndedAborted

-----------------------------------------------------------------------------
(* What R2 has assembled fits, when no completion takes effect late.        *)

\* A key whose rows, object and handler stay keeps what is said of them.
LEMMA StoredOfOthers ==
    ASSUME NEW k \in Keys, PublishedInv(k), WantInv(k),
           intents'[k] = intents[k], sessions'[k] = sessions[k], objects'[k] = objects[k],
           stored'[k] = stored[k], h'[k] = h[k]
    PROVE  PublishedInv(k)' /\ WantInv(k)'
<1>1. Published(k)' <=> Published(k)
  BY DEF Published
<1>2. Total(h'[k].want, h'[k].sent) = Total(h[k].want, h[k].sent)
      /\ Total(h'[k].want, h'[k].sent + 1) = Total(h[k].want, h[k].sent + 1)
  OBVIOUS
<1>3. PublishedInv(k)'
  BY <1>1 DEF PublishedInv, Unsent
<1>4. WantInv(k)'
  BY <1>2 DEF WantInv
<1> QED
  BY <1>3, <1>4

\* Steps that neither send parts nor complete have nothing to reserve.
LEMMA WantNothing ==
    ASSUME NEW k \in Keys, h'[k].flow # "putstart",
           h'[k].pc \notin {"chunk", "send", "markCompleting", "complete"}
    PROVE  WantInv(k)'
BY DEF WantInv

\* As long as nothing is published, nothing happens by a step that sends no completion
\* and indexes no object.
LEMMA UnsentStep ==
    ASSUME ShapeInv, NEW k \in Keys, PublishedInv(k), ~Published(k), intents[k] # None,
           IndexStepOf(k), objects'[k] = objects[k], stored'[k] = stored[k],
           h'[k].pc \notin {"markEtag", "commit"}
    PROVE  PublishedInv(k)'
<1>1. IntentKept(k) \/ IntentEnded(k)
  BY IntentMoves DEF IntentOpened
<1>2. intents'[k] = None \/ intents'[k].id = intents[k].id
  BY <1>1 DEF IntentKept, IntentEnded
<1>3. ~Published(k)'
  BY <1>2 DEF Published
<1> QED
  BY <1>3 DEF PublishedInv

\* What is published stays published.
LEMMA PublishedStep ==
    ASSUME NEW k \in Keys, PublishedInv(k), intents[k] # None, intents'[k] # None,
           intents'[k].id = intents[k].id, objects'[k] = objects[k], stored'[k] = stored[k],
           Published(k) => intents'[k].reserved = intents[k].reserved,
           Published(k) /\ sessions'[k] # None => sessions'[k].status = "completing",
           Unsent(h'[k]) => ~Published(k),
           h'[k].pc \in {"markEtag", "commit"} => Published(k) /\ stored[k].body = h'[k].want
    PROVE  PublishedInv(k)'
<1>1. Published(k)' <=> Published(k)
  BY DEF Published
<1> QED
  BY <1>1 DEF PublishedInv

\* The handler of a key.
StoredKept(k) == PublishedInv(k)' /\ WantInv(k)'

\* The steps that create an upload.
LEMMA CreateStored ==
    ASSUME ShapeInv, NEW k \in Keys, PublishedInv(k), WantInv(k),
           Insert(k) \/ Activate(k) \/ CreateFailed(k) \/ MarkUploading(k) \/ RemoteCreate(k)
    PROVE  StoredKept(k)
<1> USE DEF Steps, Flows
<1>0. /\ h[k].pc \in {"insert", "activate", "failed", "markUploading", "create"}
      /\ h[k].flow \in {"create", "putstart"} /\ intents[k] # None /\ intents[k] \in Intent
      /\ h[k].pc \in {"insert", "activate", "failed"} => h[k].flow = "create"
      /\ h[k].pc = "markUploading" => h[k].flow = "putstart"
      /\ IndexStepOf(k) /\ h[k] \in Handler
  <2>1. h[k].pc \in {"insert", "activate", "failed", "markUploading", "create"}
    BY DEF Insert, Activate, CreateFailed, MarkUploading, RemoteCreate, At
  <2>2. IndexStepOf(k)
    BY StepMoves DEF Step
  <2>3. Goes(h[k].pc, h[k].flow)
    BY <2>1, Places DEF Route, Idle
  <2> QED
    BY <2>1, <2>2, <2>3, Places DEF Goes
<1>1. ~Published(k)
  BY <1>0 DEF PublishedInv, Unsent
<1>2. stored' = stored /\ objects' = objects
  BY DEF Insert, Activate, CreateFailed, MarkUploading, RemoteCreate, Transaction, InsertSession,
         ActivateMultipart, FailMultipart, UpdateWriteState, Refused, remote, index
<1>3. /\ h'[k].pc \in {"create", "release", "idle", "abort", "hold", "activate", "markUploading",
                       "failed", "chunk"}
      /\ h'[k].pc = "chunk" => MarkUploading(k) /\ h'[k].flow = "put"
      /\ h'[k].pc # "chunk" => h'[k].flow \in {h[k].flow, "unstarted", "create", "none"}
      /\ h'[k].pc # "idle" => h'[k].sent = h[k].sent /\ h'[k].want = h[k].want
      /\ h'[k].pc = "idle" => h'[k].flow = "none"
  <2>1. CASE Insert(k) \/ CreateFailed(k)
    <3>1. PICK pc \in {"create", "release", "hold"} : Stay(k, pc)
      BY <2>1 DEF Insert, CreateFailed, Transaction
    <3> QED
      BY <3>1, StayIs
  <2>2. CASE Activate(k)
    <3>1. CASE Stay(k, "idle")
      BY <3>1, StayIs DEF Idle
    <3>2. CASE Goto(k, "abort", "unstarted")
      BY <3>2, GotoIs
    <3> QED
      BY <2>2, <3>1, <3>2 DEF Activate
  <2>3. CASE MarkUploading(k)
    <3>1. CASE Goto(k, "chunk", "put")
      BY <2>3, <3>1, GotoIs
    <3>2. CASE Goto(k, "abort", "unstarted")
      BY <3>2, GotoIs
    <3> QED
      BY <2>3, <3>1, <3>2 DEF MarkUploading
  <2>4. CASE RemoteCreate(k)
    <3>1. PICK pc \in {"activate", "markUploading", "release", "failed"},
               flow \in {h[k].flow, "create"} : Goto(k, pc, flow)
      BY <2>4 DEF RemoteCreate, Refused, Stay
    <3>2. flow \in Flows
      BY <1>0, <3>1
    <3> QED
      BY <3>1, <3>2, GotoIs
  <2> QED
    BY <2>1, <2>2, <2>3, <2>4
<1>4. PublishedInv(k)'
  BY <1>0, <1>1, <1>2, <1>3, UnsentStep
<1>5. WantInv(k)'
  <2>1. CASE h'[k].pc = "chunk"
    <3>1. h[k].pc = "markUploading" /\ h[k].flow = "putstart" /\ h'[k].sent = 0
      BY <1>0, <1>3, <2>1 DEF MarkUploading, At, WantInv
    <3>2. Total(h'[k].want, h'[k].sent) = 0
      <4>1. [n \in 1..0 |-> h'[k].want[n]] = NoParts
        BY DEF NoParts
      <4>2. BytesOf(NoParts) = 0
        <5>1. [n \in Nos |-> IF n \in DOMAIN NoParts THEN SizeOf[NoParts[n]] ELSE 0]
                 = [n \in Nos |-> 0]
          BY NoPartsAssembled
        <5> QED
          BY <5>1, SumZero, NosFinite DEF BytesOf
      <4> QED
        BY <3>1, <4>1, <4>2 DEF Total
    <3>3. intents'[k] # None /\ intents'[k].reserved \in Nat
      <4>1. UNCHANGED index \/ UpdateWriteState(k, "uploading", TRUE)
        BY <1>3, <2>1 DEF MarkUploading
      <4>2. intents'[k] # None /\ intents'[k] \in Intent
        BY <1>0, <4>1, IntentStays
      <4> QED
        BY <4>2 DEF Intent
    <3> QED
      BY <1>3, <2>1, <3>2, <3>3 DEF WantInv
  <2>2. CASE h'[k].flow = "putstart"
    <3>1. h'[k].pc # "chunk" /\ h'[k].pc \notin {"send", "markCompleting", "complete"}
      BY <1>3, <2>2
    <3>2. h[k].flow = "putstart" /\ h'[k].pc # "idle"
      <4>1. h'[k].pc = "idle" => h'[k].flow # "putstart"
        BY <1>3
      <4> QED
        BY <1>0, <1>3, <2>2, <3>1, <4>1
    <3>3. h'[k].sent = 0
      BY <1>3, <3>2 DEF WantInv
    <3> QED
      BY <3>1, <3>3 DEF WantInv
  <2> QED
    BY <1>3, <2>1, <2>2, WantNothing
<1> QED
  BY <1>4, <1>5 DEF StoredKept

\* A transaction on an intent keeps what it reserves, unless it reserves more.
LEMMA ReservedStays ==
    ASSUME ShapeInv, NEW k \in Keys, intents[k] # None,
           \/ UNCHANGED index
           \/ \E state \in {"completing", "uploading", "consumed", "aborting", "recovery"},
                 known \in BOOLEAN : UpdateWriteState(k, state, known)
    PROVE  intents'[k].reserved = intents[k].reserved
<1>1. intents \in [Keys -> Intent \union {None}] /\ intents[k] \in Intent
  BY DEF ShapeInv, TypeOK
<1> QED
  BY <1>1 DEF UpdateWriteState, index, Intent

\* The parts of a session, the chunks of a chunked upload.
LEMMA PartsStored ==
    ASSUME ShapeInv, NEW k \in Keys, PublishedInv(k), WantInv(k),
           KeepPart(k) \/ Chunk(k) \/ RemotePart(k)
    PROVE  StoredKept(k)
<1> USE DEF Steps, Flows
<1>0. /\ intents[k] # None /\ intents[k] \in Intent /\ h[k] \in Handler /\ IndexStepOf(k)
      /\ Goes(h[k].pc, h[k].flow) /\ PlaceInv(k) /\ h \in [Keys -> Handler]
  <2>1. h[k].pc \in {"keep", "chunk", "send"}
    BY DEF KeepPart, Chunk, RemotePart, At
  <2>2. IndexStepOf(k)
    BY StepMoves DEF Step
  <2> QED
    BY <2>1, <2>2, Places DEF Route, Idle, ShapeInv, TypeOK
<1>1. CASE KeepPart(k)
  <2>1. h'[k] = Idle /\ stored' = stored
    BY <1>1, StayIs DEF KeepPart, Transaction, remote
  <2>2. WantInv(k)'
    BY <2>1, WantNothing DEF Idle
  <2>3. CASE UNCHANGED index
    <3>1. PublishedInv(k)'
      <4>1. ~Unsent(h'[k]) /\ h'[k].pc \notin {"markEtag", "commit"}
        BY <2>1 DEF Unsent, Idle
      <4>2. /\ intents'[k] = intents[k] /\ objects'[k] = objects[k]
            /\ sessions'[k] = sessions[k] /\ stored'[k] = stored[k]
        BY <2>1, <2>3 DEF index
      <4>3. Published(k) /\ sessions[k] # None => sessions[k].status = "completing"
        BY DEF PublishedInv
      <4> QED
        BY <1>0, <4>1, <4>2, <4>3, PublishedStep
    <3> QED
      BY <2>2, <3>1 DEF StoredKept
  <2>4. CASE ~UNCHANGED index
    <3>1. h[k].flow = "part" /\ sessions[k] # None
      BY <1>0, <1>1 DEF KeepPart, At, Goes, PlaceInv
    <3>2. sessions[k].status = "active" /\ objects' = objects
      BY <1>1, <2>4 DEF KeepPart, Transaction, CommitMultipartPart
    <3>3. ~Published(k)
      BY <3>1, <3>2 DEF PublishedInv
    <3>4. h'[k].pc \notin {"markEtag", "commit"}
      BY <2>1 DEF Idle
    <3> QED
      BY <1>0, <2>1, <2>2, <3>2, <3>3, <3>4, UnsentStep DEF StoredKept
  <2> QED
    BY <2>3, <2>4
<1>2. CASE Chunk(k)
  <2>1. h[k].pc = "chunk" /\ h[k].flow = "put" /\ ~Published(k)
    BY <1>0, <1>2 DEF Chunk, At, Goes, PublishedInv, Unsent
  <2>2. stored' = stored /\ objects' = objects
    BY <1>2 DEF Chunk, EnsureWriteReservation, remote, index
  <2>3. PICK n \in Nos : DOMAIN h[k].want = 1..n /\ h[k].sent \in 0..n
    BY <1>0, <2>1 DEF PlaceInv, ChunksInOrder
  <2>4. h[k].sent \in Nat /\ h[k].want \in Assembled /\ n \in Nat /\ intents[k].reserved \in Nat
    BY <1>0, NosBelow DEF Handler, Intent
  <2> DEFINE i == h[k].sent + 1
  <2>5. CASE /\ i \in DOMAIN h[k].want
             /\ EnsureWriteReservation(k, Total(h[k].want, i))
             /\ Stay(k, "send")
    <3>1. Total(h[k].want, i) \in Nat
      <4> HIDE DEF i
      <4>1. i \in Nat /\ 1..i \subseteq DOMAIN h[k].want
        BY <2>3, <2>4, <2>5 DEF i
      <4> QED
        BY <2>4, <4>1, TotalType
    <3> DEFINE total == Total(h[k].want, i)
               delta == Max0(total - intents[k].reserved)
    <3>2. delta \in Nat /\ intents[k].reserved + delta >= total
      BY <2>4, <3>1 DEF Max0
    <3>3. intents' = [intents EXCEPT ![k].reserved = @ + delta]
      BY <2>5 DEF EnsureWriteReservation
    <3>4. /\ h'[k].pc = "send" /\ h'[k].flow = "put"
          /\ h'[k].want = h[k].want /\ h'[k].sent = h[k].sent
      BY <2>1, <2>5, StayIs
    <3>5. Total(h'[k].want, h'[k].sent + 1) = total
      BY <3>4
    <3> HIDE DEF total, delta
    <3>6. intents'[k].reserved = intents[k].reserved + delta
      <4>1. intents \in [Keys -> Intent \union {None}]
        BY DEF ShapeInv, TypeOK
      <4> QED
        BY <1>0, <3>3, <4>1 DEF Intent
    <3>7. WantInv(k)'
      BY <3>2, <3>4, <3>5, <3>6 DEF WantInv
    <3>8. PublishedInv(k)'
      BY <1>0, <2>1, <2>2, <3>4, UnsentStep
    <3> QED
      BY <3>7, <3>8 DEF StoredKept
  <2>6. CASE i \notin DOMAIN h[k].want /\ Stay(k, "markCompleting") /\ UNCHANGED index
    <3>1. h'[k].pc = "markCompleting" /\ h'[k].flow = "put" /\ h'[k].want = h[k].want
      BY <2>1, <2>6, StayIs
    <3>2. h[k].sent = n
      BY <2>3, <2>4, <2>6
    <3>3. [m \in 1..n |-> h[k].want[m]] = h[k].want
      BY <2>3, <2>4, PartsOf
    <3>4. Total(h[k].want, h[k].sent) = BytesOf(h[k].want)
      BY <3>2, <3>3 DEF Total
    <3>5. BytesOf(h'[k].want) = BytesOf(h[k].want) /\ intents'[k].reserved = intents[k].reserved
      BY <2>6, <3>1 DEF index
    <3>6. Total(h[k].want, h[k].sent) <= intents[k].reserved
      BY <2>1 DEF WantInv
    <3>7. WantInv(k)'
      BY <3>1, <3>4, <3>5, <3>6 DEF WantInv
    <3>8. PublishedInv(k)'
      BY <1>0, <2>1, <2>2, <3>1, UnsentStep
    <3> QED
      BY <3>7, <3>8 DEF StoredKept
  <2>7. CASE Stay(k, "markAborting")
    <3>1. h'[k].pc = "markAborting" /\ h'[k].flow = "put"
      BY <2>1, <2>7, StayIs
    <3> QED
      BY <1>0, <2>1, <2>2, <3>1, UnsentStep, WantNothing DEF StoredKept
  <2> QED
    BY <1>2, <2>5, <2>6, <2>7 DEF Chunk
<1>3. CASE RemotePart(k)
  <2>1. h[k].pc = "send" /\ h[k].flow \in {"part", "put"} /\ ~Published(k)
    BY <1>0, <1>3 DEF RemotePart, At, Goes, PublishedInv, Unsent
  <2>2. intents' = intents /\ objects' = objects
    BY <1>3 DEF RemotePart, index
  <2>3. stored' = stored
    <3>1. Effect(SentPart(k)) => stored' = stored
      BY <2>1, SentPartIs, EffectStored
    <3> QED
      BY <1>3, <3>1 DEF RemotePart, Unanswered, remote
  <2>4. CASE h' = [h EXCEPT ![k].pc = IF In(k, {"part"}) THEN "keep" ELSE "chunk",
                            ![k].sent = IF In(k, {"part"}) THEN 0 ELSE @ + 1]
    <3>1. h'[k].flow = h[k].flow /\ h'[k].want = h[k].want
      BY <1>0, <2>4 DEF Handler
    <3>2. CASE h[k].flow = "part"
      <4>1. h'[k].pc = "keep"
        BY <1>0, <2>4, <3>2 DEF In, Handler
      <4> QED
        BY <1>0, <2>1, <2>2, <2>3, <3>1, <3>2, <4>1, UnsentStep, WantNothing DEF StoredKept
    <3>3. CASE h[k].flow = "put"
      <4>1. h'[k].pc = "chunk" /\ h'[k].sent = h[k].sent + 1
        BY <1>0, <2>4, <3>3 DEF In, Handler
      <4>2. Total(h'[k].want, h'[k].sent) = Total(h[k].want, h[k].sent + 1)
        BY <3>1, <4>1
      <4>3. Total(h[k].want, h[k].sent + 1) <= intents[k].reserved
        BY <2>1, <3>3 DEF WantInv
      <4>4. WantInv(k)'
        BY <2>2, <3>1, <3>3, <4>1, <4>2, <4>3 DEF WantInv
      <4> QED
        BY <1>0, <2>1, <2>2, <2>3, <4>1, <4>4, UnsentStep DEF StoredKept
    <3> QED
      BY <2>1, <3>2, <3>3
  <2>5. CASE Stay(k, IF In(k, {"part"}) THEN "idle" ELSE "markAborting")
    <3>1. PICK pc \in {"idle", "markAborting"} : Stay(k, pc)
      BY <2>5
    <3>2. h'[k].pc = pc /\ h'[k].flow # "putstart"
      BY <2>1, <3>1, StayIs DEF Idle
    <3> QED
      BY <1>0, <2>1, <2>2, <2>3, <3>2, UnsentStep, WantNothing DEF StoredKept
  <2> QED
    BY <1>3, <2>4, <2>5 DEF RemotePart, Unanswered, Stay
<1> QED
  BY <1>1, <1>2, <1>3

\* The other statements on a session.
LEMMA SessionStored ==
    ASSUME ShapeInv, NEW k \in Keys, PublishedInv(k), WantInv(k),
           Restore(k) \/ AbortRows(k)
    PROVE  StoredKept(k)
<1> USE DEF Steps, Flows
<1>0. /\ h[k].pc \in {"restore", "release"} /\ intents[k] # None /\ IndexStepOf(k)
      /\ h[k].pc = "restore" => h[k].flow \in {"complete", "resolve", "recover"}
  <2>1. h[k].pc \in {"restore", "release"}
    BY DEF Restore, AbortRows, At
  <2>2. IndexStepOf(k)
    BY StepMoves DEF Step
  <2> QED
    BY <2>1, <2>2, Places DEF Route, Goes, Idle
<1>1. ~Published(k)
  BY <1>0 DEF PublishedInv, Unsent
<1>2. stored' = stored /\ objects' = objects
  BY DEF Restore, AbortRows, Transaction, ResetMultipart, Release, remote, index
<1>3. h'[k].pc \in {"idle", "hold"} /\ h'[k].flow # "putstart"
  <2>1. CASE Restore(k)
    <3>1. PICK pc \in {"idle", "hold"} : Stay(k, pc)
      BY <2>1 DEF Restore, Transaction
    <3>2. h[k].flow # "putstart"
      BY <1>0, <2>1 DEF Restore, At
    <3> QED
      BY <3>1, <3>2, StayIs DEF Idle
  <2>2. CASE AbortRows(k)
    BY <2>2, StayIs DEF AbortRows, Transaction, Idle
  <2> QED
    BY <2>1, <2>2
<1> QED
  BY <1>0, <1>1, <1>2, <1>3, UnsentStep, WantNothing DEF StoredKept

\* The states of intents.
LEMMA MarkStored ==
    ASSUME ShapeInv, NEW k \in Keys, PublishedInv(k), WantInv(k), Mark(k)
    PROVE  StoredKept(k)
<1> USE DEF Steps, Flows
<1>0. /\ h[k].pc \in {"markCompleting", "markEtag", "markConsumed", "markConflict",
                      "markAborting", "markRecovering", "hold"}
      /\ StateAt[h[k].pc] \in {"completing", "uploading", "consumed", "aborting", "recovery"}
  BY Marks DEF Mark
<1>1. intents[k] # None /\ Goes(h[k].pc, h[k].flow)
  BY <1>0, Places DEF Route, Idle
<1>2. /\ intents'[k] # None /\ intents'[k].id = intents[k].id
      /\ intents'[k].reserved = intents[k].reserved
      /\ sessions' = sessions /\ objects' = objects /\ stored' = stored
  <2>1. MarkKnows(k) \in BOOLEAN
    BY DEF MarkKnows, In
  <2>2. UpdateWriteState(k, StateAt[h[k].pc], MarkKnows(k)) \/ UNCHANGED index
    BY DEF Mark, Transaction
  <2>3. stored' = stored
    BY DEF Mark, Transaction, remote
  <2> QED
    BY <1>0, <1>1, <2>1, <2>2, <2>3, IntentStays, ReservedStays
<1>3. Published(k) /\ sessions'[k] # None => sessions'[k].status = "completing"
  BY <1>2 DEF PublishedInv
<1>4. ASSUME NEW pc \in Steps, Stay(k, pc), pc # "idle",
             \/ h[k].pc = "markCompleting" /\ pc \in {"complete", "restore", "markAborting"}
             \/ h[k].pc = "markEtag" /\ pc \in {"commit", "hold"}
             \/ h[k].pc = "markConsumed" /\ pc = "head"
             \/ h[k].pc = "markConflict" /\ pc = "release"
             \/ h[k].pc = "markAborting" /\ pc = "abort"
             \/ h[k].pc = "markRecovering" /\ pc = "head"
      PROVE  StoredKept(k)
  <2>1. h'[k].pc = pc /\ h'[k].flow = h[k].flow /\ h'[k].want = h[k].want
    BY <1>4, StayIs
  <2>2. h[k].flow \notin {"putstart", "create", "unstarted"}
    BY <1>1, <1>4 DEF Goes
  <2>3. Unsent(h'[k]) => Unsent(h[k])
    BY <1>4, <2>1, <2>2 DEF Unsent
  <2>4. Unsent(h'[k]) => ~Published(k)
    BY <2>3 DEF PublishedInv
  <2>5. h'[k].pc \in {"markEtag", "commit"} => Published(k) /\ stored[k].body = h'[k].want
    BY <1>4, <2>1 DEF PublishedInv
  <2>6. PublishedInv(k)'
    BY <1>1, <1>2, <1>3, <2>4, <2>5, PublishedStep
  <2>7. WantInv(k)'
    <3>1. CASE pc = "complete"
      <4>1. BytesOf(h'[k].want) = BytesOf(h[k].want)
        BY <2>1
      <4>2. BytesOf(h[k].want) <= intents[k].reserved
        BY <1>4, <3>1 DEF WantInv
      <4> QED
        BY <1>2, <2>1, <2>2, <3>1, <4>1, <4>2 DEF WantInv
    <3>2. CASE pc # "complete"
      <4>1. pc \notin {"chunk", "send", "markCompleting", "complete"}
        BY <1>4, <3>2
      <4> QED
        BY <2>1, <2>2, <4>1, WantNothing
    <3> QED
      BY <3>1, <3>2
  <2> QED
    BY <2>6, <2>7 DEF StoredKept
<1>5. CASE Stay(k, "idle")
  <2>1. h'[k] = Idle
    BY <1>5, StayIs
  <2>2. ~Unsent(h'[k]) /\ h'[k].pc \notin {"markEtag", "commit"}
    BY <2>1 DEF Unsent, Idle
  <2>3. WantInv(k)'
    BY <2>1, WantNothing DEF Idle
  <2> QED
    BY <1>1, <1>2, <1>3, <2>2, <2>3, PublishedStep DEF StoredKept
<1>6. CASE Stay(k, AfterMark[h[k].pc])
  BY <1>0, <1>4, <1>5, <1>6, Marks
<1>7. CASE Stay(k, UnlessMarked(k))
  BY <1>0, <1>4, <1>5, <1>7 DEF UnlessMarked, At, In
<1> QED
  BY <1>6, <1>7 DEF Mark, Transaction

\* The index takes what is published.
LEMMA CommitStored ==
    ASSUME ShapeInv, NEW k \in Keys, PublishedInv(k), WantInv(k), Commit(k)
    PROVE  StoredKept(k)
<1> USE DEF Steps, Flows
<1>0. h[k].pc = "commit" /\ intents[k] # None /\ Goes(h[k].pc, h[k].flow) /\ stored' = stored
  BY Places DEF Commit, At, Route, Idle, remote
<1>1. Published(k) /\ stored[k].body = h[k].want
  BY <1>0 DEF PublishedInv
<1>2. /\ stored[k] = [id |-> intents[k].id, body |-> h[k].want]
      /\ objects \in [Keys -> Object \union {None}] /\ intents \in [Keys -> Intent \union {None}]
  <2>1. stored[k] \in Object /\ stored[k].id = intents[k].id
    BY <1>1 DEF Published, ShapeInv, TypeOK
  <2>2. stored[k] = [id |-> stored[k].id, body |-> stored[k].body]
    BY <2>1 DEF Object
  <2> QED
    BY <1>1, <2>1, <2>2 DEF ShapeInv, TypeOK
<1>3. CASE CommitWrite(k, h[k].want) /\ Stay(k, "idle")
  <2>1. h'[k] = Idle
    BY <1>3, StayIs
  <2>2. intents'[k] = None /\ objects'[k] = stored'[k]
    BY <1>0, <1>2, <1>3 DEF CommitWrite
  <2>3. PublishedInv(k)'
    BY <2>1, <2>2 DEF PublishedInv, Published, Idle
  <2> QED
    BY <2>1, <2>3, WantNothing DEF StoredKept, Idle
<1>4. CASE Stay(k, UnlessCommitted(k)) /\ UNCHANGED index
  <2>1. PICK pc \in {"hold", "idle"} : Stay(k, pc)
    BY <1>4 DEF UnlessCommitted
  <2>2. /\ h'[k].pc = pc /\ h'[k].flow \in {h[k].flow, "none"}
    BY <2>1, StayIs DEF Idle
  <2>3. h[k].flow \notin {"putstart", "create", "unstarted"}
    BY <1>0 DEF Goes
  <2>4. ~Unsent(h'[k]) /\ h'[k].pc \notin {"markEtag", "commit"}
    BY <2>2, <2>3 DEF Unsent
  <2>5. Published(k) /\ sessions[k] # None => sessions[k].status = "completing"
    BY DEF PublishedInv
  <2>6. /\ intents' = intents /\ objects' = objects /\ sessions' = sessions
    BY <1>4 DEF index
  <2>7. PublishedInv(k)'
    BY <1>0, <2>4, <2>5, <2>6, PublishedStep
  <2> QED
    BY <2>2, <2>3, <2>7, WantNothing DEF StoredKept
<1> QED
  BY <1>3, <1>4 DEF Commit

\* A completion that takes effect publishes what was named, and that is reserved.
LEMMA CompleteStored ==
    ASSUME ShapeInv, NEW k \in Keys, PublishedInv(k), WantInv(k), RemoteComplete(k)
    PROVE  StoredKept(k)
<1> USE DEF Steps, Flows
<1>0. /\ h[k].pc = "complete" /\ intents[k] # None /\ intents[k] \in Intent
      /\ h[k].flow \in {"put", "complete"} /\ PlaceInv(k) /\ IndexStepOf(k)
      /\ intents' = intents /\ sessions' = sessions /\ objects' = objects
  <2>1. h[k].pc = "complete" /\ UNCHANGED index
    BY DEF RemoteComplete, At
  <2>2. IndexStepOf(k)
    BY StepMoves DEF Step
  <2> QED
    BY <2>1, <2>2, Places DEF Route, Goes, Idle, ShapeInv, index
<1>1. ~Published(k) /\ BytesOf(h[k].want) <= intents[k].reserved
  BY <1>0 DEF PublishedInv, Unsent, WantInv
<1>2. /\ Message(k, "complete") \in LateMessage /\ Message(k, "complete").op = "complete"
      /\ Message(k, "complete").key = k /\ Message(k, "complete").id = intents[k].id
      /\ Message(k, "complete").body = h[k].want
  BY <1>0, MessageIs
<1>3. sessions[k] # None => sessions[k].status = "completing"
  BY <1>0 DEF PlaceInv
<1>4. ASSUME stored'[k] = [id |-> intents[k].id, body |-> h[k].want],
             \/ h'[k].pc = "markEtag" /\ h'[k].want = h[k].want /\ h'[k].flow = h[k].flow
             \/ h'[k].pc = "head" /\ h'[k].flow \in {"putresolve", "resolve"}
      PROVE  StoredKept(k)
  <2>1. stored'[k] \in Object
    BY <1>0, <1>2, <1>4 DEF LateMessage, Object
  <2>2. stored'[k] # None /\ stored'[k].id = intents'[k].id /\ stored'[k].body = h[k].want
    BY <1>0, <1>4, <2>1, MultipartAssumption
  <2>3. Published(k)'
    BY <1>0, <2>2 DEF Published
  <2>4. BytesOf(stored'[k].body) <= intents'[k].reserved
    BY <1>0, <1>1, <2>2
  <2>5. ~Unsent(h'[k])
    BY <1>0, <1>4 DEF Unsent
  <2>6. h'[k].pc \in {"markEtag", "commit"} => stored'[k].body = h'[k].want
    BY <1>4, <2>2
  <2>7. PublishedInv(k)'
    BY <1>0, <1>3, <2>3, <2>4, <2>5, <2>6 DEF PublishedInv
  <2> QED
    BY <1>0, <1>4, <2>7, WantNothing DEF StoredKept
<1>5. ASSUME stored' = stored, NEW pc \in Steps, NEW flow \in Flows, Goto(k, pc, flow),
             pc \in {"head", "markConsumed", "restore", "markAborting", "markConflict"},
             flow \in {"put", "complete", "putresolve", "resolve", "consumed"}
      PROVE  StoredKept(k)
  <2>1. h'[k].pc = pc /\ h'[k].flow = flow
    BY <1>5, GotoIs
  <2>2. h'[k].pc \notin {"markEtag", "commit", "chunk", "send", "markCompleting", "complete"}
        /\ h'[k].flow # "putstart"
    BY <1>5, <2>1
  <2> QED
    BY <1>0, <1>1, <1>5, <2>2, UnsentStep, WantNothing DEF StoredKept
<1>6. stored \in [Keys -> Object \union {None}]
  BY DEF ShapeInv, TypeOK
<1>7. CASE Accepted(Message(k, "complete")) /\ Serve(k, "complete", "markEtag", h[k].flow)
  <2>1. stored'[k] = [id |-> intents[k].id, body |-> h[k].want]
    BY <1>2, <1>6, <1>7 DEF Serve, Effect
  <2>2. h'[k].pc = "markEtag" /\ h'[k].want = h[k].want /\ h'[k].flow = h[k].flow
    <3>1. Goto(k, "markEtag", h[k].flow) /\ h[k].flow \in Flows
      BY <1>0, <1>7 DEF Serve
    <3> QED
      BY <3>1, GotoIs
  <2> QED
    BY <1>4, <2>1, <2>2
<1>8. CASE /\ IF In(k, {"put"}) THEN Goto(k, "head", "putresolve")
              ELSE Goto(k, "markConsumed", "consumed")
           /\ UNCHANGED remote
  BY <1>5, <1>8 DEF remote
<1>9. CASE Goto(k, "head", Resolving(k)) /\ UNCHANGED remote
  BY <1>5, <1>9 DEF remote, Resolving
<1>10. CASE Unanswered(k, Message(k, "complete"), "head", Resolving(k))
  <2>1. Goto(k, "head", Resolving(k)) /\ Resolving(k) \in {"putresolve", "resolve"}
        /\ Resolving(k) \in Flows
    BY <1>10 DEF Unanswered, Resolving
  <2>2. CASE stored' = stored
    BY <1>5, <2>1, <2>2
  <2>3. CASE stored' # stored
    <3>1. Effect(Message(k, "complete"))
      BY <1>10, <2>3 DEF Unanswered
    <3>2. stored'[k] = [id |-> intents[k].id, body |-> h[k].want]
      BY <1>2, <1>6, <2>3, <3>1, EffectStored
    <3>3. h'[k].pc = "head" /\ h'[k].flow = Resolving(k)
      BY <2>1, GotoIs
    <3> QED
      BY <1>4, <2>1, <3>2, <3>3
  <2> QED
    BY <2>2, <2>3
<1>11. CASE Refused(k, IF In(k, {"put"}) THEN "markAborting" ELSE "restore", h[k].flow)
  BY <1>0, <1>5, <1>11 DEF Refused, remote
<1>12. CASE Stay(k, IF In(k, {"put"}) THEN "markAborting" ELSE "markConflict") /\ stored' = stored
  BY <1>0, <1>5, <1>12 DEF Stay
<1> QED
  BY <1>7, <1>8, <1>9, <1>10, <1>11, <1>12 DEF RemoteComplete, remote

\* Aborting an upload, and looking whether it was published.
LEMMA AbortStored ==
    ASSUME ShapeInv, NEW k \in Keys, PublishedInv(k), WantInv(k), RemoteAbort(k)
    PROVE  StoredKept(k)
<1> USE DEF Steps, Flows
<1>0. /\ h[k].pc = "abort" /\ intents[k] # None
      /\ h[k].flow \in {"unstarted", "put", "putresolve", "consumed", "abort", "expire", "recover"}
      /\ intents' = intents /\ sessions' = sessions /\ objects' = objects
  BY Places DEF RemoteAbort, At, Route, Goes, Idle, index
<1>1. stored' = stored
  <2>1. Message(k, "abort") \in LateMessage /\ Message(k, "abort").op = "abort"
    BY <1>0, MessageIs
  <2>2. Effect(Message(k, "abort")) => stored' = stored
    BY <2>1, EffectStored
  <2> QED
    BY <2>2 DEF RemoteAbort, Serve, Unanswered
<1>2. PICK pc \in {"release", "classify", "idle", "hold"} :
         Goto(k, pc, h[k].flow) /\ (pc = "release" => h[k].flow \in {"unstarted", "put"})
  BY DEF RemoteAbort, Serve, Unanswered, In
<1>3. h'[k].pc = pc /\ h'[k].flow \in {h[k].flow, "none"} /\ (pc = "idle" => h'[k].flow = "none")
      /\ (pc # "idle" => h'[k].flow = h[k].flow)
  BY <1>0, <1>2, GotoIs DEF Idle
<1>4. Unsent(h'[k]) => ~Published(k)
  <2>1. Unsent(h'[k]) => Unsent(h[k])
    BY <1>0, <1>2, <1>3 DEF Unsent
  <2> QED
    BY <2>1 DEF PublishedInv
<1>5. Published(k) /\ sessions[k] # None => sessions[k].status = "completing"
  BY DEF PublishedInv
<1>6. h'[k].pc \notin {"markEtag", "commit", "chunk", "send", "markCompleting", "complete"}
      /\ h'[k].flow # "putstart"
  BY <1>0, <1>2, <1>3
<1>7. PublishedInv(k)'
  BY <1>0, <1>1, <1>4, <1>5, <1>6, PublishedStep
<1> QED
  BY <1>6, <1>7, WantNothing DEF StoredKept

\* A HEAD that finds the object of the intent shows what to index.
LEMMA HeadStored ==
    ASSUME ShapeInv, IdInv, NEW k \in Keys, PublishedInv(k), WantInv(k), Head(k)
    PROVE  StoredKept(k)
<1> USE DEF Steps, Flows
<1>0. /\ h[k].pc \in {"head", "classify"} /\ intents[k] # None /\ h \in [Keys -> Handler]
      /\ h[k].flow \in {"resolve", "putresolve", "consumed", "abort", "expire", "recover"}
      /\ h[k].pc = "head" => h[k].flow # "abort"
      /\ intents' = intents /\ sessions' = sessions /\ objects' = objects /\ stored' = stored
  <2>1. h[k].pc \in {"head", "classify"}
    BY DEF Head
  <2>2. Goes(h[k].pc, h[k].flow)
    BY <2>1, Places DEF Route, Idle
  <2> QED
    BY <2>1, <2>2, Places DEF Goes, Head, index, remote, ShapeInv, TypeOK
<1>1. Published(k) /\ sessions[k] # None => sessions[k].status = "completing"
  BY DEF PublishedInv
<1>2. CASE /\ Verdict(k) = "published"
           /\ h' = [h EXCEPT ![k].pc = "commit", ![k].want = stored[k].body]
  <2>1. Published(k)
    BY <1>0, <1>2 DEF Verdict, Published, Id
  <2>2. h'[k].pc = "commit" /\ h'[k].want = stored[k].body /\ h'[k].flow = h[k].flow
    BY <1>0, <1>2 DEF Handler
  <2>3. ~Unsent(h'[k])
    BY <1>0, <2>2 DEF Unsent
  <2>4. PublishedInv(k)'
    BY <1>0, <1>1, <2>1, <2>2, <2>3, PublishedStep
  <2> QED
    BY <1>0, <2>2, <2>4, WantNothing DEF StoredKept
<1>3. CASE Verdict(k) \in {"absent", "previous"} /\ Stay(k, Unpublished(k))
  <2>1. ~Published(k)
    BY <1>0, <1>3, VerdictSays
  <2>2. Unpublished(k) \in {"release", "restore", "markAborting", "markRecovering", "idle"}
    <3>1. CASE h[k].pc = "classify"
      BY <3>1 DEF Unpublished, At
    <3>2. CASE h[k].pc = "head" /\ h[k].flow # "recover"
      BY <1>0, <3>2 DEF Unpublished, At, In
    <3>3. CASE h[k].pc = "head" /\ h[k].flow = "recover" /\ Completing(k)
      BY <3>3 DEF Unpublished, At, In, Completing
    <3>4. CASE h[k].pc = "head" /\ h[k].flow = "recover" /\ ~Completing(k)
      BY <3>4 DEF Unpublished, At, In, Completing
    <3> QED
      BY <1>0, <3>1, <3>2, <3>3, <3>4
  <2>3. PICK pc \in {"release", "restore", "markAborting", "markRecovering", "idle"} : Stay(k, pc)
    BY <1>3, <2>2
  <2>4. h'[k].pc = pc /\ h'[k].flow \in {h[k].flow, "none"}
    BY <2>3, StayIs DEF Idle
  <2>5. h'[k].pc \notin {"markEtag", "commit", "chunk", "send", "markCompleting", "complete"}
        /\ h'[k].flow # "putstart"
    BY <1>0, <2>4
  <2>6. PublishedInv(k)'
    BY <1>0, <1>1, <2>1, <2>5, PublishedStep
  <2> QED
    BY <2>5, <2>6, WantNothing DEF StoredKept
<1>4. CASE Stay(k, Uncertain(k))
  <2>1. PICK pc \in {"idle", "hold"} : Stay(k, pc)
    BY <1>4 DEF Uncertain
  <2>2. h'[k].pc = pc /\ h'[k].flow \in {h[k].flow, "none"}
    BY <2>1, StayIs DEF Idle
  <2>3. h'[k].pc \notin {"markEtag", "commit", "chunk", "send", "markCompleting", "complete"}
        /\ h'[k].flow # "putstart" /\ ~Unsent(h'[k])
    BY <1>0, <2>2 DEF Unsent
  <2>4. PublishedInv(k)'
    BY <1>0, <1>1, <2>3, PublishedStep
  <2> QED
    BY <2>3, <2>4, WantNothing DEF StoredKept
<1> QED
  BY <1>2, <1>3, <1>4 DEF Head

\* What the parts of a session name is reserved by its intent.
LEMMA PartsReservedFor ==
    ASSUME ShapeInv, LedgerInv, NEW k \in Keys, sessions[k] # None,
           NEW S \in SUBSET DOMAIN sessions[k].parts
    PROVE  /\ [n \in S |-> sessions[k].parts[n]] \in Assembled
           /\ BytesOf([n \in S |-> sessions[k].parts[n]]) <= intents[k].reserved
<1>0. RowTypes /\ sessions[k] \in Session /\ sessions[k].parts \in Assembled
  BY DEF ShapeInv, TypeOK, RowTypes, Session
<1>1. /\ [n \in S |-> sessions[k].parts[n]] \in Assembled
      /\ BytesOf([n \in S |-> sessions[k].parts[n]]) <= BytesOf(sessions[k].parts)
  BY <1>0, BytesOfSome
<1> DEFINE f == [n \in Nos |-> SizeOfPart(k, n)]
           g == [n \in Nos |-> HeldTerm(k, n)]
<1>2. \A n \in Nos : /\ SizeOfPart(k, n) \in Nat /\ HeldTerm(k, n) \in Nat
                     /\ SizeOfPart(k, n) <= HeldTerm(k, n)
  BY <1>0, PartSizes DEF HeldTerm
<1>3. f \in [Nos -> Int] /\ g \in [Nos -> Int] /\ \A n \in Nos : f[n] <= g[n]
  BY <1>2
<1>4. BytesOf(sessions[k].parts) = SumFunction(f) /\ Held(k) = SumFunction(g)
  BY DEF BytesOf, SizeOfPart, Held, HeldTerm
<1> HIDE DEF f, g
<1>5. SumFunction(f) <= SumFunction(g)
  BY <1>3, SumMono, NosFinite
<1>6. intents[k].reserved = Held(k) /\ Held(k) \in Nat
  BY <1>0, HeldTypes DEF LedgerInv, PartsReserved
<1>7. BytesOf(sessions[k].parts) \in Nat /\ BytesOf([n \in S |-> sessions[k].parts[n]]) \in Nat
  BY <1>0, <1>1, BytesType
<1> QED
  BY <1>1, <1>4, <1>5, <1>6, <1>7

\* Nothing is published for a session that takes parts, or has not begun.
LEMMA NotPublished ==
    ASSUME NEW k \in Keys, PublishedInv(k), RowInv(k), sessions[k] # None,
           sessions[k].status # "completing" \/ ~sessions[k].known
    PROVE  ~Published(k)
BY DEF PublishedInv, RowInv

\* Requests of clients, expiry and recovery.
LEMMA StartStored ==
    ASSUME ShapeInv, LedgerInv, IdInv, NEW k \in Keys, DriftInv(k), PublishedInv(k), WantInv(k),
           Request(k) \/ StartExpire(k) \/ StartRecover(k)
    PROVE  StoredKept(k)
<1> USE DEF Steps, Flows
<1>0. /\ RowInv(k) /\ sessions[k] \in Session \union {None}
      /\ sessions[k] # None => intents[k] # None
      /\ IndexStepOf(k) /\ stored' = stored /\ objects' = objects
  <2>1. IndexStepOf(k)
    BY StartMoves
  <2>2. stored' = stored /\ objects' = objects
    BY DEF Request, StartCreate, StartPut, StartPart, StartComplete, StartAbort, StartExpire,
           StartRecover, BeginWrite, PrepareMultipartPart, BeginCompleteMultipart, remote, index
  <2> QED
    BY <2>1, <2>2, Places DEF ShapeInv, TypeOK
<1>1. ASSUME NEW size \in Nat, NEW internal \in BOOLEAN, BeginWrite(k, size, internal),
             h'[k].pc \notin {"markEtag", "commit"}
      PROVE  PublishedInv(k)'
  <2>1. intents[k] = None
    BY <1>1 DEF BeginWrite
  <2>2. stored[k] = objects[k]
    BY <2>1 DEF DriftInv, Published
  <2>3. intents'[k].id = nextId
    <3>1. IntentOpened(k) \/ IntentKept(k) \/ IntentEnded(k)
      BY <1>0, IntentMoves
    <3>2. nextId' = nextId + 1 /\ nextId \in Nat
      BY <1>1 DEF BeginWrite, Ids
    <3>3. nextId' # nextId
      BY <3>2
    <3> QED
      BY <3>1, <3>3 DEF IntentOpened, IntentKept, IntentEnded
  <2>4. objects[k] # None => objects[k].id # nextId
    BY DEF IdInv, ShapeInv, TypeOK, Object, Ids
  <2>5. ~Published(k)'
    BY <1>0, <2>2, <2>3, <2>4 DEF Published
  <2> QED
    BY <1>0, <1>1, <2>2, <2>5 DEF PublishedInv
<1>2. CASE StartCreate(k)
  <2>1. Start(k, "insert", "create", NoParts) /\ BeginWrite(k, 0, FALSE)
    BY <1>2 DEF StartCreate
  <2>2. h'[k].pc = "insert" /\ h'[k].flow = "create"
    BY <2>1, StartIs, NoPartsAssembled
  <2> QED
    BY <1>1, <2>1, <2>2, WantNothing DEF StoredKept
<1>3. ASSUME NEW n \in Nos, NEW declared \in BOOLEAN, NEW want \in [1..n -> Bodies],
             StartPut(k, want, declared)
      PROVE  StoredKept(k)
  <2>1. want \in Assembled
    <3>1. 1..n \in SUBSET Nos
      BY NosBelow
    <3> QED
      BY <3>1 DEF Assembled
  <2>2. (IF declared THEN BytesOf(want) ELSE 0) \in Nat
    BY <2>1, BytesType
  <2>3. /\ Start(k, "create", "putstart", want)
        /\ BeginWrite(k, IF declared THEN BytesOf(want) ELSE 0, TRUE)
    BY <1>3 DEF StartPut
  <2>4. h'[k].pc = "create" /\ h'[k].flow = "putstart" /\ h'[k].sent = 0
    BY <2>1, <2>3, StartIs
  <2>5. PublishedInv(k)'
    BY <1>1, <2>2, <2>3, <2>4
  <2>6. WantInv(k)'
    BY <2>4 DEF WantInv
  <2> QED
    BY <2>5, <2>6 DEF StoredKept
<1>4. ASSUME NEW n \in Nos, NEW body \in Bodies, StartPart(k, n, body) PROVE StoredKept(k)
  <2>1. Part(n, body) \in Assembled
    BY AssembledIs DEF Part
  <2>2. sessions[k] # None /\ sessions[k].status = "active"
    BY <1>4 DEF StartPart, PrepareMultipartPart
  <2>3. h'[k].pc = "send" /\ h'[k].flow = "part"
    BY <1>4, <2>1, StartIs DEF StartPart
  <2>4. ~Published(k)
    BY <1>0, <2>2, NotPublished
  <2>5. PublishedInv(k)'
    BY <1>0, <2>2, <2>3, <2>4, UnsentStep
  <2>6. WantInv(k)'
    BY <2>3 DEF WantInv
  <2> QED
    BY <2>5, <2>6 DEF StoredKept
<1>5. ASSUME NEW S \in SUBSET Nos, StartComplete(k, S) PROVE StoredKept(k)
  <2> DEFINE want == [n \in S |-> sessions[k].parts[n]]
  <2>1. sessions[k] # None /\ sessions[k].status = "active" /\ S \in SUBSET DOMAIN sessions[k].parts
        /\ intents' = intents
    BY <1>5 DEF StartComplete, BeginCompleteMultipart
  <2>2. want \in Assembled /\ BytesOf(want) <= intents[k].reserved
    BY <2>1, PartsReservedFor
  <2>3. Start(k, "markCompleting", "complete", want)
    BY <1>5 DEF StartComplete
  <2> HIDE DEF want
  <2>4. h'[k].pc = "markCompleting" /\ h'[k].flow = "complete" /\ h'[k].want = want
    BY <2>2, <2>3, StartIs
  <2>5. ~Published(k)
    BY <1>0, <2>1, NotPublished
  <2>6. PublishedInv(k)'
    BY <1>0, <2>1, <2>4, <2>5, UnsentStep
  <2>7. BytesOf(h'[k].want) = BytesOf(want)
    BY <2>4
  <2>8. WantInv(k)'
    BY <2>1, <2>2, <2>4, <2>7 DEF WantInv
  <2> QED
    BY <2>6, <2>8 DEF StoredKept
<1>6. Published(k) /\ sessions[k] # None => sessions[k].status = "completing"
  BY DEF PublishedInv
<1>7. CASE StartAbort(k) \/ StartExpire(k)
  <2>1. sessions[k] # None /\ intents' = intents /\ sessions' = sessions
    BY <1>7 DEF StartAbort, StartExpire, Expirable, index
  <2>2. PICK pc \in {"head", "markAborting", "release"}, flow \in {"abort", "expire"} :
           Start(k, pc, flow, NoParts) /\ (pc = "release" => ~sessions[k].known)
    BY <1>7 DEF StartAbort, StartExpire
  <2>3. h'[k].pc = pc /\ h'[k].flow = flow
    BY <2>2, StartIs, NoPartsAssembled
  <2>4. pc = "release" => ~Published(k)
    BY <1>0, <2>1, <2>2, NotPublished
  <2>5. Unsent(h'[k]) => ~Published(k)
    BY <2>2, <2>3, <2>4 DEF Unsent
  <2>6. h'[k].pc \notin {"markEtag", "commit", "chunk", "send", "markCompleting", "complete"}
        /\ h'[k].flow # "putstart"
    BY <2>2, <2>3
  <2>7. PublishedInv(k)'
    BY <1>0, <1>6, <2>1, <2>5, <2>6, PublishedStep
  <2> QED
    BY <2>6, <2>7, WantNothing DEF StoredKept
<1>8. CASE StartRecover(k)
  <2>1. intents[k] # None /\ intents' = intents /\ sessions' = sessions
    BY <1>8 DEF StartRecover, Recoverable, index
  <2>2. PICK pc \in {"head", "markAborting"} : Start(k, pc, "recover", NoParts)
    BY <1>8 DEF StartRecover
  <2>3. h'[k].pc = pc /\ h'[k].flow = "recover"
    BY <2>2, StartIs, NoPartsAssembled
  <2>4. h'[k].pc \notin {"markEtag", "commit", "chunk", "send", "markCompleting", "complete"}
        /\ h'[k].flow # "putstart" /\ ~Unsent(h'[k])
    BY <2>2, <2>3 DEF Unsent
  <2>5. PublishedInv(k)'
    BY <1>0, <1>6, <2>1, <2>4, PublishedStep
  <2> QED
    BY <2>4, <2>5, WantNothing DEF StoredKept
<1> QED
  BY <1>2, <1>3, <1>4, <1>5, <1>7, <1>8 DEF Request

\* Every step.
LEMMA StoredStep ==
    ASSUME "complete" \notin LateOps, ShapeInv, LedgerInv, RemoteSound, StoredInv, [Next]_vars
    PROVE  StoredInv'
<1>2. ASSUME NEW k \in Keys, Step(k) \/ Request(k) \/ StartExpire(k) \/ StartRecover(k)
      PROVE  \A j \in Keys : PublishedInv(j)' /\ WantInv(j)'
  <2>1. HandlerMoves(k) /\ IndexStepOf(k)
    BY <1>2, StepPlaces
  <2>2. ASSUME NEW j \in Keys \ {k} PROVE PublishedInv(j)' /\ WantInv(j)'
    <3>1. PublishedInv(j) /\ WantInv(j)
      BY DEF StoredInv
    <3>2. /\ h'[j] = h[j] /\ intents'[j] = intents[j] /\ sessions'[j] = sessions[j]
          /\ objects'[j] = objects[j] /\ stored'[j] = stored[j]
      BY <1>2, <2>1, <2>2, OtherRows, OtherObjects DEF HandlerMoves
    <3> QED
      BY <3>1, <3>2, StoredOfOthers
  <2>3. StoredKept(k)
    <3>1. PublishedInv(k) /\ WantInv(k) /\ IdInv /\ DriftInv(k)
      BY DEF StoredInv, RemoteSound
    <3> QED
      BY <1>2, <3>1, CreateStored, PartsStored, SessionStored, MarkStored, CommitStored,
         CompleteStored, AbortStored, HeadStored, StartStored DEF Step
  <2> QED
    BY <2>2, <2>3 DEF StoredKept
<1>3. ASSUME UNCHANGED <<index, stored, h>>
      PROVE  \A j \in Keys : PublishedInv(j)' /\ WantInv(j)'
  BY <1>3, StoredOfOthers DEF StoredInv, index
<1>4. ASSUME NEW m \in late, LateEffect(m)
      PROVE  \A j \in Keys : PublishedInv(j)' /\ WantInv(j)'
  <2>1. m \in LateMessage /\ m.op # "complete"
    BY DEF ShapeInv, LateOK
  <2>2. stored' = stored
    BY <1>4, <2>1, EffectStored DEF LateEffect
  <2> QED
    BY <1>3, <1>4, <2>2 DEF LateEffect
<1>5. ASSUME Crash
      PROVE  \A j \in Keys : PublishedInv(j)' /\ WantInv(j)'
  <2>1. ASSUME NEW j \in Keys PROVE PublishedInv(j)' /\ WantInv(j)'
    <3>1. h'[j] = Idle /\ PublishedInv(j)
      BY <1>5 DEF StoredInv, Crash
    <3>2. /\ intents' = intents /\ sessions' = sessions /\ objects' = objects /\ stored' = stored
      BY <1>5 DEF index, remote, Crash
    <3>3. Published(j)' <=> Published(j)
      BY <3>2 DEF Published
    <3>4. PublishedInv(j)'
      BY <3>1, <3>2, <3>3 DEF PublishedInv, Unsent, Idle
    <3> QED
      BY <3>1, <3>4, WantNothing DEF Idle
  <2> QED
    BY <2>1
<1>6. ASSUME Leave \/ UNCHANGED vars
      PROVE  \A j \in Keys : PublishedInv(j)' /\ WantInv(j)'
  BY <1>3, <1>6 DEF Leave, vars, index, remote
<1>7. \A j \in Keys : PublishedInv(j)' /\ WantInv(j)'
  <2>1. CASE \E k \in Keys : Step(k) \/ Request(k) \/ StartExpire(k) \/ StartRecover(k)
    BY <1>2, <2>1
  <2>2. CASE \E m \in late : LateEffect(m)
    BY <1>4, <2>2
  <2> QED
    BY <1>5, <1>6, <2>1, <2>2 DEF Next
<1> QED
  BY <1>7 DEF StoredInv

\* Before the first upload R2 has what the index has.
LEMMA StoredInit == Init => StoredInv
<1> SUFFICES ASSUME Init PROVE StoredInv
  OBVIOUS
<1>1. intents = [k \in Keys |-> None] /\ h = [k \in Keys |-> Idle]
  BY DEF Init
<1>2. ASSUME NEW k \in Keys PROVE PublishedInv(k) /\ WantInv(k)
  <2>1. ~Published(k) /\ h[k] = Idle
    BY <1>1 DEF Published
  <2> QED
    BY <2>1 DEF PublishedInv, WantInv, Idle
<1> QED
  BY <1>2 DEF StoredInv

\* What R2 has assembled is known and covered, as long as R2 carries out no completion
\* after its caller has stopped waiting for it.
THEOREM WhatIsStored == ASSUME "complete" \notin LateOps PROVE Spec => []StoredInv
<1>1. Init => StoredInv
  BY StoredInit
<1>2. ShapeInv /\ LedgerInv /\ RemoteSound /\ StoredInv /\ [Next]_vars => StoredInv'
  BY StoredStep
<1> QED
  BY <1>1, <1>2, TypesAndCounters, PendingOrStored, PTL DEF Spec

\* PublishedFits, for every instance: an object that R2 has assembled can be indexed, its
\* intent still holds its bytes and was opened on the version that is indexed.
THEOREM PublishedCanCommit == ASSUME "complete" \notin LateOps PROVE Spec => []PublishedFits
<1>1. StoredInv /\ RemoteSound => PublishedFits
  BY DEF StoredInv, RemoteSound, IdInv, PublishedInv, Published, PublishedFits, CommitAllowed
<1> QED
  BY <1>1, WhatIsStored, PendingOrStored, PTL
=============================================================================
