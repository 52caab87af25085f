------------------------ MODULE BucketDeletionProofs ------------------------
(***************************************************************************)
(* What holds of the deletion of a bucket for any number of keys, jobs,    *)
(* incarnations of the remote bucket, registrations and faults.            *)
(*                                                                         *)
(* The argument.  Only one job is open at a time, so a fence with the      *)
(* number of the working job can only be its own: what the handler has     *)
(* established stays true until it lifts the fence itself.  HandlerInv     *)
(* says what each place in Handle has established; FenceInv ties the fence *)
(* to the payload of the job that set it, in which the mark survives that  *)
(* something was touched; JobsInv dates payloads against the bucket's      *)
(* incarnations, so that nothing that comes later is taken for what a job  *)
(* was asked to delete.                                                    *)
(***************************************************************************)
EXTENDS BucketDeletion, TLAPS, SequenceTheorems

Open(j) == entries[j].state = "open"

\* The bucket that job j was asked to delete exists no more.
Gone(j) == payloads[j].missing \/ remote.born # payloads[j].born

\* The handler is past the fence, and past the settling of pending uploads.
PastFence(h) ==
    \/ h.pc \in {"mark", "settle", "list", "wipe", "confirm", "drop", "finalize"}
    \/ h.pc = "verify" /\ h.next # "fence"

PastSettling(h) ==
    \/ h.pc \in {"list", "wipe", "confirm", "drop", "finalize"}
    \/ h.pc = "verify" /\ h.next # "fence"
    \/ h.pc = "mark" /\ h.next \in {"drop", "finalize"}

Busied(h) == h.pc \notin {"idle", "return"}

\* The places that are reached only after the mark was stored.
Marked(h) ==
    \/ h.pc \in {"wipe", "confirm", "drop"}
    \/ h.pc = "settle" /\ h.next = "wipe"
    \/ h.pc = "verify" /\ h.next \in {"wipe", "confirm", "gone"}

\* The deletion of the bucket itself is next.
Dropping(h) == h.pc = "drop" \/ (h.pc = "mark" /\ h.next = "drop")

Routes(h) ==
    /\ h.pc = "discover" => h.next = "fence"
    /\ h.pc = "verify" => h.next \in {"fence", "wipe", "confirm", "gone", "absent", "drop"}
    /\ h.pc = "mark" => h.next \in {"settle", "abandon", "drop", "finalize"}
    /\ h.pc = "settle" => h.next \in {"list", "wipe", "absent"}
    /\ h.pc \in {"fence", "list", "wipe", "confirm", "drop", "finalize"} => h.next = "none"

\* What a handler h has established where it is: its type and route;
Shape(h) ==
    /\ h \in Handler
    /\ Routes(h)
    /\ h.pc = "idle" <=> working = 0
    /\ Busied(h) => h.local = payloads[working].local
    /\ h.pc = "discover" => h.local = 0
    /\ h.pc = "return" => h.result \in {"retry", "success", "failed"}
    /\ h.pc = "fail" => h.result \in {"retry", "permanent"}

\* the fence and the lock, or that there is nothing to fence;
FenceHeld(h) ==
    /\ Busied(h) /\ h.fenced => Owned(h.local)
    /\ PastFence(h) /\ h.local # 0 => h.fenced
    /\ h.local = 0 /\ (PastFence(h) \/ h.pc \in {"verify", "fence"}) => bucket.id = 0
    /\ PastSettling(h) /\ h.fenced => bucket.lock = working /\ ~Busy

\* what the payload in memory and the stored one say was touched;
MarkKept(h) ==
    /\ Busied(h) /\ h.pc # "fail" => h.mutated = payloads[working].mutated
    /\ h.pc = "fail" /\ payloads[working].mutated => h.mutated
    /\ h.pc = "fail" /\ h.mutated => payloads[working].mutated \/ working \in unmarked
    /\ Marked(h) => payloads[working].mutated
    /\ Dropping(h) => h.before \/ bucket.id \notin harmed

\* which incarnation of the bucket is there, and whether any is left.
RightBucket(h) ==
    /\ h.pc = "wipe" \/ Dropping(h) => ~IdentityChanged
    /\ h.pc = "finalize" \/ (h.pc = "mark" /\ h.next = "finalize") =>
          h.fenced /\ Gone(working)
    /\ h.pc = "return" /\ h.result = "success" =>
          /\ Gone(working)
          /\ payloads[working].local # 0 => bucket.id # payloads[working].local

HandlerInv(h) == Shape(h) /\ FenceHeld(h) /\ MarkKept(h) /\ RightBucket(h)

RequestInv ==
    request # None =>
        /\ request \in Registration
        /\ request.id <= drawn
        /\ request.state # "active" => request.id # 0 /\ request.job \in DOMAIN entries

\* One job is open; a job that takes over from another one comes after it.
JobsInv ==
    /\ entries \in Seq(Queue!Entry) /\ payloads \in Seq(Payload)
    /\ DOMAIN payloads = DOMAIN entries /\ Len(entries) <= MaxJobs
    /\ working \in {0} \union DOMAIN entries
    /\ working # 0 => Open(working)
    /\ \A j \in DOMAIN entries :
          /\ entries[j].resource = Name
          /\ Open(j) => j = Len(entries)
          /\ payloads[j].born <= remade
          /\ payloads[j].local <= drawn
          /\ payloads[j].born # 0 \/ payloads[j].missing
          /\ payloads[j].parent # 0 =>
                /\ payloads[j].parent \in DOMAIN entries /\ payloads[j].parent < j
                /\ entries[payloads[j].parent].state = "failed"

\* A fence belongs to a job whose payload says what was touched.
FenceInv ==
    /\ bucket \in Registration /\ bucket.id <= drawn
    /\ bucket.state = "active" => bucket.lock = 0
    /\ bucket.state # "active" =>
          /\ bucket.id # 0 /\ bucket.job \in DOMAIN entries
          /\ payloads[bucket.job].local = bucket.id
          /\ bucket.lock \in {0, bucket.job}
          /\ entries[bucket.job].state # "succeeded"
          /\ bucket.state = "deleting" \/ payloads[bucket.job].mutated
                \/ bucket.job \in unmarked
          /\ payloads[bucket.job].mutated =>
                \A j \in DOMAIN entries :
                    Open(j) /\ payloads[j].parent = bucket.job => payloads[j].mutated
    /\ bucket.id \in harmed => bucket.state # "active" /\ payloads[bucket.job].mutated

WorldInv ==
    /\ drawn \in 0..MaxIds
    /\ remote \in RemoteBucket /\ remade \in 0..MaxBorn /\ remote.born <= remade
    /\ remote.born = 0 => remote.items = {}
    /\ rows \in [Keys -> {None, "here", "there"}]
    /\ intents \in [Keys -> Intent \union {None}]
    /\ faults \in 0..MaxFaults
    /\ harmed \subseteq 1..drawn
    /\ unmarked \subseteq DOMAIN entries

IInv ==
    /\ WorldInv /\ JobsInv /\ FenceInv /\ RequestInv /\ HandlerInv(handler)
    /\ SucceededMeansGone
-----------------------------------------------------------------------------
(* The rows of the queue, the bucket and the handler.                      *)

LEMMA RowsOfQueue ==
    ASSUME JobsInv
    PROVE  /\ Len(entries) \in Nat
           /\ DOMAIN entries = 1..Len(entries) /\ DOMAIN payloads = 1..Len(entries)
           /\ DOMAIN entries \subseteq 1..MaxJobs
           /\ \A j \in DOMAIN entries : entries[j] \in Queue!Entry /\ payloads[j] \in Payload
<1>1. /\ Len(entries) \in Nat /\ DOMAIN entries = 1..Len(entries)
      /\ \A j \in DOMAIN entries : entries[j] \in Queue!Entry
  BY LenProperties, ElementOfSeq DEF JobsInv
<1>2. \A j \in DOMAIN payloads : payloads[j] \in Payload
  BY LenProperties, ElementOfSeq DEF JobsInv
<1> QED
  BY <1>1, <1>2, DeletionAssumption DEF JobsInv

\* The handler at work has a job of its own, with a payload.
LEMMA WorkedJob ==
    ASSUME IInv, working # 0
    PROVE  /\ working \in DOMAIN entries /\ Open(working) /\ working = Len(entries)
           /\ entries[working] \in Queue!Entry
           /\ payload = payloads[working] /\ payload \in Payload
BY RowsOfQueue DEF IInv, JobsInv, payload

\* A step that changes nothing but the handler, and may be a fault.
OnlyHandler ==
    /\ Local /\ UNCHANGED <<payloads, bucket, remote, indexVars, history>>
    /\ Fault \/ UNCHANGED faults

LEMMA FaultType ==
    ASSUME WorldInv, Fault \/ UNCHANGED faults
    PROVE  faults' \in 0..MaxFaults
BY DeletionAssumption DEF WorldInv, Fault

LEMMA HandlerMoves ==
    ASSUME IInv, NEW h, HandlerInv(h), handler' = h, OnlyHandler
    PROVE  IInv'
<1> USE DEF queueVars, indexVars, history
<1>0. /\ UNCHANGED <<queueVars, payloads, bucket, drawn, remote, remade, indexVars, request, history>>
      /\ faults' \in 0..MaxFaults
  BY FaultType DEF OnlyHandler, Local, IInv
<1>1. WorldInv' /\ JobsInv' /\ FenceInv' /\ RequestInv' /\ SucceededMeansGone'
  BY <1>0 DEF IInv, WorldInv, JobsInv, FenceInv, RequestInv, SucceededMeansGone, Open
<1>2. HandlerInv(handler)'
  BY <1>0 DEF HandlerInv, Shape, FenceHeld, MarkKept, RightBucket, Owned, Busy, Touches,
         IdentityChanged, payload, Gone
<1> QED
  BY <1>1, <1>2 DEF IInv

\* Where the handler may go from anywhere.
LEMMA IdleRecord == Idle \in Handler /\ Idle.pc = "idle" /\ ~Idle.fenced /\ Idle.next = "none"
BY DeletionAssumption DEF Idle, Handler, Steps, Nexts

LEMMA ReturnInv ==
    ASSUME working # 0, NEW result \in {"retry", "failed", "success"},
           result = "success" =>
              /\ Gone(working)
              /\ payloads[working].local # 0 => bucket.id # payloads[working].local
    PROVE  HandlerInv([Idle EXCEPT !.pc = "return", !.result = result])
<1> DEFINE h == [Idle EXCEPT !.pc = "return", !.result = result]
<1>1. h \in Handler /\ h.pc = "return" /\ h.result = result
  BY IdleRecord DEF Handler, Steps
<1> HIDE DEF h
<1>2. HandlerInv(h)
  BY <1>1 DEF HandlerInv, Shape, FenceHeld, MarkKept, RightBucket,
              Routes, Busied, PastFence, PastSettling, Marked, Dropping
<1> QED
  BY <1>2 DEF h

LEMMA FailInv ==
    ASSUME HandlerInv(handler), Busied(handler), handler.pc # "fail", working # 0,
           NEW result \in {"retry", "permanent"}
    PROVE  HandlerInv(ToFail(handler, result))
<1> DEFINE h == ToFail(handler, result)
<1>1. /\ h \in Handler /\ h.pc = "fail" /\ h.result = result
      /\ h.local = handler.local /\ h.mutated = handler.mutated /\ h.fenced = handler.fenced
  BY IdleRecord DEF ToFail, Handler, Steps, HandlerInv, Shape
<1> HIDE DEF h
<1>2. HandlerInv(h)
  BY <1>1 DEF HandlerInv, Shape, FenceHeld, MarkKept, RightBucket,
              Routes, Busied, PastFence, PastSettling, Marked, Dropping
<1> QED
  BY <1>2 DEF h

\* What every step of Handle finds, and does not have to check.
LEMMA AtWork ==
    ASSUME IInv, Busied(handler)
    PROVE  /\ working # 0 /\ working \in DOMAIN entries /\ Open(working)
           /\ payload = payloads[working] /\ payload \in Payload
           /\ handler \in Handler /\ HandlerInv(handler)
           /\ handler.local = payload.local
<1>1. working # 0 /\ handler \in Handler /\ handler.local = payloads[working].local
  BY DEF IInv, HandlerInv, Shape, Busied
<1> QED
  BY <1>1, WorkedJob DEF IInv

LEMMA FailStep ==
    ASSUME IInv, Busied(handler), handler.pc # "fail", NEW result \in {"retry", "permanent"},
           Failing(result), OnlyHandler
    PROVE  IInv'
BY AtWork, FailInv, HandlerMoves DEF Failing

\* The handler moves to a place that requires no more than it has established.
LEMMA MovesOn ==
    ASSUME HandlerInv(handler), Busied(handler), handler.pc # "fail",
           NEW h \in Handler, Routes(h),
           h.local = handler.local, h.mutated = handler.mutated, h.fenced = handler.fenced,
           h.pc \notin {"idle", "discover", "return", "fail"},
           PastFence(h) => PastFence(handler), PastSettling(h) => PastSettling(handler),
           h.local = 0 => bucket.id = 0,
           Marked(h) => h.mutated,
           Dropping(h) => h.before \/ bucket.id \notin harmed,
           h.pc = "wipe" \/ Dropping(h) => ~IdentityChanged,
           h.pc = "finalize" \/ (h.pc = "mark" /\ h.next = "finalize") => h.fenced /\ Gone(working)
    PROVE  HandlerInv(h)
BY DEF HandlerInv, Shape, FenceHeld, MarkKept, RightBucket, Busied

LEMMA GotoStep ==
    ASSUME IInv, Busied(handler), handler.pc # "fail",
           NEW pc \in Steps, NEW next \in Nexts, Goto(pc, next),
           \A h \in Handler :
              /\ h.pc = pc /\ h.next = next
              /\ h.local = handler.local /\ h.mutated = handler.mutated
              /\ h.fenced = handler.fenced /\ h.before = handler.before
              => HandlerInv(h),
           OnlyHandler
    PROVE  IInv'
<1> DEFINE h == [handler EXCEPT !.pc = pc, !.next = next]
<1>1. handler \in Handler
  BY AtWork
<1>2. /\ h \in Handler /\ h.pc = pc /\ h.next = next
      /\ h.local = handler.local /\ h.mutated = handler.mutated
      /\ h.fenced = handler.fenced /\ h.before = handler.before
  BY <1>1 DEF Handler
<1>3. handler' = h
  BY DEF Goto
<1> HIDE DEF h
<1>4. HandlerInv(h)
  BY <1>2
<1> QED
  BY <1>3, <1>4, HandlerMoves

\* Past discovery, a job without a registration means that there is none.
LEMMA NoRegistration ==
    ASSUME IInv, handler.local = 0, PastFence(handler) \/ handler.pc \in {"verify", "fence"}
    PROVE  bucket.id = 0
BY DEF IInv, HandlerInv, FenceHeld

LEMMA VerifyMissingStep ==
    ASSUME IInv, VerifyMissing
    PROVE  IInv'
<1>1. /\ handler.pc = "verify" /\ remote.born = 0 /\ OnlyHandler
  BY DEF VerifyMissing, Doing, OnlyHandler
<1>2. /\ working # 0 /\ handler \in Handler /\ HandlerInv(handler) /\ Busied(handler)
      /\ handler.local = payloads[working].local /\ handler.fenced \in BOOLEAN
  BY <1>1, AtWork DEF Busied, Handler
<1>3. Gone(working) /\ ~IdentityChanged
  BY <1>1, <1>2, WorkedJob DEF Gone, IInv, JobsInv, IdentityChanged
<1>4. handler.local = 0 => bucket.id = 0
  BY <1>1, NoRegistration
<1>5. CASE Return("success") /\ (handler.local = 0 \/ bucket.id # handler.local)
  BY <1>1, <1>2, <1>3, <1>5, ReturnInv, HandlerMoves DEF Return
<1>6. CASE handler.next = "fence" /\ handler' = [handler EXCEPT !.pc = "fence", !.next = "none", !.missing = TRUE]
  <2> DEFINE h == [handler EXCEPT !.pc = "fence", !.next = "none", !.missing = TRUE]
  <2>1. /\ h \in Handler /\ h.pc = "fence" /\ h.next = "none"
        /\ h.local = handler.local /\ h.mutated = handler.mutated /\ h.fenced = handler.fenced
    BY <1>2 DEF Handler, Steps, Nexts
  <2> HIDE DEF h
  <2>2. HandlerInv(h)
    BY <1>1, <1>2, <1>4, <2>1, MovesOn DEF Routes, PastFence, PastSettling, Marked, Dropping
  <2> QED
    BY <1>1, <1>6, <2>2, HandlerMoves DEF h
<1>7. CASE handler.next \in {"wipe", "confirm", "gone"} /\ Goto("verify", "drop")
  <2>1. ASSUME NEW h \in Handler, h.pc = "verify", h.next = "drop",
               h.local = handler.local, h.mutated = handler.mutated, h.fenced = handler.fenced
        PROVE  HandlerInv(h)
    BY <1>1, <1>2, <1>4, <1>7, <2>1, MovesOn DEF Routes, PastFence, PastSettling, Marked, Dropping
  <2> QED
    BY <1>1, <1>2, <1>7, <2>1, GotoStep DEF Steps, Nexts
<1>8. CASE handler.next \notin {"fence", "wipe", "confirm", "gone"} /\ handler.fenced
           /\ Goto("mark", "finalize")
  <2>1. ASSUME NEW h \in Handler, h.pc = "mark", h.next = "finalize",
               h.local = handler.local, h.mutated = handler.mutated, h.fenced = handler.fenced
        PROVE  HandlerInv(h)
    BY <1>1, <1>2, <1>3, <1>4, <1>8, <2>1, MovesOn DEF Routes, PastFence, PastSettling, Marked, Dropping
  <2>2. Goto("mark", "finalize") /\ "mark" \in Steps /\ "finalize" \in Nexts
    BY <1>8 DEF Steps, Nexts
  <2> QED
    BY <1>1, <1>2, <2>1, <2>2, GotoStep
<1>9. handler.next # "fence" /\ handler.local # 0 => handler.fenced
  BY <1>1, <1>2 DEF HandlerInv, FenceHeld, PastFence
<1> QED
  BY <1>1, <1>4, <1>5, <1>6, <1>7, <1>8, <1>9 DEF VerifyMissing

LEMMA VerifyPresentStep ==
    ASSUME IInv, VerifyPresent
    PROVE  IInv'
<1>1. /\ handler.pc = "verify" /\ ~IdentityChanged /\ OnlyHandler
  BY DEF VerifyPresent, Doing, OnlyHandler
<1>2. /\ working # 0 /\ handler \in Handler /\ HandlerInv(handler) /\ Busied(handler)
      /\ handler.local = payloads[working].local
      /\ handler.next \in {"fence", "wipe", "confirm", "gone", "absent", "drop"}
  BY <1>1, AtWork DEF Busied, HandlerInv, Shape, Routes
<1>3. handler.local = 0 => bucket.id = 0
  BY <1>1, NoRegistration
<1>4. CASE Failing("retry")
  BY <1>1, <1>2, <1>4, FailInv, HandlerMoves DEF Failing
<1>5. CASE handler.next = "drop" /\ handler' = [handler EXCEPT !.pc = "mark", !.before = handler.mutated]
  <2> DEFINE h == [handler EXCEPT !.pc = "mark", !.before = handler.mutated]
  <2>1. /\ h \in Handler /\ h.pc = "mark" /\ h.next = "drop" /\ h.before = handler.mutated
        /\ h.local = handler.local /\ h.mutated = handler.mutated /\ h.fenced = handler.fenced
    BY <1>2, <1>5 DEF Handler, Steps
  <2>2. handler.mutated \/ bucket.id \notin harmed
    BY <1>1, <1>2, <1>3, <1>5 DEF IInv, FenceInv, WorldInv, HandlerInv, FenceHeld, MarkKept, Busied,
                                  PastFence, Owned
  <2> HIDE DEF h
  <2>3. HandlerInv(h)
    BY <1>1, <1>2, <1>3, <1>5, <2>1, <2>2, MovesOn
       DEF Routes, PastFence, PastSettling, Marked, Dropping
  <2> QED
    BY <1>1, <1>5, <2>3, HandlerMoves DEF h
<1>6. CASE handler.next \in {"fence", "wipe", "confirm"} /\ Goto(handler.next, "none")
  <2>1. handler.next \in {"wipe", "confirm"} => handler.mutated
    BY <1>1, <1>2 DEF HandlerInv, MarkKept, Marked, Busied
  <2>2. ASSUME NEW h \in Handler, h.pc = handler.next, h.next = "none",
               h.local = handler.local, h.mutated = handler.mutated, h.fenced = handler.fenced
        PROVE  HandlerInv(h)
    BY <1>1, <1>2, <1>3, <1>6, <2>1, <2>2, MovesOn DEF Routes, PastFence, PastSettling, Marked, Dropping
  <2> QED
    BY <1>1, <1>2, <1>6, <2>2, GotoStep DEF Steps, Nexts
<1> QED
  BY <1>2, <1>4, <1>5, <1>6 DEF VerifyPresent

LEMMA VerifyChangedStep == IInv /\ VerifyChanged => IInv'
<1> SUFFICES ASSUME IInv, VerifyChanged PROVE IInv'
  OBVIOUS
<1>1. handler.pc = "verify" /\ Failing("permanent") /\ OnlyHandler
  BY DEF VerifyChanged, Doing, OnlyHandler
<1> QED
  BY <1>1, FailStep DEF Busied

LEMMA SettleBusyStep == IInv /\ SettleBusy => IInv'
<1> SUFFICES ASSUME IInv, SettleBusy PROVE IInv'
  OBVIOUS
<1>1. handler.pc = "settle" /\ (Failing("permanent") \/ Failing("retry")) /\ OnlyHandler
  BY DEF SettleBusy, Doing, OnlyHandler
<1> QED
  BY <1>1, FailStep DEF Busied

LEMMA CallFailsStep ==
    ASSUME IInv, NEW result \in {"retry", "permanent"}, CallFails(result)
    PROVE  IInv'
<1>1. Busied(handler) /\ handler.pc # "fail" /\ Failing(result) /\ OnlyHandler
  BY DEF CallFails, Busied, OnlyHandler
<1> QED
  BY <1>1, FailStep

LEMMA FailLostStep == IInv /\ FailLost => IInv'
<1> SUFFICES ASSUME IInv, FailLost PROVE IInv'
  OBVIOUS
<1>1. handler.pc = "fail" /\ Return("failed") /\ OnlyHandler
  BY DEF FailLost, Doing, OnlyHandler
<1>2. working # 0
  BY <1>1, AtWork DEF Busied
<1> QED
  BY <1>1, <1>2, ReturnInv, HandlerMoves DEF Return

\* Back to verifyIdentity, from where the fence and the lock are held.
LEMMA Reverifies ==
    ASSUME IInv, PastSettling(handler), Busied(handler), handler.pc # "fail",
           NEW next \in {"wipe", "confirm", "gone", "absent", "drop"},
           next \in {"wipe", "confirm", "gone"} => handler.mutated,
           Goto("verify", next), OnlyHandler
    PROVE  IInv'
<1>1. HandlerInv(handler) /\ PastFence(handler)
  BY AtWork DEF PastFence, PastSettling
<1>2. handler.local = 0 => bucket.id = 0
  BY <1>1, NoRegistration
<1>3. ASSUME NEW h \in Handler, h.pc = "verify", h.next = next,
             h.local = handler.local, h.mutated = handler.mutated, h.fenced = handler.fenced
      PROVE  HandlerInv(h)
  BY <1>1, <1>2, <1>3, MovesOn DEF Routes, PastFence, PastSettling, Marked, Dropping
<1>4. "verify" \in Steps /\ next \in Nexts
  BY DEF Steps, Nexts
<1> QED
  BY <1>3, <1>4, GotoStep

\* Past the first mark, the payload in memory has it.
LEMMA MarkedMutated ==
    ASSUME IInv, Marked(handler)
    PROVE  handler.mutated
BY DEF IInv, HandlerInv, MarkKept, Marked, Busied

LEMMA ListStep == IInv /\ List => IInv'
<1> SUFFICES ASSUME IInv, List PROVE IInv'
  OBVIOUS
<1>1. handler.pc = "list" /\ OnlyHandler
  BY DEF List, Doing, OnlyHandler
<1>2. Goto("verify", "drop") \/ Goto("verify", "absent") \/ Failing("permanent")
  BY DEF List
<1> QED
  BY <1>1, <1>2, FailStep, Reverifies DEF Busied, PastSettling

LEMMA WipeNotFoundStep == IInv /\ WipeNotFound => IInv'
<1> SUFFICES ASSUME IInv, WipeNotFound PROVE IInv'
  OBVIOUS
<1>1. handler.pc = "wipe" /\ OnlyHandler
  BY DEF WipeNotFound, Doing, OnlyHandler
<1>2. Goto("verify", "gone") \/ Failing("retry")
  BY DEF WipeNotFound
<1> QED
  BY <1>1, <1>2, FailStep, Reverifies, MarkedMutated DEF Busied, PastSettling, Marked

LEMMA ConfirmStep == IInv /\ Confirm => IInv'
<1> SUFFICES ASSUME IInv, Confirm PROVE IInv'
  OBVIOUS
<1>1. handler.pc = "confirm" /\ OnlyHandler
  BY DEF Confirm, Doing, OnlyHandler
<1>2. Goto("verify", "drop") \/ Failing("retry") \/ Failing("permanent")
  BY DEF Confirm
<1> QED
  BY <1>1, <1>2, FailStep, Reverifies DEF Busied, PastSettling

LEMMA DropNotFoundStep == IInv /\ DropNotFound => IInv'
<1> SUFFICES ASSUME IInv, DropNotFound PROVE IInv'
  OBVIOUS
<1>1. handler.pc = "drop" /\ Goto("verify", "absent") /\ OnlyHandler
  BY DEF DropNotFound, Doing, OnlyHandler
<1> QED
  BY <1>1, Reverifies DEF Busied, PastSettling

LEMMA FenceRefusedStep == IInv /\ FenceRefused => IInv'
<1> SUFFICES ASSUME IInv, FenceRefused PROVE IInv'
  OBVIOUS
<1>1. handler.pc = "fence" /\ OnlyHandler
  BY DEF FenceRefused, Doing, OnlyHandler
<1>2. working # 0 /\ handler \in Handler /\ HandlerInv(handler)
  BY <1>1, AtWork DEF Busied
<1>3. PICK result \in {"retry", "permanent"} : handler' = ToFail([handler EXCEPT !.fenced = FALSE], result)
  BY DEF FenceRefused
<1> DEFINE h == ToFail([handler EXCEPT !.fenced = FALSE], result)
<1>4. /\ h \in Handler /\ h.pc = "fail" /\ h.result = result
      /\ h.local = handler.local /\ h.mutated = handler.mutated /\ ~h.fenced
  BY <1>2, IdleRecord DEF ToFail, Handler, Steps
<1> HIDE DEF h
<1>5. HandlerInv(h)
  BY <1>1, <1>2, <1>4 DEF HandlerInv, Shape, FenceHeld, MarkKept, RightBucket,
              Routes, Busied, PastFence, PastSettling, Marked, Dropping
<1> QED
  BY <1>1, <1>3, <1>5, HandlerMoves DEF h
-----------------------------------------------------------------------------
(* The lifecycle transactions.                                             *)

\* A step of the handler that may rewrite the registration.
LEMMA BucketMoves ==
    ASSUME IInv, bucket'.id \in {0, bucket.id}, FenceInv', HandlerInv(handler)',
           rows' \in [Keys -> {None, "here", "there"}],
           Local, UNCHANGED <<payloads, remote, intents, history>>, Fault \/ UNCHANGED faults
    PROVE  IInv'
<1>1. faults' \in 0..MaxFaults /\ UNCHANGED <<queueVars, drawn, remade, request>>
  BY FaultType DEF Local, IInv
<1>2. WorldInv' /\ JobsInv' /\ RequestInv'
  BY <1>1 DEF IInv, WorldInv, JobsInv, RequestInv, Open, queueVars, history
<1>3. \A j \in DOMAIN entries : payloads[j].local \in Nat
  BY RowsOfQueue, DeletionAssumption DEF IInv, Payload
<1>4. SucceededMeansGone'
  BY <1>1, <1>3 DEF IInv, SucceededMeansGone, queueVars
<1> QED
  BY <1>2, <1>4 DEF IInv

\* The place after the fence, for a bucket that is fenced or not managed here.
LEMMA AfterFenceRecord ==
    ASSUME handler \in Handler, handler.pc = "fence",
           NEW fenced \in BOOLEAN, handler' = AfterFence([handler EXCEPT !.fenced = fenced])
    PROVE  /\ handler' \in Handler /\ handler'.local = handler.local
           /\ handler'.mutated = handler.mutated /\ handler'.fenced = fenced
           /\ \/ handler'.pc = "mark" /\ handler'.next \in {"abandon", "settle"}
              \/ handler'.pc = "settle" /\ handler'.next = "list"
<1> DEFINE k == [handler EXCEPT !.fenced = fenced]
<1>1. /\ k \in Handler /\ k.local = handler.local /\ k.mutated = handler.mutated
      /\ k.fenced = fenced /\ k.missing \in BOOLEAN
  BY DEF Handler
<1>2. \/ handler' = [k EXCEPT !.pc = "mark", !.next = "abandon", !.missing = FALSE]
      \/ handler' = [k EXCEPT !.pc = "settle", !.next = "list"]
      \/ handler' = [k EXCEPT !.pc = "mark", !.next = "settle"]
  BY <1>1 DEF AfterFence
<1> HIDE DEF k
<1>3. {"mark", "settle"} \subseteq Steps /\ {"abandon", "list", "settle"} \subseteq Nexts
  BY DEF Steps, Nexts
<1>4. CASE handler' = [k EXCEPT !.pc = "mark", !.next = "abandon", !.missing = FALSE]
  BY <1>1, <1>3, <1>4 DEF Handler
<1>5. CASE handler' = [k EXCEPT !.pc = "settle", !.next = "list"]
  BY <1>1, <1>3, <1>5 DEF Handler
<1>6. CASE handler' = [k EXCEPT !.pc = "mark", !.next = "settle"]
  BY <1>1, <1>3, <1>6 DEF Handler
<1> QED
  BY <1>2, <1>4, <1>5, <1>6

LEMMA FenceStep == IInv /\ Fence => IInv'
<1> SUFFICES ASSUME IInv, Fence PROVE IInv'
  OBVIOUS
<1>1. /\ handler.pc = "fence" /\ Local /\ UNCHANGED <<payloads, remote, indexVars, faults, history>>
      /\ UNCHANGED <<queueVars, drawn, remade, request>>
  BY DEF Fence, Doing, Local
<1>2. /\ working # 0 /\ working \in DOMAIN entries /\ Open(working) /\ HandlerInv(handler)
      /\ payload = payloads[working] /\ payload \in Payload
      /\ handler \in Handler /\ handler.local = payload.local
      /\ handler.mutated = payloads[working].mutated
  BY <1>1, AtWork DEF Busied, HandlerInv, MarkKept
<1>3. /\ bucket' = bucket \/ BeginBucketDeletion
      /\ handler.local # 0 =>
            bucket'.id = handler.local /\ bucket'.state = "deleting" /\ bucket'.job = working
      /\ handler.local = 0 => bucket'.id = 0
      /\ bucket'.id = bucket.id
      /\ handler' = AfterFence([handler EXCEPT !.fenced = handler.local # 0])
      /\ bucket' # bucket => /\ MayBegin(payload.parent) /\ BeginBucketDeletion
                             /\ bucket.id = handler.local /\ handler.local # 0
  <2>1. bucket \in Registration /\ (handler.local = 0 => bucket.id = 0)
    BY <1>1, NoRegistration DEF IInv, FenceInv
  <2>2. CASE handler.local = 0 \/ Owned(handler.local)
    BY <1>1, <2>1, <2>2 DEF Fence, Owned
  <2>3. CASE ~(handler.local = 0 \/ Owned(handler.local))
    BY <1>1, <2>1, <2>3 DEF Fence, BeginBucketDeletion, Registration
  <2> QED
    BY <2>2, <2>3
<1>4. /\ handler' \in Handler /\ handler'.local = handler.local
      /\ handler'.mutated = handler.mutated /\ handler'.fenced = (handler.local # 0)
      /\ \/ handler'.pc = "mark" /\ handler'.next \in {"abandon", "settle"}
         \/ handler'.pc = "settle" /\ handler'.next = "list"
  BY <1>1, <1>2, <1>3, AfterFenceRecord
<1>5. HandlerInv(handler)'
  BY <1>1, <1>2, <1>3, <1>4
     DEF HandlerInv, Shape, FenceHeld, MarkKept, RightBucket, Routes, Busied, PastFence,
         PastSettling, Marked, Dropping, Owned, queueVars
<1>6. FenceInv'
  <2>1. CASE bucket' = bucket
    BY <1>1, <2>1 DEF IInv, FenceInv, Open, queueVars, history
  <2>2. CASE bucket' # bucket
    <3>1. /\ MayBegin(payload.parent) /\ bucket.id = payload.local /\ bucket.id # 0
          /\ bucket' = [bucket EXCEPT !.state = "deleting", !.job = working,
                                      !.lock = IF bucket.lock = 0 THEN 0 ELSE working]
      BY <1>2, <1>3, <2>2 DEF BeginBucketDeletion
    <3>2. /\ bucket \in Registration /\ bucket.id <= drawn /\ working \in 1..MaxJobs
      BY <1>2, RowsOfQueue DEF IInv, FenceInv
    <3>3. /\ bucket' \in Registration /\ bucket'.id = bucket.id /\ bucket'.state = "deleting"
          /\ bucket'.job = working /\ bucket'.lock \in {0, working}
      <4> DEFINE lock == IF bucket.lock = 0 THEN 0 ELSE working
      <4>1. lock \in {0, working} /\ lock \in 0..MaxJobs /\ working \in 0..MaxJobs
        BY <3>2, DeletionAssumption
      <4> HIDE DEF lock
      <4>2. bucket' = [bucket EXCEPT !.state = "deleting", !.job = working, !.lock = lock]
        BY <3>1 DEF lock
      <4> QED
        BY <3>2, <4>1, <4>2 DEF Registration
    <3>4. bucket.id \in harmed => payloads[working].mutated
      <4>1. CASE bucket.state = "active"
        BY <4>1 DEF IInv, FenceInv
      <4>2. CASE bucket.state # "active"
        BY <1>2, <3>1, <4>2 DEF IInv, FenceInv, MayBegin, Deletable
      <4> QED
        BY <4>1, <4>2
    <3>5. \A j \in DOMAIN entries : Open(j) => j = working /\ payloads[j].parent # working
      BY <1>2, RowsOfQueue DEF IInv, JobsInv
    <3> QED
      BY <1>1, <1>2, <3>1, <3>2, <3>3, <3>4, <3>5 DEF FenceInv, Open, queueVars, history
  <2> QED
    BY <2>1, <2>2
<1>7. rows' \in [Keys -> {None, "here", "there"}]
  BY <1>1 DEF IInv, WorldInv, indexVars
<1> QED
  BY <1>1, <1>3, <1>5, <1>6, <1>7, BucketMoves DEF indexVars

LEMMA AcquireStep == IInv /\ AcquireBucketDeletionMaintenance => IInv'
<1> SUFFICES ASSUME IInv, AcquireBucketDeletionMaintenance PROVE IInv'
  OBVIOUS
<1>1. /\ handler.pc = "settle" /\ Local /\ UNCHANGED <<payloads, remote, indexVars, faults, history>>
      /\ UNCHANGED <<queueVars, drawn, remade, request>>
  BY DEF AcquireBucketDeletionMaintenance, Doing, Local
<1>2. /\ working # 0 /\ working \in DOMAIN entries /\ HandlerInv(handler)
      /\ handler \in Handler /\ handler.local = payloads[working].local
      /\ handler.next \in {"list", "wipe", "absent"}
      /\ working \in 0..MaxJobs
  BY <1>1, AtWork, RowsOfQueue, DeletionAssumption DEF Busied, HandlerInv, Shape, Routes, IInv
<1>3. \/ handler.next = "list" /\ Goto("list", "none")
      \/ handler.next # "list" /\ Goto("verify", handler.next)
  BY DEF AcquireBucketDeletionMaintenance, AfterSettle
<1>4. /\ handler' \in Handler /\ handler'.local = handler.local
      /\ handler'.mutated = handler.mutated /\ handler'.fenced = handler.fenced
      /\ \/ handler'.pc = "list" /\ handler'.next = "none"
         \/ handler'.pc = "verify" /\ handler'.next = handler.next /\ handler.next \in {"wipe", "absent"}
  BY <1>2, <1>3 DEF Goto, Handler, Steps, Nexts
<1>5. /\ bucket' \in Registration /\ bucket'.id = bucket.id /\ bucket'.state = bucket.state
      /\ bucket'.job = bucket.job
      /\ handler.local = 0 => bucket' = bucket /\ bucket.id = 0
      /\ handler.local # 0 => Owned(handler.local) /\ ~Busy /\ bucket'.lock = working
  <2>1. bucket \in Registration /\ (handler.local = 0 => bucket.id = 0)
    BY <1>1, NoRegistration DEF IInv, FenceInv, PastFence
  <2>2. CASE handler.local = 0
    BY <2>1, <2>2 DEF AcquireBucketDeletionMaintenance
  <2>3. CASE handler.local # 0
    BY <1>2, <2>1, <2>3 DEF AcquireBucketDeletionMaintenance, MayAcquire, Registration
  <2> QED
    BY <2>2, <2>3
<1>6. HandlerInv(handler)'
  BY <1>1, <1>2, <1>4, <1>5
     DEF HandlerInv, Shape, FenceHeld, MarkKept, RightBucket, Routes, Busied, PastFence,
         PastSettling, Marked, Dropping, Owned, Busy, Touches, queueVars, indexVars, history
<1>7. FenceInv'
  BY <1>1, <1>5 DEF IInv, FenceInv, Owned, Open, queueVars, history
<1>8. rows' \in [Keys -> {None, "here", "there"}]
  BY <1>1 DEF IInv, WorldInv, indexVars
<1> QED
  BY <1>1, <1>5, <1>6, <1>7, <1>8, BucketMoves DEF indexVars

\* The fence is lifted only from a bucket that the job has not touched.
LEMMA FailFenceStep ==
    ASSUME IInv, NEW last \in BOOLEAN, Fail(last)
    PROVE  IInv'
<1>1. /\ handler.pc = "fail" /\ Local /\ UNCHANGED <<payloads, remote, indexVars, faults, history>>
      /\ UNCHANGED <<queueVars, drawn, remade, request>>
  BY DEF Fail, Doing, Local
<1>2. /\ working # 0 /\ working \in DOMAIN entries /\ HandlerInv(handler) /\ Open(working)
      /\ bucket \in Registration
  BY <1>1, AtWork DEF Busied, IInv, FenceInv
<1>3. PICK result \in {"retry", "failed"} :
          handler' = [Idle EXCEPT !.pc = "return", !.result = result]
  BY DEF Fail, Return
<1>4. CASE UNCHANGED bucket
  BY <1>1, <1>2, <1>3, <1>4, ReturnInv, HandlerMoves DEF OnlyHandler
<1>5. CASE Owned(handler.local) /\ (IF handler.mutated THEN MarkBucketDeletionFailed ELSE RestoreBucketActive)
  <2>1. handler.mutated \/ ~payloads[working].mutated
    BY <1>1, <1>2 DEF HandlerInv, MarkKept
  <2>2. handler.mutated => payloads[working].mutated \/ working \in unmarked
    BY <1>1, <1>2 DEF HandlerInv, MarkKept
  <2>3. bucket' \in Registration /\ bucket'.id = bucket.id /\ bucket'.lock = 0
        /\ (IF handler.mutated THEN bucket'.state = "delete_failed" /\ bucket'.job = working
            ELSE bucket'.state = "active")
    <3>1. 0 \in 0..MaxJobs
      BY DeletionAssumption
    <3>2. CASE handler.mutated /\ MarkBucketDeletionFailed
      BY <1>2, <1>5, <3>1, <3>2 DEF MarkBucketDeletionFailed, Registration, Owned
    <3>3. CASE ~handler.mutated /\ RestoreBucketActive
      BY <1>2, <3>1, <3>3 DEF RestoreBucketActive, Registration
    <3> QED
      BY <1>5, <3>2, <3>3
  <2>4. FenceInv'
    <3>1. /\ bucket.id # 0 /\ bucket.state = "deleting" /\ bucket.job = working /\ FenceInv
          /\ UNCHANGED <<entries, working, payloads, drawn, harmed, unmarked>>
      BY <1>1, <1>5 DEF IInv, Owned, queueVars, history
    <3>2. CASE handler.mutated
      <4>1. /\ bucket'.state = "delete_failed" /\ bucket'.job = bucket.job /\ bucket'.id = bucket.id
            /\ bucket'.lock = 0
        BY <2>3, <3>1, <3>2
      <4> QED
        BY <2>2, <2>3, <3>1, <3>2, <4>1 DEF FenceInv, Open
    <3>3. CASE ~handler.mutated
      <4>1. bucket.id \notin harmed
        BY <2>1, <3>1, <3>3 DEF FenceInv
      <4> QED
        BY <2>3, <3>1, <3>3, <4>1 DEF FenceInv
    <3> QED
      BY <3>2, <3>3
  <2>5. HandlerInv([Idle EXCEPT !.pc = "return", !.result = result])'
    <3> DEFINE h == [Idle EXCEPT !.pc = "return", !.result = result]
    <3>1. h \in Handler /\ h.pc = "return" /\ h.result = result
      BY IdleRecord DEF Handler, Steps
    <3> HIDE DEF h
    <3>2. HandlerInv(handler)'
      BY <1>1, <1>2, <1>3, <3>1 DEF h, HandlerInv, Shape, FenceHeld, MarkKept, RightBucket,
                  Routes, Busied, PastFence, PastSettling, Marked, Dropping, queueVars
    <3> QED
      BY <1>3, <3>2
  <2>6. rows' \in [Keys -> {None, "here", "there"}]
    BY <1>1 DEF IInv, WorldInv, indexVars
  <2>7. HandlerInv(handler)'
    BY <1>3, <2>5
  <2> QED
    BY <1>1, <2>3, <2>4, <2>6, <2>7, BucketMoves DEF indexVars
<1> QED
  BY <1>4, <1>5 DEF Fail

LEMMA FinalizeStep == IInv /\ Finalize => IInv'
<1> SUFFICES ASSUME IInv, Finalize PROVE IInv'
  OBVIOUS
<1>1. /\ handler.pc = "finalize" /\ Local /\ UNCHANGED <<payloads, remote, intents, faults, history>>
      /\ UNCHANGED <<queueVars, drawn, remade, request>> /\ bucket' = Unregistered
      /\ rows' = [k \in Keys |-> IF rows[k] = "here" THEN None ELSE rows[k]]
      /\ handler' = [Idle EXCEPT !.pc = "return", !.result = "success"]
      /\ Owned(handler.local)
  BY DEF Finalize, Doing, Local, FinalizeDeletedBucket, Return
<1>2. working # 0 /\ HandlerInv(handler) /\ Gone(working) /\ drawn \in Nat
      /\ handler.local = payloads[working].local
  BY <1>1, AtWork, DeletionAssumption DEF Busied, HandlerInv, RightBucket, Shape, IInv, WorldInv
<1>3. bucket' \in Registration /\ bucket'.id = 0 /\ bucket'.state = "active" /\ bucket'.lock = 0
  BY <1>1, DeletionAssumption DEF Unregistered, Registration
<1>4. FenceInv'
  BY <1>1, <1>2, <1>3 DEF IInv, FenceInv, WorldInv, history
<1>5. rows' \in [Keys -> {None, "here", "there"}]
  BY <1>1 DEF IInv, WorldInv
<1>6. HandlerInv(handler)'
  <2> DEFINE h == [Idle EXCEPT !.pc = "return", !.result = "success"]
  <2>1. h \in Handler /\ h.pc = "return" /\ h.result = "success"
    BY IdleRecord DEF Handler, Steps
  <2>2. handler' = h
    BY <1>1
  <2> HIDE DEF h
  <2> QED
    BY <1>1, <1>2, <1>3, <2>1, <2>2 DEF HandlerInv, Shape, FenceHeld, MarkKept, RightBucket,
                Routes, Busied, PastFence, PastSettling, Marked, Dropping, Gone, queueVars
<1> QED
  BY <1>1, <1>3, <1>4, <1>5, <1>6, BucketMoves
-----------------------------------------------------------------------------
(* The steps that rewrite the payload of the working job.                  *)

LEMMA PayloadMoves ==
    ASSUME IInv, working # 0, NEW p \in Payload, payloads' = [payloads EXCEPT ![working] = p],
           p.born = payload.born, p.missing = payload.missing, p.parent = payload.parent,
           p.local <= drawn, FenceInv', HandlerInv(handler)',
           Local, UNCHANGED <<bucket, remote, indexVars, harmed>>,
           unmarked' \subseteq DOMAIN entries, Fault \/ UNCHANGED faults
    PROVE  IInv'
<1>1. /\ working \in DOMAIN entries /\ Open(working) /\ working \in DOMAIN payloads
      /\ payload = payloads[working]
  BY WorkedJob DEF IInv, JobsInv
<1>2. payloads' \in Seq(Payload) /\ DOMAIN payloads' = DOMAIN payloads
  BY <1>1, ExceptSeq DEF IInv, JobsInv
<1>3. \A j \in DOMAIN entries : payloads'[j] = IF j = working THEN p ELSE payloads[j]
  BY <1>1 DEF IInv, JobsInv
<1>4. faults' \in 0..MaxFaults /\ UNCHANGED <<queueVars, drawn, remade, request>>
  BY FaultType DEF Local, IInv
<1>5. JobsInv'
  BY <1>1, <1>2, <1>3, <1>4 DEF IInv, JobsInv, Open, queueVars
<1>6. WorldInv' /\ RequestInv'
  BY <1>4 DEF IInv, WorldInv, RequestInv, queueVars, indexVars
<1>7. SucceededMeansGone'
  BY <1>1, <1>3, <1>4 DEF IInv, SucceededMeansGone, Open, queueVars
<1> QED
  BY <1>5, <1>6, <1>7 DEF IInv

\* The payload after a step that rewrites it.
LEMMA RewrittenPayload ==
    ASSUME IInv, working # 0, NEW p, payloads' = [payloads EXCEPT ![working] = p]
    PROVE  /\ payloads'[working] = p
           /\ \A j \in DOMAIN entries : j # working => payloads'[j] = payloads[j]
BY WorkedJob DEF IInv, JobsInv

LEMMA DiscoverStep == IInv /\ DiscoverLocalBucket => IInv'
<1> SUFFICES ASSUME IInv, DiscoverLocalBucket PROVE IInv'
  OBVIOUS
<1>1. /\ handler.pc = "discover" /\ Local /\ UNCHANGED <<bucket, remote, indexVars, faults, history>>
      /\ UNCHANGED <<queueVars, drawn, remade, request>>
      /\ handler' = [handler EXCEPT !.pc = "verify", !.local = bucket.id, !.fenced = Owned(bucket.id)]
  BY DEF DiscoverLocalBucket, Doing, Local
<1>2. /\ working # 0 /\ working \in DOMAIN entries /\ Open(working) /\ HandlerInv(handler)
      /\ payload = payloads[working] /\ payload \in Payload
      /\ handler \in Handler /\ handler.local = payload.local /\ handler.local = 0
      /\ handler.next = "fence" /\ handler.mutated = payload.mutated
      /\ bucket \in Registration /\ bucket.id <= drawn
  BY <1>1, AtWork DEF Busied, HandlerInv, Shape, Routes, MarkKept, IInv, FenceInv
<1> DEFINE q == [payload EXCEPT !.local = bucket.id]
<1>3. PICK p : p = q
  OBVIOUS
<1>4. /\ p \in Payload /\ p.local = bucket.id /\ p.born = payload.born /\ p.missing = payload.missing
      /\ p.parent = payload.parent /\ p.mutated = payload.mutated
  BY <1>2, <1>3 DEF Payload, Registration
<1>5. payloads' = [payloads EXCEPT ![working] = p]
  BY <1>2, <1>3 DEF DiscoverLocalBucket
<1> HIDE DEF q
<1>6. /\ payloads'[working] = p
      /\ \A j \in DOMAIN entries : j # working => payloads'[j] = payloads[j]
  BY <1>2, <1>5, RewrittenPayload
<1>7. FenceInv'
  BY <1>1, <1>2, <1>4, <1>6 DEF IInv, FenceInv, Open, queueVars, history
<1>8. ~Owned(bucket.id)
  BY <1>2 DEF Owned, IInv, FenceInv
<1>9. /\ handler' \in Handler /\ handler'.pc = "verify" /\ handler'.next = "fence"
      /\ handler'.local = bucket.id /\ handler'.mutated = handler.mutated /\ ~handler'.fenced
  <2>1. handler' = [handler EXCEPT !.pc = "verify", !.local = bucket.id, !.fenced = FALSE]
    <3>1. Owned(bucket.id) = FALSE
      BY <1>8 DEF Owned
    <3> QED
      BY <1>1, <3>1
  <2> QED
    BY <1>2, <2>1 DEF Handler, Steps, Registration
<1>10. HandlerInv(handler)'
  BY <1>1, <1>2, <1>4, <1>6, <1>9
     DEF HandlerInv, Shape, FenceHeld, MarkKept, RightBucket, Routes, Busied, PastFence,
         PastSettling, Marked, Dropping, queueVars
<1>11. unmarked' \subseteq DOMAIN entries
  BY <1>1 DEF IInv, WorldInv, history
<1> QED
  BY <1>1, <1>2, <1>4, <1>5, <1>7, <1>10, <1>11, PayloadMoves DEF history

\* The place after a mark.
LEMMA AfterMarkRecord ==
    ASSUME handler \in Handler, handler.pc = "mark",
           handler.next \in {"settle", "abandon", "drop", "finalize"},
           handler' = [AfterMark EXCEPT !.mutated = TRUE]
    PROVE  /\ handler' \in Handler /\ handler'.local = handler.local /\ handler'.mutated
           /\ handler'.fenced = handler.fenced /\ handler'.before = handler.before
           /\ \/ handler.next = "settle" /\ handler'.pc = "settle" /\ handler'.next = "wipe"
              \/ handler.next = "abandon" /\ handler'.pc = "settle" /\ handler'.next = "absent"
              \/ /\ handler.next \in {"drop", "finalize"}
                 /\ handler'.pc = handler.next /\ handler'.next = "none"
<1>1. PICK pc \in Steps, next \in Nexts :
          /\ \/ handler.next = "settle" /\ pc = "settle" /\ next = "wipe"
             \/ handler.next = "abandon" /\ pc = "settle" /\ next = "absent"
             \/ handler.next \in {"drop", "finalize"} /\ pc = handler.next /\ next = "none"
          /\ AfterMark = [handler EXCEPT !.pc = pc, !.next = next]
  <2>1. CASE handler.next = "settle"
    BY <2>1 DEF AfterMark, Steps, Nexts
  <2>2. CASE handler.next = "abandon"
    BY <2>2 DEF AfterMark, Steps, Nexts
  <2>3. CASE handler.next \in {"drop", "finalize"}
    BY <2>3 DEF AfterMark, Steps, Nexts
  <2> QED
    BY <2>1, <2>2, <2>3
<1>2. handler' = [[handler EXCEPT !.pc = pc, !.next = next] EXCEPT !.mutated = TRUE]
  BY <1>1
<1> QED
  BY <1>1, <1>2 DEF Handler

LEMMA MarkStep == IInv /\ MarkRemoteMutated => IInv'
<1> SUFFICES ASSUME IInv, MarkRemoteMutated PROVE IInv'
  OBVIOUS
<1>1. /\ handler.pc = "mark" /\ Local /\ UNCHANGED <<bucket, remote, indexVars, faults, harmed>>
      /\ UNCHANGED <<queueVars, drawn, remade, request>>
      /\ handler' = [AfterMark EXCEPT !.mutated = TRUE] /\ unmarked' = unmarked \ {working}
  BY DEF MarkRemoteMutated, Doing, Local
<1>2. /\ working # 0 /\ working \in DOMAIN entries /\ Open(working) /\ HandlerInv(handler)
      /\ payload = payloads[working] /\ payload \in Payload
      /\ handler \in Handler /\ handler.local = payload.local /\ payload.local <= drawn
      /\ handler.next \in {"settle", "abandon", "drop", "finalize"}
      /\ \A j \in DOMAIN entries : Open(j) => j = working
  BY <1>1, AtWork, WorkedJob DEF Busied, HandlerInv, Shape, Routes, IInv, JobsInv
<1> DEFINE q == [payload EXCEPT !.mutated = TRUE]
<1>3. PICK p : p = q
  OBVIOUS
<1>4. /\ p \in Payload /\ p.local = payload.local /\ p.born = payload.born
      /\ p.missing = payload.missing /\ p.parent = payload.parent /\ p.mutated
  BY <1>2, <1>3 DEF Payload
<1>5. payloads' = [payloads EXCEPT ![working] = p]
  BY <1>2, <1>3 DEF MarkRemoteMutated
<1> HIDE DEF q
<1>6. /\ payloads'[working] = p
      /\ \A j \in DOMAIN entries : j # working => payloads'[j] = payloads[j]
  BY <1>2, <1>5, RewrittenPayload
<1>7. FenceInv'
  BY <1>1, <1>2, <1>4, <1>6 DEF IInv, FenceInv, Open, queueVars
<1>8. /\ handler' \in Handler /\ handler'.local = handler.local /\ handler'.mutated
      /\ handler'.fenced = handler.fenced /\ handler'.before = handler.before
      /\ \/ handler.next = "settle" /\ handler'.pc = "settle" /\ handler'.next = "wipe"
         \/ handler.next = "abandon" /\ handler'.pc = "settle" /\ handler'.next = "absent"
         \/ /\ handler.next \in {"drop", "finalize"}
            /\ handler'.pc = handler.next /\ handler'.next = "none"
  BY <1>1, <1>2, AfterMarkRecord
<1>9. HandlerInv(handler)'
  <2>1. UNCHANGED <<working, bucket, remote, rows, intents, harmed>>
    BY <1>1 DEF queueVars, indexVars
  <2>2. Shape(handler)'
    BY <1>1, <1>2, <1>4, <1>6, <1>8, <2>1 DEF HandlerInv, Shape, Routes, Busied
  <2>3. FenceHeld(handler)'
    BY <1>1, <1>2, <1>8, <2>1
       DEF HandlerInv, FenceHeld, Busied, PastFence, PastSettling, Owned, Busy, Touches
  <2>4. MarkKept(handler)'
    BY <1>1, <1>2, <1>4, <1>6, <1>8, <2>1, Zenon DEF HandlerInv, MarkKept, Busied, Marked, Dropping
  <2>5. RightBucket(handler)'
    BY <1>1, <1>2, <1>4, <1>6, <1>8, <2>1
       DEF HandlerInv, RightBucket, Dropping, IdentityChanged, Gone, payload
  <2> QED
    BY <2>2, <2>3, <2>4, <2>5 DEF HandlerInv
<1>10. unmarked' \subseteq DOMAIN entries
  BY <1>1 DEF IInv, WorldInv
<1> QED
  BY <1>1, <1>2, <1>4, <1>5, <1>7, <1>9, <1>10, PayloadMoves

LEMMA ToFailRecord ==
    ASSUME NEW k \in Handler, NEW result \in {"retry", "permanent"}
    PROVE  LET h == ToFail(k, result)
           IN  /\ h \in Handler /\ h.pc = "fail" /\ h.next = "none" /\ h.result = result
               /\ h.local = k.local /\ h.mutated = k.mutated /\ h.fenced = k.fenced
BY IdleRecord DEF ToFail, Handler, Steps

\* A handler that fails, and has established what fail needs to know.
LEMMA FailRequires ==
    ASSUME NEW h \in Handler, h.pc = "fail", h.result \in {"retry", "permanent"}, working # 0,
           h.local = payloads[working].local, h.fenced => Owned(h.local),
           payloads[working].mutated => h.mutated,
           h.mutated => payloads[working].mutated \/ working \in unmarked
    PROVE  HandlerInv(h)
BY DEF HandlerInv, Shape, FenceHeld, MarkKept, RightBucket, Routes, Busied, PastFence,
       PastSettling, Marked, Dropping

LEMMA MarkFailsStep == IInv /\ MarkFails => IInv'
<1> SUFFICES ASSUME IInv, MarkFails PROVE IInv'
  OBVIOUS
<1>1. /\ handler.pc = "mark" /\ Local /\ UNCHANGED <<payloads, bucket, remote, indexVars, harmed>>
      /\ UNCHANGED <<queueVars, drawn, remade, request>> /\ Fault
      /\ unmarked' = unmarked \union {working}
  BY DEF MarkFails, Doing, Local
<1>2. /\ working # 0 /\ working \in DOMAIN entries /\ HandlerInv(handler)
      /\ handler \in Handler /\ handler.local = payloads[working].local
      /\ handler.fenced => Owned(handler.local)
  BY <1>1, AtWork DEF Busied, HandlerInv, Shape, FenceHeld
<1>3. PICK result \in {"retry", "permanent"} :
          handler' = ToFail([handler EXCEPT !.mutated = TRUE], result)
  BY DEF MarkFails
<1> DEFINE k == [handler EXCEPT !.mutated = TRUE]
<1>4. k \in Handler /\ k.local = handler.local /\ k.mutated /\ k.fenced = handler.fenced
  BY <1>2 DEF Handler
<1> HIDE DEF k
<1>5. /\ handler' \in Handler /\ handler'.pc = "fail" /\ handler'.next = "none"
      /\ handler'.result = result
      /\ handler'.local = handler.local /\ handler'.mutated /\ handler'.fenced = handler.fenced
  BY <1>3, <1>4, ToFailRecord DEF k
<1>6. HandlerInv(handler)'
  BY <1>1, <1>2, <1>5
     DEF HandlerInv, Shape, FenceHeld, MarkKept, RightBucket, Routes, Busied, PastFence,
         PastSettling, Marked, Dropping, Owned, queueVars
<1>7. FenceInv'
  BY <1>1 DEF IInv, FenceInv, Open, queueVars
<1>8. faults' \in 0..MaxFaults
  BY <1>1, FaultType DEF IInv
<1>9. WorldInv' /\ JobsInv' /\ RequestInv' /\ SucceededMeansGone'
  BY <1>1, <1>2, <1>8
     DEF IInv, WorldInv, JobsInv, RequestInv, SucceededMeansGone, Open, queueVars, indexVars
<1> QED
  BY <1>6, <1>7, <1>9 DEF IInv

\* R2 keeps the bucket: the mark is taken back only if nothing was touched.
LEMMA DropRefusedStep == IInv /\ DropRefused => IInv'
<1> SUFFICES ASSUME IInv, DropRefused PROVE IInv'
  OBVIOUS
<1>1. /\ handler.pc = "drop" /\ Local /\ UNCHANGED <<bucket, remote, indexVars, history>>
      /\ UNCHANGED <<queueVars, drawn, remade, request>>
  BY DEF DropRefused, Doing, Local
<1>2. /\ working # 0 /\ working \in DOMAIN entries /\ Open(working) /\ HandlerInv(handler)
      /\ payload = payloads[working] /\ payload \in Payload
      /\ handler \in Handler /\ handler.local = payload.local /\ payload.local <= drawn
      /\ \A j \in DOMAIN entries : Open(j) => j = working
      /\ payload.parent # working
  BY <1>1, AtWork, WorkedJob DEF Busied, IInv, JobsInv
<1>3. /\ handler.mutated = payload.mutated /\ payload.mutated
      /\ handler.before \/ bucket.id \notin harmed
      /\ handler.fenced => Owned(handler.local)
      /\ handler.local # 0 => handler.fenced
      /\ handler.local = 0 => bucket.id = 0
  BY <1>1, <1>2 DEF HandlerInv, MarkKept, Marked, Dropping, Busied, FenceHeld, PastFence
<1>4. CASE Failing("permanent") /\ UNCHANGED payloads /\ Fault
  BY <1>1, <1>4, FailStep DEF OnlyHandler, Busied
<1>5. CASE \E mutated \in BOOLEAN :
              /\ mutated \/ ~handler.before
              /\ payloads' = [payloads EXCEPT ![working] = [payload EXCEPT !.mutated = mutated]]
              /\ handler' = ToFail([handler EXCEPT !.mutated = mutated], "permanent")
              /\ UNCHANGED faults
  <2>1. PICK mutated \in BOOLEAN :
              /\ mutated \/ ~handler.before
              /\ payloads' = [payloads EXCEPT ![working] = [payload EXCEPT !.mutated = mutated]]
              /\ handler' = ToFail([handler EXCEPT !.mutated = mutated], "permanent")
              /\ UNCHANGED faults
    BY <1>5
  <2> DEFINE q == [payload EXCEPT !.mutated = mutated]
  <2>2. PICK p : p = q
    OBVIOUS
  <2>3. /\ p \in Payload /\ p.local = payload.local /\ p.born = payload.born
        /\ p.missing = payload.missing /\ p.parent = payload.parent /\ p.mutated = mutated
    BY <1>2, <2>2 DEF Payload
  <2>4. payloads' = [payloads EXCEPT ![working] = p]
    BY <2>1, <2>2
  <2> HIDE DEF q
  <2>5. /\ payloads'[working] = p
        /\ \A j \in DOMAIN entries : j # working => payloads'[j] = payloads[j]
    BY <1>2, <2>4, RewrittenPayload
  <2>6. bucket.id \in harmed => mutated
    BY <1>3, <2>1
  <2>7. bucket.state # "active" => bucket.state = "deleting" /\ bucket.job = working
    BY <1>3 DEF Owned, IInv, FenceInv
  <2>8. FenceInv'
    BY <1>1, <1>2, <2>3, <2>5, <2>6, <2>7 DEF IInv, FenceInv, Open, queueVars, history
  <2> DEFINE k == [handler EXCEPT !.mutated = mutated]
  <2>9. k \in Handler /\ k.local = handler.local /\ k.mutated = mutated /\ k.fenced = handler.fenced
    BY <1>2 DEF Handler
  <2> HIDE DEF k
  <2>10. /\ handler' \in Handler /\ handler'.pc = "fail" /\ handler'.next = "none"
         /\ handler'.result = "permanent" /\ handler'.local = handler.local
         /\ handler'.mutated = mutated /\ handler'.fenced = handler.fenced
    BY <2>1, <2>9, ToFailRecord DEF k
  <2>11. HandlerInv(handler)'
    BY <1>1, <1>2, <1>3, <2>3, <2>5, <2>10
       DEF HandlerInv, Shape, FenceHeld, MarkKept, RightBucket, Routes, Busied, PastFence,
           PastSettling, Marked, Dropping, Owned, queueVars
  <2>12. unmarked' \subseteq DOMAIN entries /\ UNCHANGED harmed
    BY <1>1 DEF IInv, WorldInv, history
  <2> QED
    BY <1>1, <1>2, <2>1, <2>3, <2>4, <2>8, <2>11, <2>12, PayloadMoves
<1> DEFINE clean == payload.mode = "empty_only" /\ ~handler.before
<1>6. CASE /\ payloads' = [payloads EXCEPT ![working].mutated = @ /\ ~clean]
           /\ handler' = ToFail([handler EXCEPT !.mutated = @ /\ ~clean], "permanent")
           /\ UNCHANGED faults
  <2>1. PICK mutated \in BOOLEAN : mutated = ~clean
    OBVIOUS
  <2>2. mutated \/ ~handler.before
    BY <2>1
  <2>3. (handler.mutated /\ ~clean) = mutated /\ (payloads[working].mutated /\ ~clean) = mutated
    <3>1. handler.mutated = TRUE /\ payloads[working].mutated = TRUE
      BY <1>2, <1>3 DEF Payload, Handler
    <3> QED
      BY <2>1, <3>1
  <2> HIDE DEF clean
  <2>4. /\ payloads' = [payloads EXCEPT ![working] = [payload EXCEPT !.mutated = mutated]]
        /\ handler' = ToFail([handler EXCEPT !.mutated = mutated], "permanent")
    BY <1>2, <1>6, <2>3
  <2> QED
    BY <1>5, <1>6, <2>2, <2>4
<1> QED
  BY <1>4, <1>6 DEF DropRefused
-----------------------------------------------------------------------------
(* The steps that touch the bucket in R2.                                  *)

\* Whatever these steps delete, the stored payload of the fence's job says so.
LEMMA HarmMoves ==
    ASSUME IInv, handler.pc \in {"wipe", "drop"}, remote' \in RemoteBucket,
           remote'.born \in {remote.born, 0}, remote'.born = 0 => remote'.items = {},
           harmed' \in {harmed, harmed \union ({bucket.id} \ {0})}, UNCHANGED unmarked,
           Local, UNCHANGED <<payloads, bucket, indexVars>>, Fault \/ UNCHANGED faults,
           HandlerInv(handler)'
    PROVE  IInv'
<1>1. faults' \in 0..MaxFaults /\ UNCHANGED <<queueVars, drawn, remade, request>>
  BY FaultType DEF Local, IInv
<1>2. /\ HandlerInv(handler) /\ payloads[working].mutated
      /\ bucket.id # 0 => Owned(handler.local)
      /\ bucket \in Registration /\ bucket.id <= drawn
  BY AtWork DEF Busied, HandlerInv, FenceHeld, PastFence, MarkKept, Marked, IInv, FenceInv
<1>3. FenceInv'
  BY <1>1, <1>2 DEF IInv, FenceInv, Open, Owned, queueVars
<1>4. WorldInv'
  <2>1. bucket.id \in {0} \union 1..drawn
    BY <1>2, DeletionAssumption DEF IInv, WorldInv, Registration
  <2>2. harmed' \subseteq 1..drawn
    BY <2>1 DEF IInv, WorldInv
  <2>3. remote'.born <= remade
    BY DeletionAssumption DEF IInv, WorldInv
  <2> QED
    BY <1>1, <2>2, <2>3 DEF IInv, WorldInv, queueVars, indexVars
<1>5. JobsInv' /\ RequestInv'
  BY <1>1 DEF IInv, JobsInv, RequestInv, Open, queueVars
<1>6. SucceededMeansGone'
  BY <1>1 DEF IInv, SucceededMeansGone, JobsInv, queueVars
<1> QED
  BY <1>3, <1>4, <1>5, <1>6 DEF IInv

\* A bucket that goes away stays gone for who has seen it gone.
LEMMA HarmKeeps ==
    ASSUME IInv, working # 0, NEW h, HandlerInv(h), handler' = h, ~Dropping(h), h.pc # "wipe",
           remote'.born \in {remote.born, 0},
           Local, UNCHANGED <<payloads, bucket, indexVars, unmarked>>
    PROVE  HandlerInv(handler)'
<1>1. UNCHANGED <<entries, working, payloads, bucket, rows, intents, unmarked>>
  BY DEF Local, queueVars, indexVars
<1>2. payloads[working].born # 0 \/ payloads[working].missing
  BY WorkedJob DEF IInv, JobsInv
<1> QED
  BY <1>1, <1>2 DEF HandlerInv, Shape, FenceHeld, MarkKept, RightBucket, Owned, Busy, Touches,
                    Gone, Dropping

LEMMA WipeStep == IInv /\ Wipe => IInv'
<1> SUFFICES ASSUME IInv, Wipe PROVE IInv'
  OBVIOUS
<1>1. /\ handler.pc = "wipe" /\ remote.born # 0 /\ Local
      /\ UNCHANGED <<payloads, bucket, indexVars, faults>>
  BY DEF Wipe, Doing
<1>2. /\ working # 0 /\ handler \in Handler /\ HandlerInv(handler) /\ Busied(handler)
      /\ PastFence(handler) /\ handler.mutated
  BY <1>1, AtWork, MarkedMutated DEF Busied, PastFence, Marked
<1>3. PICK next \in {"wipe", "confirm", "drop"}, cleared \in BOOLEAN :
          handler' = [handler EXCEPT !.pc = "verify", !.next = next, !.cleared = cleared]
  BY DEF Wipe
<1> DEFINE k == [handler EXCEPT !.pc = "verify", !.next = next, !.cleared = cleared]
<1>4. PICK h : h = k
  OBVIOUS
<1>5. /\ h \in Handler /\ h.pc = "verify" /\ h.next = next
      /\ h.local = handler.local /\ h.mutated = handler.mutated /\ h.fenced = handler.fenced
  BY <1>2, <1>4 DEF Handler, Steps, Nexts
<1>6. handler' = h
  BY <1>3, <1>4
<1> HIDE DEF k
<1>7. HandlerInv(h)
  <2>1. h.local = 0 => bucket.id = 0
    BY <1>2, <1>5, NoRegistration
  <2> QED
    BY <1>1, <1>2, <1>5, <2>1, MovesOn DEF Routes, PastFence, PastSettling, Marked, Dropping
<1>8. CASE remote.items = {}
  BY <1>1, <1>6, <1>7, <1>8, HandlerMoves DEF Wipe, OnlyHandler
<1>9. CASE remote.items # {}
  <2>1. /\ remote' = [remote EXCEPT !.items = {}]
        /\ harmed' = harmed \union ({bucket.id} \ {0}) /\ UNCHANGED unmarked
    BY <1>9 DEF Wipe, Harm
  <2>2. remote' \in RemoteBucket /\ remote'.born = remote.born /\ remote'.items = {}
    BY <2>1 DEF IInv, WorldInv, RemoteBucket
  <2>3. HandlerInv(handler)'
    BY <1>1, <1>2, <1>5, <1>6, <1>7, <2>1, <2>2, HarmKeeps DEF Dropping
  <2> QED
    BY <1>1, <2>1, <2>2, <2>3, HarmMoves
<1> QED
  BY <1>8, <1>9

LEMMA WipePartlyStep == IInv /\ WipePartly => IInv'
<1> SUFFICES ASSUME IInv, WipePartly PROVE IInv'
  OBVIOUS
<1>1. /\ handler.pc = "wipe" /\ Local /\ Fault /\ UNCHANGED <<payloads, bucket, indexVars>>
      /\ harmed' \in {harmed, harmed \union ({bucket.id} \ {0})} /\ UNCHANGED unmarked
  BY DEF WipePartly, Doing, Harm, history
<1>2. /\ working # 0 /\ handler \in Handler /\ HandlerInv(handler) /\ Busied(handler)
  BY <1>1, AtWork DEF Busied
<1>3. PICK result \in {"retry", "permanent"} : handler' = ToFail(handler, result)
  BY DEF WipePartly, Failing
<1>4. PICK rest \in SUBSET remote.items : remote' = [remote EXCEPT !.items = rest]
  BY DEF WipePartly
<1>5. remote' \in RemoteBucket /\ remote'.born = remote.born /\ (remote.born = 0 => remote'.items = {})
  BY <1>4 DEF IInv, WorldInv, RemoteBucket
<1>6. HandlerInv(ToFail(handler, result)) /\ ToFail(handler, result).pc = "fail"
  BY <1>1, <1>2, FailInv, ToFailRecord
<1>7. HandlerInv(handler)'
  BY <1>1, <1>2, <1>3, <1>5, <1>6, HarmKeeps DEF Dropping
<1> QED
  BY <1>1, <1>5, <1>7, HarmMoves

\* What a deletion of the bucket, answered or not, makes of it.
LEMMA BucketDropped ==
    ASSUME WorldInv, remote.items = {}, remote' = [remote EXCEPT !.born = 0]
    PROVE  remote' \in RemoteBucket /\ remote'.born = 0 /\ remote'.items = {}
BY DeletionAssumption DEF WorldInv, RemoteBucket

LEMMA DropUnansweredStep == IInv /\ DropUnanswered => IInv'
<1> SUFFICES ASSUME IInv, DropUnanswered PROVE IInv'
  OBVIOUS
<1>1. /\ handler.pc = "drop" /\ Local /\ Fault /\ UNCHANGED <<payloads, bucket, indexVars>>
      /\ Goto("verify", "absent")
  BY DEF DropUnanswered, Doing
<1>2. /\ working # 0 /\ handler \in Handler /\ HandlerInv(handler) /\ Busied(handler)
      /\ PastFence(handler)
  BY <1>1, AtWork DEF Busied, PastFence
<1>3. CASE UNCHANGED <<remote, history>>
  BY <1>1, <1>3, Reverifies DEF Busied, PastSettling, OnlyHandler
<1>4. CASE remote.items = {} /\ remote' = [remote EXCEPT !.born = 0] /\ Harm
  <2>1. remote' \in RemoteBucket /\ remote'.born = 0 /\ remote'.items = {}
    BY <1>4, BucketDropped DEF IInv
  <2> DEFINE k == [handler EXCEPT !.pc = "verify", !.next = "absent"]
  <2>2. PICK h : h = k
    OBVIOUS
  <2>3. /\ h \in Handler /\ h.pc = "verify" /\ h.next = "absent"
        /\ h.local = handler.local /\ h.mutated = handler.mutated /\ h.fenced = handler.fenced
    BY <1>2, <2>2 DEF Handler, Steps, Nexts
  <2>4. handler' = h
    BY <1>1, <2>2 DEF Goto
  <2> HIDE DEF k
  <2>5. HandlerInv(h)
    <3>1. h.local = 0 => bucket.id = 0
      BY <1>2, <2>3, NoRegistration
    <3> QED
      BY <1>1, <1>2, <2>3, <3>1, MovesOn DEF Routes, PastFence, PastSettling, Marked, Dropping
  <2>6. HandlerInv(handler)'
    BY <1>1, <1>2, <1>4, <2>1, <2>3, <2>4, <2>5, HarmKeeps DEF Dropping, Harm
  <2> QED
    BY <1>1, <1>4, <2>1, <2>6, HarmMoves DEF Harm
<1> QED
  BY <1>3, <1>4 DEF DropUnanswered

LEMMA DropAnsweredStep == IInv /\ DropAnswered => IInv'
<1> SUFFICES ASSUME IInv, DropAnswered PROVE IInv'
  OBVIOUS
<1>1. /\ handler.pc = "drop" /\ Local /\ UNCHANGED <<payloads, bucket, indexVars, faults>>
      /\ remote.items = {} /\ remote' = [remote EXCEPT !.born = 0] /\ Harm
      /\ UNCHANGED <<queueVars, drawn, remade, request>>
  BY DEF DropAnswered, Doing, Local
<1>2. /\ working # 0 /\ handler \in Handler /\ HandlerInv(handler) /\ Busied(handler)
      /\ PastFence(handler) /\ handler.local = payloads[working].local /\ handler.mutated
  BY <1>1, AtWork, MarkedMutated DEF Busied, PastFence, Marked
<1>3. remote' \in RemoteBucket /\ remote'.born = 0 /\ remote'.items = {}
  BY <1>1, BucketDropped DEF IInv
<1>4. Gone(working)'
  BY <1>1, <1>2, <1>3, WorkedJob DEF Gone, IInv, JobsInv, queueVars
<1>5. handler.fenced \/ handler.local = 0
  BY <1>2 DEF HandlerInv, FenceHeld
<1>6. CASE handler.fenced /\ Goto("mark", "finalize")
  <2>1. /\ handler' \in Handler /\ handler'.pc = "mark" /\ handler'.next = "finalize"
        /\ handler'.local = handler.local /\ handler'.mutated = handler.mutated /\ handler'.fenced
    BY <1>2, <1>6 DEF Goto, Handler, Steps, Nexts
  <2>2. HandlerInv(handler)'
    <3>1. UNCHANGED <<working, payloads, bucket, rows, intents, unmarked>>
      BY <1>1 DEF queueVars, indexVars, Harm
    <3>2. Shape(handler)'
      BY <1>2, <2>1, <3>1 DEF HandlerInv, Shape, Routes, Busied
    <3>3. FenceHeld(handler)'
      BY <1>1, <1>2, <1>6, <2>1, <3>1
         DEF HandlerInv, FenceHeld, Busied, PastFence, PastSettling, Owned, Busy, Touches
    <3>4. MarkKept(handler)'
      BY <1>1, <1>2, <2>1, <3>1 DEF HandlerInv, MarkKept, Busied, Marked, Dropping
    <3>5. RightBucket(handler)'
      BY <1>4, <2>1 DEF RightBucket, Dropping
    <3> QED
      BY <3>2, <3>3, <3>4, <3>5 DEF HandlerInv
  <2> QED
    BY <1>1, <1>3, <2>2, HarmMoves DEF Harm
<1>7. CASE handler.local = 0 /\ Return("success")
  <2> DEFINE k == [Idle EXCEPT !.pc = "return", !.result = "success"]
  <2>1. PICK h : h = k
    OBVIOUS
  <2>2. h \in Handler /\ h.pc = "return" /\ h.result = "success"
    BY <2>1, IdleRecord DEF Handler, Steps
  <2>3. handler' = h
    BY <1>7, <2>1 DEF Return
  <2> HIDE DEF k
  <2>4. HandlerInv(handler)'
    BY <1>1, <1>2, <1>4, <1>7, <2>2, <2>3
       DEF HandlerInv, Shape, FenceHeld, MarkKept, RightBucket, Routes, Busied, PastFence,
           PastSettling, Marked, Dropping, queueVars
  <2> QED
    BY <1>1, <1>3, <2>4, HarmMoves DEF Harm
<1> QED
  BY <1>2, <1>5, <1>6, <1>7 DEF DropAnswered
-----------------------------------------------------------------------------
(* Uploads, other tools and requests, while a handler works or not.        *)

\* What others do leaves a handler what it has established, unless it makes a
\* fenced bucket busy or recreates the bucket.
LEMMA WorldMoves ==
    ASSUME IInv, UNCHANGED <<queueVars, payloads, bucket, drawn, handler, history>>,
           WorldInv', RequestInv', remade <= remade',
           bucket.state # "active" /\ Busy' => Busy,
           \/ remote'.born \in {remote.born, 0}
           \/ remote'.born > remade /\ ~AboutToDelete
    PROVE  IInv'
<1>1. UNCHANGED <<entries, working, payloads, bucket, drawn, handler, harmed, unmarked>>
  BY DEF queueVars, history
<1>2. remade \in Nat /\ remade' \in Nat /\ remote.born \in Nat /\ remote'.born \in Nat
  BY DeletionAssumption DEF IInv, WorldInv, RemoteBucket
<1>3. \A j \in DOMAIN entries : payloads[j].born \in Nat
  BY RowsOfQueue, DeletionAssumption DEF IInv, Payload
<1>4. JobsInv'
  BY <1>1, <1>2, <1>3 DEF IInv, JobsInv, Open
<1>5. FenceInv'
  BY <1>1 DEF IInv, FenceInv, Open
<1>6. \A j \in DOMAIN entries : Gone(j) => Gone(j)'
  BY <1>1, <1>2, <1>3 DEF IInv, JobsInv, Gone
<1>7. SucceededMeansGone'
  BY <1>1, <1>6 DEF IInv, SucceededMeansGone, Gone
<1>8. HandlerInv(handler)'
  <2>1. Shape(handler)' /\ MarkKept(handler)'
    BY <1>1 DEF IInv, HandlerInv, Shape, MarkKept
  <2>2. FenceHeld(handler)'
    <3>1. PastSettling(handler) /\ handler.fenced => bucket.state # "active" /\ ~Busy'
      BY DEF IInv, HandlerInv, FenceHeld, Owned, PastSettling, Busied
    <3> QED
      BY <1>1, <3>1 DEF IInv, HandlerInv, FenceHeld, Owned
  <2>3. RightBucket(handler)'
    <3>1. handler.pc = "wipe" \/ Dropping(handler) => remote'.born \in {remote.born, 0}
      BY DEF AboutToDelete, Dropping
    <3>2. handler.pc = "wipe" \/ Dropping(handler) => ~IdentityChanged'
      BY <1>1, <3>1 DEF IInv, HandlerInv, RightBucket, IdentityChanged, payload
    <3>3. working # 0 /\ Gone(working) => Gone(working)'
      BY <1>1, <1>6, WorkedJob DEF Gone
    <3>4. handler.pc \in {"finalize", "mark", "return"} => working # 0
      BY DEF IInv, HandlerInv, Shape
    <3> QED
      BY <1>1, <3>2, <3>3, <3>4 DEF IInv, HandlerInv, RightBucket, Gone, Dropping
  <2> QED
    BY <2>1, <2>2, <2>3 DEF HandlerInv
<1> QED
  BY <1>4, <1>5, <1>7, <1>8 DEF IInv

\* What stays of the index and of the world when only intents or rows change.
LEMMA IndexMoves ==
    ASSUME IInv, UNCHANGED <<queueVars, payloads, bucket, drawn, remade, request, handler, faults, history>>,
           rows' \in [Keys -> {None, "here", "there"}], intents' \in [Keys -> Intent \union {None}],
           remote' \in RemoteBucket, remote'.born = remote.born, remote.born = 0 => remote'.items = {},
           \A k \in Keys : bucket.state # "active" /\ Touches(k)' => Touches(k)
    PROVE  IInv'
<1>1. WorldInv' /\ RequestInv' /\ remade <= remade'
  BY DeletionAssumption DEF IInv, WorldInv, RequestInv, queueVars, history
<1>2. bucket.state # "active" /\ Busy' => Busy
  BY DEF Busy
<1> QED
  BY <1>1, <1>2, WorldMoves

LEMMA BeginWriteStep ==
    ASSUME IInv, NEW k \in Keys, NEW to \in {"here", "there"}, BeginWrite(k, to)
    PROVE  IInv'
<1>1. /\ intents' = [intents EXCEPT ![k] = [to |-> to, live |-> TRUE, stored |-> FALSE]]
      /\ UNCHANGED <<queueVars, payloads, bucket, drawn, remote, remade, rows, request, handler, faults, history>>
      /\ rows[k] = "here" \/ to = "here" => bucket.state = "active"
  BY DEF BeginWrite
<1>2. [to |-> to, live |-> TRUE, stored |-> FALSE] \in Intent
  BY DEF Intent
<1>3. intents' \in [Keys -> Intent \union {None}] /\ rows' \in [Keys -> {None, "here", "there"}]
  BY <1>1, <1>2 DEF IInv, WorldInv
<1>4. ASSUME NEW i \in Keys, bucket.state # "active", Touches(i)' PROVE Touches(i)
  BY <1>1, <1>4 DEF Touches, IInv, WorldInv
<1> QED
  BY <1>1, <1>3, <1>4, IndexMoves DEF IInv, WorldInv

\* An intent that is updated touches no more than before.
LEMMA IntentUpdated ==
    ASSUME WorldInv, NEW k \in Keys, intents[k] # None, NEW b \in BOOLEAN,
           rows' = rows,
           \/ intents' = [intents EXCEPT ![k].stored = b]
           \/ intents' = [intents EXCEPT ![k].live = b]
    PROVE  /\ intents' \in [Keys -> Intent \union {None}]
           /\ \A i \in Keys : Touches(i)' => Touches(i)
<1>1. intents[k] \in Intent /\ intents \in [Keys -> Intent \union {None}]
  BY DEF WorldInv
<1>2. PICK v \in Intent : v.to = intents[k].to /\ intents' = [intents EXCEPT ![k] = v]
  <2>1. CASE intents' = [intents EXCEPT ![k].stored = b]
    <3> DEFINE v == [intents[k] EXCEPT !.stored = b]
    <3>1. v \in Intent /\ v.to = intents[k].to
      BY <1>1 DEF Intent
    <3> QED
      BY <2>1, <3>1
  <2>2. CASE intents' = [intents EXCEPT ![k].live = b]
    <3> DEFINE v == [intents[k] EXCEPT !.live = b]
    <3>1. v \in Intent /\ v.to = intents[k].to
      BY <1>1 DEF Intent
    <3> QED
      BY <2>2, <3>1
  <2> QED
    BY <2>1, <2>2
<1> QED
  BY <1>1, <1>2 DEF Touches

\* An intent that is settled touches nothing any more.
LEMMA IntentSettled ==
    ASSUME WorldInv, NEW k \in Keys, intents[k] # None, intents' = [intents EXCEPT ![k] = None],
           \/ rows' = rows
           \/ rows' = [rows EXCEPT ![k] = intents[k].to]
    PROVE  /\ intents' \in [Keys -> Intent \union {None}]
           /\ rows' \in [Keys -> {None, "here", "there"}]
           /\ \A i \in Keys : Touches(i)' => Touches(i)
<1>1. intents[k].to \in {"here", "there"}
  BY DEF WorldInv, Intent
<1> QED
  BY <1>1 DEF WorldInv, Touches

LEMMA UploadStep ==
    ASSUME IInv, NEW k \in Keys, Upload(k)
    PROVE  IInv'
<1>1. /\ intents[k] # None /\ intents' = [intents EXCEPT ![k].stored = TRUE]
      /\ UNCHANGED <<queueVars, payloads, bucket, drawn, remade, rows, request, handler, faults, history>>
      /\ \/ remote' = remote
         \/ remote.born # 0 /\ remote' = [remote EXCEPT !.items = @ \union {k}]
  BY DEF Upload, Live
<1>2. /\ remote' \in RemoteBucket /\ remote'.born = remote.born
      /\ remote.born = 0 => remote'.items = {}
  BY <1>1 DEF IInv, WorldInv, RemoteBucket
<1>3. /\ intents' \in [Keys -> Intent \union {None}]
      /\ \A i \in Keys : Touches(i)' => Touches(i)
  BY <1>1, IntentUpdated DEF IInv
<1> QED
  BY <1>1, <1>2, <1>3, IndexMoves DEF IInv, WorldInv

LEMMA LeaveWriteStep ==
    ASSUME IInv, NEW k \in Keys, LeaveWrite(k)
    PROVE  IInv'
<1>1. /\ intents[k] # None /\ intents' = [intents EXCEPT ![k].live = FALSE]
      /\ UNCHANGED <<queueVars, payloads, bucket, drawn, remote, remade, rows, request, handler, faults, history>>
  BY DEF LeaveWrite, Live
<1>2. /\ intents' \in [Keys -> Intent \union {None}]
      /\ \A i \in Keys : Touches(i)' => Touches(i)
  BY <1>1, IntentUpdated DEF IInv
<1> QED
  BY <1>1, <1>2, IndexMoves DEF IInv, WorldInv

LEMMA FinishWriteStep ==
    ASSUME IInv, NEW k \in Keys, FinishWrite(k)
    PROVE  IInv'
<1>1. /\ intents[k] # None /\ intents' = [intents EXCEPT ![k] = None]
      /\ rows' = rows \/ rows' = [rows EXCEPT ![k] = intents[k].to]
      /\ UNCHANGED <<queueVars, payloads, bucket, drawn, remote, remade, request, handler, faults, history>>
  BY DEF FinishWrite, Live, Settle
<1> QED
  BY <1>1, IntentSettled, IndexMoves DEF IInv, WorldInv

LEMMA SettleIntentStep ==
    ASSUME IInv, NEW k \in Keys, SettleIntent(k)
    PROVE  IInv'
<1>1. /\ intents[k] # None /\ intents' = [intents EXCEPT ![k] = None]
      /\ rows' = rows \/ rows' = [rows EXCEPT ![k] = intents[k].to]
      /\ UNCHANGED <<queueVars, payloads, bucket, drawn, remote, remade, request, handler, faults, history>>
  BY DEF SettleIntent, Touches, Settle, Local
<1> QED
  BY <1>1, IntentSettled, IndexMoves DEF IInv, WorldInv

LEMMA ExternalStep ==
    ASSUME IInv, PutExternal \/ DropExternal \/ Recreate
    PROVE  IInv'
<1>1. UNCHANGED <<queueVars, payloads, bucket, drawn, indexVars, request, handler, faults, history>>
  BY DEF PutExternal, DropExternal, Recreate
<1>2. /\ remote' \in RemoteBucket /\ remade' \in 0..MaxBorn /\ remote'.born <= remade'
      /\ remade <= remade' /\ (remote'.born = 0 => remote'.items = {})
      /\ \/ remote'.born \in {remote.born, 0}
         \/ remote'.born > remade /\ ~AboutToDelete
  <2>1. CASE PutExternal
    BY <2>1, DeletionAssumption DEF PutExternal, IInv, WorldInv, RemoteBucket
  <2>2. CASE DropExternal
    BY <2>2, DeletionAssumption DEF DropExternal, IInv, WorldInv, RemoteBucket
  <2>3. CASE Recreate
    BY <2>3, DeletionAssumption DEF Recreate, IInv, WorldInv, RemoteBucket
  <2> QED
    BY <2>1, <2>2, <2>3
<1>3. WorldInv' /\ RequestInv'
  BY <1>1, <1>2 DEF IInv, WorldInv, RequestInv, queueVars, indexVars, history
<1>4. Busy' => Busy
  BY <1>1 DEF Busy, Touches, indexVars
<1> QED
  BY <1>1, <1>2, <1>3, <1>4, WorldMoves

LEMMA RequestStep ==
    ASSUME IInv, ReadRegistration \/ RefuseRequest
    PROVE  IInv'
<1>1. UNCHANGED <<queueVars, payloads, bucket, drawn, remote, remade, indexVars, handler, faults, history>>
  BY DEF ReadRegistration, RefuseRequest
<1>2. RequestInv'
  <2>1. CASE RefuseRequest
    BY <2>1 DEF RefuseRequest, RequestInv
  <2>2. CASE ReadRegistration
    <3>1. request' = [bucket EXCEPT !.lock = 0] /\ 0 \in 0..MaxJobs
      BY <2>2, DeletionAssumption DEF ReadRegistration
    <3>2. /\ request' \in Registration /\ request'.id = bucket.id
          /\ request'.state = bucket.state /\ request'.job = bucket.job
      BY <3>1 DEF IInv, FenceInv, Registration
    <3> QED
      BY <1>1, <3>2 DEF IInv, FenceInv, RequestInv, queueVars
  <2> QED
    BY <2>1, <2>2
<1>3. WorldInv' /\ (Busy' => Busy) /\ remade <= remade'
  BY <1>1, DeletionAssumption DEF IInv, WorldInv, Busy, Touches, queueVars, indexVars, history
<1> QED
  BY <1>1, <1>2, <1>3, WorldMoves
-----------------------------------------------------------------------------
(* Registrations and jobs.                                                 *)

\* While no handler works, nothing is required of it.
LEMMA NobodyWorks ==
    ASSUME handler' = Idle, working' = 0
    PROVE  HandlerInv(handler)'
<1>1. PICK h : h = Idle
  OBVIOUS
<1>2. h \in Handler /\ h.pc = "idle" /\ ~h.fenced /\ h.next = "none" /\ handler' = h
  BY <1>1, IdleRecord
<1> QED
  BY <1>2 DEF HandlerInv, Shape, FenceHeld, MarkKept, RightBucket, Routes, Busied, PastFence,
              PastSettling, Marked, Dropping

\* No job is open: no handler works.
LEMMA NobodyOpen ==
    ASSUME IInv, \A j \in DOMAIN entries : ~Open(j)
    PROVE  working = 0 /\ handler.pc = "idle"
BY DEF IInv, JobsInv, HandlerInv, Shape

LEMMA CreateStep == IInv /\ CreateBucket => IInv'
<1> SUFFICES ASSUME IInv, CreateBucket PROVE IInv'
  OBVIOUS
<1>1. /\ bucket.id = 0 /\ drawn < MaxIds /\ drawn' = drawn + 1
      /\ bucket' = [Unregistered EXCEPT !.id = drawn + 1]
      /\ UNCHANGED <<queueVars, payloads, remote, remade, indexVars, request, handler, faults, history>>
  BY DEF CreateBucket
<1>2. working = 0 /\ handler.pc = "idle"
  BY NobodyOpen DEF CreateBucket, DeletionOpen, Open
<1>3. drawn \in Nat /\ drawn' \in 0..MaxIds /\ harmed \subseteq 1..drawn
  BY <1>1, DeletionAssumption DEF IInv, WorldInv
<1>4. /\ bucket' \in Registration /\ bucket'.id = drawn' /\ bucket'.state = "active"
      /\ bucket'.lock = 0
  BY <1>1, <1>3, DeletionAssumption DEF Unregistered, Registration
<1>5. FenceInv'
  BY <1>1, <1>3, <1>4 DEF FenceInv, history
<1>6. WorldInv'
  BY <1>1, <1>3 DEF IInv, WorldInv, queueVars, indexVars, history
<1>7. RequestInv'
  BY <1>1, <1>3, DeletionAssumption DEF IInv, RequestInv, Registration, queueVars
<1>8. \A j \in DOMAIN entries : payloads[j].local \in Nat /\ payloads[j].local <= drawn
  BY RowsOfQueue, DeletionAssumption DEF IInv, JobsInv, Payload
<1>9. JobsInv'
  BY <1>1, <1>3, <1>8 DEF IInv, JobsInv, Open, queueVars
<1>10. SucceededMeansGone'
  BY <1>1, <1>3, <1>4, <1>8 DEF IInv, SucceededMeansGone, queueVars
<1>11. HandlerInv(handler)'
  BY <1>1, <1>2 DEF IInv, HandlerInv, Shape, FenceHeld, MarkKept, RightBucket, Routes, Busied,
                    PastFence, PastSettling, Marked, Dropping, queueVars
<1> QED
  BY <1>5, <1>6, <1>7, <1>9, <1>10, <1>11 DEF IInv

\* A bucket in use is forgotten: no job has fenced it.
LEMMA DeleteStep == IInv /\ DeleteBucket => IInv'
<1> SUFFICES ASSUME IInv, DeleteBucket PROVE IInv'
  OBVIOUS
<1>1. /\ bucket.id # 0 /\ bucket.state = "active" /\ bucket' = Unregistered
      /\ UNCHANGED <<queueVars, payloads, drawn, remote, remade, indexVars, request, handler, faults, history>>
  BY DEF DeleteBucket
<1>2. /\ bucket' \in Registration /\ bucket'.id = 0 /\ bucket'.state = "active" /\ bucket'.lock = 0
  BY <1>1, DeletionAssumption DEF Unregistered, Registration
<1>3. drawn \in Nat /\ harmed \subseteq 1..drawn
  BY DeletionAssumption DEF IInv, WorldInv
<1>4. FenceInv'
  BY <1>1, <1>2, <1>3 DEF FenceInv, history
<1>5. WorldInv' /\ RequestInv' /\ JobsInv'
  BY <1>1 DEF IInv, WorldInv, RequestInv, JobsInv, Open, queueVars, indexVars, history
<1>6. SucceededMeansGone'
  BY <1>1, <1>2 DEF IInv, SucceededMeansGone, queueVars
<1>7. ~(Busied(handler) /\ handler.fenced)
  BY <1>1 DEF IInv, HandlerInv, FenceHeld, Owned
<1>8. HandlerInv(handler)'
  <2>1. UNCHANGED <<working, payloads, remote, handler, harmed, unmarked>>
    BY <1>1 DEF queueVars, history
  <2>2. Shape(handler)'
    BY <2>1 DEF IInv, HandlerInv, Shape
  <2>3. FenceHeld(handler)'
    BY <1>2, <1>7, <2>1 DEF IInv, HandlerInv, FenceHeld, Busied, PastSettling
  <2>4. MarkKept(handler)'
    BY <1>2, <1>3, <2>1 DEF IInv, HandlerInv, MarkKept
  <2>5. RightBucket(handler)'
    BY <1>2, <2>1 DEF IInv, HandlerInv, RightBucket, IdentityChanged, payload, Gone
  <2> QED
    BY <2>2, <2>3, <2>4, <2>5 DEF HandlerInv
<1> QED
  BY <1>4, <1>5, <1>6, <1>8 DEF IInv

\* What a job is asked to delete: the bucket there is, or what a failed job left.
LEMMA RequestedPayload ==
    ASSUME IInv, NEW mode \in Modes, EnqueueDeletion(mode)
    PROVE  \E p \in Payload :
              /\ payloads' = Append(payloads, p)
              /\ p.born <= remade /\ p.local <= drawn /\ (p.born # 0 \/ p.missing)
              /\ p.parent # 0 =>
                    /\ p.parent \in DOMAIN entries /\ entries[p.parent].state = "failed"
                    /\ payloads[p.parent].mutated => p.mutated
<1>1. /\ request # None /\ request \in Registration /\ request.id <= drawn
      /\ payloads' = Append(payloads, NewPayload(mode))
  BY DEF EnqueueDeletion, IInv, RequestInv
<1>2. CASE request.state = "active"
  <2> DEFINE p == [born |-> remote.born, missing |-> remote.born = 0, local |-> request.id,
                   mode |-> mode, parent |-> 0, mutated |-> FALSE]
  <2>1. 0 \in 0..MaxJobs /\ remote.born \in 0..MaxBorn /\ remote.born <= remade
    BY DeletionAssumption DEF IInv, WorldInv, RemoteBucket
  <2>2. p \in Payload
    BY <1>1, <2>1 DEF Payload, Registration
  <2>3. p.born <= remade /\ p.local <= drawn /\ (p.born # 0 \/ p.missing) /\ p.parent = 0
    BY <1>1, <2>1
  <2>4. payloads' = Append(payloads, p)
    BY <1>1, <1>2 DEF NewPayload
  <2> HIDE DEF p
  <2> QED
    BY <2>2, <2>3, <2>4
<1>3. CASE request.state # "active"
  <2>1. PICK i : i = request.job
    OBVIOUS
  <2>2. i \in DOMAIN entries /\ entries[i].state = "failed" /\ i \in 0..MaxJobs
    BY <1>1, <1>3, <2>1, RowsOfQueue, DeletionAssumption DEF EnqueueDeletion, Resumable, IInv, RequestInv
  <2>3. payloads[i] \in Payload /\ payloads[i].born <= remade /\ (payloads[i].born # 0 \/ payloads[i].missing)
    BY <2>2, RowsOfQueue DEF IInv, JobsInv
  <2> DEFINE p == [payloads[i] EXCEPT !.local = request.id, !.mode = mode, !.parent = i]
  <2>4. /\ p \in Payload /\ p.born = payloads[i].born /\ p.missing = payloads[i].missing
        /\ p.local = request.id /\ p.parent = i /\ p.mutated = payloads[i].mutated
    BY <1>1, <2>2, <2>3 DEF Payload, Registration
  <2>5. payloads' = Append(payloads, p)
    BY <1>1, <1>3, <2>1 DEF NewPayload
  <2> HIDE DEF p
  <2> QED
    BY <1>1, <2>2, <2>3, <2>4, <2>5
<1> QED
  BY <1>2, <1>3

LEMMA EnqueueStep ==
    ASSUME IInv, NEW mode \in Modes, EnqueueDeletion(mode)
    PROVE  IInv'
<1>1. /\ Len(entries) < MaxJobs /\ Queue!Ask(Name) /\ request' = None
      /\ UNCHANGED <<bucket, drawn, remote, remade, indexVars, handler, faults, history>>
  BY DEF EnqueueDeletion
<1>2. PICK p \in Payload :
              /\ payloads' = Append(payloads, p)
              /\ p.born <= remade /\ p.local <= drawn /\ (p.born # 0 \/ p.missing)
              /\ p.parent # 0 =>
                    /\ p.parent \in DOMAIN entries /\ entries[p.parent].state = "failed"
                    /\ payloads[p.parent].mutated => p.mutated
  BY RequestedPayload
<1>3. \A j \in DOMAIN entries : ~Open(j)
  BY <1>1, DeletionAssumption DEF Queue!Ask, Queue!Open, Open, IInv, JobsInv
<1>4. working = 0 /\ handler.pc = "idle" /\ working' = 0
  BY <1>1, <1>3, NobodyOpen DEF Queue!Ask
<1> DEFINE n == Len(entries) + 1
<1>5. PICK e \in Queue!Entry : e.resource = Name /\ e.state = "open" /\ entries' = Append(entries, e)
  <2>1. [resource |-> Name, state |-> "open"] \in Queue!Entry
    BY DEF Queue!Entry
  <2> QED
    BY <1>1, <2>1 DEF Queue!Ask
<1>6. /\ Len(entries) \in Nat /\ DOMAIN entries = 1..Len(entries) /\ DOMAIN payloads = 1..Len(entries)
      /\ payloads \in Seq(Payload) /\ entries \in Seq(Queue!Entry) /\ Len(payloads) = Len(entries)
  BY RowsOfQueue, LenProperties DEF IInv, JobsInv
<1>7. /\ entries' \in Seq(Queue!Entry) /\ DOMAIN entries' = 1..n /\ Len(entries') = n
      /\ entries'[n] = e /\ \A j \in DOMAIN entries : entries'[j] = entries[j]
  BY <1>5, <1>6, AppendProperties
<1>8. /\ payloads' \in Seq(Payload) /\ DOMAIN payloads' = 1..n
      /\ payloads'[n] = p /\ \A j \in DOMAIN entries : payloads'[j] = payloads[j]
  BY <1>2, <1>6, AppendProperties
<1>9. /\ \A j \in DOMAIN entries' : j = n \/ j \in DOMAIN entries
      /\ \A j \in DOMAIN entries : j # n /\ j < n /\ j \in DOMAIN entries'
      /\ n # 0 /\ n <= MaxJobs
  BY <1>1, <1>6, <1>7, DeletionAssumption
<1> HIDE DEF n
<1>10. JobsInv'
  <2>1. /\ DOMAIN payloads' = DOMAIN entries' /\ Len(entries') <= MaxJobs
        /\ UNCHANGED <<remade, drawn>>
    BY <1>1, <1>7, <1>8, <1>9
  <2>2. ASSUME NEW j \in DOMAIN entries
        PROVE  /\ entries'[j].resource = Name /\ ~Open(j)'
               /\ payloads'[j].born <= remade /\ payloads'[j].local <= drawn
               /\ payloads'[j].born # 0 \/ payloads'[j].missing
               /\ payloads'[j].parent # 0 =>
                     /\ payloads'[j].parent \in DOMAIN entries' /\ payloads'[j].parent < j
                     /\ entries'[payloads'[j].parent].state = "failed"
    BY <1>3, <1>7, <1>8, <1>9 DEF IInv, JobsInv, Open
  <2>3. /\ entries'[n].resource = Name
        /\ payloads'[n].born <= remade /\ payloads'[n].local <= drawn
        /\ payloads'[n].born # 0 \/ payloads'[n].missing
        /\ payloads'[n].parent # 0 =>
              /\ payloads'[n].parent \in DOMAIN entries' /\ payloads'[n].parent < n
              /\ entries'[payloads'[n].parent].state = "failed"
    BY <1>2, <1>5, <1>7, <1>8, <1>9
  <2> QED
    BY <1>4, <1>7, <1>8, <1>9, <2>1, <2>2, <2>3 DEF JobsInv
<1>11. FenceInv'
  <2>1. ASSUME bucket.state # "active"
        PROVE  /\ bucket.job \in DOMAIN entries'
               /\ entries'[bucket.job] = entries[bucket.job]
               /\ payloads'[bucket.job] = payloads[bucket.job]
               /\ bucket.job \in DOMAIN entries
    BY <1>7, <1>8, <1>9, <2>1 DEF IInv, FenceInv
  <2>2. ASSUME bucket.state # "active", payloads[bucket.job].mutated, NEW j \in DOMAIN entries',
               Open(j)', payloads'[j].parent = bucket.job
        PROVE  payloads'[j].mutated
    <3>1. j = n
      BY <1>3, <1>7, <1>9, <2>2 DEF Open
    <3>2. bucket.job # 0
      BY <1>6, <2>1, <2>2
    <3> QED
      BY <1>2, <1>8, <2>2, <3>1, <3>2
  <2> QED
    BY <1>1, <2>1, <2>2 DEF IInv, FenceInv, history
<1>12. WorldInv' /\ RequestInv'
  BY <1>1, <1>9 DEF IInv, WorldInv, RequestInv, indexVars, history
<1>13. SucceededMeansGone'
  BY <1>1, <1>5, <1>7, <1>8, <1>9 DEF IInv, SucceededMeansGone
<1>14. HandlerInv(handler)'
  BY <1>1, <1>4 DEF IInv, HandlerInv, Shape, FenceHeld, MarkKept, RightBucket, Routes, Busied,
                    PastFence, PastSettling, Marked, Dropping
<1> QED
  BY <1>10, <1>11, <1>12, <1>13, <1>14 DEF IInv

LEMMA StartStep ==
    ASSUME IInv, NEW j \in DOMAIN entries, StartJob(j)
    PROVE  IInv'
<1>1. /\ working = 0 /\ Open(j) /\ working' = j /\ entries' = entries
      /\ UNCHANGED <<payloads, bucket, drawn, remote, remade, indexVars, request, faults, history>>
  BY DEF StartJob, Queue!Start, Queue!Open, Open
<1>2. payloads[j] \in Payload /\ j # 0
  BY RowsOfQueue DEF IInv
<1>3. PICK pc \in {"discover", "verify"}, fenced \in BOOLEAN :
          /\ handler' = [Idle EXCEPT !.pc = pc, !.next = "fence", !.local = payloads[j].local,
                                     !.mutated = payloads[j].mutated, !.fenced = fenced]
          /\ pc = "discover" <=> payloads[j].local = 0
          /\ fenced => /\ payloads[j].local # 0 /\ bucket.id = payloads[j].local
                       /\ bucket.state = "deleting" /\ bucket.job = j
  <2> DEFINE f == /\ payloads[j].local # 0 /\ bucket.id = payloads[j].local
                  /\ bucket.state = "deleting" /\ bucket.job = j
             c == IF payloads[j].local = 0 THEN "discover" ELSE "verify"
  <2>1. f \in BOOLEAN /\ c \in {"discover", "verify"} /\ (c = "discover" <=> payloads[j].local = 0)
    OBVIOUS
  <2>2. handler' = [Idle EXCEPT !.pc = c, !.next = "fence", !.local = payloads[j].local,
                                !.mutated = payloads[j].mutated, !.fenced = f]
    BY DEF StartJob
  <2> QED
    BY <2>1, <2>2
<1>4. /\ handler' \in Handler /\ handler'.pc = pc /\ handler'.next = "fence"
      /\ handler'.local = payloads[j].local /\ handler'.mutated = payloads[j].mutated
      /\ handler'.fenced = fenced
  BY <1>2, <1>3, IdleRecord DEF Handler, Steps, Nexts, Payload
<1>5. HandlerInv(handler)'
  BY <1>1, <1>2, <1>3, <1>4
     DEF HandlerInv, Shape, FenceHeld, MarkKept, RightBucket, Routes, Busied, PastFence,
         PastSettling, Marked, Dropping, Owned
<1>6. JobsInv' /\ FenceInv' /\ RequestInv' /\ WorldInv' /\ SucceededMeansGone'
  BY <1>1 DEF IInv, JobsInv, FenceInv, RequestInv, WorldInv, SucceededMeansGone, Open, indexVars, history
<1> QED
  BY <1>5, <1>6 DEF IInv

\* The job is given up for now.
LEMMA DropJob ==
    ASSUME IInv, Queue!Drop, handler' = Idle, Fault \/ UNCHANGED faults,
           UNCHANGED <<payloads, bucket, drawn, remote, remade, indexVars, request, history>>
    PROVE  IInv'
<1>1. working' = 0 /\ entries' = entries
  BY DEF Queue!Drop
<1>2. faults' \in 0..MaxFaults
  BY FaultType DEF IInv
<1>3. JobsInv' /\ FenceInv' /\ RequestInv' /\ WorldInv' /\ SucceededMeansGone'
  BY <1>1, <1>2 DEF IInv, JobsInv, FenceInv, RequestInv, WorldInv, SucceededMeansGone, Open, indexVars, history
<1> QED
  BY <1>1, <1>3, NobodyWorks DEF IInv

LEMMA EndStep == IInv /\ EndJob => IInv'
<1> SUFFICES ASSUME IInv, EndJob PROVE IInv'
  OBVIOUS
<1>1. /\ handler.pc = "return" /\ handler' = Idle
      /\ UNCHANGED <<payloads, bucket, drawn, remote, remade, indexVars, request, faults, history>>
  BY DEF EndJob, Doing
<1>2. CASE Queue!Drop
  BY <1>1, <1>2, DropJob
<1>3. ASSUME NEW state \in {"succeeded", "failed"}, Queue!End(state),
             state = "succeeded" => handler.result = "success"
      PROVE  IInv'
  <2>1. /\ working # 0 /\ Open(working) /\ entries' = [entries EXCEPT ![working].state = state]
        /\ working' = 0 /\ working \in DOMAIN entries
    BY <1>3, WorkedJob DEF Queue!End, Queue!Open, Open
  <2>2. state = "succeeded" =>
            /\ Gone(working)
            /\ payloads[working].local # 0 => bucket.id # payloads[working].local
    BY <1>1, <1>3 DEF IInv, HandlerInv, RightBucket
  <2> DEFINE q == [entries[working] EXCEPT !.state = state]
  <2>3. PICK e : e = q
    OBVIOUS
  <2>4. /\ e \in Queue!Entry /\ e.state = state /\ e.resource = entries[working].resource
        /\ entries' = [entries EXCEPT ![working] = e]
    BY <2>1, <2>3, WorkedJob DEF Queue!Entry
  <2> HIDE DEF q
  <2>5. /\ entries' \in Seq(Queue!Entry) /\ DOMAIN entries' = DOMAIN entries
        /\ Len(entries') = Len(entries)
        /\ \A j \in DOMAIN entries : entries'[j] = IF j = working THEN e ELSE entries[j]
    BY <2>1, <2>4, ExceptSeq DEF IInv, JobsInv
  <2>6. ASSUME NEW j \in DOMAIN entries, payloads[j].parent # 0
        PROVE  payloads[j].parent # working
    BY <2>1, <2>6 DEF IInv, JobsInv, Open
  <2>7. JobsInv'
    <3>1. \A j \in DOMAIN entries :
              /\ entries'[j].resource = Name
              /\ Open(j)' => j = Len(entries')
      BY <2>1, <2>4, <2>5, <1>3 DEF IInv, JobsInv, Open
    <3>2. \A j \in DOMAIN entries : payloads[j].parent # 0 =>
              /\ payloads[j].parent \in DOMAIN entries' /\ payloads[j].parent < j
              /\ entries'[payloads[j].parent].state = "failed"
      BY <2>5, <2>6 DEF IInv, JobsInv
    <3> QED
      BY <1>1, <2>1, <2>5, <3>1, <3>2 DEF IInv, JobsInv
  <2>8. FenceInv'
    <3>1. bucket.state # "active" =>
              /\ entries'[bucket.job].state # "succeeded" /\ bucket.job \in DOMAIN entries'
      BY <2>2, <2>4, <2>5 DEF IInv, FenceInv
    <3>2. \A j \in DOMAIN entries : Open(j)' => Open(j)
      BY <1>3, <2>4, <2>5 DEF Open
    <3> QED
      BY <1>1, <2>5, <3>1, <3>2 DEF IInv, FenceInv, history
  <2>9. WorldInv' /\ RequestInv'
    BY <1>1, <2>5 DEF IInv, WorldInv, RequestInv, indexVars, history
  <2>10. SucceededMeansGone'
    BY <1>1, <2>2, <2>4, <2>5 DEF IInv, SucceededMeansGone, Gone
  <2> QED
    BY <1>1, <2>1, <2>7, <2>8, <2>9, <2>10, NobodyWorks DEF IInv
<1>4. Queue!Drop \/ \E state \in {"succeeded", "failed"} :
                        Queue!End(state) /\ (state = "succeeded" => handler.result = "success")
  BY DEF EndJob
<1> QED
  BY <1>2, <1>3, <1>4

LEMMA OutcomeLostStep == IInv /\ OutcomeLost => IInv'
BY DropJob DEF OutcomeLost

LEMMA CrashStep == IInv /\ Crash => IInv'
<1> SUFFICES ASSUME IInv, Crash PROVE IInv'
  OBVIOUS
<1>1. /\ working' = 0 /\ handler' = Idle /\ request' = None
      /\ bucket' = [bucket EXCEPT !.lock = 0]
      /\ intents' = [k \in Keys |-> IF intents[k] = None THEN None
                                    ELSE [intents[k] EXCEPT !.live = FALSE]]
      /\ UNCHANGED <<entries, payloads, drawn, remote, remade, rows, history>>
  BY DEF Crash
<1>2. faults' \in 0..MaxFaults
  BY FaultType DEF IInv, Crash
<1>3. /\ bucket' \in Registration /\ bucket'.id = bucket.id /\ bucket'.state = bucket.state
      /\ bucket'.job = bucket.job /\ bucket'.lock = 0
  BY <1>1, DeletionAssumption DEF IInv, FenceInv, Registration
<1>4. FenceInv'
  BY <1>1, <1>3 DEF IInv, FenceInv, Open, history
<1>5. intents' \in [Keys -> Intent \union {None}]
  <2>1. \A k \in Keys : intents[k] # None => [intents[k] EXCEPT !.live = FALSE] \in Intent
    BY DEF IInv, WorldInv, Intent
  <2> QED
    BY <1>1, <2>1
<1>6. WorldInv' /\ RequestInv' /\ JobsInv'
  BY <1>1, <1>2, <1>5 DEF IInv, WorldInv, RequestInv, JobsInv, Open, history
<1>7. SucceededMeansGone'
  BY <1>1, <1>3 DEF IInv, SucceededMeansGone
<1> QED
  BY <1>1, <1>4, <1>6, <1>7, NobodyWorks DEF IInv
-----------------------------------------------------------------------------
(* The invariant and what it means.                                        *)

LEMMA InitInv == Init => IInv
<1> SUFFICES ASSUME Init PROVE IInv
  OBVIOUS
<1>1. entries = <<>> /\ working = 0 /\ payloads = <<>> /\ DOMAIN entries = {} /\ Len(entries) = 0
  BY DEF Init, Queue!Init
<1>2. JobsInv /\ RequestInv /\ SucceededMeansGone
  BY <1>1, DeletionAssumption DEF Init, JobsInv, RequestInv, SucceededMeansGone
<1>3. /\ drawn \in 0..MaxIds /\ drawn \in Nat /\ bucket \in Registration /\ bucket.id = drawn
      /\ bucket.state = "active" /\ bucket.lock = 0
  BY DeletionAssumption DEF Init, Unregistered, Registration
<1>4. FenceInv
  BY <1>3 DEF Init, FenceInv
<1>5. HandlerInv(handler)
  <2>1. PICK h : h = Idle
    OBVIOUS
  <2>2. h \in Handler /\ h.pc = "idle" /\ ~h.fenced /\ h.next = "none" /\ handler = h
    BY <2>1, IdleRecord DEF Init
  <2> QED
    BY <1>1, <2>2 DEF HandlerInv, Shape, FenceHeld, MarkKept, RightBucket, Routes, Busied, PastFence,
                      PastSettling, Marked, Dropping
<1>6. WorldInv
  <2>1. 1 \in 0..MaxBorn /\ 0 \in 0..MaxFaults
    BY DeletionAssumption
  <2>2. rows \in [Keys -> {None, "here", "there"}] /\ intents \in [Keys -> Intent \union {None}]
    BY DEF Init
  <2>3. remote \in RemoteBucket /\ remote.born = 1
    BY <2>1 DEF Init, RemoteBucket
  <2> QED
    BY <1>3, <2>1, <2>2, <2>3 DEF Init, WorldInv
<1> QED
  BY <1>2, <1>4, <1>5, <1>6 DEF IInv

LEMMA HandleInv == IInv /\ HandleStep => IInv'
BY DiscoverStep, VerifyChangedStep, VerifyMissingStep, VerifyPresentStep, FenceStep,
   FenceRefusedStep, MarkStep, MarkFailsStep, SettleIntentStep, AcquireStep, SettleBusyStep,
   ListStep, WipeStep, WipePartlyStep, WipeNotFoundStep, ConfirmStep, DropAnsweredStep,
   DropUnansweredStep, DropNotFoundStep, DropRefusedStep, FinalizeStep, CallFailsStep,
   FailFenceStep, FailLostStep DEF HandleStep

LEMMA NextInv == IInv /\ [Next]_vars => IInv'
<1> SUFFICES ASSUME IInv, [Next]_vars PROVE IInv'
  OBVIOUS
<1>1. CASE UNCHANGED vars
  <2>1. UNCHANGED <<entries, working, payloads, bucket, drawn, remote, remade, rows, intents,
                    request, handler, faults, harmed, unmarked>>
    BY <1>1 DEF vars, queueVars, indexVars, history
  <2>2. Busy' => Busy
    BY <2>1 DEF Busy, Touches
  <2>3. WorldInv' /\ RequestInv' /\ remade <= remade'
    BY <2>1, DeletionAssumption DEF IInv, WorldInv, RequestInv
  <2> QED
    BY <2>1, <2>2, <2>3, WorldMoves DEF queueVars, history
<1>2. CASE Next
  BY <1>2, UploadStep, FinishWriteStep, LeaveWriteStep, BeginWriteStep, CreateStep, DeleteStep,
     ExternalStep, RequestStep, EnqueueStep, StartStep, HandleInv, EndStep, OutcomeLostStep,
     CrashStep DEF Next
<1> QED
  BY <1>1, <1>2

\* The inductive invariant: whatever jobs, restarts and other tools do, the fence,
\* the stored payload and the place of the handler agree.
THEOREM Inductive == Spec => []IInv
BY InitInv, NextInv, PTL DEF Spec

\* A bucket is put back into use only if its deletion touched nothing.
THEOREM NeverActiveOnceHarmed == Spec => []ActiveUnharmed
<1>1. IInv => ActiveUnharmed
  BY DEF IInv, FenceInv, ActiveUnharmed
<1> QED
  BY <1>1, Inductive, PTL

\* The rows have their type, and nothing is deleted from a bucket that is not
\* fenced, locked and quiet.
THEOREM FenceHeldWhileDeleting == Spec => []FenceSound
<1>1. IInv => TypeOK
  <2> SUFFICES ASSUME IInv PROVE TypeOK
    OBVIOUS
  <2>1. harmed \subseteq 1..MaxIds
    BY DeletionAssumption DEF IInv, WorldInv
  <2> QED
    BY <2>1 DEF IInv, WorldInv, JobsInv, FenceInv, RequestInv, HandlerInv, Shape, TypeOK
<1>2. IInv => FencedQuiet
  BY DEF IInv, HandlerInv, FenceHeld, PastSettling, Busied, FencedQuiet
<1> QED
  BY <1>1, <1>2, Inductive, PTL DEF FenceSound

\* A failed deletion whose mark was stored can always be taken over by a new one.
THEOREM FenceCanBeRetried == Spec => []FenceRetriedIfMarked
<1>1. IInv => FenceRetriedIfMarked
  <2> SUFFICES ASSUME IInv, bucket.state # "active", entries[bucket.job].state # "open",
                      bucket.job \notin unmarked
               PROVE  Retriable(bucket.job)
    BY DEF FenceRetriedIfMarked
  <2>1. entries[bucket.job].state \in {"open", "succeeded", "failed"} /\ bucket.job \in DOMAIN entries
    BY RowsOfQueue DEF IInv, FenceInv, Queue!Entry
  <2> QED
    BY <2>1 DEF IInv, FenceInv, Retriable
<1> QED
  BY <1>1, Inductive, PTL

\* A job reports success only once its bucket is gone from R2 and from the index.
THEOREM SuccessIsFinal == Spec => []SucceededMeansGone
<1>1. IInv => SucceededMeansGone
  BY DEF IInv
<1> QED
  BY <1>1, Inductive, PTL

\* A handler that moves on changes the bucket in R2 only from two places.
LEMMA DeletesInPlace ==
    ASSUME Next, remote' # remote, handler' # handler
    PROVE  handler.pc \in {"wipe", "drop"} /\ remote.born # 0
<1>1. ASSUME NEW k \in Keys, Upload(k) \/ FinishWrite(k) \/ LeaveWrite(k)
             \/ BeginWrite(k, "here") \/ BeginWrite(k, "there")
      PROVE  FALSE
  BY <1>1 DEF Upload, FinishWrite, LeaveWrite, BeginWrite
<1>2. ~(CreateBucket \/ DeleteBucket \/ PutExternal \/ DropExternal \/ Recreate
        \/ ReadRegistration \/ RefuseRequest)
  BY DEF CreateBucket, DeleteBucket, PutExternal, DropExternal, Recreate, ReadRegistration,
         RefuseRequest
<1>3. ~(\E mode \in Modes : EnqueueDeletion(mode)) /\ ~(\E j \in DOMAIN entries : StartJob(j))
      /\ ~EndJob /\ ~OutcomeLost /\ ~Crash
  BY DEF EnqueueDeletion, StartJob, EndJob, OutcomeLost, Crash
<1>4. HandleStep
  BY <1>1, <1>2, <1>3 DEF Next
<1>5. ~(DiscoverLocalBucket \/ VerifyChanged \/ VerifyMissing \/ VerifyPresent \/ Fence
        \/ FenceRefused \/ MarkRemoteMutated \/ MarkFails)
  BY DEF DiscoverLocalBucket, VerifyChanged, VerifyMissing, VerifyPresent, Fence, FenceRefused,
         MarkRemoteMutated, MarkFails
<1>6. ~(\E k \in Keys : SettleIntent(k)) /\ ~AcquireBucketDeletionMaintenance /\ ~SettleBusy
      /\ ~List /\ ~WipeNotFound /\ ~Confirm
  BY DEF SettleIntent, AcquireBucketDeletionMaintenance, SettleBusy, List, WipeNotFound, Confirm
<1>7. /\ ~DropNotFound /\ ~DropRefused /\ ~Finalize
      /\ ~(\E result \in {"retry", "permanent"} : CallFails(result))
      /\ ~(\E last \in BOOLEAN : Fail(last)) /\ ~FailLost
  BY DEF DropNotFound, DropRefused, Finalize, CallFails, Fail, FailLost
<1>8. Wipe \/ WipePartly \/ DropAnswered \/ DropUnanswered
  BY <1>4, <1>5, <1>6, <1>7 DEF HandleStep
<1> QED
  BY <1>8 DEF Wipe, WipePartly, DropAnswered, DropUnanswered, Doing

\* Only the incarnation that was confirmed loses anything, while its job is open.
THEOREM DeletesOnlyConfirmed == Spec => OnlyConfirmedDeleted
<1>1. IInv /\ [Next]_vars =>
          [remote' # remote /\ handler' # handler =>
              /\ working # 0 /\ entries[working].state = "open"
              /\ ~payload.missing /\ payload.born = remote.born]_vars
  <2> SUFFICES ASSUME IInv, Next, remote' # remote, handler' # handler
               PROVE  /\ working # 0 /\ entries[working].state = "open"
                      /\ ~payload.missing /\ payload.born = remote.born
    BY DEF vars, queueVars, indexVars, history
  <2>1. handler.pc \in {"wipe", "drop"} /\ remote.born # 0
    BY DeletesInPlace
  <2>2. working # 0 /\ Open(working) /\ ~IdentityChanged
    BY <2>1, AtWork DEF Busied, HandlerInv, RightBucket, Dropping
  <2> QED
    BY <2>1, <2>2 DEF IdentityChanged, Open
<1> QED
  BY <1>1, Inductive, PTL DEF Spec, OnlyConfirmedDeleted

\* The index gives up objects only when the bucket that held them is gone.
THEOREM KeepsRowsOfBytes == Spec => RowsOutliveBytes
<1>1. IInv /\ [Next]_vars =>
          [\A k \in Keys : Doing("finalize") /\ rows[k] = "here" /\ rows'[k] = None =>
              payload.missing \/ remote.born # payload.born]_vars
  BY DEF IInv, HandlerInv, RightBucket, Gone, Doing, payload
<1> QED
  BY <1>1, Inductive, PTL DEF Spec, RowsOutliveBytes
=============================================================================
