-------------------------- MODULE AIGatewayProofs --------------------------
(***************************************************************************)
(* What holds of the gateway for any number of accounts, requests, models  *)
(* and attempts and any soft limit.                                        *)
(*                                                                         *)
(* The argument.  HandlerInv says of each handler what its place in        *)
(* Forward implies: before a call it has sent none to the account it is    *)
(* about to ask and nothing to its client; after a call the two counts of  *)
(* record lag behind the calls by exactly the steps that are still to      *)
(* come.  Overshoot says that an account's row, and an answer for each     *)
(* handler that was admitted to it and is not charged yet, stay below the  *)
(* limit and an answer for each request: a handler joins these only while  *)
(* the row is below the limit, and pays when it leaves.                    *)
(***************************************************************************)
EXTENDS AIGateway, TLAPS, FiniteSetTheorems

Deciding == {"policy", "list", "read"}
Calling == {"wait", "stream"}
Recording == {"charge", "log"}

\* h with one more in its count of a.
OneMore(count, a) == [count EXCEPT ![a] = @ + 1]

\* What the counts say as long as nothing has failed.
CountsAgree(h) ==
    /\ h.pc \in {"idle", "send", "end"} \union Deciding =>
          h.charged = h.calls /\ h.rows = h.calls
    /\ h.pc \in {"charge"} \union Calling =>
          h.rows = h.charged /\ h.calls = OneMore(h.charged, h.account)
    /\ h.pc = "log" => h.charged = h.calls /\ h.calls = OneMore(h.rows, h.account)

\* What its place in Forward implies for a handler.
HandlerShape(h) ==
    /\ h \in Handler
    /\ h.pc # "idle" => h.model \in Models
    /\ h.pc \in {"send"} \union Calling \union Recording => h.account \in Accounts
    /\ h.pc \in Deciding => h.attempts < MaxRetryAccounts
    /\ h.pc = "policy" => ~h.blocked
    /\ h.retry => h.pc \in Recording
    /\ h.wrote => ~h.retry /\ h.pc \notin {"send", "wait"} \union Deciding
    /\ h.hung => h.faulty
    /\ h.pc \in {"send"} \union Calling => ~h.blocked
    /\ h.pc # "read" => h.seen = {}
    /\ h.todo \intersect h.excluded = {} /\ h.seen \intersect h.excluded = {}
    /\ h.pc = "send" => h.calls[h.account] = 0
    /\ h.pc = "send" => h.account \in h.excluded
    /\ h.pc # "end" => /\ \A a \in Accounts : h.calls[a] > 0 => a \in h.excluded
                       /\ Cardinality(h.excluded) <= h.attempts

HandlerInv(h) ==
    /\ HandlerShape(h)
    /\ ~h.faulty /\ ~h.blocked => CountsAgree(h)

\* A handler that was admitted to account a and has not been charged for it yet.
Owes(h, a) ==
    \/ a \in h.seen
    \/ h.pc \in {"send", "charge"} \union Calling /\ h.account = a

Debtors(a) == {r \in Requests : Owes(req[r], a)}

Overshoot ==
    \A a \in Accounts :
        ledger[a] + Cardinality(Debtors(a)) * MaxNeurons
            < NeuronSoftLimit + Cardinality(Requests) * MaxNeurons

IInv ==
    /\ ledger \in [Accounts -> Nat]
    /\ paid \subseteq Models
    /\ req \in [Requests -> Handler]
    /\ \A r \in Requests : HandlerInv(req[r])
    /\ Overshoot
-----------------------------------------------------------------------------
(* The row of an account and those who owe it an answer.                   *)

LEMMA ProductGrows ==
    ASSUME NEW x \in Nat, NEW y \in Nat, x <= y, NEW m \in Nat
    PROVE  x * m \in Nat /\ y * m \in Nat /\ x * m <= y * m
<1>1. PICK d \in Nat : y = x + d
  <2>1. y - x \in Nat /\ y = x + (y - x)
    OBVIOUS
  <2> QED
    BY <2>1
<1>2. y * m = x * m + d * m /\ d * m \in Nat /\ x * m \in Nat
  BY <1>1
<1> QED
  BY <1>2

\* There are at most as many debtors as requests.
LEMMA DebtorsCounted ==
    ASSUME NEW S \in SUBSET Requests, NEW T \in SUBSET S
    PROVE  /\ IsFiniteSet(S) /\ IsFiniteSet(T)
           /\ Cardinality(S) \in Nat /\ Cardinality(T) \in Nat
           /\ Cardinality(T) <= Cardinality(S)
BY FS_Subset, FS_CardinalityType, GatewayAssumption

\* Nobody joins those who owe, unless the row is below the limit.
LEMMA OvershootKept ==
    ASSUME ledger \in [Accounts -> Nat], Overshoot, NEW a \in Accounts,
           ledger'[a] \in Nat, ledger'[a] <= ledger[a],
           Debtors(a)' \subseteq Debtors(a) \/ ledger'[a] < NeuronSoftLimit
    PROVE  ledger'[a] + Cardinality(Debtors(a)') * MaxNeurons
               < NeuronSoftLimit + Cardinality(Requests) * MaxNeurons
<1>1. Debtors(a) \subseteq Requests /\ Debtors(a)' \subseteq Requests
  BY DEF Debtors
<1> DEFINE n == Cardinality(Debtors(a))
           next == Cardinality(Debtors(a)')
           all == Cardinality(Requests)
<1>2. n \in Nat /\ next \in Nat /\ all \in Nat /\ next <= all
  BY <1>1, DebtorsCounted
<1>3. ledger[a] + n * MaxNeurons < NeuronSoftLimit + all * MaxNeurons
  BY DEF Overshoot
<1>4. CASE Debtors(a)' \subseteq Debtors(a)
  <2>1. next <= n
    BY <1>1, <1>4, DebtorsCounted
  <2>2. next * MaxNeurons <= n * MaxNeurons /\ next * MaxNeurons \in Nat
        /\ n * MaxNeurons \in Nat /\ all * MaxNeurons \in Nat
    BY <1>2, <2>1, ProductGrows, GatewayAssumption
  <2> HIDE DEF n, next, all
  <2> QED
    BY <1>3, <2>2, GatewayAssumption DEF next, all
<1>5. CASE ledger'[a] < NeuronSoftLimit
  <2>1. next * MaxNeurons <= all * MaxNeurons /\ next * MaxNeurons \in Nat
        /\ all * MaxNeurons \in Nat
    BY <1>2, ProductGrows, GatewayAssumption
  <2> HIDE DEF n, next, all
  <2> QED
    BY <1>5, <2>1, GatewayAssumption DEF next, all
<1> QED
  BY <1>4, <1>5

-----------------------------------------------------------------------------
\* A handler that takes a step, and does not charge.
LEMMA HandlerSteps ==
    ASSUME IInv, NEW r \in Requests, NEW h, HandlerInv(h), Become(r, h),
           UNCHANGED ledger, paid' \subseteq Models,
           \A a \in Accounts : Owes(h, a) => Owes(req[r], a) \/ Admitted(a)
    PROVE  IInv'
<1>1. /\ req' \in [Requests -> Handler] /\ req'[r] = h
      /\ \A q \in Requests : q # r => req'[q] = req[q]
  BY DEF IInv, Become, HandlerInv, HandlerShape
<1>2. \A q \in Requests : HandlerInv(req'[q])
  BY <1>1 DEF IInv
<1>3. Overshoot'
  <2> SUFFICES ASSUME NEW a \in Accounts
               PROVE  ledger'[a] + Cardinality(Debtors(a)') * MaxNeurons
                          < NeuronSoftLimit + Cardinality(Requests) * MaxNeurons
    BY DEF Overshoot
  <2>1. Debtors(a)' \subseteq Debtors(a) \/ ledger'[a] < NeuronSoftLimit
    <3>1. CASE Admitted(a)
      BY <3>1 DEF Admitted
    <3>2. CASE ~Admitted(a)
      BY <1>1, <3>2 DEF Debtors
    <3> QED
      BY <3>1, <3>2
  <2> QED
    BY <2>1, OvershootKept DEF IInv
<1> QED
  BY <1>1, <1>2, <1>3 DEF IInv
\* A handler whose request is over, or that waits for the next one.
LEMMA IdleInv == HandlerInv(Idle) /\ \A a \in Accounts : ~Owes(Idle, a)
<1>1. NoCalls \in [Accounts -> Nat] /\ \A a \in Accounts : NoCalls[a] = 0
  BY DEF NoCalls
<1>2. Idle \in Handler
  BY <1>1, GatewayAssumption DEF Idle, Handler
<1>3. Cardinality({}) = 0
  BY FS_EmptySet
<1> QED
  BY <1>1, <1>2, <1>3 DEF HandlerInv, HandlerShape, CountsAgree, Idle, Owes, Deciding, Calling, Recording

\* A handler may fail at any time.
LEMMA FaultyInv ==
    ASSUME NEW h, HandlerShape(h)
    PROVE  HandlerInv(Faulty(h)) /\ \A a \in Accounts : Owes(Faulty(h), a) => Owes(h, a)
<1>1. NoCalls \in [Accounts -> Nat]
  BY DEF NoCalls
<1>2. Faulty(h) \in Handler
  BY <1>1 DEF Faulty, Handler, HandlerShape
<1> QED
  BY <1>2 DEF Faulty, HandlerInv, HandlerShape, Handler, Owes

\* Forward returns before it has written anything.
LEMMA ReturnsStep ==
    ASSUME IInv, NEW r \in Requests, req[r].pc \in Deciding, Returns(r), UNCHANGED <<ledger, paid>>
    PROVE  IInv'
<1> DEFINE h == Ended(req[r])
<1>1. HandlerInv(req[r])
  BY DEF IInv
<1>2. HandlerInv(h) /\ \A a \in Accounts : ~Owes(h, a)
  BY <1>1 DEF Ended, HandlerInv, HandlerShape, Handler, CountsAgree, Owes, Deciding, Calling, Recording
<1> QED
  BY <1>2, HandlerSteps DEF Returns, IInv
\* The steps up to the call.
LEMMA DecidingSteps ==
    ASSUME IInv, NEW r \in Requests,
           \/ CheckPolicy(r) \/ ListAccounts(r) \/ ReadUsage(r) \/ SelectAccount(r)
    PROVE  IInv'
<1>0. /\ HandlerInv(req[r]) /\ req[r] \in Handler
      /\ req[r].pc \in Deciding /\ paid \subseteq Models
  BY DEF IInv, HandlerInv, HandlerShape, CheckPolicy, ListAccounts, ReadUsage, SelectAccount, At, Deciding
<1>1. CASE QueryFails(r) \/ (Returns(r) /\ UNCHANGED <<ledger, paid>>)
  BY <1>0, <1>1, ReturnsStep DEF QueryFails
<1>2. CASE CheckPolicy(r) /\ ~QueryFails(r)
  <2> DEFINE h == [req[r] EXCEPT !.pc = "list", !.blocked = IsBlocked(req[r].model)]
  <2>1. IsBlocked(req[r].model) \in BOOLEAN
    BY DEF IsBlocked
  <2>2. HandlerInv(h) /\ \A a \in Accounts : Owes(h, a) => Owes(req[r], a)
    BY <1>0, <1>2, <2>1 DEF CheckPolicy, At, HandlerInv, HandlerShape, Handler, CountsAgree, Owes, Deciding, Calling, Recording
  <2> QED
    BY <1>0, <1>2, <2>2, HandlerSteps DEF CheckPolicy
<1>3. CASE ListAccounts(r) /\ ~QueryFails(r)
  <2>1. PICK usable \in SUBSET Accounts :
           Become(r, [req[r] EXCEPT !.pc = "read", !.seen = {}, !.todo = usable \ req[r].excluded])
    BY <1>3 DEF ListAccounts
  <2> DEFINE t == usable \ req[r].excluded
             h == [req[r] EXCEPT !.pc = "read", !.seen = {}, !.todo = t]
  <2>2. t \in SUBSET Accounts /\ t \intersect req[r].excluded = {}
    OBVIOUS
  <2> HIDE DEF t
  <2>3. HandlerInv(h)
    BY <1>0, <1>3, <2>2 DEF ListAccounts, At, HandlerInv, HandlerShape, Handler, CountsAgree, Deciding, Calling, Recording
  <2>4. \A a \in Accounts : Owes(h, a) => Owes(req[r], a)
    BY <1>0, <1>3 DEF Owes, Handler, Calling
  <2>5. Become(r, h) /\ UNCHANGED <<ledger, paid>>
    BY <1>3, <2>1 DEF ListAccounts, t
  <2> QED
    BY <1>0, <2>3, <2>4, <2>5, HandlerSteps
<1>4. CASE ReadUsage(r) /\ ~QueryFails(r)
  <2>1. PICK b \in req[r].todo :
           Become(r, [req[r] EXCEPT !.todo = @ \ {b},
                                    !.seen = IF Admitted(b) THEN @ \union {b} ELSE @])
    BY <1>4 DEF ReadUsage
  <2> DEFINE h == [req[r] EXCEPT !.todo = @ \ {b},
                                 !.seen = IF Admitted(b) THEN @ \union {b} ELSE @]
  <2> DEFINE s == IF Admitted(b) THEN req[r].seen \union {b} ELSE req[r].seen
  <2>2. s \in SUBSET Accounts /\ s \intersect req[r].excluded = {}
    BY <1>0, <2>1 DEF HandlerInv, HandlerShape, Handler
  <2>3. \A a \in s : a \in req[r].seen \/ Admitted(a)
    OBVIOUS
  <2>4. h = [req[r] EXCEPT !.todo = req[r].todo \ {b}, !.seen = s]
    BY <1>0 DEF Handler
  <2> HIDE DEF s
  <2>5. HandlerInv(h)
    <3>1. req[r].pc = "read"
      BY <1>4 DEF ReadUsage, At
    <3>2. h \in Handler
      BY <1>0, <2>2, <2>4 DEF HandlerInv, HandlerShape, Handler
    <3>3. /\ h.pc = "read" /\ h.seen = s /\ h.todo = req[r].todo \ {b}
          /\ h.model = req[r].model /\ h.account = req[r].account /\ h.blocked = req[r].blocked
          /\ h.attempts = req[r].attempts /\ h.excluded = req[r].excluded
          /\ h.retry = req[r].retry /\ h.wrote = req[r].wrote /\ h.hung = req[r].hung
          /\ h.faulty = req[r].faulty /\ h.calls = req[r].calls
          /\ h.charged = req[r].charged /\ h.rows = req[r].rows
      BY <1>0, <2>4, <3>1 DEF HandlerInv, HandlerShape, Handler
    <3> HIDE DEF h
    <3>4. HandlerShape(h)
      BY <1>0, <2>2, <3>1, <3>2, <3>3
         DEF HandlerInv, HandlerShape, Deciding, Calling, Recording
    <3>5. CountsAgree(req[r]) => CountsAgree(h)
      BY <3>1, <3>3 DEF CountsAgree, Deciding, Calling
    <3> QED
      BY <1>0, <3>3, <3>4, <3>5 DEF HandlerInv
  <2>6. \A a \in Accounts : Owes(h, a) => Owes(req[r], a) \/ Admitted(a)
    BY <1>0, <1>4, <2>3, <2>4 DEF Owes, Handler
  <2> QED
    BY <1>0, <1>4, <2>1, <2>5, <2>6, HandlerSteps DEF ReadUsage
<1>5. ASSUME NEW a \in req[r].seen, SelectAccount(r), req[r].blocked,
             Become(r, [req[r] EXCEPT !.pc = "charge", !.account = a, !.seen = {}])
      PROVE  IInv'
  <2> DEFINE h == [req[r] EXCEPT !.pc = "charge", !.account = a, !.seen = {}]
  <2>1. HandlerInv(h) /\ \A b \in Accounts : Owes(h, b) => Owes(req[r], b)
    BY <1>0, <1>5 DEF SelectAccount, At, HandlerInv, HandlerShape, Handler, CountsAgree, Owes, Deciding, Calling, Recording
  <2> QED
    BY <1>0, <1>5, <2>1, HandlerSteps DEF SelectAccount
<1>6. ASSUME NEW a \in req[r].seen, SelectAccount(r), ~req[r].blocked,
             Become(r, [req[r] EXCEPT !.pc = "send", !.account = a, !.seen = {},
                                      !.attempts = @ + 1, !.excluded = @ \union {a}])
      PROVE  IInv'
  <2> DEFINE h == [req[r] EXCEPT !.pc = "send", !.account = a, !.seen = {},
                                 !.attempts = @ + 1, !.excluded = @ \union {a}]
  <2>1. Cardinality(req[r].excluded \union {a}) <= req[r].attempts + 1
    <3>1. req[r].excluded \subseteq Accounts /\ Cardinality(req[r].excluded) <= req[r].attempts
          /\ req[r].attempts \in Nat
      BY <1>0, GatewayAssumption DEF HandlerInv, HandlerShape, Handler, Deciding
    <3>2. IsFiniteSet(req[r].excluded) /\ Cardinality(req[r].excluded) \in Nat
      BY <3>1, FS_Subset, FS_CardinalityType, GatewayAssumption
    <3>3. Cardinality(req[r].excluded \union {a})
             \in {Cardinality(req[r].excluded), Cardinality(req[r].excluded) + 1}
      BY <3>2, FS_AddElement
    <3> QED
      BY <3>1, <3>2, <3>3
  <2>2. /\ a \in Accounts /\ a \notin req[r].excluded
        /\ At(r, "read") /\ req[r].todo = {} /\ req[r].attempts + 1 \in 0..MaxRetryAccounts
        /\ ~req[r].wrote /\ ~req[r].retry
    <3>1. At(r, "read") /\ req[r].todo = {} /\ a \in req[r].seen
      BY <1>6 DEF SelectAccount
    <3>2. a \in Accounts /\ a \notin req[r].excluded
      BY <1>0, <3>1 DEF HandlerInv, HandlerShape, Handler
    <3>3. /\ req[r].attempts < MaxRetryAccounts /\ req[r].attempts \in 0..MaxRetryAccounts
          /\ ~req[r].wrote /\ ~req[r].retry
      BY <1>0, <3>1 DEF HandlerInv, HandlerShape, Handler, At, Deciding, Recording
    <3> QED
      BY <3>1, <3>2, <3>3, GatewayAssumption
  <2>3. h \in Handler
    BY <1>0, <2>2 DEF Handler
  <2>4. req[r].calls[a] = 0
    BY <1>0, <2>2 DEF HandlerInv, HandlerShape, Handler, At
  <2>5. HandlerInv(h)
    BY <1>0, <1>6, <2>1, <2>2, <2>3, <2>4 DEF At, HandlerInv, HandlerShape, Handler, CountsAgree, Deciding, Calling, Recording
  <2>6. \A b \in Accounts : Owes(h, b) => Owes(req[r], b)
    BY <1>0, <1>6 DEF Owes, Handler
  <2> QED
    BY <1>0, <1>6, <2>5, <2>6, HandlerSteps DEF SelectAccount
<1>7. CASE SelectAccount(r) /\ ~Returns(r)
  <2>1. PICK a \in req[r].seen :
           Become(r, IF req[r].blocked
                     THEN [req[r] EXCEPT !.pc = "charge", !.account = a, !.seen = {}]
                     ELSE [req[r] EXCEPT !.pc = "send", !.account = a, !.seen = {},
                                         !.attempts = @ + 1, !.excluded = @ \union {a}])
    BY <1>7 DEF SelectAccount
  <2> QED
    BY <1>5, <1>6, <1>7, <2>1
<1>8. SelectAccount(r) => UNCHANGED <<ledger, paid>>
  BY DEF SelectAccount
<1>9. \/ QueryFails(r)
      \/ Returns(r) /\ UNCHANGED <<ledger, paid>>
      \/ CheckPolicy(r) /\ ~QueryFails(r)
      \/ ListAccounts(r) /\ ~QueryFails(r)
      \/ ReadUsage(r) /\ ~QueryFails(r)
      \/ SelectAccount(r) /\ ~Returns(r)
  BY <1>8
<1> QED
  BY <1>1, <1>2, <1>3, <1>4, <1>7, <1>9
-----------------------------------------------------------------------------
(* The call, its answer and the record of it.                              *)

\* The answer is dealt with.
LEMMA RecordStep ==
    ASSUME IInv, NEW r \in Requests, req[r].pc \in {"send"} \union Calling,
           req[r].pc = "send" => req[r].hung,
           NEW neurons \in 0..MaxNeurons, NEW retry \in BOOLEAN, NEW wrote \in BOOLEAN,
           wrote => ~retry,
           Record(r, neurons, retry, wrote), UNCHANGED ledger, paid' \subseteq Models
    PROVE  IInv'
<1> DEFINE h == [req[r] EXCEPT !.pc = "charge", !.neurons = neurons,
                               !.retry = retry, !.wrote = wrote]
<1>1. HandlerInv(req[r]) /\ req[r] \in Handler
  BY DEF IInv, HandlerInv, HandlerShape
<1>2. h \in Handler
  BY <1>1 DEF Handler
<1>3. ~req[r].faulty => req[r].pc \in Calling
  BY <1>1 DEF HandlerInv, HandlerShape
<1>4. HandlerInv(h)
  BY <1>1, <1>2, <1>3 DEF HandlerInv, HandlerShape, Handler, CountsAgree, Deciding, Calling, Recording
<1>5. \A a \in Accounts : Owes(h, a) => Owes(req[r], a)
  BY <1>1 DEF Owes, Handler, Calling
<1> QED
  BY <1>4, <1>5, HandlerSteps DEF Record

LEMMA SendStep ==
    ASSUME IInv, NEW r \in Requests, Send(r)
    PROVE  IInv'
<1>1. HandlerInv(req[r]) /\ req[r] \in Handler /\ paid \subseteq Models /\ req[r].pc = "send"
  BY DEF IInv, HandlerInv, HandlerShape, Send, At
<1>2. CASE req[r].hung /\ Record(r, 0, TRUE, FALSE)
  <2>1. 0 \in 0..MaxNeurons /\ UNCHANGED <<ledger, paid>>
    BY GatewayAssumption DEF Send
  <2> QED
    BY <1>1, <1>2, <2>1, RecordStep
<1> DEFINE h == [req[r] EXCEPT !.pc = "wait", !.calls = OneMore(req[r].calls, req[r].account)]
<1>3. CASE Become(r, [req[r] EXCEPT !.pc = "wait", !.calls[req[r].account] = @ + 1])
  <2>1. Become(r, h) /\ UNCHANGED <<ledger, paid>>
    BY <1>1, <1>3 DEF Send, Handler, OneMore, Become
  <2>2. req[r].account \in Accounts
    BY <1>1 DEF HandlerInv, HandlerShape
  <2>3. /\ OneMore(req[r].calls, req[r].account) \in [Accounts -> Nat]
        /\ \A a \in Accounts : a # req[r].account
              => OneMore(req[r].calls, req[r].account)[a] = req[r].calls[a]
    BY <1>1, <2>2 DEF Handler, OneMore
  <2>4. h \in Handler
    BY <1>1, <2>3 DEF Handler
  <2>5. HandlerInv(h)
    BY <1>1, <2>2, <2>3, <2>4 DEF HandlerInv, HandlerShape, Handler, CountsAgree, Deciding, Calling, Recording
  <2>6. \A a \in Accounts : Owes(h, a) => Owes(req[r], a)
    BY <1>1 DEF Owes, Handler, Calling
  <2> QED
    BY <1>1, <2>1, <2>5, <2>6, HandlerSteps
<1> QED
  BY <1>2, <1>3 DEF Send

\* Everything the upstream's answers lead to.
LEMMA UpstreamStep ==
    ASSUME IInv, NEW r \in Requests, Upstream(r)
    PROVE  IInv'
<1>0. HandlerInv(req[r]) /\ req[r] \in Handler /\ paid \subseteq Models
  BY DEF IInv, HandlerInv, HandlerShape
<1>1. 0 \in 0..MaxNeurons
  BY GatewayAssumption
<1>2. CASE NoAnswer(r) \/ Busy(r) \/ Unreadable(r)
  BY <1>0, <1>1, <1>2, RecordStep DEF NoAnswer, Busy, Unreadable, At, Calling
<1>3. CASE LearnPaid(r)
  <2>1. req[r].pc = "wait" /\ Record(r, 0, FALSE, TRUE) /\ UNCHANGED ledger
    BY <1>3 DEF LearnPaid, At
  <2>2. paid' \subseteq Models
    <3>1. CASE paid' = paid
      BY <1>0, <3>1
    <3>2. CASE paid' = paid \union {req[r].model}
      BY <1>0, <3>2, <2>1 DEF HandlerInv, HandlerShape, Handler
    <3> QED
      BY <1>3, <3>1, <3>2 DEF LearnPaid
  <2> QED
    BY <1>1, <2>1, <2>2, RecordStep DEF Calling
<1>4. CASE Relay(r)
  BY <1>0, <1>4, RecordStep DEF Relay, At, Calling
<1>5. CASE EndStream(r)
  BY <1>0, <1>5, RecordStep DEF EndStream, At, Calling
<1>6. CASE StartStream(r)
  <2> DEFINE h == [req[r] EXCEPT !.pc = "stream", !.wrote = TRUE]
  <2>1. req[r].pc = "wait" /\ Become(r, h) /\ UNCHANGED <<ledger, paid>>
    BY <1>6 DEF StartStream, At
  <2>2. HandlerInv(h) /\ \A a \in Accounts : Owes(h, a) => Owes(req[r], a)
    BY <1>0, <2>1 DEF HandlerInv, HandlerShape, Handler, CountsAgree, Owes, Deciding, Calling, Recording
  <2> QED
    BY <1>0, <2>1, <2>2, HandlerSteps
<1> QED
  BY <1>2, <1>3, <1>4, <1>5, <1>6 DEF Upstream

\* The account's row grows by no more than one answer, and one debtor is gone.
LEMMA ChargeStep ==
    ASSUME IInv, NEW r \in Requests, Charge(r)
    PROVE  IInv'
<1>0. PICK a \in Accounts : a = req[r].account
  BY DEF IInv, HandlerInv, HandlerShape, Charge, At, Recording
<1>1. /\ HandlerInv(req[r]) /\ req[r] \in Handler /\ paid \subseteq Models
      /\ req[r].pc = "charge" /\ UNCHANGED paid
  BY DEF IInv, HandlerInv, HandlerShape, Charge, At
<1>2. CASE Become(r, [Faulty(req[r]) EXCEPT !.pc = "log", !.neurons = 0]) /\ UNCHANGED ledger
  <2> DEFINE k == [req[r] EXCEPT !.pc = "log", !.neurons = 0]
  <2>1. k \in Handler
    <3>1. 0 \in 0..MaxNeurons
      BY GatewayAssumption
    <3> QED
      BY <1>1, <3>1 DEF Handler
  <2>2. HandlerShape(k) /\ \A b \in Accounts : Owes(k, b) => Owes(req[r], b)
    BY <1>1, <2>1 DEF HandlerInv, HandlerShape, Handler, Owes, Deciding, Calling, Recording
  <2>3. Faulty(k) = [Faulty(req[r]) EXCEPT !.pc = "log", !.neurons = 0]
    BY <1>1 DEF Faulty, Handler
  <2> QED
    BY <1>1, <1>2, <2>2, <2>3, FaultyInv, HandlerSteps
<1>3. ASSUME ledger' = [ledger EXCEPT ![a] = @ + req[r].neurons],
             Become(r, [req[r] EXCEPT !.pc = "log", !.neurons = 0,
                                      !.charged[a] = Counted(r, @)])
      PROVE  IInv'
  <2> DEFINE count == IF req[r].faulty THEN req[r].charged ELSE OneMore(req[r].charged, a)
             h == [req[r] EXCEPT !.pc = "log", !.neurons = 0, !.charged = count]
  <2>1. Become(r, h)
    <3>1. [req[r].charged EXCEPT ![a] = Counted(r, @)] = count
      BY <1>0, <1>1 DEF Handler, OneMore, Counted
    <3> QED
      BY <1>1, <1>3, <3>1 DEF Handler, Become
  <2>2. count \in [Accounts -> Nat]
    BY <1>1 DEF Handler, OneMore
  <2>3. ~req[r].faulty => count = OneMore(req[r].charged, a)
    OBVIOUS
  <2> HIDE DEF count
  <2>4. h \in Handler
    <3>1. 0 \in 0..MaxNeurons
      BY GatewayAssumption
    <3> QED
      BY <1>1, <2>2, <3>1 DEF Handler
  <2>5. HandlerInv(h)
    BY <1>0, <1>1, <2>3, <2>4 DEF HandlerInv, HandlerShape, Handler, CountsAgree, Deciding, Calling, Recording
  <2>6. /\ \A b \in Accounts : ~Owes(h, b)
        /\ Owes(req[r], a)
    BY <1>0, <1>1 DEF Owes, Handler, HandlerInv, HandlerShape, Calling
  <2>7. /\ req' \in [Requests -> Handler] /\ req'[r] = h
        /\ \A q \in Requests : q # r => req'[q] = req[q]
    BY <2>1, <2>4 DEF Become, IInv
  <2>8. \A q \in Requests : HandlerInv(req'[q])
    BY <2>5, <2>7 DEF IInv
  <2>9. /\ ledger' \in [Accounts -> Nat]
        /\ ledger'[a] = ledger[a] + req[r].neurons
        /\ \A b \in Accounts : b # a => ledger'[b] = ledger[b]
        /\ ledger[a] \in Nat /\ req[r].neurons \in 0..MaxNeurons
    BY <1>1, <1>3, GatewayAssumption DEF IInv, Handler
  <2>10. \A b \in Accounts : Debtors(b)' = Debtors(b) \ {r}
    BY <2>6, <2>7 DEF Debtors
  <2> HIDE DEF h
  <2>11. Overshoot'
    <3> SUFFICES ASSUME NEW b \in Accounts
                 PROVE  ledger'[b] + Cardinality(Debtors(b)') * MaxNeurons
                            < NeuronSoftLimit + Cardinality(Requests) * MaxNeurons
      BY DEF Overshoot
    <3>1. CASE b # a
      BY <2>9, <2>10, <3>1, OvershootKept DEF IInv
    <3>2. CASE b = a
      <4> DEFINE n == Cardinality(Debtors(a))
                 all == Cardinality(Requests)
      <4>1. Debtors(a) \subseteq Requests /\ r \in Debtors(a)
        BY <2>6 DEF Debtors
      <4>2. n \in Nat /\ n >= 1 /\ Cardinality(Debtors(a)') = n - 1 /\ all \in Nat
        <5>1. IsFiniteSet(Debtors(a)) /\ n \in Nat /\ all \in Nat
          BY <4>1, DebtorsCounted
        <5>2. Cardinality(Debtors(a) \ {r}) = n - 1
          BY <4>1, <5>1, FS_RemoveElement
        <5>3. Cardinality(Debtors(a) \ {r}) \in Nat
          BY <4>1, <5>1, FS_RemoveElement, FS_CardinalityType
        <5>4. n >= 1
          BY <5>1, <5>2, <5>3
        <5>5. Debtors(a)' = Debtors(a) \ {r}
          BY <2>10
        <5> QED
          BY <5>1, <5>2, <5>4, <5>5
      <4>3. ledger[a] + n * MaxNeurons < NeuronSoftLimit + all * MaxNeurons
        BY <1>1 DEF IInv, Overshoot
      <4>4. (n - 1) * MaxNeurons = n * MaxNeurons - MaxNeurons /\ n * MaxNeurons \in Nat
            /\ all * MaxNeurons \in Nat
        BY <4>2, GatewayAssumption
      <4> HIDE DEF n, all
      <4>5. ledger'[a] + (n - 1) * MaxNeurons < NeuronSoftLimit + all * MaxNeurons
        BY <2>9, <4>3, <4>4, GatewayAssumption
      <4> QED
        BY <3>2, <4>2, <4>5 DEF n, all
    <3> QED
      BY <3>1, <3>2
  <2> QED
    BY <1>1, <2>7, <2>8, <2>9, <2>11 DEF IInv
<1> QED
  BY <1>0, <1>2, <1>3 DEF Charge

LEMMA LogStep ==
    ASSUME IInv, NEW r \in Requests, Log(r)
    PROVE  IInv'
<1> DEFINE more == req[r].retry /\ req[r].attempts < MaxRetryAccounts
           done == [req[r] EXCEPT !.pc = "list", !.account = None, !.retry = FALSE]
           next == IF more THEN done ELSE Ended(done)
<1>0. PICK a \in Accounts : a = req[r].account
  BY DEF IInv, HandlerInv, HandlerShape, Log, At, Recording
<1>1. /\ HandlerInv(req[r]) /\ req[r] \in Handler /\ paid \subseteq Models
      /\ req[r].pc = "log" /\ UNCHANGED <<ledger, paid>>
  BY DEF IInv, HandlerInv, HandlerShape, Log, At
<1>2. next \in Handler /\ next.pc = IF more THEN "list" ELSE "end"
  BY <1>1 DEF Handler, Ended
<1>3. HandlerShape(next) /\ \A b \in Accounts : ~Owes(next, b)
  <2>1. CASE more
    BY <1>1, <1>2, <2>1 DEF HandlerInv, HandlerShape, Handler, Owes, Deciding, Calling, Recording
  <2>2. CASE ~more
    BY <1>1, <1>2, <2>2 DEF HandlerInv, HandlerShape, Handler, Owes, Ended, Deciding, Calling, Recording
  <2> QED
    BY <2>1, <2>2
<1>4. /\ next.rows = req[r].rows /\ next.calls = req[r].calls
      /\ next.charged = req[r].charged /\ next.faulty = req[r].faulty
      /\ next.blocked = req[r].blocked
  BY <1>1 DEF Handler, Ended
<1> HIDE DEF next
<1>5. CASE Become(r, Faulty(next))
  BY <1>1, <1>3, <1>5, FaultyInv, HandlerSteps
<1>6. CASE Become(r, [next EXCEPT !.rows[a] = Counted(r, @)])
  <2> DEFINE count == IF req[r].faulty THEN req[r].rows ELSE OneMore(req[r].rows, a)
             h == [next EXCEPT !.rows = count]
  <2>1. Become(r, h)
    <3>1. [next.rows EXCEPT ![a] = Counted(r, @)] = count
      BY <1>1, <1>4 DEF Handler, OneMore, Counted
    <3> QED
      BY <1>2, <1>6, <3>1 DEF Handler, Become
  <2>2. count \in [Accounts -> Nat]
    BY <1>1 DEF Handler, OneMore
  <2>3. ~req[r].faulty => count = OneMore(req[r].rows, a)
    OBVIOUS
  <2> HIDE DEF count
  <2>4. HandlerShape(h) /\ \A b \in Accounts : ~Owes(h, b)
    BY <1>2, <1>3, <2>2 DEF HandlerShape, Handler, Owes
  <2>5. ~h.faulty /\ ~h.blocked => CountsAgree(h)
    BY <1>0, <1>1, <1>2, <1>4, <2>3 DEF HandlerInv, Handler, CountsAgree, Deciding, Calling
  <2> QED
    BY <1>1, <2>1, <2>4, <2>5, HandlerSteps DEF HandlerInv
<1> QED
  BY <1>0, <1>5, <1>6 DEF Log, next
-----------------------------------------------------------------------------
(* Clients, time and crashes.                                              *)

LEMMA ArriveStep ==
    ASSUME IInv, NEW r \in Requests, NEW m \in Models, Arrive(r, m)
    PROVE  IInv'
<1> DEFINE h == [Idle EXCEPT !.pc = "policy", !.model = m]
<1>1. HandlerInv(Idle) /\ Idle \in Handler
  BY IdleInv DEF HandlerInv, HandlerShape
<1>2. /\ Idle.pc = "idle" /\ ~Idle.blocked /\ ~Idle.retry /\ ~Idle.wrote
      /\ Idle.attempts = 0 /\ Idle.seen = {}
  BY DEF Idle
<1>3. /\ h \in Handler /\ h.pc = "policy" /\ h.model = m
      /\ ~h.blocked /\ ~h.retry /\ ~h.wrote /\ h.attempts = 0 /\ h.seen = {} /\ h.account = None
      /\ h.todo = Idle.todo /\ h.excluded = Idle.excluded /\ h.calls = Idle.calls
      /\ h.charged = Idle.charged /\ h.rows = Idle.rows /\ h.hung = Idle.hung
      /\ h.faulty = Idle.faulty
  BY <1>1, <1>2 DEF Handler, Idle
<1> HIDE DEF h
<1>4. 0 < MaxRetryAccounts
  BY GatewayAssumption
<1>5. HandlerInv(h) /\ \A a \in Accounts : ~Owes(h, a)
  BY <1>1, <1>2, <1>3, <1>4
     DEF HandlerInv, HandlerShape, CountsAgree, Owes, Deciding, Calling, Recording
<1> QED
  BY <1>5, HandlerSteps DEF Arrive, IInv, h

LEMMA FinishStep ==
    ASSUME IInv, NEW r \in Requests, Finish(r)
    PROVE  IInv'
BY IdleInv, HandlerSteps DEF Finish, IInv

LEMMA HangUpStep ==
    ASSUME IInv, NEW r \in Requests, HangUp(r)
    PROVE  IInv'
<1> DEFINE k == Faulty(req[r])
           h == [k EXCEPT !.hung = TRUE]
<1>1. HandlerInv(req[r]) /\ Become(r, h) /\ UNCHANGED <<ledger, paid>> /\ paid \subseteq Models
  BY DEF IInv, HangUp
<1>2. HandlerInv(k) /\ \A a \in Accounts : Owes(k, a) => Owes(req[r], a)
  BY <1>1, FaultyInv DEF HandlerInv
<1>3. k \in Handler /\ k.faulty
  BY <1>1, <1>2 DEF HandlerInv, HandlerShape, Handler, Faulty
<1> HIDE DEF k
<1>4. h \in Handler
  BY <1>3 DEF Handler
<1>5. HandlerInv(h)
  BY <1>2, <1>3, <1>4 DEF HandlerInv, HandlerShape, Handler
<1>6. \A a \in Accounts : Owes(h, a) => Owes(k, a)
  BY <1>3 DEF Handler, Owes
<1> QED
  BY <1>1, <1>2, <1>5, <1>6, HandlerSteps

LEMMA NextDayStep ==
    ASSUME IInv, NextDay
    PROVE  IInv'
<1>1. /\ \A a \in Accounts : ledger'[a] = 0
      /\ ledger' \in [Accounts -> Nat] /\ UNCHANGED <<paid, req>>
  BY DEF NextDay, NoCalls
<1>2. \A a \in Accounts : ledger'[a] <= ledger[a] /\ ledger'[a] < NeuronSoftLimit
  BY <1>1, GatewayAssumption DEF IInv
<1>3. Overshoot'
  <2> SUFFICES ASSUME NEW a \in Accounts
               PROVE  ledger'[a] + Cardinality(Debtors(a)') * MaxNeurons
                          < NeuronSoftLimit + Cardinality(Requests) * MaxNeurons
    BY DEF Overshoot
  <2> QED
    BY <1>1, <1>2, OvershootKept DEF IInv
<1> QED
  BY <1>1, <1>3 DEF IInv

LEMMA CrashStep ==
    ASSUME IInv, Crash
    PROVE  IInv'
<1>1. /\ \A r \in Requests : req'[r] = Idle
      /\ req' = [r \in Requests |-> Idle] /\ UNCHANGED <<ledger, paid>>
  BY DEF Crash
<1>2. \A a \in Accounts : Debtors(a)' = {}
  BY <1>1, IdleInv DEF Debtors
<1>3. Overshoot'
  <2> SUFFICES ASSUME NEW a \in Accounts
               PROVE  ledger'[a] + Cardinality(Debtors(a)') * MaxNeurons
                          < NeuronSoftLimit + Cardinality(Requests) * MaxNeurons
    BY DEF Overshoot
  <2> QED
    BY <1>1, <1>2, OvershootKept DEF IInv
<1> QED
  BY <1>1, <1>3, IdleInv DEF IInv, HandlerInv, HandlerShape
-----------------------------------------------------------------------------
(* The theorems.                                                           *)

LEMMA InitInv == Init => IInv
<1> SUFFICES ASSUME Init PROVE IInv
  OBVIOUS
<1>1. /\ \A r \in Requests : req[r] = Idle
      /\ req = [r \in Requests |-> Idle] /\ ledger = NoCalls /\ paid = {}
  BY DEF Init
<1>2. \A a \in Accounts : Debtors(a) = {} /\ ledger[a] = 0
  BY <1>1, IdleInv DEF Debtors, NoCalls
<1>3. Overshoot
  <2> SUFFICES ASSUME NEW a \in Accounts
               PROVE  ledger[a] + Cardinality(Debtors(a)) * MaxNeurons
                          < NeuronSoftLimit + Cardinality(Requests) * MaxNeurons
    BY DEF Overshoot
  <2>1. Cardinality(Debtors(a)) = 0 /\ Cardinality(Requests) \in Nat
    BY <1>2, FS_EmptySet, FS_CardinalityType, GatewayAssumption
  <2>2. Cardinality(Requests) * MaxNeurons \in Nat
    BY <2>1, GatewayAssumption
  <2> QED
    BY <1>2, <2>1, <2>2, GatewayAssumption
<1> QED
  BY <1>1, <1>3, IdleInv DEF IInv, HandlerInv, HandlerShape, NoCalls

LEMMA NextInv == IInv /\ [Next]_vars => IInv'
<1> SUFFICES ASSUME IInv, [Next]_vars PROVE IInv'
  OBVIOUS
<1>1. ASSUME NEW r \in Requests, NEW m \in Models, Arrive(r, m) PROVE IInv'
  BY <1>1, ArriveStep
<1>2. ASSUME NEW r \in Requests, Advance(r) PROVE IInv'
  <2>1. CASE NoAnswer(r) \/ EndStream(r)
    BY <2>1, UpstreamStep DEF Upstream
  <2>2. CASE CheckPolicy(r) \/ ListAccounts(r) \/ ReadUsage(r) \/ SelectAccount(r)
    BY <2>2, DecidingSteps
  <2> QED
    BY <1>2, <2>1, <2>2, SendStep, ChargeStep, LogStep DEF Advance
<1>3. ASSUME NEW r \in Requests, Upstream(r) \/ HangUp(r) \/ Finish(r) PROVE IInv'
  BY <1>3, UpstreamStep, HangUpStep, FinishStep
<1>4. CASE NextDay
  BY <1>4, NextDayStep
<1>5. CASE Crash
  BY <1>5, CrashStep
<1>6. CASE UNCHANGED vars
  BY <1>6 DEF vars, IInv, Overshoot, Debtors
<1> QED
  BY <1>1, <1>2, <1>3, <1>4, <1>5, <1>6 DEF Next

LEMMA Inductive == Spec => []IInv
BY InitInv, NextInv, PTL DEF Spec

\* record charges every attempt of a request once, and logs it once: in a
\* request that met no fault the two counts never lose a call, however many
\* accounts it failed over to.
THEOREM CallsAlwaysAccounted == Spec => []CallsAccounted
<1>1. ASSUME IInv PROVE CallsAccounted
  <2>1. TypeOK
    BY <1>1 DEF IInv, HandlerInv, HandlerShape, TypeOK
  <2>2. ChargedOnce
    BY <1>1 DEF IInv, HandlerInv, CountsAgree, ChargedOnce, At
  <2> QED
    BY <2>1, <2>2 DEF CallsAccounted
<1> QED
  BY Inductive, <1>1, PTL

\* What selectAccount reads can be stale by as many answers as there are
\* requests in flight, never by more: the row of an account stays below the
\* soft limit and one answer for each of them.
THEOREM OvershootAlwaysBounded == Spec => []OvershootBounded
<1>1. ASSUME IInv PROVE OvershootBounded
  <2> SUFFICES ASSUME NEW a \in Accounts
               PROVE  ledger[a] < NeuronSoftLimit + Cardinality(Requests) * MaxNeurons
    BY DEF OvershootBounded
  <2> DEFINE owed == Cardinality(Debtors(a)) * MaxNeurons
             all  == Cardinality(Requests) * MaxNeurons
  <2>1. Debtors(a) \subseteq Requests
    BY DEF Debtors
  <2>2. Cardinality(Debtors(a)) \in Nat /\ Cardinality(Requests) \in Nat
    BY <2>1, DebtorsCounted
  <2>3. owed \in Nat /\ all \in Nat
    BY <2>2, GatewayAssumption
  <2>4. ledger[a] \in Nat /\ ledger[a] + owed < NeuronSoftLimit + all
    BY <1>1 DEF IInv, Overshoot
  <2> HIDE DEF owed, all
  <2>5. ledger[a] < NeuronSoftLimit + all
    BY <2>3, <2>4, GatewayAssumption
  <2> QED
    BY <2>5 DEF all
<1> QED
  BY Inductive, <1>1, PTL

-----------------------------------------------------------------------------
(* No replay.                                                              *)

\* A step of r's handler that calls nobody.
NoNewCall(r) ==
    /\ \A q \in Requests : q # r => req'[q] = req[q]
    /\ req'[r].calls = req[r].calls \/ req'[r].calls = NoCalls

LEMMA BecomeCalls ==
    ASSUME IInv, NEW r \in Requests, NEW h, Become(r, h),
           h.calls = req[r].calls \/ h.calls = NoCalls
    PROVE  NoNewCall(r)
BY DEF IInv, Become, NoNewCall

\* Only Send calls an account.
LEMMA OnlySendCalls ==
    ASSUME IInv, NEW r \in Requests,
           \/ \E m \in Models : Arrive(r, m)
           \/ Advance(r) \/ Upstream(r) \/ HangUp(r) \/ Finish(r)
    PROVE  Send(r) \/ NoNewCall(r)
<1>1. req[r] \in Handler
  BY DEF IInv
<1>2. Idle.calls = NoCalls /\ Ended(req[r]).calls = req[r].calls
  BY <1>1 DEF Idle, Ended, Handler
<1>3. CASE Returns(r) \/ Finish(r)
  BY <1>2, <1>3, BecomeCalls DEF Returns, Finish
<1>4. ASSUME NEW m \in Models, Arrive(r, m) PROVE NoNewCall(r)
  <2>1. [Idle EXCEPT !.pc = "policy", !.model = m].calls = NoCalls
    BY DEF Idle
  <2> QED
    BY <1>4, <2>1, BecomeCalls DEF Arrive
<1>5. CASE CheckPolicy(r) \/ ListAccounts(r) \/ ReadUsage(r) \/ SelectAccount(r)
  <2>1. CASE CheckPolicy(r) /\ ~Returns(r)
    BY <1>1, <2>1, BecomeCalls DEF CheckPolicy, QueryFails, Handler
  <2>2. CASE ListAccounts(r) /\ ~Returns(r)
    BY <1>1, <2>2, BecomeCalls DEF ListAccounts, QueryFails, Handler
  <2>3. CASE ReadUsage(r) /\ ~Returns(r)
    <3>1. PICK b \in req[r].todo :
             Become(r, [req[r] EXCEPT
                 !.todo = @ \ {b},
                 !.seen = IF Admitted(b) THEN @ \union {b} ELSE @])
      BY <2>3 DEF ReadUsage, QueryFails
    <3> QED
      BY <1>1, <3>1, BecomeCalls DEF Handler
  <2>4. CASE SelectAccount(r) /\ ~Returns(r)
    <3>1. PICK a \in req[r].seen :
             \/ Become(r, [req[r] EXCEPT !.pc = "charge", !.account = a, !.seen = {}])
             \/ Become(r, [req[r] EXCEPT !.pc = "send", !.account = a, !.seen = {},
                                         !.attempts = @ + 1, !.excluded = @ \union {a}])
      BY <2>4 DEF SelectAccount
    <3> QED
      BY <1>1, <3>1, BecomeCalls DEF Handler
  <2> QED
    BY <1>3, <1>5, <2>1, <2>2, <2>3, <2>4
<1>6. ASSUME NEW n, NEW retry, NEW wrote, Record(r, n, retry, wrote) PROVE NoNewCall(r)
  BY <1>1, <1>6, BecomeCalls DEF Record, Handler
<1>7. CASE Upstream(r)
  <2>1. CASE StartStream(r)
    BY <1>1, <2>1, BecomeCalls DEF StartStream, Handler
  <2> QED
    BY <1>6, <1>7, <2>1
       DEF Upstream, NoAnswer, Busy, LearnPaid, Unreadable, Relay, EndStream
<1>8. Faulty(req[r]).calls = req[r].calls
  BY <1>1 DEF Faulty, Handler
<1>9. CASE Charge(r)
  <2>1. CASE Become(r, [Faulty(req[r]) EXCEPT !.pc = "log", !.neurons = 0])
    BY <1>1, <2>1, BecomeCalls DEF Faulty, Handler
  <2>2. ASSUME NEW a, Become(r, [req[r] EXCEPT !.pc = "log", !.neurons = 0,
                                               !.charged[a] = Counted(r, @)])
        PROVE  NoNewCall(r)
    <3> DEFINE h == [req[r] EXCEPT !.pc = "log", !.neurons = 0, !.charged[a] = Counted(r, @)]
    <3>1. h.calls = req[r].calls
      BY <1>1 DEF Handler
    <3> QED
      BY <2>2, <3>1, BecomeCalls
  <2> QED
    BY <1>9, <2>1, <2>2 DEF Charge
<1>10. CASE Log(r)
  <2> DEFINE more == req[r].retry /\ req[r].attempts < MaxRetryAccounts
             done == [req[r] EXCEPT !.pc = "list", !.account = None, !.retry = FALSE]
             next == IF more THEN done ELSE Ended(done)
  <2>1. next \in Handler /\ next.calls = req[r].calls
    BY <1>1 DEF Handler, Ended
  <2> HIDE DEF next
  <2>2. CASE Become(r, Faulty(next))
    BY <2>1, <2>2, BecomeCalls DEF Faulty, Handler
  <2>3. ASSUME NEW a, Become(r, [next EXCEPT !.rows[a] = Counted(r, @)])
        PROVE  NoNewCall(r)
    <3>1. [next EXCEPT !.rows[a] = Counted(r, @)].calls = req[r].calls
      BY <2>1 DEF Handler
    <3> QED
      BY <2>3, <3>1, BecomeCalls
  <2> QED
    BY <1>10, <2>2, <2>3 DEF Log, next
<1>11. CASE HangUp(r)
  BY <1>1, <1>8, <1>11, BecomeCalls DEF HangUp, Faulty, Handler
<1> QED
  BY <1>3, <1>4, <1>5, <1>7, <1>9, <1>10, <1>11 DEF Advance, Upstream

\* Whoever makes a call is about to send it.
LEMMA WhoCalls ==
    ASSUME IInv, [Next]_vars, NEW r \in Requests, NEW a \in Accounts,
           req'[r].calls[a] > req[r].calls[a]
    PROVE  Send(r)
<1>1. req[r].calls[a] \in Nat /\ NoCalls[a] = 0
  BY DEF IInv, HandlerInv, HandlerShape, Handler, NoCalls
<1>2. ~NoNewCall(r)
  BY <1>1 DEF NoNewCall
<1>3. req'[r] # req[r] /\ req'[r] # Idle
  BY <1>1 DEF Idle
<1>4. ASSUME NEW q \in Requests,
             \/ \E m \in Models : Arrive(q, m)
             \/ Advance(q) \/ Upstream(q) \/ HangUp(q) \/ Finish(q)
      PROVE  Send(r)
  <2>1. Send(q) \/ NoNewCall(q)
    BY <1>4, OnlySendCalls
  <2>2. CASE q # r
    BY <1>3, <2>1, <2>2 DEF NoNewCall, Send, Record, Become, IInv
  <2> QED
    BY <1>2, <2>1, <2>2
<1>5. ~NextDay /\ ~Crash /\ ~UNCHANGED vars
  BY <1>3 DEF NextDay, Crash, vars
<1> QED
  BY <1>4, <1>5 DEF Next

\* A request is sent to one account after the other, to none of them twice and
\* to MaxRetryAccounts at most, and to no further one once its client has bytes.
THEOREM NeverReplays == Spec => NeverReplayed
<1>1. ASSUME IInv, [Next]_vars, NEW r \in Requests, NEW a \in Accounts,
             req'[r].calls[a] > req[r].calls[a]
      PROVE  /\ req[r].calls[a] = 0
             /\ ~req[r].wrote
             /\ Cardinality({b \in Accounts : req'[r].calls[b] > 0}) <= MaxRetryAccounts
  <2> DEFINE h == req[r]
             called == {b \in Accounts : req'[r].calls[b] > 0}
  <2>1. Send(r)
    BY <1>1, WhoCalls
  <2>2. HandlerInv(h) /\ h \in Handler /\ h.pc = "send"
    BY <1>1, <2>1 DEF IInv, HandlerInv, HandlerShape, Send, At
  <2>3. req'[r] = [h EXCEPT !.pc = "wait", !.calls[h.account] = @ + 1]
    <3>1. req'[r].calls[a] # h.calls[a]
      BY <1>1, <2>2 DEF Handler
    <3>2. [h EXCEPT !.pc = "charge", !.neurons = 0, !.retry = TRUE, !.wrote = FALSE].calls = h.calls
      BY <2>2 DEF Handler
    <3> QED
      BY <1>1, <2>1, <3>1, <3>2 DEF Send, Record, Become, IInv
  <2>4. h.account \in Accounts /\ h.account \in h.excluded
    BY <2>2 DEF HandlerInv, HandlerShape
  <2>5. \A b \in Accounts : req'[r].calls[b] = IF b = h.account THEN h.calls[b] + 1 ELSE h.calls[b]
    BY <2>2, <2>3, <2>4 DEF Handler
  <2>6. a = h.account
    BY <1>1, <2>2, <2>5 DEF Handler
  <2>7. h.calls[a] = 0 /\ ~h.wrote
    BY <2>2, <2>6 DEF HandlerInv, HandlerShape
  <2>8. called \subseteq h.excluded
    BY <2>2, <2>4, <2>5 DEF HandlerInv, HandlerShape
  <2>9. /\ h.excluded \subseteq Accounts /\ h.attempts \in 0..MaxRetryAccounts
        /\ Cardinality(h.excluded) <= h.attempts
    BY <2>2 DEF HandlerInv, HandlerShape, Handler
  <2>10. IsFiniteSet(h.excluded)
    BY <2>9, FS_Subset, GatewayAssumption
  <2>11. /\ Cardinality(called) \in Nat /\ Cardinality(h.excluded) \in Nat
         /\ Cardinality(called) <= Cardinality(h.excluded)
    BY <2>8, <2>10, FS_Subset, FS_CardinalityType
  <2>12. Cardinality(called) <= MaxRetryAccounts
    BY <2>9, <2>11, GatewayAssumption
  <2> QED
    BY <2>7, <2>12
<1>2. IInv /\ [Next]_vars
         => [\A r \in Requests : \A a \in Accounts :
                req'[r].calls[a] > req[r].calls[a]
                   => /\ req[r].calls[a] = 0
                      /\ ~req[r].wrote
                      /\ Cardinality({b \in Accounts : req'[r].calls[b] > 0})
                             <= MaxRetryAccounts]_vars
  BY <1>1
<1> QED
  BY Inductive, <1>2, PTL DEF Spec, NeverReplayed
=============================================================================
