----------------------------- MODULE AIGateway -----------------------------
(***************************************************************************)
(* The Workers AI gateway (internal/modules/ai: Gateway.Forward, Router,   *)
(* ModelPolicy, NeuronEstimator; internal/protocol/ai: Handler.ServeHTTP). *)
(* A client's request is sent to an account that is below the daily soft   *)
(* limit, to another one when the first fails, and every attempt is        *)
(* charged to the account that served it.  Requests run concurrently and   *)
(* share nothing but the database.                                         *)
(*                                                                         *)
(* Data abstraction.  Of an answer only what Forward tells apart is left:  *)
(* none, one worth a retry (429, 5xx), a refusal that asks for a paid      *)
(* plan, a body relayed at once, a body that cannot be read, a stream.     *)
(* The translation of /v1/responses does not change which of these it is.  *)
(* Neurons are small numbers.  The score by which Select orders the        *)
(* accounts depends on measured latencies: any admitted account may win.   *)
(* Which accounts are enabled, healthy and capable of AI may differ every  *)
(* time they are listed.                                                   *)
(***************************************************************************)
EXTENDS Naturals, FiniteSets

CONSTANTS
    Accounts,           \* Cloudflare accounts
    Requests,           \* requests served at a time
    Models,
    BuiltinPaidModels,  \* builtinPaidModels
    NeuronSoftLimit,    \* Gateway.NeuronSoftLimit
    MaxRetryAccounts,   \* Gateway.MaxRetryAccounts
    MaxNeurons,         \* bound: what a single answer costs
    None

ASSUME GatewayAssumption ==
    /\ IsFiniteSet(Accounts) /\ IsFiniteSet(Requests)
    /\ BuiltinPaidModels \subseteq Models
    /\ NeuronSoftLimit \in Nat \ {0}
    /\ MaxRetryAccounts \in Nat \ {0}
    /\ MaxNeurons \in Nat

VARIABLES
    ledger,     \* ai_usage_daily: estimated_neurons in today's row
    paid,       \* ai_paid_models
    req         \* the handlers

vars == <<ledger, paid, req>>

NoCalls == [a \in Accounts |-> 0]

\* pc names the call or statement the handler is about to make.  calls, charged
\* and rows count, per account, the calls it sent upstream, its updates of
\* ai_usage_daily and its rows in ai_request_logs; faulty: the client left or a
\* statement failed, nothing is counted any more.
Idle == [pc |-> "idle", model |-> None, blocked |-> FALSE, excluded |-> {},
         todo |-> {}, seen |-> {}, account |-> None, neurons |-> 0,
         retry |-> FALSE, attempts |-> 0, wrote |-> FALSE, hung |-> FALSE,
         faulty |-> FALSE,
         calls |-> NoCalls, charged |-> NoCalls, rows |-> NoCalls]

Handler ==
    [pc : {"idle", "policy", "list", "read", "send", "wait", "stream",
           "charge", "log", "end"},
     model : Models \union {None}, blocked : BOOLEAN,
     excluded : SUBSET Accounts, todo : SUBSET Accounts,
     seen : SUBSET Accounts, account : Accounts \union {None},
     neurons : 0..MaxNeurons, retry : BOOLEAN,
     attempts : 0..MaxRetryAccounts, wrote : BOOLEAN, hung : BOOLEAN,
     faulty : BOOLEAN,
     calls : [Accounts -> Nat], charged : [Accounts -> Nat],
     rows : [Accounts -> Nat]]

TypeOK ==
    /\ ledger \in [Accounts -> Nat]
    /\ paid \subseteq Models
    /\ req \in [Requests -> Handler]

Init ==
    /\ ledger = NoCalls
    /\ paid = {}
    /\ req = [r \in Requests |-> Idle]

Become(r, handler) == req' = [req EXCEPT ![r] = handler]

At(r, pc) == req[r].pc = pc

Faulty(h) == [h EXCEPT !.faulty = TRUE, !.charged = NoCalls, !.rows = NoCalls]

Counted(r, n) == IF req[r].faulty THEN n ELSE n + 1

Ended(h) == [h EXCEPT !.pc = "end", !.excluded = {}, !.todo = {}, !.seen = {}]

\* Forward returns: if nothing was written yet the client gets an error response.
Returns(r) == Become(r, Ended(req[r]))

\* A query fails and Forward returns its error; with a cancelled context every
\* query does.
QueryFails(r) ==
    /\ Returns(r)
    /\ UNCHANGED <<ledger, paid>>

IsBlocked(m) == m \in BuiltinPaidModels \union paid

\* ServeHTTP has verified the key, Forward has read and translated the body.
Arrive(r, m) ==
    /\ At(r, "idle")
    /\ Become(r, [Idle EXCEPT !.pc = "policy", !.model = m])
    /\ UNCHANGED <<ledger, paid>>

CheckPolicy(r) ==
    /\ At(r, "policy")
    /\ \/ QueryFails(r)
       \/ /\ ~req[r].hung
          /\ Become(r, [req[r] EXCEPT !.pc = "list",
                                      !.blocked = IsBlocked(req[r].model)])
          /\ UNCHANGED <<ledger, paid>>

-----------------------------------------------------------------------------
(* selectAccount *)

\* The accounts that are enabled, healthy or degraded, offer AI and were not
\* tried before by this request.
ListAccounts(r) ==
    /\ At(r, "list")
    /\ \/ QueryFails(r)
       \/ /\ ~req[r].hung
          /\ \E usable \in SUBSET Accounts :
                Become(r, [req[r] EXCEPT !.pc = "read", !.seen = {},
                                         !.todo = usable \ req[r].excluded])
          /\ UNCHANGED <<ledger, paid>>

\* Mutant: an account at its limit is still used.
AdmittedAtLimit(a) == ledger[a] <= NeuronSoftLimit

Admitted(a) == ledger[a] < NeuronSoftLimit

\* One query per listed account.
ReadUsage(r) ==
    /\ At(r, "read")
    /\ \/ QueryFails(r)
       \/ /\ ~req[r].hung
          /\ \E a \in req[r].todo :
                Become(r, [req[r] EXCEPT
                    !.todo = @ \ {a},
                    !.seen = IF Admitted(a) THEN @ \union {a} ELSE @])
          /\ UNCHANGED <<ledger, paid>>

\* A blocked request is charged to the account it would have used, without a
\* call.  No account left: ErrAIQuotaExceeded, or the error of the last attempt.
SelectAccount(r) ==
    /\ At(r, "read")
    /\ req[r].todo = {}
    /\ \/ /\ req[r].seen = {}
          /\ Returns(r)
       \/ \E a \in req[r].seen :
             Become(r, IF req[r].blocked
                       THEN [req[r] EXCEPT !.pc = "charge", !.account = a,
                                !.seen = {}]
                       ELSE [req[r] EXCEPT !.pc = "send", !.account = a,
                                !.seen = {},
                                !.attempts = @ + 1,
                                !.excluded = @ \union {a}])
    /\ UNCHANGED <<ledger, paid>>

-----------------------------------------------------------------------------
(* Forward: an attempt and its answer *)

\* The answer is dealt with; record comes next, then another attempt or the end.
Record(r, neurons, retry, wrote) ==
    Become(r, [req[r] EXCEPT !.pc = "charge", !.neurons = neurons,
                             !.retry = retry, !.wrote = wrote])

\* A context that is cancelled already keeps the call from being sent.
Send(r) ==
    /\ At(r, "send")
    /\ \/ /\ req[r].hung
          /\ Record(r, 0, TRUE, FALSE)
       \/ /\ ~req[r].hung
          /\ Become(r, [req[r] EXCEPT !.pc = "wait",
                                      !.calls[req[r].account] = @ + 1])
    /\ UNCHANGED <<ledger, paid>>

\* client.Do returns an error.
NoAnswer(r) ==
    /\ At(r, "wait")
    /\ Record(r, 0, TRUE, FALSE)
    /\ UNCHANGED <<ledger, paid>>

\* Mutant: an attempt that fails over is not recorded.
BusyUnrecorded(r) ==
    /\ At(r, "wait")
    /\ req[r].attempts < MaxRetryAccounts
    /\ Become(r, [req[r] EXCEPT !.pc = "list"])
    /\ UNCHANGED <<ledger, paid>>

\* 429 or 5xx, unless this was the last attempt: then it is relayed.
Busy(r) ==
    /\ At(r, "wait")
    /\ req[r].attempts < MaxRetryAccounts
    /\ Record(r, 0, TRUE, FALSE)
    /\ UNCHANGED <<ledger, paid>>

\* 403 with a paid-plan message.  The client gets it even when LearnPaid fails.
LearnPaid(r) ==
    /\ At(r, "wait")
    /\ Record(r, 0, FALSE, TRUE)
    /\ \/ paid' = paid
       \/ ~req[r].hung /\ paid' = paid \union {req[r].model}
    /\ UNCHANGED ledger

\* A JSON or translated body that breaks off or is too large is not relayed.
Unreadable(r) ==
    /\ At(r, "wait")
    /\ Record(r, 0, FALSE, FALSE)
    /\ UNCHANGED <<ledger, paid>>

\* Whole bodies, error statuses included.  A failed answer without a usage
\* object costs nothing.
Relay(r) ==
    /\ At(r, "wait")
    /\ \E n \in 0..MaxNeurons : Record(r, n, FALSE, TRUE)
    /\ UNCHANGED <<ledger, paid>>

StartStream(r) ==
    /\ At(r, "wait")
    /\ Become(r, [req[r] EXCEPT !.pc = "stream", !.wrote = TRUE])
    /\ UNCHANGED <<ledger, paid>>

\* Mutant: a stream that broke off is tried again elsewhere.
EndStreamRetries(r) ==
    /\ At(r, "stream")
    /\ \E n \in 0..MaxNeurons, broken \in BOOLEAN : Record(r, n, broken, TRUE)
    /\ UNCHANGED <<ledger, paid>>

\* The stream is complete or broke off; either way it is charged for what it
\* reported or, without a usage object, for the bytes that were relayed.
EndStream(r) ==
    /\ At(r, "stream")
    /\ \E n \in 0..MaxNeurons : Record(r, n, FALSE, TRUE)
    /\ UNCHANGED <<ledger, paid>>

\* record, first statement; an error is ignored.  The row is the one of the day
\* on which the statement runs.
Charge(r) ==
    LET a == req[r].account IN
    /\ At(r, "charge")
    /\ \/ /\ ~req[r].hung
          /\ ledger' = [ledger EXCEPT ![a] = @ + req[r].neurons]
          /\ Become(r, [req[r] EXCEPT !.pc = "log", !.neurons = 0,
                                      !.charged[a] = Counted(r, @)])
       \/ /\ Become(r, [Faulty(req[r]) EXCEPT !.pc = "log", !.neurons = 0])
          /\ UNCHANGED ledger
    /\ UNCHANGED paid

\* record, second statement, and the head of the loop of attempts.
Log(r) ==
    LET a    == req[r].account
        more == req[r].retry /\ req[r].attempts < MaxRetryAccounts
        done == [req[r] EXCEPT !.pc = "list", !.account = None, !.retry = FALSE]
        next == IF more THEN done ELSE Ended(done) IN
    /\ At(r, "log")
    /\ \/ /\ ~req[r].hung
          /\ Become(r, [next EXCEPT !.rows[a] = Counted(r, @)])
       \/ Become(r, Faulty(next))
    /\ UNCHANGED <<ledger, paid>>

-----------------------------------------------------------------------------
(* Clients, time and crashes *)

Finish(r) ==
    /\ At(r, "end")
    /\ Become(r, Idle)
    /\ UNCHANGED <<ledger, paid>>

\* The client closes its connection: the request's context is cancelled.
HangUp(r) ==
    /\ req[r].pc \notin {"idle", "end"}
    /\ ~req[r].hung
    /\ Become(r, [Faulty(req[r]) EXCEPT !.hung = TRUE])
    /\ UNCHANGED <<ledger, paid>>

\* Midnight UTC: the new day has no rows yet.
NextDay ==
    /\ ledger # NoCalls
    /\ ledger' = NoCalls
    /\ UNCHANGED <<paid, req>>

Crash ==
    /\ \E r \in Requests : ~At(r, "idle")
    /\ req' = [r \in Requests |-> Idle]
    /\ UNCHANGED <<ledger, paid>>

\* Mutant: the call to Cloudflare does not carry the request's context.
UncancellableAdvance(r) ==
    \/ CheckPolicy(r) \/ ListAccounts(r) \/ ReadUsage(r) \/ SelectAccount(r)
    \/ Send(r) \/ Charge(r) \/ Log(r)

\* What the handler does on its own.  Upstream answers when it likes, the
\* client has no timeout; only a cancelled context ends a call or a stream.
Advance(r) ==
    \/ CheckPolicy(r) \/ ListAccounts(r) \/ ReadUsage(r) \/ SelectAccount(r)
    \/ Send(r) \/ Charge(r) \/ Log(r)
    \/ req[r].hung /\ NoAnswer(r)
    \/ req[r].hung /\ EndStream(r)

Upstream(r) ==
    \/ NoAnswer(r) \/ Busy(r) \/ LearnPaid(r) \/ Unreadable(r)
    \/ Relay(r) \/ StartStream(r) \/ EndStream(r)

Next ==
    \/ \E r \in Requests, m \in Models : Arrive(r, m)
    \/ \E r \in Requests : Advance(r) \/ Upstream(r) \/ HangUp(r) \/ Finish(r)
    \/ NextDay
    \/ Crash

Spec == Init /\ [][Next]_vars

FairSpec == Spec /\ \A r \in Requests : WF_vars(Advance(r))

-----------------------------------------------------------------------------
(* Properties *)

\* Usage is read before a call and charged after it, so requests in flight can
\* overshoot the soft limit (selectAccount, record): never by more than one
\* answer for each request that is served at a time, however many follow.
OvershootBounded ==
    \A a \in Accounts :
        ledger[a] < NeuronSoftLimit + Cardinality(Requests) * MaxNeurons

\* A request that ran to its end with its client still there and no failing
\* statement has charged and logged each of its upstream calls exactly once, to
\* the account that got the call: also the attempts that failed over.
ChargedOnce ==
    \A r \in Requests :
        LET h == req[r] IN
        At(r, "end") /\ ~h.faulty /\ ~h.blocked
            => h.charged = h.calls /\ h.rows = h.calls

\* Rows and handlers have their type, and every call is accounted for.
CallsAccounted == TypeOK /\ ChargedOnce

\* A request is sent to an account at most once, to MaxRetryAccounts accounts
\* at most, and to none after its client got bytes (configuration.md: a
\* streaming request is never replayed after bytes have been sent).
NeverReplayed ==
    [][\A r \in Requests : \A a \in Accounts :
          req'[r].calls[a] > req[r].calls[a]
              => /\ req[r].calls[a] = 0
                 /\ ~req[r].wrote
                 /\ Cardinality({b \in Accounts : req'[r].calls[b] > 0})
                        <= MaxRetryAccounts]_vars

\* A client that hangs up frees its handler, even if Cloudflare never answers:
\* the call has no timeout, but its context is the request's.
AbandonedEnds ==
    \A r \in Requests :
        req[r].hung ~> req[r].pc \in {"idle", "end"}
=============================================================================
