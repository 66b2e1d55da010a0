--------------------------- MODULE RetryTransport ---------------------------
(***************************************************************************)
(* RetryTransport / AsyncRetryTransport below an httpx client: concurrent   *)
(* requests over one connection pool, retried on transient failures with    *)
(* exponential backoff or the server's Retry-After.                         *)
(*                                                                         *)
(* The pool (httpcore), the network and the server are external.  The       *)
(* server remembers Idempotency-Key values, which is what the SDK sends     *)
(* them for.                                                                *)
(***************************************************************************)
EXTENDS Integers, FiniteSets

CONSTANTS
  Requests,         \* client._request calls in progress
  Methods,          \* HTTP methods they use
  RetryMethods,     \* retry_methods of the transport that retries
  MaxRetries,       \* max_retries of the transport
  Overrides,        \* with_options(max_retries=...) values; NoOverride for none
  NoOverride,
  BackoffInitial,   \* in clock ticks
  BackoffMax,
  RetryAfters,      \* Retry-After values the server sends; NoHint for none
  NoHint,
  PoolSize,
  HistoryBound      \* where the history counters saturate

ASSUME BudgetAssumption ==
  /\ MaxRetries \in Int
  /\ Overrides \subseteq Int \cup {NoOverride}
  /\ NoOverride \notin Int
  /\ HistoryBound \in Nat
  /\ \A n \in {0, MaxRetries} \cup (Overrides \ {NoOverride}) : n + 1 < HistoryBound
ASSUME DelayAssumption ==
  /\ BackoffInitial \in Nat
  /\ BackoffMax \in Nat
  /\ RetryAfters \subseteq Nat \cup {NoHint}
  /\ NoHint \notin Nat
ASSUME PoolAssumption == PoolSize \in Nat \ {0}

VARIABLES
  pc,         \* control point of each request
  method,
  key,        \* the Idempotency-Key header: none, or one for the whole call
  remaining,  \* retries_remaining
  attempt,
  nap,        \* the delay of the current sleep
  net,        \* the attempt in flight and its answer
  hint,       \* the Retry-After header of that answer
  held,       \* requests whose attempt occupies a pooled connection
  budget,     \* history: retry_budget
  effects     \* history: how often the server carried the request out

vars == <<pc, method, key, remaining, attempt, nap, net, hint, held, budget, effects>>

\* 429, 502, 503, 504 / every other response.
RetryStatus == "unavailable"
Statuses == {"ok", "refused", RetryStatus}
Ended == {"response", "raised"}
PCs == {"idle", "sending", "inflight", "draining", "sleeping", "reading"} \cup Ended

TypeOK ==
  /\ pc \in [Requests -> PCs]
  /\ method \in [Requests -> Methods]
  /\ key \in [Requests -> BOOLEAN]
  /\ remaining \in [Requests -> Int]
  /\ attempt \in [Requests -> Nat]
  /\ nap \in [Requests -> 0..BackoffMax]
  /\ net \in [Requests -> Statuses \cup {"none", "sent", "error"}]
  /\ hint \in [Requests -> RetryAfters \cup {NoHint}]
  /\ held \in SUBSET Requests
  /\ budget \in [Requests -> Int]
  /\ effects \in [Requests -> Nat]

Init ==
  /\ pc = [r \in Requests |-> "idle"]
  /\ method \in [Requests -> Methods]
  /\ key = [r \in Requests |-> FALSE]
  /\ remaining = [r \in Requests |-> 0]
  /\ attempt = [r \in Requests |-> 0]
  /\ nap = [r \in Requests |-> 0]
  /\ net = [r \in Requests |-> "none"]
  /\ hint = [r \in Requests |-> NoHint]
  /\ held = {}
  /\ budget = [r \in Requests |-> 0]
  /\ effects = [r \in Requests |-> 0]

-----------------------------------------------------------------------------
(* Policy: _retry_core *)

AtMost(x, bound) == IF x <= bound THEN x ELSE bound

DefaultRetryMethods == {"GET", "HEAD", "PUT", "DELETE", "OPTIONS"}

\* client._retry_methods: those of the RetryTransport the client itself puts
\* around a caller's transport, whatever that one retries.
ClientRetryMethods == DefaultRetryMethods

\* Mutant: the method is not looked at.
RetriableAlways(r) == TRUE

Retriable(r) == method[r] \in RetryMethods

\* Full jitter below the cap of attempt n.
BackoffDelays(n) == {d \in 0..BackoffMax : d <= BackoffInitial * 2^n}

Delays(n, h) == IF h = NoHint THEN BackoffDelays(n) ELSE {AtMost(h, BackoffMax)}

-----------------------------------------------------------------------------
(* The retry loop *)

Goto(r, p) == pc' = [pc EXCEPT ![r] = p]

\* The request ends, and the locals of the loop are gone.
Finish(r, p) ==
  /\ Goto(r, p)
  /\ remaining' = [remaining EXCEPT ![r] = 0]
  /\ attempt' = [attempt EXCEPT ![r] = 0]
  /\ nap' = [nap EXCEPT ![r] = 0]
  /\ hint' = [hint EXCEPT ![r] = NoHint]

\* build_idempotency_headers, then the head of handle_request.
Issue(r) ==
  /\ pc[r] = "idle"
  /\ Goto(r, "sending")
  /\ \E explicit \in BOOLEAN :
       key' = [key EXCEPT ![r] = explicit \/ "POST" \in ClientRetryMethods]
  /\ \E o \in Overrides :
       LET n == IF o = NoOverride THEN MaxRetries ELSE o
       IN remaining' = [remaining EXCEPT ![r] = n] /\ budget' = [budget EXCEPT ![r] = n]
  /\ UNCHANGED <<method, attempt, nap, net, hint, held, effects>>

\* The wrapped transport takes a connection and sends the request.
SendAttempt(r) ==
  /\ pc[r] = "sending"
  /\ Cardinality(held) < PoolSize
  /\ held' = held \cup {r}
  /\ Goto(r, "inflight")
  /\ net' = [net EXCEPT ![r] = "sent"]
  /\ UNCHANGED <<method, key, remaining, attempt, nap, hint, budget, effects>>

\* A transient exception: out of retries it is raised, else the loop backs off.
BackOff(r, delays) ==
  /\ Goto(r, "sleeping")
  /\ \E d \in delays : nap' = [nap EXCEPT ![r] = d]

TransientError(r) ==
  \/ /\ ~Retriable(r) \/ remaining[r] <= 0
     /\ Finish(r, "raised")
  \/ /\ Retriable(r)
     /\ remaining[r] > 0
     /\ BackOff(r, BackoffDelays(attempt[r]))
     /\ UNCHANGED <<remaining, attempt, hint>>

\* No connection becomes free in time: PoolTimeout, which is retried as well.
PoolTimesOut(r) ==
  /\ pc[r] = "sending"
  /\ Cardinality(held) >= PoolSize
  /\ TransientError(r)
  /\ UNCHANGED <<method, key, net, held, budget, effects>>

AttemptFails(r) ==
  /\ pc[r] = "inflight"
  /\ net[r] = "error"
  /\ held' = held \ {r}
  /\ net' = [net EXCEPT ![r] = "none"]
  /\ TransientError(r)
  /\ UNCHANGED <<method, key, budget, effects>>

\* The response goes to the caller: not transient, or nothing left to try.
ResponseReturned(r) ==
  /\ pc[r] = "inflight"
  /\ net[r] \in Statuses
  /\ ~Retriable(r) \/ remaining[r] <= 0 \/ net[r] # RetryStatus
  /\ Goto(r, "reading")
  /\ UNCHANGED <<method, key, remaining, attempt, nap, net, hint, held, budget, effects>>

\* A transient status: the delay is computed and the body is read.
DrainResponse(r) ==
  /\ pc[r] = "inflight"
  /\ net[r] = RetryStatus
  /\ Retriable(r)
  /\ remaining[r] > 0
  /\ Goto(r, "draining")
  /\ \E d \in Delays(attempt[r], hint[r]) : nap' = [nap EXCEPT ![r] = d]
  /\ UNCHANGED <<method, key, remaining, attempt, net, hint, held, budget, effects>>

\* Mutant: the response stays open while the loop sleeps.
CloseAndSleepHolding(r) ==
  /\ pc[r] = "draining"
  /\ Goto(r, "sleeping")
  /\ net' = [net EXCEPT ![r] = "none"]
  /\ UNCHANGED <<method, key, remaining, attempt, nap, hint, held, budget, effects>>

\* Read and closed, the response gives its connection back before the sleep.
CloseAndSleep(r) ==
  /\ pc[r] = "draining"
  /\ Goto(r, "sleeping")
  /\ held' = held \ {r}
  /\ net' = [net EXCEPT ![r] = "none"]
  /\ UNCHANGED <<method, key, remaining, attempt, nap, hint, budget, effects>>

\* response.read() is outside the try block: a failure there ends the call.
DrainFails(r) ==
  /\ pc[r] = "draining"
  /\ Finish(r, "raised")
  /\ held' = held \ {r}
  /\ net' = [net EXCEPT ![r] = "none"]
  /\ UNCHANGED <<method, key, budget, effects>>

WakeUp(r) ==
  /\ pc[r] = "sleeping"
  /\ Goto(r, "sending")
  /\ remaining' = [remaining EXCEPT ![r] = @ - 1]
  /\ attempt' = [attempt EXCEPT ![r] = @ + 1]
  /\ nap' = [nap EXCEPT ![r] = 0]
  /\ hint' = [hint EXCEPT ![r] = NoHint]
  /\ UNCHANGED <<method, key, net, held, budget, effects>>

\* httpx.Client.request reads the body, which frees the connection.
ReadResponse(r) ==
  /\ pc[r] = "reading"
  /\ Finish(r, "response")
  /\ held' = held \ {r}
  /\ UNCHANGED <<method, key, net, budget, effects>>

\* Asynchronous clients only: the task is cancelled at an await of the loop.
Cancel(r) ==
  /\ pc[r] \in {"sending", "inflight", "draining", "sleeping", "reading"}
  /\ Finish(r, "raised")
  /\ held' = held \ {r}
  /\ UNCHANGED <<method, key, net, budget, effects>>

-----------------------------------------------------------------------------
(* The server and the network *)

\* One more execution, unless an earlier one carried the same key.
Carry(r) ==
  effects' = [effects EXCEPT ![r] = IF key[r] THEN 1 ELSE AtMost(@ + 1, HistoryBound)]

\* A gateway may answer 502/504 for work that was, or was not, done.
Serve(r) ==
  /\ net[r] = "sent"
  /\ \/ net' = [net EXCEPT ![r] = "ok"] /\ Carry(r) /\ UNCHANGED hint
     \/ net' = [net EXCEPT ![r] = "refused"] /\ UNCHANGED <<effects, hint>>
     \/ /\ net' = [net EXCEPT ![r] = RetryStatus]
        /\ \E h \in RetryAfters : hint' = [hint EXCEPT ![r] = h]
        /\ Carry(r) \/ UNCHANGED effects
  /\ UNCHANGED <<pc, method, key, remaining, attempt, nap, held, budget>>

\* The request is lost before the server sees it, or its answer on the way back.
Lose(r) ==
  /\ net[r] = "sent"
  /\ net' = [net EXCEPT ![r] = "error"]
  /\ Carry(r) \/ UNCHANGED effects
  /\ UNCHANGED <<pc, method, key, remaining, attempt, nap, hint, held, budget>>

-----------------------------------------------------------------------------

TransportStep(r) ==
  \/ SendAttempt(r) \/ PoolTimesOut(r) \/ AttemptFails(r) \/ ResponseReturned(r)
  \/ DrainResponse(r) \/ CloseAndSleep(r) \/ DrainFails(r) \/ WakeUp(r) \/ ReadResponse(r)

ServerStep(r) == Serve(r) \/ Lose(r)

Next == \E r \in Requests : Issue(r) \/ TransportStep(r) \/ ServerStep(r) \/ Cancel(r)

Spec == Init /\ [][Next]_vars

-----------------------------------------------------------------------------
(* Properties *)

Budget(r) == IF budget[r] > 0 THEN budget[r] ELSE 0

EffectsBounded ==
  \A r \in Requests :
    effects[r] <= IF method[r] \in RetryMethods /\ ~key[r] THEN 1 + Budget(r) ELSE 1

BackoffInBounds ==
  \A r \in Requests :
    pc[r] \in {"draining", "sleeping"} =>
      /\ nap[r] <= BackoffMax
      /\ (pc[r] = "draining" /\ hint[r] # NoHint) => nap[r] >= AtMost(hint[r], BackoffMax)

\* The server is not made to pay for its failures: it carries a request out once if
\* the method is not retried or the request has a key, and at most 1 + max_retries
\* times otherwise; and the next attempt comes no sooner than the server asked for
\* (up to the ceiling).
ServerIsSpared == EffectsBounded /\ BackoffInBounds

\* A request that backs off, or has ended, occupies no pooled connection, so a
\* failing server cannot starve the others of connections.
IdleHoldsNoConnection == \A r \in held : pc[r] \in {"inflight", "draining", "reading"}
=============================================================================
