--------------------------- MODULE TransportProofs ---------------------------
(*****************************************************************************)
(* Proofs about what lies below a client's methods, for any number of        *)
(* requests, threads, tokens and clones: how often a server carries a        *)
(* request out, how long the transport waits and what it holds meanwhile     *)
(* (RetryTransport); that one refreshable token provider serves no revoked   *)
(* token and none too late (TokenProvider; two providers over one store      *)
(* have two locks, and those theorems do not hold of them); that every       *)
(* httpx client has the owner that closes it (ClientOptions).                *)
(*****************************************************************************)
EXTENDS RetryTransport, TokenProvider, ClientOptions, TLAPS

-----------------------------------------------------------------------------
(* The retrying transport. *)

\* Delays stay below the ceiling, whatever the attempt and the hint.
LEMMA DelaysBelowCeiling ==
  ASSUME NEW n \in Nat, NEW h \in RetryAfters \cup {NoHint}, NEW d \in Delays(n, h)
  PROVE  d \in 0..BackoffMax /\ (h # NoHint => d >= AtMost(h, BackoffMax))
<1>1. CASE h = NoHint
  BY <1>1 DEF Delays, BackoffDelays
<1>2. CASE h # NoHint
  <2>1. h \in Nat /\ BackoffMax \in Nat
    BY <1>2, DelayAssumption DEF DelayAssumption
  <2>2. d = AtMost(h, BackoffMax)
    BY <1>2 DEF Delays
  <2>3. QED
    BY <2>1, <2>2 DEF AtMost
<1>3. QED
  BY <1>1, <1>2

\* The budget of a call is an integer.
LEMMA BudgetsAreIntegers ==
  ASSUME NEW o \in Overrides
  PROVE  (IF o = NoOverride THEN MaxRetries ELSE o) \in Int
BY BudgetAssumption DEF BudgetAssumption

LEMMA TypeInit == Init => TypeOK
BY DelayAssumption, BudgetAssumption
   DEF Init, TypeOK, PCs, Ended, Statuses, RetryStatus, DelayAssumption, BudgetAssumption

LEMMA TypeStep == TypeOK /\ [Next]_vars => TypeOK'
<1> SUFFICES ASSUME TypeOK, [Next]_vars PROVE TypeOK'
  OBVIOUS
<1> USE DelayAssumption, BudgetAssumption
    DEF DelayAssumption, BudgetAssumption, TypeOK, PCs, Ended, Statuses, RetryStatus, Goto, Finish
<1>1. ASSUME NEW r \in Requests, Issue(r) PROVE TypeOK'
  <2>1. PICK o \in Overrides :
          LET n == IF o = NoOverride THEN MaxRetries ELSE o
          IN remaining' = [remaining EXCEPT ![r] = n] /\ budget' = [budget EXCEPT ![r] = n]
    BY <1>1 DEF Issue
  <2>2. remaining' \in [Requests -> Int] /\ budget' \in [Requests -> Int]
    BY <2>1, BudgetsAreIntegers
  <2>3. QED
    BY <1>1, <2>2 DEF Issue
<1>2. ASSUME NEW r \in Requests, SendAttempt(r) PROVE TypeOK'
  BY <1>2 DEF SendAttempt
<1>3. ASSUME NEW r \in Requests, PoolTimesOut(r) PROVE TypeOK'
  BY <1>3 DEF PoolTimesOut, TransientError, BackOff, BackoffDelays
<1>4. ASSUME NEW r \in Requests, AttemptFails(r) PROVE TypeOK'
  BY <1>4 DEF AttemptFails, TransientError, BackOff, BackoffDelays
<1>5. ASSUME NEW r \in Requests, ResponseReturned(r) PROVE TypeOK'
  BY <1>5 DEF ResponseReturned
<1>6. ASSUME NEW r \in Requests, DrainResponse(r) PROVE TypeOK'
  <2>1. PICK d \in Delays(attempt[r], hint[r]) : nap' = [nap EXCEPT ![r] = d]
    BY <1>6 DEF DrainResponse
  <2>2. d \in 0..BackoffMax
    BY DelaysBelowCeiling
  <2>3. QED
    BY <1>6, <2>1, <2>2 DEF DrainResponse
<1>7. ASSUME NEW r \in Requests, CloseAndSleep(r) PROVE TypeOK'
  BY <1>7 DEF CloseAndSleep
<1>8. ASSUME NEW r \in Requests, DrainFails(r) PROVE TypeOK'
  BY <1>8 DEF DrainFails
<1>9. ASSUME NEW r \in Requests, WakeUp(r) PROVE TypeOK'
  BY <1>9 DEF WakeUp
<1>10. ASSUME NEW r \in Requests, ReadResponse(r) PROVE TypeOK'
  BY <1>10 DEF ReadResponse
<1>11. ASSUME NEW r \in Requests, Cancel(r) PROVE TypeOK'
  BY <1>11 DEF Cancel
<1>12. ASSUME NEW r \in Requests, Serve(r) PROVE TypeOK'
  BY <1>12 DEF Serve, Carry, AtMost
<1>13. ASSUME NEW r \in Requests, Lose(r) PROVE TypeOK'
  BY <1>13 DEF Lose, Carry, AtMost
<1>14. CASE UNCHANGED vars
  BY <1>14 DEF vars
<1>15. QED
  BY <1>1, <1>2, <1>3, <1>4, <1>5, <1>6, <1>7, <1>8, <1>9, <1>10, <1>11, <1>12, <1>13, <1>14
     DEF Next, TransportStep, ServerStep

\* Every variable keeps its type.
THEOREM TransportTypeCorrect == Spec => []TypeOK
BY TypeInit, TypeStep, PTL DEF Spec

-----------------------------------------------------------------------------
(* What an attempt may add to the effects of a request. *)

\* The repetitions a request may make: none if its method is not retried.
Spare(r) == IF Retriable(r) THEN Budget(r) ELSE 0

\* No attempt of the current turn has reached the server.
Unsent(r) == pc[r] \in {"idle", "sending"} \/ net[r] = "sent"

\* In a turn of the loop the retries made and those left are the budget, and the
\* server has carried the request out no more often than attempts reached it.  A
\* request that has ended may still be on its way to the server.
Ledger(r) ==
  /\ pc[r] = "idle" => attempt[r] = 0 /\ effects[r] = 0
  /\ pc[r] \in {"idle", "sending", "sleeping"} => net[r] = "none"
  /\ pc[r] = "draining" => net[r] = RetryStatus
  /\ pc[r] \notin {"idle"} \cup Ended =>
       /\ attempt[r] + remaining[r] = budget[r]
       /\ attempt[r] <= Spare(r)
  /\ pc[r] \in {"draining", "sleeping"} => attempt[r] < Spare(r)
  /\ key[r] => effects[r] <= 1
  /\ ~key[r] =>
       effects[r] <= (IF pc[r] \in Ended THEN Spare(r) ELSE attempt[r])
                       + (IF Unsent(r) THEN 0 ELSE 1)

LedgerInv == TypeOK /\ \A r \in Requests : Ledger(r)

LEMMA LedgerInit == Init => LedgerInv
BY TypeInit DEF Init, LedgerInv, Ledger, Unsent, Ended

LEMMA LedgerStep == LedgerInv /\ [Next]_vars => LedgerInv'
<1> SUFFICES ASSUME LedgerInv, [Next]_vars, NEW s \in Requests PROVE Ledger(s)'
  BY TypeStep DEF LedgerInv
<1>0. TypeOK' /\ TypeOK /\ Ledger(s) /\ budget[s] \in Int
  BY TypeStep DEF LedgerInv, TypeOK
<1> USE <1>0, BudgetAssumption
    DEF BudgetAssumption, TypeOK, PCs, Ended, Statuses, RetryStatus, Goto, Finish,
        Ledger, Spare, Budget, Unsent, Retriable
<1>1. ASSUME NEW r \in Requests, Issue(r) PROVE Ledger(s)'
  <2>1. PICK o \in Overrides :
          LET n == IF o = NoOverride THEN MaxRetries ELSE o
          IN remaining' = [remaining EXCEPT ![r] = n] /\ budget' = [budget EXCEPT ![r] = n]
    BY <1>1 DEF Issue
  <2>2. QED
    BY <1>1, <2>1, BudgetsAreIntegers DEF Issue
<1>2. ASSUME NEW r \in Requests, SendAttempt(r) PROVE Ledger(s)'
  BY <1>2 DEF SendAttempt
<1>3. ASSUME NEW r \in Requests, PoolTimesOut(r) PROVE Ledger(s)'
  BY <1>3 DEF PoolTimesOut, TransientError, BackOff
<1>4. ASSUME NEW r \in Requests, AttemptFails(r) PROVE Ledger(s)'
  BY <1>4 DEF AttemptFails, TransientError, BackOff
<1>5. ASSUME NEW r \in Requests, ResponseReturned(r) PROVE Ledger(s)'
  BY <1>5 DEF ResponseReturned
<1>6. ASSUME NEW r \in Requests, DrainResponse(r) PROVE Ledger(s)'
  BY <1>6 DEF DrainResponse
<1>7. ASSUME NEW r \in Requests, CloseAndSleep(r) PROVE Ledger(s)'
  BY <1>7 DEF CloseAndSleep
<1>8. ASSUME NEW r \in Requests, DrainFails(r) PROVE Ledger(s)'
  BY <1>8 DEF DrainFails
<1>9. ASSUME NEW r \in Requests, WakeUp(r) PROVE Ledger(s)'
  BY <1>9 DEF WakeUp
<1>10. ASSUME NEW r \in Requests, ReadResponse(r) PROVE Ledger(s)'
  BY <1>10 DEF ReadResponse
<1>11. ASSUME NEW r \in Requests, Cancel(r) PROVE Ledger(s)'
  BY <1>11 DEF Cancel
<1>12. ASSUME NEW r \in Requests, Serve(r) PROVE Ledger(s)'
  BY <1>12 DEF Serve, Carry, AtMost
<1>13. ASSUME NEW r \in Requests, Lose(r) PROVE Ledger(s)'
  BY <1>13 DEF Lose, Carry, AtMost
<1>14. CASE UNCHANGED vars
  BY <1>14 DEF vars
<1>15. QED
  BY <1>1, <1>2, <1>3, <1>4, <1>5, <1>6, <1>7, <1>8, <1>9, <1>10, <1>11, <1>12, <1>13, <1>14
     DEF Next, TransportStep, ServerStep

LEMMA LedgerBounds == LedgerInv => EffectsBounded
<1> SUFFICES ASSUME LedgerInv, NEW r \in Requests
             PROVE  effects[r] <= IF method[r] \in RetryMethods /\ ~key[r] THEN 1 + Budget(r) ELSE 1
  BY DEF EffectsBounded
<1>1. effects[r] \in Nat /\ attempt[r] \in Nat /\ budget[r] \in Int /\ key[r] \in BOOLEAN
  BY DEF LedgerInv, TypeOK
<1>2. Ledger(r)
  BY DEF LedgerInv
<1>3. QED
  BY <1>1, <1>2 DEF Ledger, Spare, Budget, Unsent, Retriable, Ended

-----------------------------------------------------------------------------
(* The delays. *)

\* A hint does not change any more once its answer is being drained.
PacedInv == LedgerInv /\ BackoffInBounds

LEMMA PacedInit == Init => PacedInv
BY LedgerInit DEF Init, PacedInv, BackoffInBounds

LEMMA PacedStep == PacedInv /\ [Next]_vars => PacedInv'
<1> SUFFICES ASSUME PacedInv, [Next]_vars PROVE BackoffInBounds'
  BY LedgerStep DEF PacedInv
<1>0. TypeOK /\ TypeOK' /\ \A r \in Requests : Ledger(r)
  BY TypeStep DEF PacedInv, LedgerInv
<1> USE <1>0, DelayAssumption
    DEF DelayAssumption, TypeOK, PacedInv, BackoffInBounds, Goto, Finish
<1>1. ASSUME NEW r \in Requests, Issue(r) PROVE BackoffInBounds'
  BY <1>1 DEF Issue
<1>2. ASSUME NEW r \in Requests, SendAttempt(r) PROVE BackoffInBounds'
  BY <1>2 DEF SendAttempt
<1>3. ASSUME NEW r \in Requests, PoolTimesOut(r) PROVE BackoffInBounds'
  BY <1>3 DEF PoolTimesOut, TransientError, BackOff, BackoffDelays
<1>4. ASSUME NEW r \in Requests, AttemptFails(r) PROVE BackoffInBounds'
  BY <1>4 DEF AttemptFails, TransientError, BackOff, BackoffDelays
<1>5. ASSUME NEW r \in Requests, ResponseReturned(r) PROVE BackoffInBounds'
  BY <1>5 DEF ResponseReturned
<1>6. ASSUME NEW r \in Requests, DrainResponse(r) PROVE BackoffInBounds'
  <2>1. PICK d \in Delays(attempt[r], hint[r]) : nap' = [nap EXCEPT ![r] = d]
    BY <1>6 DEF DrainResponse
  <2>2. d \in 0..BackoffMax /\ (hint[r] # NoHint => d >= AtMost(hint[r], BackoffMax))
    BY DelaysBelowCeiling
  <2>3. QED
    BY <1>6, <2>1, <2>2 DEF DrainResponse
<1>7. ASSUME NEW r \in Requests, CloseAndSleep(r) PROVE BackoffInBounds'
  BY <1>7 DEF CloseAndSleep
<1>8. ASSUME NEW r \in Requests, DrainFails(r) PROVE BackoffInBounds'
  BY <1>8 DEF DrainFails
<1>9. ASSUME NEW r \in Requests, WakeUp(r) PROVE BackoffInBounds'
  BY <1>9 DEF WakeUp
<1>10. ASSUME NEW r \in Requests, ReadResponse(r) PROVE BackoffInBounds'
  BY <1>10 DEF ReadResponse
<1>11. ASSUME NEW r \in Requests, Cancel(r) PROVE BackoffInBounds'
  BY <1>11 DEF Cancel
<1>12. ASSUME NEW r \in Requests, Serve(r) PROVE BackoffInBounds'
  BY <1>12 DEF Serve, Ledger, RetryStatus
<1>13. ASSUME NEW r \in Requests, Lose(r) PROVE BackoffInBounds'
  BY <1>13 DEF Lose
<1>14. CASE UNCHANGED vars
  BY <1>14 DEF vars
<1>15. QED
  BY <1>1, <1>2, <1>3, <1>4, <1>5, <1>6, <1>7, <1>8, <1>9, <1>10, <1>11, <1>12, <1>13, <1>14
     DEF Next, TransportStep, ServerStep

\* However attempts fail and whenever their requests arrive, the server carries a
\* request out no more often than its budget allows, and is given the time it asks for.
THEOREM RetriesAreMeasured == Spec => []ServerIsSpared
<1>1. PacedInv => ServerIsSpared
  BY LedgerBounds DEF PacedInv, ServerIsSpared
<1>2. QED
  BY <1>1, PacedInit, PacedStep, PTL DEF Spec

-----------------------------------------------------------------------------
(* The connections. *)

\* Each step of a request that leaves the states in which it has an answer gives its
\* connection back.
LEMMA IdleStep == TypeOK /\ IdleHoldsNoConnection /\ [Next]_vars => IdleHoldsNoConnection'
<1> SUFFICES ASSUME TypeOK, IdleHoldsNoConnection, [Next]_vars PROVE IdleHoldsNoConnection'
  OBVIOUS
<1> USE DEF TypeOK, IdleHoldsNoConnection, Goto, Finish
<1>1. ASSUME NEW r \in Requests, Issue(r) PROVE IdleHoldsNoConnection'
  BY <1>1 DEF Issue
<1>2. ASSUME NEW r \in Requests, SendAttempt(r) PROVE IdleHoldsNoConnection'
  BY <1>2 DEF SendAttempt
<1>3. ASSUME NEW r \in Requests, PoolTimesOut(r) PROVE IdleHoldsNoConnection'
  BY <1>3 DEF PoolTimesOut, TransientError, BackOff
<1>4. ASSUME NEW r \in Requests, AttemptFails(r) PROVE IdleHoldsNoConnection'
  BY <1>4 DEF AttemptFails, TransientError, BackOff
<1>5. ASSUME NEW r \in Requests, ResponseReturned(r) PROVE IdleHoldsNoConnection'
  BY <1>5 DEF ResponseReturned
<1>6. ASSUME NEW r \in Requests, DrainResponse(r) PROVE IdleHoldsNoConnection'
  BY <1>6 DEF DrainResponse
<1>7. ASSUME NEW r \in Requests, CloseAndSleep(r) PROVE IdleHoldsNoConnection'
  BY <1>7 DEF CloseAndSleep
<1>8. ASSUME NEW r \in Requests, DrainFails(r) PROVE IdleHoldsNoConnection'
  BY <1>8 DEF DrainFails
<1>9. ASSUME NEW r \in Requests, WakeUp(r) PROVE IdleHoldsNoConnection'
  BY <1>9 DEF WakeUp
<1>10. ASSUME NEW r \in Requests, ReadResponse(r) PROVE IdleHoldsNoConnection'
  BY <1>10 DEF ReadResponse
<1>11. ASSUME NEW r \in Requests, Cancel(r) PROVE IdleHoldsNoConnection'
  BY <1>11 DEF Cancel
<1>12. ASSUME NEW r \in Requests, Serve(r) PROVE IdleHoldsNoConnection'
  BY <1>12 DEF Serve
<1>13. ASSUME NEW r \in Requests, Lose(r) PROVE IdleHoldsNoConnection'
  BY <1>13 DEF Lose
<1>14. CASE UNCHANGED vars
  BY <1>14 DEF vars
<1>15. QED
  BY <1>1, <1>2, <1>3, <1>4, <1>5, <1>6, <1>7, <1>8, <1>9, <1>10, <1>11, <1>12, <1>13, <1>14
     DEF Next, TransportStep, ServerStep

\* No request holds a connection while it sleeps, waits for one, or has ended, by
\* whichever way: response, error, failed drain or cancellation.
THEOREM SleepersHoldNothing == Spec => []IdleHoldsNoConnection
<1>1. Init => IdleHoldsNoConnection
  BY DEF Init, IdleHoldsNoConnection
<1>2. QED
  BY <1>1, TypeInit, TypeStep, IdleStep, PTL DEF Spec

-----------------------------------------------------------------------------
(* The token provider. *)

OneProvider == \A p, q \in Providers : p = q

\* The refresh window covers the time a refresh answer and a request travel, and
\* tokens live longer than both.
TokensLastLongEnough ==
  /\ Window >= RefreshTime + UseTime
  /\ \A n \in Lifetimes \ {Never} : n > RefreshTime + UseTime

\* A thread inside the provider holds its lock; a token is issued before it is in
\* the store or in use, and belongs to one refresh until it is stored.
Guarded ==
  /\ TokenTypeOK
  /\ \A t \in Threads : stage[t] \in Inside => lock[prov[t]] = t
  /\ \A t \in Threads : minted[t] # NoToken => stage[t] = "refreshing"
  /\ \A t \in Threads : got[t] # NoToken => stage[t] \in {"stored", "using", "revoking"}
  /\ store # NoToken => trueLeft[store] # Unissued
  /\ \A t \in Threads : minted[t] # NoToken => trueLeft[minted[t]] # Unissued /\ minted[t] # store
  /\ \A t \in Threads : got[t] # NoToken => trueLeft[got[t]] # Unissued
  /\ \A t, u \in Threads : minted[t] # NoToken => minted[t] # got[u]
  /\ \A t, u \in Threads : (minted[t] # NoToken /\ t # u) => minted[t] # minted[u]

LEMMA GuardedInit == TokenInit => Guarded
BY TokenAssumption, TimeAssumption
DEF TokenAssumption, TimeAssumption, TokenInit, Guarded, TokenTypeOK, Stages, Inside, Ops, Lefts,
    Unissued

LEMMA GuardedStep == Guarded /\ [TokenNext]_tokenVars => Guarded'
<1> SUFFICES ASSUME Guarded, [TokenNext]_tokenVars PROVE Guarded'
  OBVIOUS
<1> USE TokenAssumption, TimeAssumption
    DEF TokenAssumption, TimeAssumption, Guarded, TokenTypeOK, Stages, Inside, Ops, Lefts,
        Unissued, Proceed, tokenVars
<1>1. ASSUME NEW t \in Threads, NEW o \in Ops, Call(t, o) PROVE Guarded'
  BY <1>1 DEF Call
<1>2. ASSUME NEW t \in Threads, Enter(t) PROVE Guarded'
  BY <1>2 DEF Enter
<1>3. ASSUME NEW t \in Threads, ReturnCached(t) PROVE Guarded'
  BY <1>3 DEF ReturnCached, Release, Unusable
<1>4. ASSUME NEW t \in Threads, StartRefresh(t) PROVE Guarded'
  BY <1>4 DEF StartRefresh
<1>5. ASSUME NEW t \in Threads, StoreToken(t) PROVE Guarded'
  BY <1>5 DEF StoreToken
<1>6. ASSUME NEW t \in Threads, ReturnRefreshed(t) PROVE Guarded'
  BY <1>6 DEF ReturnRefreshed, Release, Leave
<1>7. ASSUME NEW t \in Threads, StartRevoke(t) PROVE Guarded'
  BY <1>7 DEF StartRevoke
<1>8. ASSUME NEW t \in Threads, FinishRevoke(t) PROVE Guarded'
  BY <1>8 DEF FinishRevoke, Release, Leave
<1>9. ASSUME NEW t \in Threads, CallbackFails(t) PROVE Guarded'
  BY <1>9 DEF CallbackFails, Release, Leave
<1>10. ASSUME NEW t \in Threads, CancelWaiting(t) PROVE Guarded'
  BY <1>10 DEF CancelWaiting, Leave
<1>11. ASSUME NEW t \in Threads, IssueToken(t) PROVE Guarded'
  BY <1>11 DEF IssueToken
<1>12. ASSUME NEW t \in Threads, Arrive(t) PROVE Guarded'
  BY <1>12 DEF Arrive, Leave
<1>13. CASE Tick
  BY <1>13 DEF Tick, Down, UnderWay
<1>14. CASE UNCHANGED tokenVars
  BY <1>14
<1>15. QED
  BY <1>1, <1>2, <1>3, <1>4, <1>5, <1>6, <1>7, <1>8, <1>9, <1>10, <1>11, <1>12, <1>13, <1>14
  DEF TokenNext, CallStep

\* The lock excludes: no two threads are inside a lone provider.
LEMMA LockExcludes ==
  ASSUME OneProvider, Guarded, NEW t \in Threads, NEW u \in Threads,
         stage[t] \in Inside, stage[u] \in Inside
  PROVE  t = u
BY DEF OneProvider, Guarded, TokenTypeOK

-----------------------------------------------------------------------------
(* Revoked tokens *)

\* Nothing that is stored, or about to be, has been revoked.
NoneRevoked ==
  /\ gone \subseteq Tokens /\ \A k \in gone : trueLeft[k] # Unissued
  /\ store \notin gone
  /\ \A t \in Threads : minted[t] \notin gone
  /\ \A t \in Threads : stage[t] = "stored" => got[t] \notin gone
  /\ \A t \in Threads : stage[t] = "revoking" => got[t] = store

LEMMA RevokedInit == TokenInit => NoneRevoked
BY TokenAssumption DEF TokenAssumption, TokenInit, NoneRevoked

LEMMA RevokedStep ==
  ASSUME OneProvider
  PROVE  Guarded /\ NoneRevoked /\ [TokenNext]_tokenVars => NoneRevoked'
<1> SUFFICES ASSUME Guarded, NoneRevoked, [TokenNext]_tokenVars PROVE NoneRevoked'
  OBVIOUS
<1> USE TokenAssumption, TimeAssumption, LockExcludes
    DEF TokenAssumption, TimeAssumption, Guarded, TokenTypeOK, Stages, Inside, Ops, Lefts,
        Unissued, Proceed, tokenVars, NoneRevoked
<1>1. ASSUME NEW t \in Threads, NEW o \in Ops, Call(t, o) PROVE NoneRevoked'
  BY <1>1 DEF Call
<1>2. ASSUME NEW t \in Threads, Enter(t) PROVE NoneRevoked'
  BY <1>2 DEF Enter
<1>3. ASSUME NEW t \in Threads, ReturnCached(t) PROVE NoneRevoked'
  BY <1>3 DEF ReturnCached, Release
<1>4. ASSUME NEW t \in Threads, StartRefresh(t) PROVE NoneRevoked'
  BY <1>4 DEF StartRefresh
<1>5. ASSUME NEW t \in Threads, StoreToken(t) PROVE NoneRevoked'
  BY <1>5 DEF StoreToken
<1>6. ASSUME NEW t \in Threads, ReturnRefreshed(t) PROVE NoneRevoked'
  BY <1>6 DEF ReturnRefreshed, Release, Leave
<1>7. ASSUME NEW t \in Threads, StartRevoke(t) PROVE NoneRevoked'
  BY <1>7 DEF StartRevoke
<1>8. ASSUME NEW t \in Threads, FinishRevoke(t) PROVE NoneRevoked'
  BY <1>8 DEF FinishRevoke, Release, Leave
<1>9. ASSUME NEW t \in Threads, CallbackFails(t) PROVE NoneRevoked'
  BY <1>9 DEF CallbackFails, Release, Leave
<1>10. ASSUME NEW t \in Threads, CancelWaiting(t) PROVE NoneRevoked'
  BY <1>10 DEF CancelWaiting, Leave
<1>11. ASSUME NEW t \in Threads, IssueToken(t) PROVE NoneRevoked'
  BY <1>11 DEF IssueToken
<1>12. ASSUME NEW t \in Threads, Arrive(t) PROVE NoneRevoked'
  BY <1>12 DEF Arrive, Leave
<1>13. CASE Tick
  BY <1>13 DEF Tick, Down, UnderWay
<1>14. CASE UNCHANGED tokenVars
  BY <1>14
<1>15. QED
  BY <1>1, <1>2, <1>3, <1>4, <1>5, <1>6, <1>7, <1>8, <1>9, <1>10, <1>11, <1>12, <1>13, <1>14
  DEF TokenNext, CallStep

\* RevokedNotServed: once revoke has returned, no request gets the token it revoked.
THEOREM RevokedStaysOut ==
  ASSUME OneProvider
  PROVE  TokenSpec => RevokedNotServed
<1>1. Guarded /\ NoneRevoked /\ [TokenNext]_tokenVars =>
        [\A t \in Threads : (stage[t] # "using" /\ stage'[t] = "using") => got'[t] \notin gone]_tokenVars
  <2> SUFFICES ASSUME Guarded, NoneRevoked, TokenNext, NEW t \in Threads,
                      stage[t] # "using", stage'[t] = "using"
               PROVE  got'[t] \notin gone
    OBVIOUS
  <2>1. ReturnCached(t) \/ ReturnRefreshed(t)
    BY DEF TokenNext, CallStep, Call, Enter, ReturnCached, StartRefresh, StoreToken, ReturnRefreshed,
           StartRevoke, FinishRevoke, CallbackFails, CancelWaiting, IssueToken, Arrive, Tick, Leave,
           Proceed, Guarded, TokenTypeOK
  <2>2. QED
    BY <2>1, TokenAssumption DEF TokenAssumption, ReturnCached, ReturnRefreshed, Leave, Proceed,
       Guarded, TokenTypeOK, NoneRevoked, Unusable
<1>2. QED
  BY <1>1, GuardedInit, GuardedStep, RevokedInit, RevokedStep, PTL DEF TokenSpec, RevokedNotServed

-----------------------------------------------------------------------------
(* Expiry *)

\* The client believes a token good for at most the travel of its refresh answer
\* longer than it is; what a call holds is good for the rest of its use.
Timely ==
  /\ \A k \in Tokens : trueLeft[k] # Unissued => (trueLeft[k] = Never <=> left[k] = Never)
  /\ \A k \in Tokens :
       (trueLeft[k] \in Nat /\ \A t \in Threads : minted[t] # k)
         => trueLeft[k] >= left[k] - RefreshTime
  /\ \A t \in Threads : (minted[t] # NoToken /\ trueLeft[minted[t]] \in Nat) =>
       /\ age[t] <= RefreshTime
       /\ trueLeft[minted[t]] >= left[minted[t]] - age[t]
       /\ left[minted[t]] > RefreshTime + UseTime
  /\ \A t \in Threads : (stage[t] \in {"stored", "using"} /\ trueLeft[got[t]] \in Nat) =>
       age[t] <= UseTime /\ trueLeft[got[t]] > UseTime - age[t]

LEMMA TimelyInit == TokenInit => Timely
BY TokenAssumption, TimeAssumption
DEF TokenAssumption, TimeAssumption, TokenInit, Timely, Unissued

LEMMA TimelyStep ==
  ASSUME TokensLastLongEnough
  PROVE  Guarded /\ Timely /\ [TokenNext]_tokenVars => Timely'
<1> SUFFICES ASSUME Guarded, Timely, [TokenNext]_tokenVars PROVE Timely'
  OBVIOUS
<1> USE TokenAssumption, TimeAssumption, TokensLastLongEnough
    DEF TokenAssumption, TimeAssumption, TokensLastLongEnough, Guarded, TokenTypeOK, Stages,
        Inside, Ops, Lefts, Unissued, Proceed, tokenVars, Timely
<1>1. ASSUME NEW t \in Threads, NEW o \in Ops, Call(t, o) PROVE Timely'
  BY <1>1 DEF Call
<1>2. ASSUME NEW t \in Threads, Enter(t) PROVE Timely'
  BY <1>2 DEF Enter
<1>3. ASSUME NEW t \in Threads, ReturnCached(t) PROVE Timely'
  BY <1>3 DEF ReturnCached, Unusable, ExpiresWithin
<1>4. ASSUME NEW t \in Threads, StartRefresh(t) PROVE Timely'
  BY <1>4 DEF StartRefresh
<1>5. ASSUME NEW t \in Threads, StoreToken(t) PROVE Timely'
  BY <1>5 DEF StoreToken
<1>6. ASSUME NEW t \in Threads, ReturnRefreshed(t) PROVE Timely'
  BY <1>6 DEF ReturnRefreshed, Leave
<1>7. ASSUME NEW t \in Threads, StartRevoke(t) PROVE Timely'
  BY <1>7 DEF StartRevoke
<1>8. ASSUME NEW t \in Threads, FinishRevoke(t) PROVE Timely'
  BY <1>8 DEF FinishRevoke, Leave
<1>9. ASSUME NEW t \in Threads, CallbackFails(t) PROVE Timely'
  BY <1>9 DEF CallbackFails, Leave
<1>10. ASSUME NEW t \in Threads, CancelWaiting(t) PROVE Timely'
  BY <1>10 DEF CancelWaiting, Leave
<1>11. ASSUME NEW t \in Threads, IssueToken(t) PROVE Timely'
  BY <1>11 DEF IssueToken
<1>12. ASSUME NEW t \in Threads, Arrive(t) PROVE Timely'
  BY <1>12 DEF Arrive, Leave
<1>13. CASE Tick
  BY <1>13 DEF Tick, Down, UnderWay
<1>14. CASE UNCHANGED tokenVars
  BY <1>14
<1>15. QED
  BY <1>1, <1>2, <1>3, <1>4, <1>5, <1>6, <1>7, <1>8, <1>9, <1>10, <1>11, <1>12, <1>13, <1>14
  DEF TokenNext, CallStep

LEMMA NeedStep ==
  ASSUME OneProvider
  PROVE  Guarded /\ NoNeedlessRefresh /\ [TokenNext]_tokenVars => NoNeedlessRefresh'
<1> SUFFICES ASSUME Guarded, NoNeedlessRefresh, [TokenNext]_tokenVars PROVE NoNeedlessRefresh'
  OBVIOUS
<1> USE TokenAssumption, TimeAssumption, LockExcludes
    DEF TokenAssumption, TimeAssumption, Guarded, TokenTypeOK, Stages, Inside, Ops, Lefts,
        Unissued, Proceed, tokenVars, NoNeedlessRefresh, Unusable, ExpiresWithin
<1>1. ASSUME NEW t \in Threads, NEW o \in Ops, Call(t, o) PROVE NoNeedlessRefresh'
  BY <1>1 DEF Call
<1>2. ASSUME NEW t \in Threads, Enter(t) PROVE NoNeedlessRefresh'
  BY <1>2 DEF Enter
<1>3. ASSUME NEW t \in Threads, ReturnCached(t) PROVE NoNeedlessRefresh'
  BY <1>3 DEF ReturnCached, Unusable, ExpiresWithin
<1>4. ASSUME NEW t \in Threads, StartRefresh(t) PROVE NoNeedlessRefresh'
  BY <1>4 DEF StartRefresh
<1>5. ASSUME NEW t \in Threads, StoreToken(t) PROVE NoNeedlessRefresh'
  BY <1>5 DEF StoreToken
<1>6. ASSUME NEW t \in Threads, ReturnRefreshed(t) PROVE NoNeedlessRefresh'
  BY <1>6 DEF ReturnRefreshed, Leave
<1>7. ASSUME NEW t \in Threads, StartRevoke(t) PROVE NoNeedlessRefresh'
  BY <1>7 DEF StartRevoke
<1>8. ASSUME NEW t \in Threads, FinishRevoke(t) PROVE NoNeedlessRefresh'
  BY <1>8 DEF FinishRevoke, Leave
<1>9. ASSUME NEW t \in Threads, CallbackFails(t) PROVE NoNeedlessRefresh'
  BY <1>9 DEF CallbackFails, Leave
<1>10. ASSUME NEW t \in Threads, CancelWaiting(t) PROVE NoNeedlessRefresh'
  BY <1>10 DEF CancelWaiting, Leave
<1>11. ASSUME NEW t \in Threads, IssueToken(t) PROVE NoNeedlessRefresh'
  BY <1>11 DEF IssueToken
<1>12. ASSUME NEW t \in Threads, Arrive(t) PROVE NoNeedlessRefresh'
  BY <1>12 DEF Arrive, Leave
<1>13. CASE Tick
  BY <1>13 DEF Tick, Down, UnderWay
<1>14. CASE UNCHANGED tokenVars
  BY <1>14
<1>15. QED
  BY <1>1, <1>2, <1>3, <1>4, <1>5, <1>6, <1>7, <1>8, <1>9, <1>10, <1>11, <1>12, <1>13, <1>14
  DEF TokenNext, CallStep

\* TokensServeTheirTime: a header put on a request is still good when the request
\* arrives, and a getter refreshes only a token that needs it.
THEOREM TokensAreGoodInUse ==
  ASSUME OneProvider, TokensLastLongEnough
  PROVE  TokenSpec => []TokensServeTheirTime
<1>1. TokenInit => NoNeedlessRefresh
  BY DEF TokenInit, NoNeedlessRefresh
<1>2. Guarded /\ Timely /\ NoNeedlessRefresh => TokensServeTheirTime
  BY TimeAssumption DEF TimeAssumption, Guarded, TokenTypeOK, Lefts, Timely, TokensServeTheirTime
<1>3. QED
  BY <1>1, <1>2, GuardedInit, GuardedStep, TimelyInit, TimelyStep, NeedStep, PTL DEF TokenSpec

-----------------------------------------------------------------------------
(* Clients and their clones. *)

\* Every httpx client that the SDK built has the one owner it is named for, which
\* is never a clone of somebody who uses it; a clone that owns its client reaches
\* the caller's transport through the wrapper only.
OneOwner ==
  /\ Root \in made /\ made \subseteq Clients
  /\ closed \subseteq Clients
  /\ callerDown \in BOOLEAN
  /\ parent \in [Clients -> made \cup {None}]
  /\ http \in [Clients -> Clients \cup {Injected, None}]
  /\ owns \in [Clients -> BOOLEAN]
  /\ transport \in [Clients -> Transports]
  /\ \A c \in made : http[c] = Injected \/ (http[c] \in made /\ owns[http[c]])
  /\ \A c \in made : owns[c] => http[c] = c
  /\ \A c \in made : (parent[c] # None /\ owns[c]) =>
       http[parent[c]] # c /\ transport[c] # "caller"
  /\ parent[Root] = None
  /\ transport[Root] = "caller" => owns[Root]
  /\ (transport[Root] = "caller" /\ Root \in closed) => callerDown

LEMMA OwnerInit == CloneInit => OneOwner
<1> SUFFICES ASSUME NEW c \in {Root, Injected}, NEW tr \in {"none", "caller"},
                    NEW d \in Timeouts, CloneInitOf(c, tr, d), class \in Classes
             PROVE  OneOwner
  BY DEF CloneInit
<1>1. QED
  BY ClientsAssumption DEF ClientsAssumption, CloneInitOf, OneOwner, Transports

LEMMA OwnerStep == OneOwner /\ [CloneNext]_cloneVars => OneOwner'
<1> SUFFICES ASSUME OneOwner, [CloneNext]_cloneVars PROVE OneOwner'
  OBVIOUS
<1> USE ClientsAssumption DEF ClientsAssumption, OneOwner, Transports, Add
<1>1. ASSUME NEW p \in Clients, NEW k \in Clients, SharingClone(p, k) PROVE OneOwner'
  BY <1>1 DEF SharingClone
<1>2. ASSUME NEW p \in Clients, NEW k \in Clients, NEW d \in Timeouts, IndependentClone(p, k, d)
      PROVE  OneOwner'
  BY <1>2 DEF IndependentClone
<1>3. ASSUME NEW c \in Clients, Close(c) PROVE OneOwner'
  BY <1>3 DEF Close
<1>4. CASE UNCHANGED cloneVars
  BY <1>4 DEF cloneVars
<1>5. QED
  BY <1>1, <1>2, <1>3, <1>4 DEF CloneNext

\* NothingLeaks: when all that own something are closed, everything the SDK built or
\* took over is, and the httpx client of the caller never is.
THEOREM OwnersCloseEverything == CloneSpec => []NothingLeaks
<1>1. OneOwner => NothingLeaks
  <2> SUFFICES ASSUME OneOwner PROVE NothingLeaks
    OBVIOUS
  <2>1. Injected \notin closed
    BY ClientsAssumption DEF ClientsAssumption, OneOwner
  <2>2. ASSUME \A c \in made : owns[c] => http[c] \in closed
        PROVE  Built \subseteq closed /\ (transport[Root] = "caller" => callerDown)
    BY <2>2 DEF OneOwner, Built
  <2>3. QED
    BY <2>1, <2>2 DEF NothingLeaks
<1>2. QED
  BY <1>1, OwnerInit, OwnerStep, PTL DEF CloneSpec

\* CloneCloseIsHarmless: however a clone was derived, closing it leaves the client it
\* was made from usable.
THEOREM ClonesCloseThemselves == CloneSpec => CloneCloseIsHarmless
<1>1. OneOwner /\ [CloneNext]_cloneVars =>
        [\A c \in made : (Close(c) /\ parent[c] # None /\ Usable(parent[c])) => Usable(parent[c])']_cloneVars
  BY DEF OneOwner, Close, Usable
<1>2. QED
  BY <1>1, OwnerInit, OwnerStep, PTL DEF CloneSpec, CloneCloseIsHarmless
=============================================================================
