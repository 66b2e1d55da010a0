--------------------------- MODULE TokenProvider ---------------------------
(***************************************************************************)
(* RefreshableBearerTokenProvider / AsyncRefreshableBearerTokenProvider:    *)
(* threads or tasks that share a provider, its lock and its token store,    *)
(* and the requests that carry the tokens it hands out.                     *)
(*                                                                         *)
(* The identity provider behind the refresh and revoke callbacks is         *)
(* external.  Expiries are countdowns: trueLeft is what the identity        *)
(* provider counts, left what expires_at makes the client believe.          *)
(***************************************************************************)
EXTENDS Integers

CONSTANTS
  Threads,       \* callers: threads of the sync provider, tasks of the async one
  Providers,     \* provider objects, all on one token store
  Tokens,        \* bounds how many tokens are ever issued
  NoToken,
  Free,
  Lifetimes,     \* expires_in of new tokens; Never for none
  Never,
  Window,        \* refresh_window_seconds
  RefreshTime,   \* longest a refresh answer travels
  UseTime        \* longest a request, its retries included, travels with its header

ASSUME TokenAssumption == NoToken \notin Tokens /\ Free \notin Threads
ASSUME TimeAssumption ==
  /\ Window \in Nat /\ RefreshTime \in Nat /\ UseTime \in Nat
  /\ Lifetimes \subseteq Nat \cup {Never}
  /\ Never \notin Int

VARIABLES
  stage, op, prov,
  lock,        \* lock[p]: the thread inside provider p
  store,       \* the cached token
  minted,      \* the token the identity provider issued for a running refresh
  got,         \* the token a call works on or returned
  trueLeft, left,
  age,         \* ticks since the answer, or the request, set out
  gone         \* history: tokens of revoke() calls that returned

tokenVars == <<stage, op, prov, lock, store, minted, got, trueLeft, left, age, gone>>

Ops == {"get", "refresh", "revoke"}
Inside == {"entered", "refreshing", "stored", "revoking"}
Stages == {"idle", "waiting", "using"} \cup Inside
Lefts == Nat \cup {Never}
Unissued == -1

TokenTypeOK ==
  /\ stage \in [Threads -> Stages]
  /\ op \in [Threads -> Ops]
  /\ prov \in [Threads -> Providers]
  /\ lock \in [Providers -> Threads \cup {Free}]
  /\ store \in Tokens \cup {NoToken}
  /\ minted \in [Threads -> Tokens \cup {NoToken}]
  /\ got \in [Threads -> Tokens \cup {NoToken}]
  /\ \A t \in Threads : stage[t] \in {"stored", "using", "revoking"} => got[t] \in Tokens
  /\ trueLeft \in [Tokens -> Lefts \cup {Unissued}]
  /\ left \in [Tokens -> Lefts]
  /\ age \in [Threads -> Nat]
  /\ gone \in SUBSET Tokens

TokenInit ==
  /\ stage = [t \in Threads |-> "idle"]
  /\ op = [t \in Threads |-> "get"]
  /\ prov \in [Threads -> Providers]
  /\ lock = [p \in Providers |-> Free]
  /\ store = NoToken
  /\ minted = [t \in Threads |-> NoToken]
  /\ got = [t \in Threads |-> NoToken]
  /\ trueLeft = [k \in Tokens |-> Unissued]
  /\ left = [k \in Tokens |-> 0]
  /\ age = [t \in Threads |-> 0]
  /\ gone = {}

-----------------------------------------------------------------------------

Proceed(t, p) == stage' = [stage EXCEPT ![t] = p]

\* Mutant: only a token that has expired already is replaced.
ExpiresWithinNone(k) == left[k] # Never /\ left[k] <= 0

ExpiresWithin(k) == left[k] # Never /\ left[k] <= Window

Unusable(k) == IF k = NoToken THEN TRUE ELSE ExpiresWithin(k)

\* The call returns or raises, and its locals are gone.
Leave(t) ==
  /\ stage' = [stage EXCEPT ![t] = "idle"]
  /\ op' = [op EXCEPT ![t] = "get"]
  /\ got' = [got EXCEPT ![t] = NoToken]

Release(t) == lock' = [lock EXCEPT ![prov[t]] = Free]

\* A call begins and queues for the provider's lock.
Call(t, o) ==
  /\ stage[t] = "idle"
  /\ Proceed(t, "waiting")
  /\ op' = [op EXCEPT ![t] = o]
  /\ UNCHANGED <<prov, lock, store, minted, got, trueLeft, left, age, gone>>

Enter(t) ==
  /\ stage[t] = "waiting"
  /\ lock[prov[t]] = Free
  /\ Proceed(t, "entered")
  /\ lock' = [lock EXCEPT ![prov[t]] = t]
  /\ UNCHANGED <<op, prov, store, minted, got, trueLeft, left, age, gone>>

\* get_token with a usable token in the store: the header goes out with it.
ReturnCached(t) ==
  /\ stage[t] = "entered"
  /\ op[t] = "get"
  /\ ~Unusable(store)
  /\ Proceed(t, "using")
  /\ got' = [got EXCEPT ![t] = store]
  /\ age' = [age EXCEPT ![t] = 0]
  /\ Release(t)
  /\ UNCHANGED <<op, prov, store, minted, trueLeft, left, gone>>

\* _refresh_locked: the callback runs, or is awaited, with the lock held.
StartRefresh(t) ==
  /\ stage[t] = "entered"
  /\ op[t] = "refresh" \/ (op[t] = "get" /\ Unusable(store))
  /\ Proceed(t, "refreshing")
  /\ age' = [age EXCEPT ![t] = 0]
  /\ UNCHANGED <<op, prov, lock, store, minted, got, trueLeft, left, gone>>

\* The answer is coerced: expires_in counts from now, expires_at from issue.
StoreToken(t) ==
  /\ stage[t] = "refreshing"
  /\ minted[t] # NoToken
  /\ Proceed(t, "stored")
  /\ store' = minted[t]
  /\ got' = [got EXCEPT ![t] = minted[t]]
  /\ minted' = [minted EXCEPT ![t] = NoToken]
  /\ left' \in {left, [left EXCEPT ![minted[t]] = trueLeft[minted[t]]]}
  /\ age' = [age EXCEPT ![t] = 0]
  /\ UNCHANGED <<op, prov, lock, trueLeft, gone>>

ReturnRefreshed(t) ==
  /\ stage[t] = "stored"
  /\ IF op[t] = "get" THEN Proceed(t, "using") /\ UNCHANGED <<op, got>> ELSE Leave(t)
  /\ Release(t)
  /\ UNCHANGED <<prov, store, minted, trueLeft, left, age, gone>>

\* revoke: the hook gets the cached token; without one the store is just cleared.
StartRevoke(t) ==
  /\ stage[t] = "entered"
  /\ op[t] = "revoke"
  /\ store # NoToken
  /\ Proceed(t, "revoking")
  /\ got' = [got EXCEPT ![t] = store]
  /\ UNCHANGED <<op, prov, lock, store, minted, trueLeft, left, age, gone>>

\* Mutant: the hook's success is taken for the whole of it.
FinishRevokeUncleared(t) ==
  /\ \/ stage[t] = "revoking"
     \/ stage[t] = "entered" /\ op[t] = "revoke" /\ store = NoToken
  /\ Leave(t)
  /\ gone' = IF stage[t] = "revoking" THEN gone \cup {got[t]} ELSE gone
  /\ Release(t)
  /\ UNCHANGED <<prov, store, minted, trueLeft, left, age>>

FinishRevoke(t) ==
  /\ \/ stage[t] = "revoking"
     \/ stage[t] = "entered" /\ op[t] = "revoke" /\ store = NoToken
  /\ Leave(t)
  /\ gone' = IF stage[t] = "revoking" THEN gone \cup {got[t]} ELSE gone
  /\ store' = NoToken
  /\ Release(t)
  /\ UNCHANGED <<prov, minted, trueLeft, left, age>>

\* Mutant: an exception leaves the lock taken.
CallbackFailsLocked(t) ==
  /\ stage[t] \in {"refreshing", "revoking"}
  /\ Leave(t)
  /\ minted' = [minted EXCEPT ![t] = NoToken]
  /\ UNCHANGED <<prov, lock, store, trueLeft, left, age, gone>>

\* The callback raises, or its task is cancelled: with-exit, nothing stored,
\* nothing cleared; what the identity provider did is not undone.
CallbackFails(t) ==
  /\ stage[t] \in {"refreshing", "revoking"}
  /\ Leave(t)
  /\ minted' = [minted EXCEPT ![t] = NoToken]
  /\ Release(t)
  /\ UNCHANGED <<prov, store, trueLeft, left, age, gone>>

\* A task cancelled while it waits for the asyncio.Lock stops waiting.
CancelWaiting(t) ==
  /\ stage[t] = "waiting"
  /\ Leave(t)
  /\ UNCHANGED <<prov, lock, store, minted, trueLeft, left, age, gone>>

-----------------------------------------------------------------------------
(* The identity provider, the requests and the clock *)

IssueToken(t) ==
  /\ stage[t] = "refreshing"
  /\ minted[t] = NoToken
  /\ \E k \in Tokens, n \in Lifetimes :
       /\ trueLeft[k] = Unissued
       /\ trueLeft' = [trueLeft EXCEPT ![k] = n]
       /\ left' = [left EXCEPT ![k] = n]
       /\ minted' = [minted EXCEPT ![t] = k]
  /\ age' = [age EXCEPT ![t] = 0]
  /\ UNCHANGED <<stage, op, prov, lock, store, got, gone>>

\* The request with the header has been answered.
Arrive(t) ==
  /\ stage[t] = "using"
  /\ Leave(t)
  /\ UNCHANGED <<prov, lock, store, minted, trueLeft, left, age, gone>>

Down(n) == IF n \in Nat \ {0} THEN n - 1 ELSE n

UnderWay(k) == \E t \in Threads : minted[t] = k

\* The client's count starts when the answer is coerced.
Tick ==
  /\ \A t \in Threads : /\ (stage[t] = "refreshing" /\ minted[t] # NoToken) => age[t] < RefreshTime
                        /\ stage[t] \in {"using", "stored"} => age[t] < UseTime
  /\ trueLeft' = [k \in Tokens |-> Down(trueLeft[k])]
  /\ left' = [k \in Tokens |-> IF UnderWay(k) THEN left[k] ELSE Down(left[k])]
  /\ age' = [t \in Threads |->
               IF stage[t] \in {"using", "stored"} \/ minted[t] # NoToken THEN age[t] + 1 ELSE 0]
  /\ UNCHANGED <<stage, op, prov, lock, store, minted, got, gone>>

-----------------------------------------------------------------------------

CallStep(t) ==
  \/ Enter(t) \/ ReturnCached(t) \/ StartRefresh(t) \/ StoreToken(t)
  \/ ReturnRefreshed(t) \/ StartRevoke(t) \/ FinishRevoke(t) \/ CallbackFails(t)

TokenNext ==
  \/ \E t \in Threads : \/ \E o \in Ops : Call(t, o)
                        \/ CallStep(t) \/ CancelWaiting(t) \/ IssueToken(t) \/ Arrive(t)
  \/ Tick

TokenSpec == TokenInit /\ [][TokenNext]_tokenVars

-----------------------------------------------------------------------------
(* Properties *)

NoNeedlessRefresh ==
  \A t \in Threads : (stage[t] = "refreshing" /\ op[t] = "get") => Unusable(store)

\* A token is used for as long as it is good and no longer: a header put on a request
\* is still accepted when the request arrives, although expires_in is counted from
\* the arrival of the refresh answer; and a getter that had to wait for a refresh
\* takes its result.
TokensServeTheirTime ==
  /\ \A t \in Threads : stage[t] = "using" => trueLeft[got[t]] # 0
  /\ NoNeedlessRefresh

\* Once revoke() has returned, no request gets the token it revoked.
RevokedNotServed ==
  [][\A t \in Threads : (stage[t] # "using" /\ stage'[t] = "using") => got'[t] \notin gone]_tokenVars
=============================================================================
