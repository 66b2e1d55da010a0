---------------------------- MODULE MCTransport ----------------------------
(***************************************************************************)
(* What lies below a client's methods, on small instances: two requests     *)
(* over one pooled connection (RetryTransport); two threads on one token    *)
(* provider (TokenProvider); a client and three clones of clones            *)
(* (ClientOptions).  They share no state: a behaviour is one of one of them. *)
(***************************************************************************)
EXTENDS RetryTransport, TokenProvider, ClientOptions

VARIABLE part

MCOverrides == {NoOverride, -1}
MCHints == {NoHint, 5}

\* Tokens that outlive the refresh window a little, or never expire.
MCLifetimes == {3, Never}
MCTimeouts == {1, 2}

FirstProvider == CHOOSE p \in Providers : TRUE
FirstMethod == CHOOSE m \in Methods : TRUE

PartsInit ==
  \/ /\ part = "retry"
     /\ Init
     /\ TokenInit
     /\ class = HonuaClient /\ CloneInitOf(Root, "none", 1)
  \/ /\ part = "token"
     /\ method = [r \in Requests |-> FirstMethod] /\ Init
     /\ TokenInit
     /\ class = HonuaClient /\ CloneInitOf(Root, "none", 1)
  \/ /\ part = "clones"
     /\ method = [r \in Requests |-> FirstMethod] /\ Init
     /\ prov = [t \in Threads |-> FirstProvider] /\ TokenInit
     /\ CloneInit

RetryPart(A) == part = "retry" /\ A /\ UNCHANGED <<tokenVars, cloneVars, part>>
TokenPart(A) == part = "token" /\ A /\ UNCHANGED <<vars, cloneVars, part>>

PartsNext ==
  \/ part = "retry" /\ Next /\ UNCHANGED <<tokenVars, cloneVars, part>>
  \/ part = "token" /\ TokenNext /\ UNCHANGED <<vars, cloneVars, part>>
  \/ part = "clones" /\ CloneNext /\ UNCHANGED <<vars, tokenVars, part>>

partsVars == <<vars, tokenVars, cloneVars, part>>

PartsSpec ==
  /\ PartsInit
  /\ [][PartsNext]_partsVars
  /\ \A r \in Requests : /\ WF_partsVars(RetryPart(TransportStep(r)))
                         /\ WF_partsVars(RetryPart(ServerStep(r)))
  /\ \A t \in Threads : /\ WF_partsVars(TokenPart(CallStep(t)))
                        /\ SF_partsVars(TokenPart(Enter(t)))

\* Every request is answered, fails or is cancelled, however the server behaves and
\* however many requests compete for the pool; every call of a token provider gets
\* the lock and ends, whatever callbacks and other calls do.
CallsEnd ==
  /\ \A r \in Requests : pc[r] = "sending" ~> pc[r] \in Ended
  /\ \A t \in Threads : stage[t] = "waiting" ~> stage[t] \in {"using", "idle"}
=============================================================================
