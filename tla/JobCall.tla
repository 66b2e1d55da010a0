------------------------------ MODULE JobCall ------------------------------
(***************************************************************************)
(* What a blocking geoprocessing call promises its caller, whichever loop   *)
(* implements it: the call ends once, its outcome never changes, and it     *)
(* reports success only for work the server really completed.               *)
(***************************************************************************)
CONSTANT Clients

VARIABLES
  call,    \* call[c]: where the call of client c stands
  work     \* the clients whose work the server has completed

vars == <<call, work>>

Outcomes == {"succeeded", "unsuccessful"}

Init ==
  /\ call = [c \in Clients |-> "idle"]
  /\ work = {}

\* The call starts; it may be for work that is complete already.
Begin(c) ==
  /\ call[c] = "idle"
  /\ call' = [call EXCEPT ![c] = "waiting"]
  /\ work' \in {work, work \cup {c}}

\* The server completes the work of some calls: two may share one job, and a
\* job can outlive the call that gave up on it.
Complete(S) ==
  /\ work' = work \cup S
  /\ UNCHANGED call

Succeed(c) ==
  /\ call[c] = "waiting"
  /\ c \in work
  /\ call' = [call EXCEPT ![c] = "succeeded"]
  /\ UNCHANGED work

\* Job failure, timeout, transport error, cancellation.
GiveUp(c) ==
  /\ call[c] = "waiting"
  /\ call' = [call EXCEPT ![c] = "unsuccessful"]
  /\ UNCHANGED work

Next ==
  \/ \E c \in Clients : Begin(c) \/ Succeed(c) \/ GiveUp(c)
  \/ \E S \in SUBSET Clients : Complete(S)

Spec == Init /\ [][Next]_vars
=============================================================================
