------------------------------- MODULE GpWait -------------------------------
(***************************************************************************)
(* HonuaGeoprocessing / AsyncHonuaGeoprocessing: submit a process, poll the *)
(* job until it ends or the deadline passes, fetch the results.             *)
(*                                                                         *)
(* Every HTTP call is split in three: the client sends it, the server       *)
(* handles it (or the network loses it), the client resumes with the        *)
(* answer.  Jobs, retention, other waiters on the same job and the clock    *)
(* move in between.  Clocks are countdowns: left is deadline - monotonic(), *)
(* nap the rest of the current sleep.                                       *)
(***************************************************************************)
EXTENDS Integers, JobServer

CONSTANTS
  Clients,         \* calls in progress, one job each
  AsyncClients,    \* those running as an asyncio task, which can be cancelled
  PollIntervals,   \* the poll_interval arguments used
  Timeouts,        \* the timeout arguments used; Forever is timeout=None
  Forever,
  MaxPoll,         \* _MAX_POLL_INTERVAL, in clock ticks
  NoJob

ASSUME ClientAssumption == AsyncClients \subseteq Clients
ASSUME ClockAssumption ==
  /\ PollIntervals \subseteq Int
  /\ Timeouts \subseteq Nat \cup {Forever}
  /\ Forever \notin Nat
  /\ MaxPoll \in Nat
ASSUME NoJobAssumption == NoJob \notin JobIds

VARIABLES
  pc,         \* control point of each call
  mode,       \* "execute" (submit, wait, results) or "wait" (wait on a job id)
  job,        \* job_id, NoJob until known and for an inline execution
  current,    \* status of the last GeoprocessingJob parsed
  delay,      \* poll_delay
  nap,        \* rest of the sleep
  left,       \* deadline - now, never below zero; Forever without a deadline
  net,        \* the outstanding HTTP request of the call and its answer
  ack,        \* the job id the submission's answer carries
  strayPosts,    \* calls whose submission may still reach the server, unawaited
  strayDeletes,  \* jobs for which a DELETE nobody waits on may still arrive
  made,       \* history: the executions the server started for the call, by
              \* job id; NoJob for one it ran inline
  dismissed,  \* history: a DELETE was sent by the call
  unsure      \* history: the call ended without an answer to that DELETE

clientVars == <<pc, mode, job, current, delay, nap, left, net, ack,
                strayPosts, strayDeletes, made, dismissed, unsure>>
vars == <<serverVars, clientVars>>

Awaiting == {"submitting", "fetching", "sleeping", "polling", "dismissing",
             "cancelling", "resulting"}
Ended == {"returned", "jobError", "timeout", "error", "cancelled"}
PCs == Awaiting \cup Ended \cup {"idle", "loop"}
Answers == Status \cup {"inline", "missing", "results", "ok", "error"}

TypeOK ==
  /\ ServerTypeOK
  /\ pc \in [Clients -> PCs]
  /\ mode \in [Clients -> {"execute", "wait"}]
  /\ job \in [Clients -> JobIds \cup {NoJob}]
  /\ current \in [Clients -> Status \cup {"unknown"}]
  /\ delay \in [Clients -> Nat]
  /\ nap \in [Clients -> Nat]
  /\ left \in [Clients -> Nat \cup {Forever}]
  /\ net \in [Clients -> Answers \cup {"none", "sent"}]
  /\ ack \in [Clients -> JobIds \cup {NoJob}]
  /\ strayPosts \in SUBSET Clients
  /\ strayDeletes \in SUBSET JobIds
  /\ made \in [Clients -> SUBSET (JobIds \cup {NoJob})]
  /\ dismissed \in [Clients -> BOOLEAN]
  /\ unsure \in [Clients -> BOOLEAN]

Init ==
  /\ ServerInit
  /\ pc = [c \in Clients |-> "idle"]
  /\ mode = [c \in Clients |-> "execute"]
  /\ job = [c \in Clients |-> NoJob]
  /\ current = [c \in Clients |-> "unknown"]
  /\ delay = [c \in Clients |-> 0]
  /\ nap = [c \in Clients |-> 0]
  /\ left = [c \in Clients |-> Forever]
  /\ net = [c \in Clients |-> "none"]
  /\ ack = [c \in Clients |-> NoJob]
  /\ strayPosts = {}
  /\ strayDeletes = {}
  /\ made = [c \in Clients |-> {}]
  /\ dismissed = [c \in Clients |-> FALSE]
  /\ unsure = [c \in Clients |-> FALSE]

-----------------------------------------------------------------------------
(* Helpers of the source *)

IsTerminal(s) == s \in TerminalStatuses
Succeeded(s) == s = "successful"

InitialPollDelay(p) ==
  IF p <= 0 THEN 0 ELSE IF p <= MaxPoll THEN p ELSE MaxPoll
NextPollDelay(d) ==
  IF d <= 0 THEN 0 ELSE IF 2 * d <= MaxPoll THEN 2 * d ELSE MaxPoll

Goto(c, p) == pc' = [pc EXCEPT ![c] = p]
Send(c, p) == Goto(c, p) /\ net' = [net EXCEPT ![c] = "sent"]
Resume(c, p) == Goto(c, p) /\ net' = [net EXCEPT ![c] = "none"]
Answer(c, a) == net' = [net EXCEPT ![c] = a]

\* When c stops waiting for its request, the server may handle it all the same.
Abandon(c) ==
  /\ strayPosts' = IF net[c] = "sent" /\ pc[c] = "submitting"
                   THEN strayPosts \cup {c} ELSE strayPosts
  /\ strayDeletes' = IF net[c] = "sent" /\ pc[c] \in {"dismissing", "cancelling"}
                     THEN strayDeletes \cup {job[c]} ELSE strayDeletes

\* wait's locals go out of scope when it returns or raises.
LeaveLoop(c) ==
  /\ delay' = [delay EXCEPT ![c] = 0]
  /\ left' = [left EXCEPT ![c] = Forever]

-----------------------------------------------------------------------------
(* The server and the network *)

\* The submission is handled: a job is created, or the process runs inline and
\* the answer holds its outputs, or the server refuses.
ServeSubmit(c) ==
  /\ pc[c] = "submitting"
  /\ net[c] = "sent"
  /\ \/ \E j \in JobIds, s \in {"accepted", "successful"} :
          /\ Create(j, s)
          /\ Answer(c, s)
          /\ ack' = [ack EXCEPT ![c] = j]
          /\ made' = [made EXCEPT ![c] = @ \cup {j}]
     \/ /\ Answer(c, "inline")
        /\ made' = [made EXCEPT ![c] = @ \cup {NoJob}]
        /\ UNCHANGED <<serverVars, ack>>
     \/ /\ Answer(c, "error")
        /\ UNCHANGED <<serverVars, ack, made>>
  /\ UNCHANGED <<pc, mode, job, current, delay, nap, left, strayPosts,
                 strayDeletes, dismissed, unsure>>

ServeStatus(c) ==
  /\ pc[c] \in {"fetching", "polling"}
  /\ net[c] = "sent"
  /\ Answer(c, StatusAnswer(job[c]))
  /\ UNCHANGED <<serverVars, pc, mode, job, current, delay, nap, left, ack,
                 strayPosts, strayDeletes, made, dismissed, unsure>>

\* The transport retries a DELETE whose answer was lost, so one more may follow.
ServeDismiss(c) ==
  /\ pc[c] \in {"dismissing", "cancelling"}
  /\ net[c] = "sent"
  /\ Dismiss(job[c])
  /\ Answer(c, "ok")
  /\ strayDeletes' \in {strayDeletes, strayDeletes \cup {job[c]}}
  /\ UNCHANGED <<pc, mode, job, current, delay, nap, left, ack, strayPosts,
                 made, dismissed, unsure>>

ServeResults(c) ==
  /\ pc[c] = "resulting"
  /\ net[c] = "sent"
  /\ Answer(c, ResultsAnswer(job[c]))
  /\ UNCHANGED <<serverVars, pc, mode, job, current, delay, nap, left, ack,
                 strayPosts, strayDeletes, made, dismissed, unsure>>

\* Mutant: the transport retries a submission like any other request.
LoseButRetryPost(c) ==
  /\ net[c] \notin {"none", "error"}
  /\ IF pc[c] = "submitting" THEN Answer(c, "sent") ELSE Answer(c, "error")
  /\ Abandon(c)
  /\ UNCHANGED <<serverVars, pc, mode, job, current, delay, nap, left, ack,
                 made, dismissed, unsure>>

\* A request, or its answer, is lost for good: the client sees an exception
\* (HonuaTransportError, or HonuaHttpError for a 5xx after the last retry).
Lose(c) ==
  /\ net[c] \notin {"none", "error"}
  /\ Answer(c, "error")
  /\ Abandon(c)
  /\ UNCHANGED <<serverVars, pc, mode, job, current, delay, nap, left, ack,
                 made, dismissed, unsure>>

\* A submission nobody waits on is handled late: a job nobody knows of.
ServeStrayPost(c) ==
  /\ c \in strayPosts
  /\ strayPosts' = strayPosts \ {c}
  /\ \E j \in JobIds :
       /\ Create(j, "accepted")
       /\ made' = [made EXCEPT ![c] = @ \cup {j}]
  /\ UNCHANGED <<pc, mode, job, current, delay, nap, left, net, ack,
                 strayDeletes, dismissed, unsure>>

ServeStrayDelete(j) ==
  /\ j \in strayDeletes
  /\ strayDeletes' = strayDeletes \ {j}
  /\ Dismiss(j)
  /\ UNCHANGED <<pc, mode, job, current, delay, nap, left, net, ack,
                 strayPosts, made, dismissed, unsure>>

WorkerStep(j) == JobStep(j) /\ UNCHANGED clientVars
-----------------------------------------------------------------------------
(* The calls *)

\* execute / execute_geometry / execute_plan start by submitting.
Execute(c) ==
  /\ pc[c] = "idle"
  /\ Send(c, "submitting")
  /\ mode' = [mode EXCEPT ![c] = "execute"]
  /\ UNCHANGED <<serverVars, job, current, delay, nap, left, ack, strayPosts,
                 strayDeletes, made, dismissed, unsure>>

\* wait(job_id) on a job somebody submitted: its status is fetched first.
WaitById(c, j) ==
  /\ pc[c] = "idle"
  /\ jobs[j] # "unborn"
  /\ Send(c, "fetching")
  /\ mode' = [mode EXCEPT ![c] = "wait"]
  /\ job' = [job EXCEPT ![c] = j]
  /\ UNCHANGED <<serverVars, current, delay, nap, left, ack, strayPosts,
                 strayDeletes, made, dismissed, unsure>>

\* The head of wait: the deadline and the first delay are set, the loop begins.
EnterLoop(c, s) ==
  /\ Resume(c, "loop")
  /\ current' = [current EXCEPT ![c] = s]
  /\ \E t \in Timeouts : left' = [left EXCEPT ![c] = t]
  /\ \E p \in PollIntervals : delay' = [delay EXCEPT ![c] = InitialPollDelay(p)]

\* Mutant: a StatusInfo document is taken for inline outputs.
SubmitReturnsInline(c) ==
  /\ pc[c] = "submitting"
  /\ net[c] \in Status \cup {"inline"}
  /\ EnterLoop(c, "successful")
  /\ ack' = [ack EXCEPT ![c] = NoJob]
  /\ UNCHANGED <<serverVars, mode, job, nap, strayPosts, strayDeletes, made,
                 dismissed, unsure>>

\* _job_from_response: a durable job, or inline outputs without a job id.
SubmitReturns(c) ==
  /\ pc[c] = "submitting"
  /\ \/ /\ net[c] \in Status
        /\ job' = [job EXCEPT ![c] = ack[c]]
        /\ EnterLoop(c, net[c])
     \/ /\ net[c] = "inline"
        /\ EnterLoop(c, "successful")
        /\ UNCHANGED job
  /\ ack' = [ack EXCEPT ![c] = NoJob]
  /\ UNCHANGED <<serverVars, mode, nap, strayPosts, strayDeletes, made,
                 dismissed, unsure>>

FetchReturns(c) ==
  /\ pc[c] = "fetching"
  /\ net[c] \in Status
  /\ EnterLoop(c, net[c])
  /\ UNCHANGED <<serverVars, mode, job, nap, ack, strayPosts, strayDeletes, made,
                 dismissed, unsure>>

\* Mutant: a failed results fetch counts as empty outputs.
CallFailsQuietly(c) ==
  /\ pc[c] \in {"submitting", "fetching", "polling", "resulting"}
  /\ net[c] \in {"error", "missing"}
  /\ Resume(c, IF pc[c] = "resulting" THEN "returned" ELSE "error")
  /\ LeaveLoop(c)
  /\ ack' = [ack EXCEPT ![c] = NoJob]
  /\ UNCHANGED <<serverVars, mode, job, current, nap, strayPosts,
                 strayDeletes, made, dismissed, unsure>>

\* Any HTTP failure outside the clean-up propagates; nothing is dismissed.
CallFails(c) ==
  /\ pc[c] \in {"submitting", "fetching", "polling", "resulting"}
  /\ net[c] \in {"error", "missing"}
  /\ Resume(c, "error")
  /\ LeaveLoop(c)
  /\ ack' = [ack EXCEPT ![c] = NoJob]
  /\ UNCHANGED <<serverVars, mode, job, current, nap, strayPosts,
                 strayDeletes, made, dismissed, unsure>>

\* The loop test fails: wait returns, and execute goes on to the results.
LoopEnds(c) ==
  /\ pc[c] = "loop"
  /\ IsTerminal(current[c])
  /\ \/ /\ mode[c] = "wait"
        /\ Resume(c, "returned")
     \/ /\ mode[c] = "execute"
        /\ ~Succeeded(current[c])          \* raise_on_failure
        /\ Resume(c, "jobError")
     \/ /\ mode[c] = "execute"             \* success, or raise_on_failure=False
        /\ IF job[c] = NoJob THEN Resume(c, "returned") ELSE Send(c, "resulting")
  /\ LeaveLoop(c)
  /\ UNCHANGED <<serverVars, mode, job, current, nap, ack, strayPosts,
                 strayDeletes, made, dismissed, unsure>>

\* Mutant: the dismissal is taken to have worked before it is even sent.
LoopTimesOutAssuming(c) ==
  /\ pc[c] = "loop"
  /\ ~IsTerminal(current[c])
  /\ left[c] = 0
  /\ Send(c, "dismissing")
  /\ current' = [current EXCEPT ![c] = "dismissed"]
  /\ dismissed' = [dismissed EXCEPT ![c] = TRUE]
  /\ LeaveLoop(c)
  /\ UNCHANGED <<serverVars, mode, job, nap, ack, strayPosts, strayDeletes,
                 made, unsure>>

\* Mutant: TimeoutError without the clean-up.
LoopTimesOutOnly(c) ==
  /\ pc[c] = "loop"
  /\ ~IsTerminal(current[c])
  /\ left[c] = 0
  /\ Resume(c, "timeout")
  /\ LeaveLoop(c)
  /\ UNCHANGED <<serverVars, mode, job, current, nap, ack, strayPosts,
                 strayDeletes, made, dismissed, unsure>>

\* Mutant: the deadline is looked at before the status.
LoopTimesOutFirst(c) ==
  /\ pc[c] = "loop"
  /\ left[c] = 0
  /\ Send(c, "dismissing")
  /\ dismissed' = [dismissed EXCEPT ![c] = TRUE]
  /\ LeaveLoop(c)
  /\ UNCHANGED <<serverVars, mode, job, current, nap, ack, strayPosts,
                 strayDeletes, made, unsure>>

\* The deadline has passed: _safe_dismiss, then TimeoutError.
LoopTimesOut(c) ==
  /\ pc[c] = "loop"
  /\ ~IsTerminal(current[c])
  /\ left[c] = 0
  /\ Send(c, "dismissing")
  /\ dismissed' = [dismissed EXCEPT ![c] = TRUE]
  /\ LeaveLoop(c)
  /\ UNCHANGED <<serverVars, mode, job, current, nap, ack, strayPosts,
                 strayDeletes, made, unsure>>

LoopSleeps(c) ==
  /\ pc[c] = "loop"
  /\ ~IsTerminal(current[c])
  /\ left[c] # 0
  /\ nap' = [nap EXCEPT ![c] = IF left[c] \in Nat /\ left[c] < delay[c]
                               THEN left[c] ELSE delay[c]]
  /\ Resume(c, "sleeping")
  /\ UNCHANGED <<serverVars, mode, job, current, delay, left, ack, strayPosts,
                 strayDeletes, made, dismissed, unsure>>

WakeUp(c) ==
  /\ pc[c] = "sleeping"
  /\ nap[c] = 0
  /\ Send(c, "polling")
  /\ UNCHANGED <<serverVars, mode, job, current, delay, nap, left, ack, strayPosts,
                 strayDeletes, made, dismissed, unsure>>

\* Mutant: the deadline is computed anew in each round of the loop.
PollReturnsAnew(c) ==
  /\ pc[c] = "polling"
  /\ net[c] \in Status
  /\ EnterLoop(c, net[c])
  /\ UNCHANGED <<serverVars, mode, job, nap, ack, strayPosts, strayDeletes,
                 made, dismissed, unsure>>

PollReturns(c) ==
  /\ pc[c] = "polling"
  /\ net[c] \in Status
  /\ Resume(c, "loop")
  /\ current' = [current EXCEPT ![c] = net[c]]
  /\ delay' = [delay EXCEPT ![c] = NextPollDelay(@)]
  /\ UNCHANGED <<serverVars, mode, job, nap, left, ack, strayPosts, strayDeletes,
                 made, dismissed, unsure>>

\* _safe_dismiss swallows the failure of the DELETE; the exception propagates.
DismissReturns(c) ==
  /\ pc[c] \in {"dismissing", "cancelling"}
  /\ net[c] \in {"ok", "error"}
  /\ unsure' = [unsure EXCEPT ![c] = net[c] = "error"]
  /\ Resume(c, IF pc[c] = "dismissing" THEN "timeout" ELSE "cancelled")
  /\ UNCHANGED <<serverVars, mode, job, current, delay, nap, left, ack, strayPosts,
                 strayDeletes, made, dismissed>>

ResultsReturn(c) ==
  /\ pc[c] = "resulting"
  /\ net[c] = "results"
  /\ Resume(c, "returned")
  /\ UNCHANGED <<serverVars, mode, job, current, delay, nap, left, ack, strayPosts,
                 strayDeletes, made, dismissed, unsure>>

\* task.cancel(): CancelledError is raised at the await.  Inside the try block
\* of wait it becomes a DELETE; elsewhere, and during that DELETE, it propagates.
Cancel(c) ==
  /\ c \in AsyncClients
  /\ pc[c] \in Awaiting
  /\ Abandon(c)
  /\ \/ /\ pc[c] \in {"sleeping", "polling", "dismissing"}
        /\ Send(c, "cancelling")
        /\ dismissed' = [dismissed EXCEPT ![c] = TRUE]
        /\ nap' = [nap EXCEPT ![c] = 0]
        /\ UNCHANGED unsure
     \/ /\ pc[c] \in {"submitting", "fetching", "cancelling", "resulting"}
        /\ Resume(c, "cancelled")
        /\ unsure' = [unsure EXCEPT ![c] = pc[c] = "cancelling" /\ net[c] # "ok"]
        /\ UNCHANGED <<dismissed, nap>>
  /\ LeaveLoop(c)
  /\ ack' = [ack EXCEPT ![c] = NoJob]
  /\ UNCHANGED <<serverVars, mode, job, current, made>>

Running(c) == pc[c] \in {"loop", "sleeping", "polling"}

Tick ==
  /\ \E c \in Clients : Running(c) /\ (nap[c] > 0 \/ left[c] \in Nat \ {0})
  /\ nap' = [c \in Clients |-> IF nap[c] > 0 THEN nap[c] - 1 ELSE 0]
  /\ left' = [c \in Clients |-> IF Running(c) /\ left[c] \in Nat \ {0}
                                THEN left[c] - 1 ELSE left[c]]
  /\ UNCHANGED <<serverVars, pc, mode, job, current, delay, net, ack, strayPosts,
                 strayDeletes, made, dismissed, unsure>>

-----------------------------------------------------------------------------

ClientStep(c) ==
  \/ Execute(c) \/ (\E j \in JobIds : WaitById(c, j))
  \/ SubmitReturns(c) \/ FetchReturns(c) \/ CallFails(c)
  \/ LoopEnds(c) \/ LoopTimesOut(c) \/ LoopSleeps(c) \/ WakeUp(c)
  \/ PollReturns(c) \/ DismissReturns(c) \/ ResultsReturn(c)

NetworkStep(c) ==
  ServeSubmit(c) \/ ServeStatus(c) \/ ServeDismiss(c) \/ ServeResults(c) \/ Lose(c)

Next ==
  \/ \E c \in Clients : ClientStep(c) \/ NetworkStep(c) \/ Cancel(c) \/ ServeStrayPost(c)
  \/ \E j \in JobIds : WorkerStep(j) \/ ServeStrayDelete(j)
  \/ Tick

Spec == Init /\ [][Next]_vars

\* Every HTTP request is answered or fails (httpx has a timeout for each), a
\* thread or task that can go on does, and time passes.  Nothing obliges a
\* program to start a call, a task to be cancelled or a job to end.
Fairness ==
  /\ \A c \in Clients : WF_vars(pc[c] # "idle" /\ ClientStep(c)) /\ WF_vars(NetworkStep(c))
  /\ WF_vars(Tick)

FairSpec == Spec /\ Fairness

-----------------------------------------------------------------------------
(* Properties *)

\* A status the client acts on was true of the job: once a call holds a terminal
\* status, its job still has that status or its record has left the store.
VerdictIsFinal ==
  \A c \in Clients :
    (IsTerminal(current[c]) /\ job[c] # NoJob) => jobs[job[c]] \in {current[c], "gone"}

\* execute returns outputs only for work that ran to success, whatever timeouts,
\* third-party dismissals and expiries happened meanwhile.
ResultsAreReal ==
  \A c \in Clients :
    (pc[c] = "returned" /\ mode[c] = "execute" /\ job[c] # NoJob) => job[c] \in ranOk

\* A call that ends leaves no job of its own running on the server, unless it
\* could not learn of the job (it failed or was cancelled before wait began),
\* a poll failed, or the DELETE it sent got no answer.
NoJobLeftBehind ==
  \A c \in Clients :
    (pc[c] \in {"returned", "jobError", "timeout"} \/ (pc[c] = "cancelled" /\ dismissed[c]))
      => unsure[c] \/ \A j \in made[c] \ {NoJob} : jobs[j] \notin Active

\* One execute call starts at most one execution on the server, even when the
\* answer to the submission is lost.
OneJobPerCall ==
  \A c \in Clients : \A i, j \in made[c] : i = j

\* A call that knows its job has ended never sends the DELETE that would make
\* the server forget the outputs.
NoDismissAfterVerdict ==
  \A c \in Clients : dismissed[c] => ~IsTerminal(current[c])

\* wait(timeout=t) ends, whatever the server, other waiters and the network do, and
\* no sleep of it goes past its deadline; it can end later by one status request
\* and the DELETE.
WaitEnds ==
  /\ \A c \in Clients :
       (pc[c] = "loop" /\ left[c] # Forever) ~> (pc[c] \in Ended \cup {"resulting"})
  /\ [](\A c \in Clients : pc[c] = "sleeping" /\ left[c] # Forever => nap[c] <= left[c])

\* Every call of wait or execute refines the promise stated in JobCall.
Outcome(c) ==
  IF pc[c] = "idle" THEN "idle"
  ELSE IF pc[c] = "returned" /\ Succeeded(current[c]) THEN "succeeded"
  ELSE IF pc[c] \in Ended THEN "unsuccessful" ELSE "waiting"

WorkDone == {c \in Clients : job[c] \in ranOk \/ (job[c] = NoJob /\ NoJob \in made[c])}

Promise == INSTANCE JobCall WITH call <- [c \in Clients |-> Outcome(c)], work <- WorkDone
ImplementsJobCall == Promise!Spec
=============================================================================
