------------------------------ MODULE ShimJob ------------------------------
(***************************************************************************)
(* submit_and_wait of honua_gp: the blocking loop below every process-      *)
(* backed tool.  Unlike the SDK's wait it sleeps a fixed interval, checks   *)
(* the deadline before it sleeps, and fetches the results itself.           *)
(*                                                                         *)
(* The server is JobServer; a request is sent, handled or lost, and the     *)
(* loop resumes with the answer.  Other programs dismiss jobs as well.      *)
(***************************************************************************)
EXTENDS Integers, FiniteSets, JobServer

CONSTANTS
  Tools,        \* threads inside submit_and_wait
  PollInterval,
  Timeouts,
  NoJob

ASSUME ShimAssumption == PollInterval \in Nat /\ Timeouts \subseteq Nat /\ NoJob \notin JobIds

VARIABLES
  pc,
  job,       \* job_id, once the server has answered with it
  status,    \* the last status the loop saw
  net,       \* the request in flight and its answer
  nap, left, \* ticks to sleep; ticks to the deadline
  made,      \* history: executions the call started (NoJob for one run inline)
  unsure     \* history: the DELETE of this call got no answer

toolVars == <<pc, job, status, net, nap, left, made, unsure>>
vars == <<serverVars, toolVars>>

Ended == {"returned", "jobError", "missingOutput", "timeout", "raised"}
PCs == {"idle", "posting", "loop", "sleeping", "polling", "resulting", "dismissing"} \cup Ended

\* "inline": the results document itself; "malformed": no mapping, or no job id.
Answers == Status \cup {"inline", "malformed", "missing", "error", "ok", "results"}

TypeOK ==
  /\ ServerTypeOK
  /\ pc \in [Tools -> PCs]
  /\ job \in [Tools -> JobIds \cup {NoJob}]
  /\ status \in [Tools -> Status \cup {"inline", "none"}]
  /\ net \in [Tools -> Answers \cup {"none", "sent"}]
  /\ nap \in [Tools -> 0..PollInterval]
  /\ left \in [Tools -> Nat]
  /\ made \in [Tools -> SUBSET (JobIds \cup {NoJob})]
  /\ unsure \in [Tools -> BOOLEAN]

Init ==
  /\ ServerInit
  /\ pc = [t \in Tools |-> "idle"]
  /\ job = [t \in Tools |-> NoJob]
  /\ status = [t \in Tools |-> "none"]
  /\ net = [t \in Tools |-> "none"]
  /\ nap = [t \in Tools |-> 0]
  /\ left = [t \in Tools |-> 0]
  /\ made = [t \in Tools |-> {}]
  /\ unsure = [t \in Tools |-> FALSE]

-----------------------------------------------------------------------------
(* The server and the network *)

Answer(t, a) == net' = [net EXCEPT ![t] = a]

Make(t, j) == made' = [made EXCEPT ![t] = @ \cup {j}]

\* The execution request creates a job, runs inline, or is refused; the answer
\* for a job may lack its id.
ServePost(t) ==
  /\ pc[t] = "posting"
  /\ net[t] = "sent"
  /\ \/ \E j \in JobIds, s \in {"accepted", "successful"} :
          /\ Create(j, s)
          /\ Make(t, j)
          /\ \/ Answer(t, s) /\ job' = [job EXCEPT ![t] = j]
             \/ Answer(t, IF s = "successful" THEN s ELSE "malformed") /\ UNCHANGED job
     \/ Answer(t, "inline") /\ Make(t, NoJob) /\ UNCHANGED <<serverVars, job>>
     \/ Answer(t, "error") /\ UNCHANGED <<serverVars, job, made>>
  /\ UNCHANGED <<pc, status, nap, left, unsure>>

ServeGet(t) ==
  /\ pc[t] \in {"polling", "resulting"}
  /\ net[t] = "sent"
  /\ Answer(t, IF pc[t] = "polling" THEN StatusAnswer(job[t]) ELSE ResultsAnswer(job[t]))
  /\ UNCHANGED <<serverVars, pc, job, status, nap, left, made, unsure>>

ServeDelete(t) ==
  /\ pc[t] = "dismissing"
  /\ net[t] = "sent"
  /\ Dismiss(job[t])
  /\ Answer(t, "ok")
  /\ UNCHANGED <<pc, job, status, nap, left, made, unsure>>

\* The answer is lost, or the request before the server saw it.
Lose(t) ==
  /\ net[t] \notin {"none", "error"}
  /\ Answer(t, "error")
  /\ job' = [job EXCEPT ![t] = IF pc[t] = "posting" THEN NoJob ELSE @]
  /\ UNCHANGED <<serverVars, pc, status, nap, left, made, unsure>>

\* Another program dismisses a job.
ForeignDismiss(j) == jobs[j] \in Active /\ Dismiss(j) /\ UNCHANGED toolVars

WorkerStep(j) == JobStep(j) /\ UNCHANGED toolVars

-----------------------------------------------------------------------------
(* The loop *)

Resume(t, p) == pc' = [pc EXCEPT ![t] = p] /\ Answer(t, "none")

Send(t, p) == pc' = [pc EXCEPT ![t] = p] /\ Answer(t, "sent")

\* The deadline and the sleep are locals of the loop.
LeaveLoop(t) == left' = [left EXCEPT ![t] = 0] /\ nap' = [nap EXCEPT ![t] = 0]

Submit(t) ==
  /\ pc[t] = "idle"
  /\ Send(t, "posting")
  /\ UNCHANGED <<serverVars, job, status, nap, left, made, unsure>>

\* Mutant: whatever is not a failure counts as success.
FinalizeUnlessFailed(t, s) ==
  IF s = "failed" THEN Resume(t, "jobError")
  ELSE IF s = "successful" /\ job[t] # NoJob THEN Send(t, "resulting") ELSE Resume(t, "returned")

\* _finalize: a failed or dismissed job raises, a successful one has results,
\* which cannot be asked for without an id.
Finalize(t, s) ==
  IF s # "successful" THEN Resume(t, "jobError")
  ELSE IF job[t] = NoJob THEN Resume(t, "returned") ELSE Send(t, "resulting")

\* The execute response: inline results, a terminal StatusInfo, or the loop.
PostReturns(t) ==
  /\ pc[t] = "posting"
  /\ net[t] \in Status \cup {"inline"}
  /\ status' = [status EXCEPT ![t] = net[t]]
  /\ \/ net[t] = "inline" /\ Resume(t, "returned") /\ UNCHANGED left
     \/ net[t] \in TerminalStatuses /\ Finalize(t, net[t]) /\ UNCHANGED left
     \/ /\ net[t] \in Active
        /\ Resume(t, "loop")
        /\ \E d \in Timeouts : left' = [left EXCEPT ![t] = d]
  /\ UNCHANGED <<serverVars, job, nap, made, unsure>>

\* A transport or HTTP error, a document of the wrong shape, no job id.
CallRaises(t) ==
  /\ pc[t] \in {"posting", "polling", "resulting"}
  /\ net[t] \in {"error", "malformed"} \/ (pc[t] = "polling" /\ net[t] = "missing")
  /\ Resume(t, "raised")
  /\ LeaveLoop(t)
  /\ UNCHANGED <<serverVars, job, status, made, unsure>>

\* Mutant: the timeout is reported, the job is left to itself.
LoopTimesOutOnly(t) ==
  /\ pc[t] = "loop"
  /\ left[t] = 0
  /\ Resume(t, "timeout")
  /\ UNCHANGED <<serverVars, job, status, nap, left, made, unsure>>

\* The deadline has passed: _try_dismiss, then ExecuteError(timeout).
LoopTimesOut(t) ==
  /\ pc[t] = "loop"
  /\ left[t] = 0
  /\ Send(t, "dismissing")
  /\ UNCHANGED <<serverVars, job, status, nap, left, made, unsure>>

LoopSleeps(t) ==
  /\ pc[t] = "loop"
  /\ left[t] > 0
  /\ Resume(t, "sleeping")
  /\ nap' = [nap EXCEPT ![t] = PollInterval]
  /\ UNCHANGED <<serverVars, job, status, left, made, unsure>>

WakeUp(t) ==
  /\ pc[t] = "sleeping"
  /\ nap[t] = 0
  /\ Send(t, "polling")
  /\ UNCHANGED <<serverVars, job, status, nap, left, made, unsure>>

\* Mutant: each poll starts the deadline again.
PollReturnsAnew(t) ==
  /\ pc[t] = "polling"
  /\ net[t] \in Status
  /\ status' = [status EXCEPT ![t] = net[t]]
  /\ IF net[t] \in TerminalStatuses THEN Finalize(t, net[t]) ELSE Resume(t, "loop")
  /\ \E d \in Timeouts : left' = [left EXCEPT ![t] = d]
  /\ UNCHANGED <<serverVars, job, nap, made, unsure>>

PollReturns(t) ==
  /\ pc[t] = "polling"
  /\ net[t] \in Status
  /\ status' = [status EXCEPT ![t] = net[t]]
  /\ IF net[t] \in TerminalStatuses
     THEN Finalize(t, net[t]) /\ LeaveLoop(t)
     ELSE Resume(t, "loop") /\ UNCHANGED <<nap, left>>
  /\ UNCHANGED <<serverVars, job, made, unsure>>

\* 404 and 410 mean that the record of a successful job is gone.
ResultsReturn(t) ==
  /\ pc[t] = "resulting"
  /\ net[t] \in {"results", "missing"}
  /\ Resume(t, IF net[t] = "results" THEN "returned" ELSE "missingOutput")
  /\ UNCHANGED <<serverVars, job, status, nap, left, made, unsure>>

\* A failed dismissal is suppressed.
DismissReturns(t) ==
  /\ pc[t] = "dismissing"
  /\ net[t] \in {"ok", "error"}
  /\ unsure' = [unsure EXCEPT ![t] = net[t] = "error"]
  /\ Resume(t, "timeout")
  /\ UNCHANGED <<serverVars, job, status, nap, left, made>>

InLoop(t) == pc[t] \in {"loop", "sleeping", "polling"}

Down(n) == IF n > 0 THEN n - 1 ELSE 0

Tick ==
  /\ \E t \in Tools : InLoop(t) /\ (nap[t] > 0 \/ left[t] > 0)
  /\ nap' = [t \in Tools |-> Down(nap[t])]
  /\ left' = [t \in Tools |-> IF InLoop(t) THEN Down(left[t]) ELSE left[t]]
  /\ UNCHANGED <<serverVars, pc, job, status, net, made, unsure>>

-----------------------------------------------------------------------------

ToolStep(t) ==
  \/ Submit(t) \/ PostReturns(t) \/ CallRaises(t) \/ LoopTimesOut(t) \/ LoopSleeps(t)
  \/ WakeUp(t) \/ PollReturns(t) \/ ResultsReturn(t) \/ DismissReturns(t)

NetworkStep(t) == ServePost(t) \/ ServeGet(t) \/ ServeDelete(t) \/ Lose(t)

Next ==
  \/ \E t \in Tools : ToolStep(t) \/ NetworkStep(t)
  \/ \E j \in JobIds : WorkerStep(j) \/ ForeignDismiss(j)
  \/ Tick

Spec == Init /\ [][Next]_vars

\* Requests are answered or fail, sleeps end, and time passes; no job has to end.
FairSpec ==
  /\ Spec
  /\ \A t \in Tools : WF_vars(pc[t] # "idle" /\ ToolStep(t)) /\ WF_vars(NetworkStep(t))
  /\ WF_vars(Tick)

-----------------------------------------------------------------------------
(* Properties *)

\* A tool that timed out has left no job running, unless its DELETE was lost.
TimedOutJobsEnd ==
  \A t \in Tools : (pc[t] = "timeout" /\ ~unsure[t]) => jobs[job[t]] \notin Active

\* The call ends, whatever the job and the network do; it may be asleep when its
\* deadline passes, and then sleeps on for less than an interval.  (It can end later
\* by that and by its requests.)
ShimWaitEnds ==
  /\ \A t \in Tools : pc[t] = "loop" ~> pc[t] \in Ended
  /\ [](\A t \in Tools :
         pc[t] = "sleeping" /\ left[t] = 0 => nap[t] = 0 \/ nap[t] < PollInterval)

\* submit_and_wait keeps the promise of a blocking geoprocessing call.
Outcome(t) ==
  IF pc[t] = "idle" THEN "idle"
  ELSE IF pc[t] = "returned" THEN "succeeded"
  ELSE IF pc[t] \in Ended THEN "unsuccessful" ELSE "waiting"

WorkDone == {t \in Tools : made[t] \cap (ranOk \cup {NoJob}) # {}}

Promise == INSTANCE JobCall WITH Clients <- Tools,
                                 call <- [t \in Tools |-> Outcome(t)], work <- WorkDone
ImplementsJobCall == Promise!Spec
=============================================================================
