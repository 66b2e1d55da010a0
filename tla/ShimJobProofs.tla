--------------------------- MODULE ShimJobProofs ---------------------------
(***************************************************************************)
(* Proofs about submit_and_wait of honua_gp, for any number of tools and    *)
(* jobs and any timeouts: a timeout leaves no job running, and the call     *)
(* keeps the promise of JobCall.                                            *)
(***************************************************************************)
EXTENDS ShimJob, TLAPS

\* From the loop on the call has an id, which the server gave it; a job that has
\* an id is no longer unborn, and what a DELETE has reached is not going.
Known ==
  \A t \in Tools :
    /\ pc[t] \in {"loop", "sleeping", "polling", "resulting", "dismissing", "timeout"}
         => job[t] \in JobIds
    /\ (pc[t] = "posting" /\ net[t] \in Active) => job[t] \in JobIds
    /\ job[t] # NoJob => jobs[job[t]] # "unborn" /\ job[t] \in made[t]
    /\ (pc[t] = "dismissing" /\ net[t] = "ok") => jobs[job[t]] \notin Active

\* A success the call has read, or is about to read, is backed by work.
SuccessIsBacked ==
  /\ \A j \in JobIds : jobs[j] = "successful" => j \in ranOk
  /\ \A t \in Tools :
       /\ (pc[t] = "posting" /\ net[t] = "inline") => NoJob \in made[t]
       /\ (pc[t] = "posting" /\ net[t] = "successful") => made[t] \cap ranOk # {}
       /\ (pc[t] = "resulting" /\ net[t] = "results") => job[t] \in ranOk

ShimInv == TypeOK /\ Known /\ SuccessIsBacked /\ TimedOutJobsEnd

LEMMA ShimInit == Init => ShimInv
BY ShimAssumption
DEF ShimAssumption, Init, ServerInit, ShimInv, TypeOK, ServerTypeOK, Known, SuccessIsBacked,
    TimedOutJobsEnd, JobStates, Status, Active, TerminalStatuses, PCs, Ended, Answers

LEMMA ShimStep == ShimInv /\ [Next]_vars => ShimInv'
<1> SUFFICES ASSUME ShimInv, [Next]_vars PROVE ShimInv'
  OBVIOUS
<1> USE ShimAssumption
    DEF ShimAssumption, ShimInv, TypeOK, ServerTypeOK, Known, SuccessIsBacked, TimedOutJobsEnd,
        JobStates, Status, Active, TerminalStatuses, PCs, Ended, Answers, serverVars, toolVars,
        vars, Send, Resume, Answer
<1>1. ASSUME NEW t \in Tools, Submit(t) PROVE ShimInv'
  BY <1>1 DEF Submit
<1>2. ASSUME NEW t \in Tools, PostReturns(t) PROVE ShimInv'
  BY <1>2 DEF PostReturns, Finalize, LeaveLoop
<1>3. ASSUME NEW t \in Tools, CallRaises(t) PROVE ShimInv'
  BY <1>3 DEF CallRaises, LeaveLoop
<1>4. ASSUME NEW t \in Tools, LoopTimesOut(t) PROVE ShimInv'
  BY <1>4 DEF LoopTimesOut
<1>5. ASSUME NEW t \in Tools, LoopSleeps(t) PROVE ShimInv'
  BY <1>5 DEF LoopSleeps
<1>6. ASSUME NEW t \in Tools, WakeUp(t) PROVE ShimInv'
  BY <1>6 DEF WakeUp
<1>7. ASSUME NEW t \in Tools, PollReturns(t) PROVE ShimInv'
  BY <1>7 DEF PollReturns, Finalize, LeaveLoop
<1>8. ASSUME NEW t \in Tools, ResultsReturn(t) PROVE ShimInv'
  BY <1>8 DEF ResultsReturn
<1>9. ASSUME NEW t \in Tools, DismissReturns(t) PROVE ShimInv'
  BY <1>9 DEF DismissReturns
<1>10. ASSUME NEW t \in Tools, ServePost(t) PROVE ShimInv'
  BY <1>10 DEF ServePost, Create, Make
<1>11. ASSUME NEW t \in Tools, ServeGet(t) PROVE ShimInv'
  BY <1>11 DEF ServeGet, StatusAnswer, ResultsAnswer
<1>12. ASSUME NEW t \in Tools, ServeDelete(t) PROVE ShimInv'
  BY <1>12 DEF ServeDelete, Dismiss, AfterDismiss
<1>13. ASSUME NEW t \in Tools, Lose(t) PROVE ShimInv'
  BY <1>13 DEF Lose
<1>14. ASSUME NEW j \in JobIds, WorkerStep(j) PROVE ShimInv'
  BY <1>14 DEF WorkerStep, JobStep, StartJob, FinishJob, ExpireJob
<1>15. ASSUME NEW j \in JobIds, ForeignDismiss(j) PROVE ShimInv'
  BY <1>15 DEF ForeignDismiss, Dismiss, AfterDismiss
<1>16. CASE Tick
  BY <1>16 DEF Tick, InLoop, Down
<1>17. CASE UNCHANGED vars
  BY <1>17
<1>18. QED
  BY <1>1, <1>2, <1>3, <1>4, <1>5, <1>6, <1>7, <1>8, <1>9, <1>10, <1>11,
     <1>12, <1>13, <1>14, <1>15, <1>16, <1>17
  DEF Next, ToolStep, NetworkStep

\* TypeOK: the loop never meets an answer or a status it has no branch for, and
\* never polls without an id.
THEOREM ShimTypeCorrect == Spec => []TypeOK
<1>1. ShimInv => TypeOK
  BY DEF ShimInv
<1>2. QED
  BY <1>1, ShimInit, ShimStep, PTL DEF Spec

\* TimedOutJobsEnd: when submit_and_wait reports a timeout, its job is no longer
\* going, unless the DELETE it sent went without an answer.
THEOREM TimeoutEndsTheJob == Spec => []TimedOutJobsEnd
<1>1. ShimInv => TimedOutJobsEnd
  BY DEF ShimInv
<1>2. QED
  BY <1>1, ShimInit, ShimStep, PTL DEF Spec

-----------------------------------------------------------------------------
(* The promise of a blocking call *)

\* What a step of ShimJob does to the call and the work of JobCall.
Quiet ==
  /\ \A u \in Tools : Outcome(u)' = Outcome(u)
  /\ WorkDone \subseteq WorkDone'

Starts(t) ==
  /\ Outcome(t) = "idle"
  /\ Outcome(t)' = "waiting"
  /\ \A u \in Tools \ {t} : Outcome(u)' = Outcome(u)
  /\ WorkDone' = WorkDone

Finishes(t) ==
  /\ Outcome(t) = "waiting"
  /\ \/ Outcome(t)' = "unsuccessful"
     \/ Outcome(t)' = "succeeded" /\ t \in WorkDone
  /\ \A u \in Tools \ {t} : Outcome(u)' = Outcome(u)
  /\ WorkDone' = WorkDone

LEMMA InitMaps == Init => Promise!Init
<1> SUFFICES ASSUME Init PROVE Promise!Init
  OBVIOUS
<1>1. ASSUME NEW t \in Tools PROVE Outcome(t) = "idle"
  BY DEF Init, Outcome
<1>2. WorkDone = {}
  BY DEF Init, WorkDone
<1>3. QED
  BY <1>1, <1>2 DEF Promise!Init

LEMMA StepMaps == ShimInv /\ [Next]_vars => [Promise!Next]_(Promise!vars)
<1> SUFFICES ASSUME ShimInv, [Next]_vars PROVE [Promise!Next]_(Promise!vars)
  OBVIOUS
<1>1. Quiet => Promise!Next
  <2> SUFFICES ASSUME Quiet PROVE Promise!Next
    OBVIOUS
  <2>1. WorkDone' \in SUBSET Tools /\ WorkDone' = WorkDone \cup WorkDone'
    BY DEF Quiet, WorkDone
  <2>2. Promise!Complete(WorkDone')
    BY <2>1 DEF Quiet, Promise!Complete
  <2>3. QED
    BY <2>1, <2>2 DEF Promise!Next
<1>2. ASSUME NEW t \in Tools, Starts(t) PROVE Promise!Next
  BY <1>2 DEF Starts, Promise!Next, Promise!Begin
<1>3. ASSUME NEW t \in Tools, Finishes(t) PROVE Promise!Next
  BY <1>3 DEF Finishes, Promise!Next, Promise!Succeed, Promise!GiveUp
<1> USE ShimAssumption
    DEF ShimAssumption, ShimInv, TypeOK, ServerTypeOK, Known, SuccessIsBacked,
        JobStates, Status, Active, TerminalStatuses, PCs, Ended, serverVars, toolVars,
        vars, Send, Resume, Answer, WorkDone, Outcome, Quiet, Starts, Finishes
<1>4. ASSUME NEW t \in Tools, Submit(t) PROVE Starts(t)
  BY <1>4 DEF Submit
<1>5. ASSUME NEW t \in Tools, PostReturns(t) PROVE Quiet \/ Finishes(t)
  BY <1>5 DEF PostReturns, Finalize, LeaveLoop
<1>6. ASSUME NEW t \in Tools, CallRaises(t) PROVE Finishes(t)
  BY <1>6 DEF CallRaises, LeaveLoop
<1>7. ASSUME NEW t \in Tools, LoopTimesOut(t) PROVE Quiet
  BY <1>7 DEF LoopTimesOut
<1>8. ASSUME NEW t \in Tools, LoopSleeps(t) PROVE Quiet
  BY <1>8 DEF LoopSleeps
<1>9. ASSUME NEW t \in Tools, WakeUp(t) PROVE Quiet
  BY <1>9 DEF WakeUp
<1>10. ASSUME NEW t \in Tools, PollReturns(t) PROVE Quiet \/ Finishes(t)
  BY <1>10 DEF PollReturns, Finalize, LeaveLoop
<1>11. ASSUME NEW t \in Tools, ResultsReturn(t) PROVE Finishes(t)
  BY <1>11 DEF ResultsReturn
<1>12. ASSUME NEW t \in Tools, DismissReturns(t) PROVE Finishes(t)
  BY <1>12 DEF DismissReturns
<1>13. ASSUME NEW t \in Tools, ServePost(t) PROVE Quiet
  BY <1>13 DEF ServePost, Create, Make
<1>14. ASSUME NEW t \in Tools, ServeGet(t) PROVE Quiet
  BY <1>14 DEF ServeGet
<1>15. ASSUME NEW t \in Tools, ServeDelete(t) PROVE Quiet
  BY <1>15 DEF ServeDelete, Dismiss
<1>16. ASSUME NEW t \in Tools, Lose(t) PROVE Quiet
  BY <1>16 DEF Lose
<1>17. ASSUME NEW j \in JobIds, WorkerStep(j) PROVE Quiet
  BY <1>17 DEF WorkerStep, JobStep, StartJob, FinishJob, ExpireJob
<1>18. ASSUME NEW j \in JobIds, ForeignDismiss(j) PROVE Quiet
  BY <1>18 DEF ForeignDismiss, Dismiss
<1>19. CASE Tick
  <2>1. Quiet
    BY <1>19 DEF Tick
  <2>2. QED
    BY <2>1, <1>1
<1>20. CASE UNCHANGED vars
  <2>1. Quiet
    BY <1>20
  <2>2. QED
    BY <2>1, <1>1
<1>21. QED
  BY <1>1, <1>2, <1>3, <1>4, <1>5, <1>6, <1>7, <1>8, <1>9, <1>10, <1>11, <1>12, <1>13, <1>14, <1>15, <1>16, <1>17, <1>18, <1>19, <1>20
  DEF Next, ToolStep, NetworkStep

\* ImplementsJobCall: submit_and_wait ends once, and returns only the outputs of
\* an execution that the server completed.
THEOREM ShimKeepsThePromise == Spec => ImplementsJobCall
<1>1. QED
  BY InitMaps, ShimInit, ShimStep, StepMaps, PTL DEF Spec, ImplementsJobCall, Promise!Spec
=============================================================================
