---------------------------- MODULE GpWaitProofs ----------------------------
(***************************************************************************)
(* Proofs about GpWait: type correctness and the safety properties of the   *)
(* job-waiting calls, for any number of calls, jobs and clock values.       *)
(***************************************************************************)
EXTENDS GpWait, TLAPS

\* A call that talks about a job knows its id: before the submission is answered
\* it has none, and from then on only an inline execution goes without.
Addressed ==
  \A c \in Clients :
    /\ pc[c] \in {"idle", "submitting"} => job[c] = NoJob
    /\ pc[c] \in {"fetching", "sleeping", "polling", "dismissing", "cancelling",
                  "resulting"} => job[c] \in JobIds
    /\ (pc[c] = "loop" /\ ~IsTerminal(current[c])) => job[c] \in JobIds
    /\ (pc[c] = "submitting" /\ net[c] \in Status) => ack[c] \in JobIds

TypeInv == TypeOK /\ Addressed

\* The poll delays of the SDK are natural numbers, whatever poll_interval is.
LEMMA DelaysAreNatural ==
  /\ \A p \in PollIntervals : InitialPollDelay(p) \in Nat
  /\ \A d \in Nat : NextPollDelay(d) \in Nat
BY ClockAssumption DEF ClockAssumption, InitialPollDelay, NextPollDelay

LEMMA TypeInvInit == Init => TypeInv
BY DEF Init, TypeInv, TypeOK, Addressed, ServerInit, ServerTypeOK, PCs, Ended,
  Awaiting, Answers, JobStates, Status, Active, TerminalStatuses, IsTerminal

LEMMA TypeInvStep == TypeInv /\ [Next]_vars => TypeInv'
<1> SUFFICES ASSUME TypeInv, [Next]_vars PROVE TypeInv'
  OBVIOUS
<1> USE NoJobAssumption, ClockAssumption, DelaysAreNatural
    DEF NoJobAssumption, ClockAssumption, TypeInv, TypeOK, Addressed, ServerTypeOK,
        PCs, Ended, Awaiting, Answers, JobStates, Status, Active, TerminalStatuses,
        IsTerminal, serverVars, clientVars, vars, Goto, Send, Resume, Answer, LeaveLoop
<1>1. ASSUME NEW c \in Clients, Execute(c) PROVE TypeInv'
  BY <1>1 DEF Execute
<1>2. ASSUME NEW c \in Clients, NEW j \in JobIds, WaitById(c, j) PROVE TypeInv'
  BY <1>2 DEF WaitById
<1>3. ASSUME NEW c \in Clients, SubmitReturns(c) PROVE TypeInv'
  <2>1. CASE net[c] \in Status
    <3>1. ack[c] \in JobIds /\ net[c] # "inline"
      BY <1>3, <2>1 DEF SubmitReturns
    <3>2. EnterLoop(c, net[c]) /\ job' = [job EXCEPT ![c] = ack[c]]
      BY <1>3, <3>1 DEF SubmitReturns
    <3>3. TypeOK'
      BY <1>3, <2>1, <3>1, <3>2 DEF SubmitReturns, EnterLoop
    <3>4. Addressed'
      BY <1>3, <3>1, <3>2 DEF SubmitReturns, EnterLoop
    <3>5. QED
      BY <3>3, <3>4
  <2>2. CASE net[c] = "inline"
    BY <1>3, <2>2 DEF SubmitReturns, EnterLoop
  <2>3. QED
    BY <1>3, <2>1, <2>2 DEF SubmitReturns
<1>4. ASSUME NEW c \in Clients, FetchReturns(c) PROVE TypeInv'
  BY <1>4 DEF FetchReturns, EnterLoop
<1>5. ASSUME NEW c \in Clients, CallFails(c) PROVE TypeInv'
  BY <1>5 DEF CallFails
<1>6. ASSUME NEW c \in Clients, LoopEnds(c) PROVE TypeInv'
  BY <1>6 DEF LoopEnds
<1>7. ASSUME NEW c \in Clients, LoopTimesOut(c) PROVE TypeInv'
  BY <1>7 DEF LoopTimesOut
<1>8. ASSUME NEW c \in Clients, LoopSleeps(c) PROVE TypeInv'
  BY <1>8 DEF LoopSleeps
<1>9. ASSUME NEW c \in Clients, WakeUp(c) PROVE TypeInv'
  BY <1>9 DEF WakeUp
<1>10. ASSUME NEW c \in Clients, PollReturns(c) PROVE TypeInv'
  BY <1>10 DEF PollReturns
<1>11. ASSUME NEW c \in Clients, DismissReturns(c) PROVE TypeInv'
  BY <1>11 DEF DismissReturns
<1>12. ASSUME NEW c \in Clients, ResultsReturn(c) PROVE TypeInv'
  BY <1>12 DEF ResultsReturn
<1>13. ASSUME NEW c \in Clients, ServeSubmit(c) PROVE TypeInv'
  BY <1>13 DEF ServeSubmit, Create
<1>14. ASSUME NEW c \in Clients, ServeStatus(c) PROVE TypeInv'
  BY <1>14 DEF ServeStatus, StatusAnswer
<1>15. ASSUME NEW c \in Clients, ServeDismiss(c) PROVE TypeInv'
  BY <1>15 DEF ServeDismiss, Dismiss, AfterDismiss
<1>16. ASSUME NEW c \in Clients, ServeResults(c) PROVE TypeInv'
  BY <1>16 DEF ServeResults, ResultsAnswer
<1>17. ASSUME NEW c \in Clients, Lose(c) PROVE TypeInv'
  BY <1>17 DEF Lose, Abandon
<1>18. ASSUME NEW c \in Clients, Cancel(c) PROVE TypeInv'
  <2>1. CASE pc[c] \in {"sleeping", "polling", "dismissing"}
    <3>1. strayPosts' \in SUBSET Clients /\ strayDeletes' \in SUBSET JobIds
      BY <1>18, <2>1 DEF Cancel, Abandon
    <3>2. /\ Send(c, "cancelling")
          /\ dismissed' = [dismissed EXCEPT ![c] = TRUE]
          /\ nap' = [nap EXCEPT ![c] = 0]
          /\ UNCHANGED unsure
      BY <1>18, <2>1 DEF Cancel
    <3>3. TypeOK'
      BY <1>18, <3>1, <3>2 DEF Cancel
    <3>4. Addressed'
      BY <1>18, <2>1 DEF Cancel
    <3>5. QED
      BY <3>3, <3>4
  <2>2. CASE pc[c] \in {"submitting", "fetching", "cancelling", "resulting"}
    <3>1. strayPosts' \in SUBSET Clients /\ strayDeletes' \in SUBSET JobIds
      BY <1>18, <2>2 DEF Cancel, Abandon
    <3>2. TypeOK'
      BY <1>18, <2>2, <3>1 DEF Cancel
    <3>3. Addressed'
      BY <1>18, <2>2 DEF Cancel
    <3>4. QED
      BY <3>2, <3>3
  <2>3. QED
    BY <1>18, <2>1, <2>2 DEF Cancel
<1>19. ASSUME NEW c \in Clients, ServeStrayPost(c) PROVE TypeInv'
  BY <1>19 DEF ServeStrayPost, Create
<1>20. ASSUME NEW j \in JobIds, WorkerStep(j) PROVE TypeInv'
  BY <1>20 DEF WorkerStep, JobStep, StartJob, FinishJob, ExpireJob
<1>21. ASSUME NEW j \in JobIds, ServeStrayDelete(j) PROVE TypeInv'
  BY <1>21 DEF ServeStrayDelete, Dismiss, AfterDismiss
<1>22. CASE Tick
  BY <1>22 DEF Tick, Running
<1>23. CASE UNCHANGED vars
  BY <1>23
<1>24. QED
  BY <1>1, <1>2, <1>3, <1>4, <1>5, <1>6, <1>7, <1>8, <1>9, <1>10, <1>11, <1>12,
     <1>13, <1>14, <1>15, <1>16, <1>17, <1>18, <1>19, <1>20, <1>21, <1>22, <1>23
  DEF Next, ClientStep, NetworkStep

\* TypeOK: every variable keeps its type, so a status, an answer or a delay the
\* code computes is always one its next branch knows how to handle.
THEOREM TypeCorrect == Spec => []TypeOK
<1>1. TypeInv => TypeOK
  BY DEF TypeInv
<1>2. QED
  BY <1>1, TypeInvInit, TypeInvStep, PTL DEF Spec

-----------------------------------------------------------------------------
(* Verdicts *)

\* An answer on its way to a call is as true of the job as one already parsed.
AnswersAreFinal ==
  \A c \in Clients :
    /\ (pc[c] \in {"fetching", "polling"} /\ net[c] \in TerminalStatuses)
         => jobs[job[c]] \in {net[c], "gone"}
    /\ (pc[c] = "submitting" /\ net[c] \in TerminalStatuses)
         => jobs[ack[c]] \in {net[c], "gone"}

\* Only a call past its loop may hold a verdict, and it is past every DELETE.
Undecided ==
  \A c \in Clients :
    /\ pc[c] \in {"idle", "submitting", "fetching", "sleeping", "polling", "dismissing",
                  "cancelling"} => ~IsTerminal(current[c])
    /\ dismissed[c] => /\ pc[c] \in {"dismissing", "cancelling", "timeout", "cancelled"}
                       /\ ~IsTerminal(current[c])

VerdictInv == TypeInv /\ VerdictIsFinal /\ AnswersAreFinal /\ Undecided

LEMMA VerdictInvInit == Init => VerdictInv
BY TypeInvInit DEF Init, VerdictInv, VerdictIsFinal, AnswersAreFinal, Undecided,
  IsTerminal, TerminalStatuses

LEMMA VerdictInvStep == VerdictInv /\ [Next]_vars => VerdictInv'
<1> SUFFICES ASSUME VerdictInv, [Next]_vars PROVE VerdictInv'
  OBVIOUS
<1>0. TypeInv'
  BY TypeInvStep DEF VerdictInv
<1> USE NoJobAssumption, <1>0
    DEF NoJobAssumption, TypeInv, TypeOK, Addressed, ServerTypeOK, Status, Active,
        TerminalStatuses, JobStates, IsTerminal, serverVars, clientVars, vars,
        Goto, Send, Resume, Answer, LeaveLoop, VerdictInv, VerdictIsFinal,
        AnswersAreFinal, Undecided
<1>1. ASSUME NEW c \in Clients, Execute(c) PROVE VerdictInv'
  BY <1>1 DEF Execute
<1>2. ASSUME NEW c \in Clients, NEW j \in JobIds, WaitById(c, j) PROVE VerdictInv'
  BY <1>2 DEF WaitById
<1>3. ASSUME NEW c \in Clients, SubmitReturns(c) PROVE VerdictInv'
  BY <1>3 DEF SubmitReturns, EnterLoop
<1>4. ASSUME NEW c \in Clients, FetchReturns(c) PROVE VerdictInv'
  BY <1>4 DEF FetchReturns, EnterLoop
<1>5. ASSUME NEW c \in Clients, CallFails(c) PROVE VerdictInv'
  BY <1>5 DEF CallFails
<1>6. ASSUME NEW c \in Clients, LoopEnds(c) PROVE VerdictInv'
  BY <1>6 DEF LoopEnds
<1>7. ASSUME NEW c \in Clients, LoopTimesOut(c) PROVE VerdictInv'
  BY <1>7 DEF LoopTimesOut
<1>8. ASSUME NEW c \in Clients, LoopSleeps(c) PROVE VerdictInv'
  BY <1>8 DEF LoopSleeps
<1>9. ASSUME NEW c \in Clients, WakeUp(c) PROVE VerdictInv'
  BY <1>9 DEF WakeUp
<1>10. ASSUME NEW c \in Clients, PollReturns(c) PROVE VerdictInv'
  BY <1>10 DEF PollReturns
<1>11. ASSUME NEW c \in Clients, DismissReturns(c) PROVE VerdictInv'
  BY <1>11 DEF DismissReturns
<1>12. ASSUME NEW c \in Clients, ResultsReturn(c) PROVE VerdictInv'
  BY <1>12 DEF ResultsReturn
<1>13. ASSUME NEW c \in Clients, ServeSubmit(c) PROVE VerdictInv'
  BY <1>13 DEF ServeSubmit, Create
<1>14. ASSUME NEW c \in Clients, ServeStatus(c) PROVE VerdictInv'
  BY <1>14 DEF ServeStatus, StatusAnswer
<1>15. ASSUME NEW c \in Clients, ServeDismiss(c) PROVE VerdictInv'
  BY <1>15 DEF ServeDismiss, Dismiss, AfterDismiss
<1>16. ASSUME NEW c \in Clients, ServeResults(c) PROVE VerdictInv'
  BY <1>16 DEF ServeResults, ResultsAnswer
<1>17. ASSUME NEW c \in Clients, Lose(c) PROVE VerdictInv'
  BY <1>17 DEF Lose, Abandon
<1>18. ASSUME NEW c \in Clients, Cancel(c) PROVE VerdictInv'
  BY <1>18 DEF Cancel, Abandon
<1>19. ASSUME NEW c \in Clients, ServeStrayPost(c) PROVE VerdictInv'
  BY <1>19 DEF ServeStrayPost, Create
<1>20. ASSUME NEW j \in JobIds, WorkerStep(j) PROVE VerdictInv'
  BY <1>20 DEF WorkerStep, JobStep, StartJob, FinishJob, ExpireJob
<1>21. ASSUME NEW j \in JobIds, ServeStrayDelete(j) PROVE VerdictInv'
  BY <1>21 DEF ServeStrayDelete, Dismiss, AfterDismiss
<1>22. CASE Tick
  BY <1>22 DEF Tick, Running
<1>23. CASE UNCHANGED vars
  BY <1>23
<1>24. QED
  BY <1>1, <1>2, <1>3, <1>4, <1>5, <1>6, <1>7, <1>8, <1>9, <1>10, <1>11, <1>12,
     <1>13, <1>14, <1>15, <1>16, <1>17, <1>18, <1>19, <1>20, <1>21, <1>22, <1>23
  DEF Next, ClientStep, NetworkStep

\* VerdictIsFinal: whatever the other callers, the worker and retention do, a
\* terminal status that wait or execute acts on stays true of its job.
THEOREM VerdictsAreFinal == Spec => []VerdictIsFinal
<1>1. VerdictInv => VerdictIsFinal
  BY DEF VerdictInv
<1>2. QED
  BY <1>1, VerdictInvInit, VerdictInvStep, PTL DEF Spec

\* NoDismissAfterVerdict: no call sends a DELETE for a job it knows to have ended,
\* so the clean-up of wait never destroys outputs the caller was told of.
THEOREM NoLateDismissal == Spec => []NoDismissAfterVerdict
<1>1. VerdictInv => NoDismissAfterVerdict
  BY DEF VerdictInv, Undecided, NoDismissAfterVerdict
<1>2. QED
  BY <1>1, VerdictInvInit, VerdictInvStep, PTL DEF Spec

-----------------------------------------------------------------------------
(* Results *)

\* The store marks a job successful, and serves results, only once it ran.
SuccessIsEarned ==
  /\ \A j \in JobIds : jobs[j] = "successful" => j \in ranOk
  /\ \A c \in Clients : (pc[c] = "resulting" /\ net[c] = "results") => job[c] \in ranOk

ResultsInv == TypeInv /\ SuccessIsEarned /\ ResultsAreReal

LEMMA ResultsInvInit == Init => ResultsInv
BY TypeInvInit DEF Init, ServerInit, ResultsInv, SuccessIsEarned, ResultsAreReal

LEMMA ResultsInvStep == ResultsInv /\ [Next]_vars => ResultsInv'
<1> SUFFICES ASSUME ResultsInv, [Next]_vars PROVE ResultsInv'
  OBVIOUS
<1>0. TypeInv'
  BY TypeInvStep DEF ResultsInv
<1> USE NoJobAssumption, <1>0
    DEF NoJobAssumption, TypeInv, TypeOK, Addressed, ServerTypeOK, Status, Active,
        TerminalStatuses, JobStates, IsTerminal, serverVars, clientVars, vars,
        Goto, Send, Resume, Answer, LeaveLoop, ResultsInv, SuccessIsEarned,
        ResultsAreReal
<1>1. ASSUME NEW c \in Clients, Execute(c) PROVE ResultsInv'
  BY <1>1 DEF Execute
<1>2. ASSUME NEW c \in Clients, NEW j \in JobIds, WaitById(c, j) PROVE ResultsInv'
  BY <1>2 DEF WaitById
<1>3. ASSUME NEW c \in Clients, SubmitReturns(c) PROVE ResultsInv'
  BY <1>3 DEF SubmitReturns, EnterLoop
<1>4. ASSUME NEW c \in Clients, FetchReturns(c) PROVE ResultsInv'
  BY <1>4 DEF FetchReturns, EnterLoop
<1>5. ASSUME NEW c \in Clients, CallFails(c) PROVE ResultsInv'
  BY <1>5 DEF CallFails
<1>6. ASSUME NEW c \in Clients, LoopEnds(c) PROVE ResultsInv'
  BY <1>6 DEF LoopEnds
<1>7. ASSUME NEW c \in Clients, LoopTimesOut(c) PROVE ResultsInv'
  BY <1>7 DEF LoopTimesOut
<1>8. ASSUME NEW c \in Clients, LoopSleeps(c) PROVE ResultsInv'
  BY <1>8 DEF LoopSleeps
<1>9. ASSUME NEW c \in Clients, WakeUp(c) PROVE ResultsInv'
  BY <1>9 DEF WakeUp
<1>10. ASSUME NEW c \in Clients, PollReturns(c) PROVE ResultsInv'
  BY <1>10 DEF PollReturns
<1>11. ASSUME NEW c \in Clients, DismissReturns(c) PROVE ResultsInv'
  BY <1>11 DEF DismissReturns
<1>12. ASSUME NEW c \in Clients, ResultsReturn(c) PROVE ResultsInv'
  BY <1>12 DEF ResultsReturn
<1>13. ASSUME NEW c \in Clients, ServeSubmit(c) PROVE ResultsInv'
  BY <1>13 DEF ServeSubmit, Create
<1>14. ASSUME NEW c \in Clients, ServeStatus(c) PROVE ResultsInv'
  BY <1>14 DEF ServeStatus, StatusAnswer
<1>15. ASSUME NEW c \in Clients, ServeDismiss(c) PROVE ResultsInv'
  BY <1>15 DEF ServeDismiss, Dismiss, AfterDismiss
<1>16. ASSUME NEW c \in Clients, ServeResults(c) PROVE ResultsInv'
  BY <1>16 DEF ServeResults, ResultsAnswer
<1>17. ASSUME NEW c \in Clients, Lose(c) PROVE ResultsInv'
  BY <1>17 DEF Lose, Abandon
<1>18. ASSUME NEW c \in Clients, Cancel(c) PROVE ResultsInv'
  BY <1>18 DEF Cancel, Abandon
<1>19. ASSUME NEW c \in Clients, ServeStrayPost(c) PROVE ResultsInv'
  BY <1>19 DEF ServeStrayPost, Create
<1>20. ASSUME NEW j \in JobIds, WorkerStep(j) PROVE ResultsInv'
  BY <1>20 DEF WorkerStep, JobStep, StartJob, FinishJob, ExpireJob
<1>21. ASSUME NEW j \in JobIds, ServeStrayDelete(j) PROVE ResultsInv'
  BY <1>21 DEF ServeStrayDelete, Dismiss, AfterDismiss
<1>22. CASE Tick
  BY <1>22 DEF Tick, Running
<1>23. CASE UNCHANGED vars
  BY <1>23
<1>24. QED
  BY <1>1, <1>2, <1>3, <1>4, <1>5, <1>6, <1>7, <1>8, <1>9, <1>10, <1>11, <1>12,
     <1>13, <1>14, <1>15, <1>16, <1>17, <1>18, <1>19, <1>20, <1>21, <1>22, <1>23
  DEF Next, ClientStep, NetworkStep

\* ResultsAreReal: execute returns outputs only for work that ran to success.
THEOREM ResultsStayReal == Spec => []ResultsAreReal
<1>1. ResultsInv => ResultsAreReal
  BY DEF ResultsInv
<1>2. QED
  BY <1>1, ResultsInvInit, ResultsInvStep, PTL DEF Spec

-----------------------------------------------------------------------------
(* Executions *)

\* As long as a submission may still reach the server, nothing was started.
NothingYet ==
  \A c \in Clients :
    /\ (pc[c] = "idle" \/ (pc[c] = "submitting" /\ net[c] = "sent"))
         => made[c] = {} /\ c \notin strayPosts
    /\ c \in strayPosts => made[c] = {}

OnceInv == TypeInv /\ NothingYet /\ OneJobPerCall

LEMMA OnceInvInit == Init => OnceInv
BY TypeInvInit DEF Init, OnceInv, NothingYet, OneJobPerCall

LEMMA OnceInvStep == OnceInv /\ [Next]_vars => OnceInv'
<1> SUFFICES ASSUME OnceInv, [Next]_vars PROVE OnceInv'
  OBVIOUS
<1>0. TypeInv'
  BY TypeInvStep DEF OnceInv
<1> USE NoJobAssumption, <1>0
    DEF NoJobAssumption, TypeInv, TypeOK, Addressed, ServerTypeOK, Status, Active,
        TerminalStatuses, JobStates, IsTerminal, serverVars, clientVars, vars,
        Goto, Send, Resume, Answer, LeaveLoop, OnceInv, NothingYet,
        OneJobPerCall
<1>1. ASSUME NEW c \in Clients, Execute(c) PROVE OnceInv'
  BY <1>1 DEF Execute
<1>2. ASSUME NEW c \in Clients, NEW j \in JobIds, WaitById(c, j) PROVE OnceInv'
  BY <1>2 DEF WaitById
<1>3. ASSUME NEW c \in Clients, SubmitReturns(c) PROVE OnceInv'
  BY <1>3 DEF SubmitReturns, EnterLoop
<1>4. ASSUME NEW c \in Clients, FetchReturns(c) PROVE OnceInv'
  BY <1>4 DEF FetchReturns, EnterLoop
<1>5. ASSUME NEW c \in Clients, CallFails(c) PROVE OnceInv'
  BY <1>5 DEF CallFails
<1>6. ASSUME NEW c \in Clients, LoopEnds(c) PROVE OnceInv'
  BY <1>6 DEF LoopEnds
<1>7. ASSUME NEW c \in Clients, LoopTimesOut(c) PROVE OnceInv'
  BY <1>7 DEF LoopTimesOut
<1>8. ASSUME NEW c \in Clients, LoopSleeps(c) PROVE OnceInv'
  BY <1>8 DEF LoopSleeps
<1>9. ASSUME NEW c \in Clients, WakeUp(c) PROVE OnceInv'
  BY <1>9 DEF WakeUp
<1>10. ASSUME NEW c \in Clients, PollReturns(c) PROVE OnceInv'
  BY <1>10 DEF PollReturns
<1>11. ASSUME NEW c \in Clients, DismissReturns(c) PROVE OnceInv'
  BY <1>11 DEF DismissReturns
<1>12. ASSUME NEW c \in Clients, ResultsReturn(c) PROVE OnceInv'
  BY <1>12 DEF ResultsReturn
<1>13. ASSUME NEW c \in Clients, ServeSubmit(c) PROVE OnceInv'
  BY <1>13 DEF ServeSubmit, Create
<1>14. ASSUME NEW c \in Clients, ServeStatus(c) PROVE OnceInv'
  BY <1>14 DEF ServeStatus, StatusAnswer
<1>15. ASSUME NEW c \in Clients, ServeDismiss(c) PROVE OnceInv'
  BY <1>15 DEF ServeDismiss, Dismiss, AfterDismiss
<1>16. ASSUME NEW c \in Clients, ServeResults(c) PROVE OnceInv'
  BY <1>16 DEF ServeResults, ResultsAnswer
<1>17. ASSUME NEW c \in Clients, Lose(c) PROVE OnceInv'
  BY <1>17 DEF Lose, Abandon
<1>18. ASSUME NEW c \in Clients, Cancel(c) PROVE OnceInv'
  BY <1>18 DEF Cancel, Abandon
<1>19. ASSUME NEW c \in Clients, ServeStrayPost(c) PROVE OnceInv'
  BY <1>19 DEF ServeStrayPost, Create
<1>20. ASSUME NEW j \in JobIds, WorkerStep(j) PROVE OnceInv'
  BY <1>20 DEF WorkerStep, JobStep, StartJob, FinishJob, ExpireJob
<1>21. ASSUME NEW j \in JobIds, ServeStrayDelete(j) PROVE OnceInv'
  BY <1>21 DEF ServeStrayDelete, Dismiss, AfterDismiss
<1>22. CASE Tick
  BY <1>22 DEF Tick, Running
<1>23. CASE UNCHANGED vars
  BY <1>23
<1>24. QED
  BY <1>1, <1>2, <1>3, <1>4, <1>5, <1>6, <1>7, <1>8, <1>9, <1>10, <1>11, <1>12,
     <1>13, <1>14, <1>15, <1>16, <1>17, <1>18, <1>19, <1>20, <1>21, <1>22, <1>23
  DEF Next, ClientStep, NetworkStep

\* OneJobPerCall: a call is executed at most once, even if the answer to its
\* submission is lost or the task is cancelled while the request is under way.
THEOREM AtMostOneExecution == Spec => []OneJobPerCall
<1>1. OnceInv => OneJobPerCall
  BY DEF OnceInv
<1>2. QED
  BY <1>1, OnceInvInit, OnceInvStep, PTL DEF Spec

-----------------------------------------------------------------------------
(* The promise of a blocking call *)

\* A success the call has read, or is about to read, is backed by work: its job
\* ran, or the process ran inline.
SuccessIsBacked ==
  \A c \in Clients :
    /\ (pc[c] \in {"fetching", "polling"} /\ net[c] = "successful") => job[c] \in ranOk
    /\ (pc[c] = "submitting" /\ net[c] = "successful") => ack[c] \in ranOk
    /\ (pc[c] = "submitting" /\ net[c] \in Status) => ack[c] \in made[c]
    /\ (pc[c] = "submitting" /\ net[c] = "inline") => NoJob \in made[c]
    /\ Succeeded(current[c]) => c \in WorkDone

BackedInv == ResultsInv /\ OnceInv /\ SuccessIsBacked

LEMMA BackedInvInit == Init => BackedInv
BY ResultsInvInit, OnceInvInit DEF Init, BackedInv, SuccessIsBacked, Succeeded, Status, Active,
  TerminalStatuses

LEMMA BackedInvStep == BackedInv /\ [Next]_vars => BackedInv'
<1> SUFFICES ASSUME BackedInv, [Next]_vars PROVE SuccessIsBacked'
  BY ResultsInvStep, OnceInvStep DEF BackedInv
<1>0. TypeInv'
  BY TypeInvStep DEF BackedInv, ResultsInv
<1> USE NoJobAssumption, <1>0
    DEF NoJobAssumption, TypeInv, TypeOK, Addressed, ServerTypeOK, Status, Active,
        TerminalStatuses, JobStates, serverVars, clientVars, vars, Goto, Send, Resume,
        Answer, LeaveLoop, BackedInv, ResultsInv, SuccessIsEarned, OnceInv, NothingYet,
        OneJobPerCall, SuccessIsBacked, Succeeded, WorkDone
<1>1. ASSUME NEW c \in Clients, Execute(c) PROVE SuccessIsBacked'
  BY <1>1 DEF Execute
<1>2. ASSUME NEW c \in Clients, NEW j \in JobIds, WaitById(c, j) PROVE SuccessIsBacked'
  BY <1>2 DEF WaitById
<1>3. ASSUME NEW c \in Clients, SubmitReturns(c) PROVE SuccessIsBacked'
  BY <1>3 DEF SubmitReturns, EnterLoop
<1>4. ASSUME NEW c \in Clients, FetchReturns(c) PROVE SuccessIsBacked'
  BY <1>4 DEF FetchReturns, EnterLoop
<1>5. ASSUME NEW c \in Clients, CallFails(c) PROVE SuccessIsBacked'
  BY <1>5 DEF CallFails
<1>6. ASSUME NEW c \in Clients, LoopEnds(c) PROVE SuccessIsBacked'
  BY <1>6 DEF LoopEnds
<1>7. ASSUME NEW c \in Clients, LoopTimesOut(c) PROVE SuccessIsBacked'
  BY <1>7 DEF LoopTimesOut
<1>8. ASSUME NEW c \in Clients, LoopSleeps(c) PROVE SuccessIsBacked'
  BY <1>8 DEF LoopSleeps
<1>9. ASSUME NEW c \in Clients, WakeUp(c) PROVE SuccessIsBacked'
  BY <1>9 DEF WakeUp
<1>10. ASSUME NEW c \in Clients, PollReturns(c) PROVE SuccessIsBacked'
  BY <1>10 DEF PollReturns
<1>11. ASSUME NEW c \in Clients, DismissReturns(c) PROVE SuccessIsBacked'
  BY <1>11 DEF DismissReturns
<1>12. ASSUME NEW c \in Clients, ResultsReturn(c) PROVE SuccessIsBacked'
  BY <1>12 DEF ResultsReturn
<1>13. ASSUME NEW c \in Clients, ServeSubmit(c) PROVE SuccessIsBacked'
  BY <1>13 DEF ServeSubmit, Create
<1>14. ASSUME NEW c \in Clients, ServeStatus(c) PROVE SuccessIsBacked'
  BY <1>14 DEF ServeStatus, StatusAnswer
<1>15. ASSUME NEW c \in Clients, ServeDismiss(c) PROVE SuccessIsBacked'
  BY <1>15 DEF ServeDismiss, Dismiss, AfterDismiss
<1>16. ASSUME NEW c \in Clients, ServeResults(c) PROVE SuccessIsBacked'
  BY <1>16 DEF ServeResults, ResultsAnswer
<1>17. ASSUME NEW c \in Clients, Lose(c) PROVE SuccessIsBacked'
  BY <1>17 DEF Lose, Abandon
<1>18. ASSUME NEW c \in Clients, Cancel(c) PROVE SuccessIsBacked'
  BY <1>18 DEF Cancel, Abandon
<1>19. ASSUME NEW c \in Clients, ServeStrayPost(c) PROVE SuccessIsBacked'
  BY <1>19 DEF ServeStrayPost, Create
<1>20. ASSUME NEW j \in JobIds, WorkerStep(j) PROVE SuccessIsBacked'
  BY <1>20 DEF WorkerStep, JobStep, StartJob, FinishJob, ExpireJob
<1>21. ASSUME NEW j \in JobIds, ServeStrayDelete(j) PROVE SuccessIsBacked'
  BY <1>21 DEF ServeStrayDelete, Dismiss, AfterDismiss
<1>22. CASE Tick
  BY <1>22 DEF Tick, Running
<1>23. CASE UNCHANGED vars
  BY <1>23
<1>24. QED
  BY <1>1, <1>2, <1>3, <1>4, <1>5, <1>6, <1>7, <1>8, <1>9, <1>10, <1>11, <1>12,
     <1>13, <1>14, <1>15, <1>16, <1>17, <1>18, <1>19, <1>20, <1>21, <1>22, <1>23
  DEF Next, ClientStep, NetworkStep

\* What a step of GpWait does to the call and the work of JobCall.
Quiet ==
  /\ \A d \in Clients : Outcome(d)' = Outcome(d)
  /\ WorkDone \subseteq WorkDone'

Starts(c) ==
  /\ Outcome(c) = "idle"
  /\ Outcome(c)' = "waiting"
  /\ \A d \in Clients \ {c} : Outcome(d)' = Outcome(d)
  /\ WorkDone' \in {WorkDone, WorkDone \cup {c}}

Finishes(c) ==
  /\ Outcome(c) = "waiting"
  /\ \/ Outcome(c)' = "unsuccessful"
     \/ Outcome(c)' = "succeeded" /\ c \in WorkDone
  /\ \A d \in Clients \ {c} : Outcome(d)' = Outcome(d)
  /\ WorkDone' = WorkDone

LEMMA InitMaps == Init => Promise!Init
<1> SUFFICES ASSUME Init PROVE Promise!Init
  OBVIOUS
<1>1. ASSUME NEW c \in Clients PROVE Outcome(c) = "idle"
  BY DEF Init, Outcome
<1>2. WorkDone = {}
  BY DEF Init, ServerInit, WorkDone
<1>3. QED
  BY <1>1, <1>2 DEF Promise!Init

LEMMA StepMaps == BackedInv /\ [Next]_vars => [Promise!Next]_(Promise!vars)
<1> SUFFICES ASSUME BackedInv, [Next]_vars PROVE [Promise!Next]_(Promise!vars)
  OBVIOUS
<1>1. Quiet => Promise!Next
  BY DEF Quiet, WorkDone, Promise!Next, Promise!Complete
<1>2. ASSUME NEW c \in Clients, Starts(c) PROVE Promise!Next
  BY <1>2 DEF Starts, Promise!Next, Promise!Begin
<1>3. ASSUME NEW c \in Clients, Finishes(c) PROVE Promise!Next
  BY <1>3 DEF Finishes, Promise!Next, Promise!Succeed, Promise!GiveUp
<1> USE NoJobAssumption
    DEF NoJobAssumption, TypeInv, TypeOK, Addressed, ServerTypeOK, Status, Active,
        TerminalStatuses, JobStates, PCs, Ended, Awaiting, IsTerminal, serverVars, clientVars,
        vars, Goto, Send, Resume, Answer, LeaveLoop, BackedInv, ResultsInv, OnceInv,
        NothingYet, OneJobPerCall, SuccessIsBacked, Succeeded, WorkDone, Outcome, Quiet,
        Starts, Finishes
<1>4. ASSUME NEW c \in Clients, SubmitReturns(c) PROVE Quiet
  BY <1>4 DEF SubmitReturns, EnterLoop
<1>5. ASSUME NEW c \in Clients, FetchReturns(c) PROVE Quiet
  BY <1>5 DEF FetchReturns, EnterLoop
<1>6. ASSUME NEW c \in Clients, LoopTimesOut(c) PROVE Quiet
  BY <1>6 DEF LoopTimesOut
<1>7. ASSUME NEW c \in Clients, LoopSleeps(c) PROVE Quiet
  BY <1>7 DEF LoopSleeps
<1>8. ASSUME NEW c \in Clients, WakeUp(c) PROVE Quiet
  BY <1>8 DEF WakeUp
<1>9. ASSUME NEW c \in Clients, PollReturns(c) PROVE Quiet
  BY <1>9 DEF PollReturns
<1>10. ASSUME NEW c \in Clients, ServeSubmit(c) PROVE Quiet
  BY <1>10 DEF ServeSubmit, Create
<1>11. ASSUME NEW c \in Clients, ServeStatus(c) PROVE Quiet
  BY <1>11 DEF ServeStatus
<1>12. ASSUME NEW c \in Clients, ServeDismiss(c) PROVE Quiet
  BY <1>12 DEF ServeDismiss, Dismiss
<1>13. ASSUME NEW c \in Clients, ServeResults(c) PROVE Quiet
  BY <1>13 DEF ServeResults
<1>14. ASSUME NEW c \in Clients, Lose(c) PROVE Quiet
  BY <1>14 DEF Lose
<1>15. ASSUME NEW c \in Clients, ServeStrayPost(c) PROVE Quiet
  BY <1>15 DEF ServeStrayPost, Create
<1>16. ASSUME NEW j \in JobIds, WorkerStep(j) PROVE Quiet
  BY <1>16 DEF WorkerStep, JobStep, StartJob, FinishJob, ExpireJob
<1>17. ASSUME NEW j \in JobIds, ServeStrayDelete(j) PROVE Quiet
  BY <1>17 DEF ServeStrayDelete, Dismiss
<1>18. CASE Tick
  <2>1. Quiet
    BY <1>18 DEF Tick
  <2>2. QED
    BY <2>1, <1>1
<1>19. CASE UNCHANGED vars
  <2>1. Quiet
    BY <1>19
  <2>2. QED
    BY <2>1, <1>1
<1>20. ASSUME NEW c \in Clients, CallFails(c) PROVE Quiet \/ Finishes(c)
  BY <1>20 DEF CallFails
<1>21. ASSUME NEW c \in Clients, DismissReturns(c) PROVE Quiet \/ Finishes(c)
  BY <1>21 DEF DismissReturns
<1>22. ASSUME NEW c \in Clients, ResultsReturn(c) PROVE Quiet \/ Finishes(c)
  BY <1>22 DEF ResultsReturn
<1>23. ASSUME NEW c \in Clients, LoopEnds(c) PROVE Quiet \/ Finishes(c)
  BY <1>23 DEF LoopEnds
<1>24. ASSUME NEW c \in Clients, Cancel(c) PROVE Quiet \/ Finishes(c)
  BY <1>24 DEF Cancel
<1>25. ASSUME NEW c \in Clients, Execute(c) PROVE Starts(c)
  BY <1>25 DEF Execute
<1>26. ASSUME NEW c \in Clients, NEW j \in JobIds, WaitById(c, j) PROVE Starts(c)
  BY <1>26 DEF WaitById
<1>27. QED
  BY <1>1, <1>2, <1>3, <1>4, <1>5, <1>6, <1>7, <1>8, <1>9, <1>10, <1>11, <1>12, <1>13, <1>14, <1>15, <1>16, <1>17, <1>18, <1>19, <1>20, <1>21, <1>22, <1>23, <1>24, <1>25, <1>26
  DEF Next, ClientStep, NetworkStep

\* ImplementsJobCall: wait and execute keep the promise of JobCall: a call ends
\* once, and succeeds only for work that the server completed.
THEOREM CallsKeepTheirPromise == Spec => ImplementsJobCall
<1>1. QED
  BY InitMaps, BackedInvInit, BackedInvStep, StepMaps, PTL
  DEF Spec, ImplementsJobCall, Promise!Spec

-----------------------------------------------------------------------------
(* No job is left behind *)

\* From the answer to its submission on, a call knows every job it started; what
\* its DELETE has reached is no longer going; an id that somebody holds is taken.
Accounted ==
  /\ \A c \in Clients : job[c] # NoJob => jobs[job[c]] # "unborn"
  /\ \A c \in Clients : \A j \in made[c] \ {NoJob} : jobs[j] # "unborn"
  /\ \A c \in Clients :
       (dismissed[c] \/ pc[c] \in {"loop", "sleeping", "polling", "dismissing", "cancelling",
                                   "resulting", "returned", "jobError", "timeout"})
         => c \notin strayPosts /\ made[c] \ {NoJob} \subseteq {job[c]}
  /\ \A c \in Clients : pc[c] = "fetching" => made[c] = {} /\ c \notin strayPosts
  /\ \A c \in Clients : (pc[c] = "submitting" /\ net[c] \in Status \cup {"inline"})
       => c \notin strayPosts
  /\ \A c \in Clients : (pc[c] = "submitting" /\ net[c] = "inline") => made[c] = {NoJob}
  /\ \A c \in Clients : (pc[c] \in {"dismissing", "cancelling"} /\ net[c] = "ok")
       => jobs[job[c]] \notin Active
  /\ \A c \in Clients : pc[c] \in {"resulting", "returned", "jobError"} => IsTerminal(current[c])
  /\ \A c \in Clients : pc[c] \in {"dismissing", "cancelling", "timeout"} => dismissed[c]

AccountedInv == BackedInv /\ VerdictInv /\ Accounted /\ NoJobLeftBehind

LEMMA AccountedInit == Init => AccountedInv
BY BackedInvInit, VerdictInvInit DEF Init, ServerInit, AccountedInv, Accounted, NoJobLeftBehind,
  Status, Active, TerminalStatuses, NoJobAssumption

LEMMA AccountedStep == AccountedInv /\ [Next]_vars => AccountedInv'
<1> SUFFICES ASSUME AccountedInv, [Next]_vars PROVE (Accounted /\ NoJobLeftBehind)'
  BY BackedInvStep, VerdictInvStep DEF AccountedInv
<1>0. BackedInv' /\ VerdictInv'
  BY BackedInvStep, VerdictInvStep DEF AccountedInv
<1> USE NoJobAssumption, <1>0
    DEF NoJobAssumption, TypeInv, TypeOK, Addressed, ServerTypeOK, Status, Active,
        TerminalStatuses, JobStates, IsTerminal, serverVars, clientVars, vars, Goto, Send,
        Resume, Answer, LeaveLoop, AccountedInv, BackedInv, VerdictInv, VerdictIsFinal,
        AnswersAreFinal, Undecided, OnceInv, NothingYet, OneJobPerCall, SuccessIsBacked,
        Accounted, NoJobLeftBehind
<1>1. ASSUME NEW c \in Clients, Execute(c) PROVE (Accounted /\ NoJobLeftBehind)'
  BY <1>1 DEF Execute
<1>2. ASSUME NEW c \in Clients, NEW j \in JobIds, WaitById(c, j) PROVE (Accounted /\ NoJobLeftBehind)'
  BY <1>2 DEF WaitById
<1>3. ASSUME NEW c \in Clients, SubmitReturns(c) PROVE (Accounted /\ NoJobLeftBehind)'
  <2>1. CASE net[c] \in Status
    <3>1. made[c] = {ack[c]} /\ ack[c] \in JobIds /\ c \notin strayPosts
      BY <1>3, <2>1 DEF SubmitReturns
    <3>2. job' = [job EXCEPT ![c] = ack[c]] /\ EnterLoop(c, net[c])
      BY <1>3, <2>1 DEF SubmitReturns
    <3>3. Accounted'
      BY <1>3, <3>1, <3>2 DEF SubmitReturns, EnterLoop
    <3>4. NoJobLeftBehind'
      BY <1>3, <3>1, <3>2 DEF SubmitReturns, EnterLoop
    <3>5. QED
      BY <3>3, <3>4
  <2>2. CASE net[c] = "inline"
    <3>1. job' = job /\ EnterLoop(c, "successful") /\ c \notin strayPosts /\ made[c] = {NoJob}
      BY <1>3, <2>2 DEF SubmitReturns
    <3>2. Accounted'
      BY <1>3, <2>2, <3>1 DEF SubmitReturns, EnterLoop
    <3>3. NoJobLeftBehind'
      BY <1>3, <2>2, <3>1 DEF SubmitReturns, EnterLoop
    <3>4. QED
      BY <3>2, <3>3
  <2>3. net[c] \in Status \cup {"inline"}
    BY <1>3 DEF SubmitReturns
  <2> HIDE <1>0 DEF Accounted, NoJobLeftBehind
  <2>4. QED
    BY <2>1, <2>2, <2>3
<1>4. ASSUME NEW c \in Clients, FetchReturns(c) PROVE (Accounted /\ NoJobLeftBehind)'
  BY <1>4 DEF FetchReturns, EnterLoop
<1>5. ASSUME NEW c \in Clients, CallFails(c) PROVE (Accounted /\ NoJobLeftBehind)'
  BY <1>5 DEF CallFails
<1>6. ASSUME NEW c \in Clients, LoopEnds(c) PROVE (Accounted /\ NoJobLeftBehind)'
  BY <1>6 DEF LoopEnds
<1>7. ASSUME NEW c \in Clients, LoopTimesOut(c) PROVE (Accounted /\ NoJobLeftBehind)'
  BY <1>7 DEF LoopTimesOut
<1>8. ASSUME NEW c \in Clients, LoopSleeps(c) PROVE (Accounted /\ NoJobLeftBehind)'
  BY <1>8 DEF LoopSleeps
<1>9. ASSUME NEW c \in Clients, WakeUp(c) PROVE (Accounted /\ NoJobLeftBehind)'
  BY <1>9 DEF WakeUp
<1>10. ASSUME NEW c \in Clients, PollReturns(c) PROVE (Accounted /\ NoJobLeftBehind)'
  BY <1>10 DEF PollReturns
<1>11. ASSUME NEW c \in Clients, DismissReturns(c) PROVE (Accounted /\ NoJobLeftBehind)'
  <2>1. dismissed[c]
    BY <1>11 DEF DismissReturns
  <2>2. CASE net[c] = "ok"
    <3>1. Accounted'
      BY <1>11, <2>1, <2>2 DEF DismissReturns
    <3>2. NoJobLeftBehind'
      BY <1>11, <2>1, <2>2 DEF DismissReturns
    <3>3. QED
      BY <3>1, <3>2
  <2>3. CASE net[c] = "error"
    <3>1. Accounted'
      BY <1>11, <2>1, <2>3 DEF DismissReturns
    <3>2. NoJobLeftBehind'
      BY <1>11, <2>1, <2>3 DEF DismissReturns
    <3>3. QED
      BY <3>1, <3>2
  <2>4. QED
    BY <1>11, <2>2, <2>3 DEF DismissReturns
<1>12. ASSUME NEW c \in Clients, ResultsReturn(c) PROVE (Accounted /\ NoJobLeftBehind)'
  BY <1>12 DEF ResultsReturn
<1>13. ASSUME NEW c \in Clients, ServeSubmit(c) PROVE (Accounted /\ NoJobLeftBehind)'
  <2>1. made[c] = {} /\ job[c] = NoJob /\ ~dismissed[c] /\ c \notin strayPosts
    BY <1>13 DEF ServeSubmit
  <2>2. ASSUME NEW j \in JobIds, NEW s \in {"accepted", "successful"}, Create(j, s),
               Answer(c, s), ack' = [ack EXCEPT ![c] = j],
               made' = [made EXCEPT ![c] = @ \cup {j}]
        PROVE  (Accounted /\ NoJobLeftBehind)'
    <3>0. /\ jobs[j] = "unborn" /\ jobs' = [jobs EXCEPT ![j] = s]
          /\ pc[c] = "submitting" /\ net' = [net EXCEPT ![c] = s]
          /\ UNCHANGED <<pc, mode, job, current, delay, nap, left, strayPosts, strayDeletes,
                         dismissed, unsure>>
      BY <1>13, <2>2 DEF ServeSubmit, Create
    <3>1. \A d \in Clients : job[d] # j /\ j \notin made[d]
      BY <3>0
    <3>2. Accounted'
      BY <2>1, <2>2, <3>0, <3>1, SMTT(30)
    <3>3. NoJobLeftBehind'
      BY <2>1, <2>2, <3>0, <3>1
    <3>4. QED
      BY <3>2, <3>3
  <2>3. ASSUME UNCHANGED <<serverVars, ack>>,
               \/ Answer(c, "inline") /\ made' = [made EXCEPT ![c] = @ \cup {NoJob}]
               \/ Answer(c, "error") /\ made' = made
        PROVE  (Accounted /\ NoJobLeftBehind)'
    <3>1. /\ pc[c] = "submitting" /\ net' \in {[net EXCEPT ![c] = "inline"], [net EXCEPT ![c] = "error"]}
          /\ UNCHANGED <<pc, job, current, strayPosts, dismissed, unsure, jobs>>
      BY <1>13, <2>3 DEF ServeSubmit
    <3>2. made'[c] \subseteq {NoJob} /\ \A d \in Clients \ {c} : made'[d] = made[d]
      BY <2>1, <2>3
    <3>3. net'[c] = "inline" => made'[c] = {NoJob}
      BY <2>1, <2>3
    <3>4. Accounted'
      BY <2>1, <3>1, <3>2, <3>3
    <3>5. NoJobLeftBehind'
      BY <2>1, <3>1, <3>2
    <3>6. QED
      BY <3>4, <3>5
  <2>4. \/ \E j \in JobIds, s \in {"accepted", "successful"} :
              /\ Create(j, s)
              /\ Answer(c, s)
              /\ ack' = [ack EXCEPT ![c] = j]
              /\ made' = [made EXCEPT ![c] = @ \cup {j}]
        \/ /\ UNCHANGED <<serverVars, ack>>
           /\ \/ Answer(c, "inline") /\ made' = [made EXCEPT ![c] = @ \cup {NoJob}]
              \/ Answer(c, "error") /\ made' = made
    BY <1>13 DEF ServeSubmit
  <2> HIDE <1>0 DEF Answer, Accounted, NoJobLeftBehind, serverVars
  <2>5. QED
    BY <2>2, <2>3, <2>4
<1>14. ASSUME NEW c \in Clients, ServeStatus(c) PROVE (Accounted /\ NoJobLeftBehind)'
  BY <1>14 DEF ServeStatus, StatusAnswer
<1>15. ASSUME NEW c \in Clients, ServeDismiss(c) PROVE (Accounted /\ NoJobLeftBehind)'
  BY <1>15 DEF ServeDismiss, Dismiss, AfterDismiss
<1>16. ASSUME NEW c \in Clients, ServeResults(c) PROVE (Accounted /\ NoJobLeftBehind)'
  BY <1>16 DEF ServeResults, ResultsAnswer
<1>17. ASSUME NEW c \in Clients, Lose(c) PROVE (Accounted /\ NoJobLeftBehind)'
  BY <1>17 DEF Lose, Abandon
<1>18. ASSUME NEW c \in Clients, Cancel(c) PROVE (Accounted /\ NoJobLeftBehind)'
  <2>1. CASE pc[c] \in {"sleeping", "polling", "dismissing"}
    <3>1. pc' = [pc EXCEPT ![c] = "cancelling"] /\ net' = [net EXCEPT ![c] = "sent"]
      BY <1>18, <2>1 DEF Cancel
    <3>2. strayPosts' = strayPosts /\ dismissed' = [dismissed EXCEPT ![c] = TRUE]
      BY <1>18, <2>1 DEF Cancel, Abandon
    <3>3. unsure' = unsure
      BY <1>18, <2>1 DEF Cancel
    <3>4. Accounted'
      BY <1>18, <2>1, <3>1, <3>2 DEF Cancel
    <3>5. NoJobLeftBehind'
      BY <1>18, <2>1, <3>1, <3>2, <3>3 DEF Cancel
    <3>6. QED
      BY <3>4, <3>5
  <2>2. CASE pc[c] \in {"submitting", "fetching", "cancelling", "resulting"}
    <3>1. /\ pc' = [pc EXCEPT ![c] = "cancelled"] /\ net' = [net EXCEPT ![c] = "none"]
          /\ unsure' = [unsure EXCEPT ![c] = pc[c] = "cancelling" /\ net[c] # "ok"]
          /\ dismissed' = dismissed
      BY <1>18, <2>2 DEF Cancel
    <3>2. strayPosts' \subseteq strayPosts \cup {c} /\ (dismissed[c] => strayPosts' = strayPosts)
      BY <1>18, <2>2 DEF Cancel, Abandon
    <3>3. Accounted'
      BY <1>18, <2>2, <3>1, <3>2 DEF Cancel
    <3>4. NoJobLeftBehind'
      BY <1>18, <2>2, <3>1 DEF Cancel
    <3>5. QED
      BY <3>3, <3>4
  <2>3. QED
    BY <1>18, <2>1, <2>2 DEF Cancel
<1>19. ASSUME NEW c \in Clients, ServeStrayPost(c) PROVE (Accounted /\ NoJobLeftBehind)'
  BY <1>19 DEF ServeStrayPost, Create
<1>20. ASSUME NEW j \in JobIds, WorkerStep(j) PROVE (Accounted /\ NoJobLeftBehind)'
  BY <1>20 DEF WorkerStep, JobStep, StartJob, FinishJob, ExpireJob
<1>21. ASSUME NEW j \in JobIds, ServeStrayDelete(j) PROVE (Accounted /\ NoJobLeftBehind)'
  BY <1>21 DEF ServeStrayDelete, Dismiss, AfterDismiss
<1>22. CASE Tick
  BY <1>22 DEF Tick, Running
<1>23. CASE UNCHANGED vars
  BY <1>23
<1>24. QED
  BY <1>1, <1>2, <1>3, <1>4, <1>5, <1>6, <1>7, <1>8, <1>9, <1>10, <1>11, <1>12,
     <1>13, <1>14, <1>15, <1>16, <1>17, <1>18, <1>19, <1>20, <1>21, <1>22, <1>23
  DEF Next, ClientStep, NetworkStep

\* NoJobLeftBehind: whatever happens to its requests, a call that ends by itself,
\* by its deadline or by a cancellation it could handle leaves no job running,
\* unless the DELETE it sent went without an answer.
THEOREM NothingLeftBehind == Spec => []NoJobLeftBehind
<1>1. AccountedInv => NoJobLeftBehind
  BY DEF AccountedInv
<1>2. QED
  BY <1>1, AccountedInit, AccountedStep, PTL DEF Spec
=============================================================================
