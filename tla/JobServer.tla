----------------------------- MODULE JobServer -----------------------------
(***************************************************************************)
(* The OGC API Processes job store of honua-server, as the two waiting      *)
(* loops of the Python packages use it (POST .../execution, GET and DELETE  *)
(* /jobs/{id}, GET /jobs/{id}/results).  The server is not part of the      *)
(* repository: every definition here is external, taken from the requests   *)
(* geoprocessing.py and _process_jobs.py send and from the answers their    *)
(* code tells apart.                                                        *)
(***************************************************************************)
CONSTANT JobIds

VARIABLES
  jobs,    \* what the store holds for each job id
  ranOk    \* history: the jobs whose work ran to success

serverVars == <<jobs, ranOk>>

Active == {"accepted", "running"}

\* TERMINAL_JOB_STATUSES of the SDK, _TERMINAL of the shim.
TerminalStatuses == {"successful", "failed", "dismissed"}

Status == Active \cup TerminalStatuses

\* "unborn": the id is not handed out yet; "gone": the record has left the store.
JobStates == Status \cup {"unborn", "gone"}

\* Jobs may already exist when the clients start: other programs submit too.
ServerInit ==
  /\ jobs \in [JobIds -> {"unborn", "accepted"}]
  /\ ranOk = {}

ServerTypeOK ==
  /\ jobs \in [JobIds -> JobStates]
  /\ ranOk \in SUBSET JobIds

\* A submission creates a job; a fast one is already finished when answered.
Create(j, s) ==
  /\ jobs[j] = "unborn"
  /\ s \in {"accepted", "successful"}
  /\ jobs' = [jobs EXCEPT ![j] = s]
  /\ ranOk' = IF s = "successful" THEN ranOk \cup {j} ELSE ranOk

\* DELETE cancels a job that is still going and forgets one that has ended.
AfterDismiss(j) ==
  IF jobs[j] \in Active THEN "dismissed"
  ELSE IF jobs[j] \in TerminalStatuses THEN "gone" ELSE jobs[j]

Dismiss(j) ==
  /\ jobs' = [jobs EXCEPT ![j] = AfterDismiss(j)]
  /\ UNCHANGED ranOk

\* What GET /jobs/{id} answers: a StatusInfo, or 404 once the record is gone.
StatusAnswer(j) == IF jobs[j] \in Status THEN jobs[j] ELSE "missing"

\* GET /jobs/{id}/results has outputs for a successful job only.
ResultsAnswer(j) == IF jobs[j] = "successful" THEN "results" ELSE "missing"

\* The worker runs the job, and retention drops the records of ended jobs.
StartJob(j) ==
  /\ jobs[j] = "accepted"
  /\ jobs' = [jobs EXCEPT ![j] = "running"]
  /\ UNCHANGED ranOk

FinishJob(j) ==
  /\ jobs[j] = "running"
  /\ \E s \in {"successful", "failed"} :
       /\ jobs' = [jobs EXCEPT ![j] = s]
       /\ ranOk' = IF s = "successful" THEN ranOk \cup {j} ELSE ranOk

ExpireJob(j) ==
  /\ jobs[j] \in TerminalStatuses
  /\ jobs' = [jobs EXCEPT ![j] = "gone"]
  /\ UNCHANGED ranOk

JobStep(j) == StartJob(j) \/ FinishJob(j) \/ ExpireJob(j)
=============================================================================
