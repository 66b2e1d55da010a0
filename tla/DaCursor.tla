----------------------------- MODULE DaCursor -----------------------------
(***************************************************************************)
(* da.InsertCursor of honua_gp and the audit record of its with block.      *)
(*                                                                         *)
(* DaRows are buffered and written when the block ends, when close is called, *)
(* or by an explicit flush; each block opens one audit record, which closes *)
(* with the block, with close, or when the cursor cannot be opened.  A      *)
(* cursor object may be entered again after it was left.  da.UpdateCursor   *)
(* differs in what it buffers only.                                        *)
(***************************************************************************)
EXTENDS Naturals, Sequences, FiniteSets

CONSTANTS
  DaRows,
  MaxBlocks,  \* bound on the with blocks of a run
  MaxDaSends    \* bound on its applyEdits requests

ASSUME BoundsAssumption == MaxBlocks \in Nat /\ MaxDaSends \in Nat

VARIABLES
  entered,    \* _entered
  closed,     \* _closed: set with the first close and never reset
  record,     \* the audit record is open
  block,      \* the number of the with block ...
  inside,     \* ... the program is in, or was in last
  raising,    \* an exception is about to leave the block
  inserts,    \* the buffer
  daSends,      \* requests so far
  audit,      \* statuses of the records handed to the audit writer
  seen,       \* history: how each block ended for the program, or its close
  outcome,    \* history: how the last block was left
  queuedIn,     \* history: the block whose insertRow took a row
  answered    \* history: rows of a request that was answered

blockVars == <<block, inside, raising>>
requests == <<daSends, answered>>
history == <<seen, outcome>>
daVars == <<entered, closed, record, blockVars, inserts, requests, audit, history, queuedIn>>

Outcomes == {"ok", "error"}

DaTypeOK ==
  /\ entered \in BOOLEAN /\ closed \in BOOLEAN /\ record \in BOOLEAN
  /\ inside \in BOOLEAN /\ raising \in BOOLEAN
  /\ block \in 0..MaxBlocks
  /\ inserts \subseteq DaRows
  /\ daSends \in 0..MaxDaSends
  /\ audit \in Seq(Outcomes) /\ seen \in Seq(Outcomes) /\ outcome \in Outcomes
  /\ queuedIn \in [DaRows -> 0..MaxBlocks]
  /\ answered \subseteq DaRows

DaInit ==
  /\ entered = FALSE /\ record = FALSE /\ closed = FALSE
  /\ inside = FALSE /\ raising = FALSE
  /\ block = 0
  /\ inserts = {}
  /\ daSends = 0
  /\ audit = <<>> /\ seen = <<>> /\ outcome = "ok"
  /\ queuedIn = [r \in DaRows |-> 0]
  /\ answered = {}

Status(ok) == IF ok THEN "ok" ELSE "error"

-----------------------------------------------------------------------------
(* The cursor *)

\* One applyEdits request with the buffer, which is cleared unless the call
\* raises.  The edits an answer names as rejected are not looked at.
SendBuffer(ok) ==
  /\ daSends < MaxDaSends
  /\ daSends' = daSends + 1
  /\ IF ok
     THEN answered' = answered \cup inserts /\ inserts' = {}
     ELSE UNCHANGED <<answered, inserts>>

\* flush, and whether it returns.
FlushTo(ok) ==
  IF inserts = {} THEN ok /\ UNCHANGED <<requests, inserts>> ELSE SendBuffer(ok)

\* The with statement of record_call ends: the record is written, once.
CloseRecord(status) == audit' = IF record THEN Append(audit, status) ELSE audit

\* Mutant: only an exception of the block itself reaches the record.
ExitUnaudited(exc, ok) ==
  /\ entered' = FALSE /\ record' = FALSE /\ closed' = TRUE
  /\ CloseRecord(Status(~exc))
  /\ IF exc THEN ~ok /\ UNCHANGED <<requests, inserts>> ELSE FlushTo(ok)

\* __exit__: flush unless an exception leaves the block, close the record with
\* whichever exception there is, and raise it.
Exit(exc, ok) ==
  /\ entered' = FALSE /\ record' = FALSE /\ closed' = TRUE
  /\ CloseRecord(Status(ok))
  /\ IF exc THEN ~ok /\ UNCHANGED <<requests, inserts>> ELSE FlushTo(ok)

\* __enter__ when the source can be opened ...
Enter ==
  /\ ~inside /\ block < MaxBlocks
  /\ block' = block + 1 /\ inside' = TRUE
  /\ entered' = TRUE /\ record' = TRUE
  /\ UNCHANGED <<closed, raising, inserts, requests, audit, history, queuedIn>>

\* ... and when it cannot: the block does not start, the record is closed.
EnterFails ==
  /\ ~inside /\ block < MaxBlocks
  /\ block' = block + 1
  /\ audit' = Append(audit, "error")
  /\ seen' = Append(seen, "error") /\ outcome' = "error"
  /\ closed' = TRUE
  /\ UNCHANGED <<entered, record, inside, raising, inserts, requests, queuedIn>>

InsertBlockRow(r) ==
  /\ inside /\ entered /\ ~raising /\ queuedIn[r] = 0
  /\ inserts' = inserts \cup {r}
  /\ queuedIn' = [queuedIn EXCEPT ![r] = block]
  /\ UNCHANGED <<entered, closed, record, blockVars, requests, audit, history>>

\* Mutant: reset empties the buffer.
ResetClears ==
  /\ inside /\ entered /\ ~raising
  /\ inserts' = {}
  /\ UNCHANGED <<entered, closed, record, blockVars, requests, audit, history, queuedIn>>

\* reset is refused; the error leaves the block unless the program catches it.
Reset ==
  /\ inside /\ entered /\ ~raising
  /\ raising' = TRUE
  /\ UNCHANGED <<entered, closed, record, block, inside, inserts, requests, audit, history, queuedIn>>

\* flush, which works after close as well.
FlushBlock ==
  /\ inside /\ ~raising
  /\ \E ok \in BOOLEAN : FlushTo(ok) /\ raising' \in {FALSE, ~ok}
  /\ UNCHANGED <<entered, closed, record, block, inside, audit, history, queuedIn>>

\* close inside the block, which then runs on.  In a later block of the same
\* cursor it does nothing: closed is still set.
Close ==
  /\ inside /\ entered /\ ~closed /\ ~raising
  /\ \E ok \in BOOLEAN :
       /\ Exit(FALSE, ok)
       /\ seen' = Append(seen, Status(ok))
       /\ raising' \in {FALSE, ~ok}
  /\ UNCHANGED <<block, inside, outcome, queuedIn>>

-----------------------------------------------------------------------------
(* The program *)

\* Any other exception in the block.
Raise ==
  /\ inside /\ ~raising
  /\ raising' = TRUE
  /\ UNCHANGED <<entered, closed, record, block, inside, inserts, requests, audit, history, queuedIn>>

LeaveDaBlock ==
  /\ inside
  /\ inside' = FALSE /\ raising' = FALSE
  /\ \E ok \in BOOLEAN :
       /\ Exit(raising, ok)
       /\ outcome' = Status(ok)
       /\ seen' = IF entered THEN Append(seen, Status(ok)) ELSE seen
  /\ UNCHANGED <<block, queuedIn>>

DaNext ==
  \/ Enter \/ EnterFails \/ Reset \/ FlushBlock \/ Close \/ Raise \/ LeaveDaBlock
  \/ \E r \in DaRows : InsertBlockRow(r)

DaSpec == DaInit /\ [][DaNext]_daVars

-----------------------------------------------------------------------------
(* Properties *)

\* The cursor's last block has been left without an exception.
LeftClean == ~inside /\ outcome = "ok"

\* One audit record for every block, with the status the program saw: a flush
\* that fails on the way out is an error in the record as well, and no block,
\* however it ends, is missing or recorded twice.  (_BaseCursor.__exit__)
AuditTellsTheOutcome == audit = seen

\* Every row of a block left without an exception was sent in a request that
\* was answered: neither reset nor close nor a failed flush loses one.
CleanBlockHasSent == LeftClean => \A r \in DaRows : queuedIn[r] = block /\ block > 0 => r \in answered
=============================================================================
