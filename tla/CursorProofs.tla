----------------------------- MODULE CursorProofs ----------------------------
(*****************************************************************************)
(* Proofs about the cursors that write and the audit log, for any rows,      *)
(* tasks, threads and days and any number of requests: the SDK's insert      *)
(* cursor loses no row in silence and writes none twice unless an answer     *)
(* was lost (EditCursor); da.InsertCursor of honua_gp sends its rows and     *)
(* its audit record tells what became of them (DaCursor); the records reach  *)
(* the file of their day (AuditWriter).                                      *)
(*****************************************************************************)
EXTENDS EditCursor, DaCursor, AuditWriter, TLAPS

-----------------------------------------------------------------------------
(* The SDK's insert cursor. *)

\* Types, and who may be waiting: a synchronous cursor has one user.
CursorTypes ==
  /\ autoFlush \in BOOLEAN /\ rollback \in BOOLEAN
  /\ adds \subseteq queued
  /\ pc \in [Tasks -> {"idle", "flushing", "raised"}]
  /\ batch \in [Tasks -> SUBSET queued]
  /\ answer \in [Tasks -> {"none", "sent", "results", "error"}]
  /\ rejected \in [Tasks -> SUBSET queued]
  /\ cursor \in {"open", "closing", "closed", "abandoned"}
  /\ stored \in [Rows -> Nat]
  /\ queued \subseteq Rows
  /\ reported \subseteq queued /\ unanswered \subseteq queued /\ crossed \subseteq queued
  /\ \A t \in Tasks : answer[t] # "none" => pc[t] = "flushing"
  /\ autoFlush => \A t \in Tasks \ {Main} : pc[t] = "idle"

\* A flush that is awaited covers the buffer, but for rows that crossed it, and
\* what its answer does not name was stored.
FlushesCover ==
  \A t \in Tasks :
    /\ pc[t] = "flushing" => adds \subseteq batch[t] \cup crossed
    /\ answer[t] = "results" => \A r \in batch[t] : stored[r] > 0 \/ r \in rejected[t]

\* Wherever the cursor stands, a row it took is somewhere; a closed one is empty.
NothingVanishes ==
  /\ \A r \in queued \ crossed : r \in adds \/ stored[r] > 0 \/ r \in reported
  /\ cursor = "closed" => adds = {}

KeptInv == CursorTypes /\ FlushesCover /\ NothingVanishes

LEMMA KeptInit == Init => KeptInv
BY DEF Init, KeptInv, CursorTypes, FlushesCover, NothingVanishes

LEMMA KeptStep == KeptInv /\ [Next]_vars => KeptInv'
<1> SUFFICES ASSUME KeptInv, [Next]_vars PROVE KeptInv'
  OBVIOUS
<1> USE CursorAssumption DEF CursorAssumption, KeptInv, vars, kind
<1>1. ASSUME NEW t \in Tasks, NEW r \in Rows, InsertRow(t, r), autoFlush => t = Main
      PROVE  KeptInv'
  <2>1. CASE pc' = pc /\ batch' = batch /\ answer' = answer
    BY <1>1, <2>1 DEF InsertRow, CursorTypes, FlushesCover, NothingVanishes, Flushing
  <2>2. CASE autoFlush /\ Send(t, adds')
    <3>1. Flushing = {}
      BY <1>1, <2>2 DEF InsertRow, Flushing, CursorTypes
    <3>2. CursorTypes'
      BY <1>1, <2>2, <3>1 DEF InsertRow, Send, CursorTypes
    <3>3. FlushesCover' /\ NothingVanishes'
      BY <1>1, <2>2, <3>1 DEF InsertRow, Send, CursorTypes, FlushesCover, NothingVanishes, Flushing
    <3>4. QED
      BY <3>2, <3>3
  <2>3. QED
    BY <1>1, <2>1, <2>2 DEF InsertRow
<1>2. ASSUME NEW t \in Tasks, Flush(t), autoFlush => t = Main PROVE KeptInv'
  BY <1>2 DEF Flush, Send, CursorTypes, FlushesCover, NothingVanishes, Flushing
<1>3. ASSUME NEW t \in Tasks, LeaveBlock(t), autoFlush => t = Main PROVE KeptInv'
  BY <1>3 DEF LeaveBlock, Send, CursorTypes, FlushesCover, NothingVanishes
<1>4. ASSUME NEW t \in Tasks, FlushReturns(t) PROVE KeptInv'
  BY <1>4 DEF FlushReturns, Answered, CursorTypes, FlushesCover, NothingVanishes
<1>5. ASSUME NEW t \in Tasks, FlushRaises(t) PROVE KeptInv'
  BY <1>5 DEF FlushRaises, Answered, CursorTypes, FlushesCover, NothingVanishes
<1>6. ASSUME NEW t \in Tasks, Recover(t) PROVE KeptInv'
  BY <1>6 DEF Recover, CursorTypes, FlushesCover, NothingVanishes
<1>7. ASSUME NEW t \in Tasks, Abandon(t) PROVE KeptInv'
  BY <1>7 DEF Abandon, CursorTypes, FlushesCover, NothingVanishes
<1>8. ASSUME NEW t \in Tasks, Serve(t) PROVE KeptInv'
  <2>1. PICK F \in Failures(batch[t]) :
          /\ Store(batch[t] \ F)
          /\ \/ /\ answer' = [answer EXCEPT ![t] = "results"]
                /\ rejected' = [rejected EXCEPT ![t] = F]
                /\ UNCHANGED unanswered
             \/ /\ answer' = [answer EXCEPT ![t] = "error"]
                /\ unanswered' = unanswered \cup batch[t]
                /\ UNCHANGED rejected
    BY <1>8 DEF Serve
  <2>2. F \subseteq batch[t]
    BY DEF Failures
  <2>3. stored' \in [Rows -> Nat] /\ \A r \in Rows : stored'[r] >= stored[r]
    BY <2>1 DEF Store, CursorTypes
  <2>4. \A r \in batch[t] \ F : stored'[r] > 0
    BY <2>1 DEF Store, CursorTypes
  <2>5. CursorTypes'
    BY <1>8, <2>1, <2>2, <2>3 DEF Serve, CursorTypes
  <2>6. FlushesCover'
    BY <1>8, <2>1, <2>2, <2>3, <2>4 DEF Serve, CursorTypes, FlushesCover
  <2>7. NothingVanishes'
    BY <1>8, <2>3 DEF Serve, CursorTypes, NothingVanishes
  <2>8. QED
    BY <2>5, <2>6, <2>7
<1>9. CASE UNCHANGED vars
  BY <1>9 DEF CursorTypes, FlushesCover, NothingVanishes
<1>10. QED
  BY <1>1, <1>2, <1>3, <1>4, <1>5, <1>6, <1>7, <1>8, <1>9 DEF Next, UserStep

\* RowsAccountedFor: a row that insert_row took is in the buffer, on the server, or
\* named by an exception, and a block left normally leaves none in the buffer.
THEOREM NoRowVanishes == Spec => []RowsAccountedFor
<1>1. KeptInv => RowsAccountedFor
  BY DEF KeptInv, NothingVanishes, RowsAccountedFor
<1>2. QED
  BY <1>1, KeptInit, KeptStep, PTL DEF Spec

-----------------------------------------------------------------------------
(* No row is written twice *)

\* A row waits in the buffer or in one request, and is not stored yet unless the
\* answer that empties the buffer is on its way.
WaitsOnce ==
  /\ \A r \in Rows \ queued : stored[r] = 0
  /\ \A r \in adds \ (unanswered \cup crossed) :
       stored[r] = 0 \/ \E t \in Tasks : answer[t] = "results" /\ r \in batch[t]
  /\ \A t \in Tasks : answer[t] = "sent" =>
       \A r \in batch[t] \ (unanswered \cup crossed) : stored[r] = 0
  /\ \A t, u \in Flushing : t # u => batch[t] \cap batch[u] \subseteq crossed
  /\ \A t \in Tasks : answer[t] = "error" => batch[t] \subseteq unanswered

OnceInv == KeptInv /\ WaitsOnce /\ WrittenOnce

LEMMA OnceInit == Init => OnceInv
BY KeptInit DEF Init, OnceInv, WaitsOnce, WrittenOnce, Flushing

LEMMA OnceStep == OnceInv /\ [Next]_vars => OnceInv'
<1> SUFFICES ASSUME OnceInv, [Next]_vars PROVE (WaitsOnce /\ WrittenOnce)'
  BY KeptStep DEF OnceInv
<1> USE CursorAssumption DEF CursorAssumption, OnceInv, KeptInv, CursorTypes, vars, kind, Flushing
<1>1. ASSUME NEW t \in Tasks, NEW r \in Rows, InsertRow(t, r), autoFlush => t = Main
      PROVE  (WaitsOnce /\ WrittenOnce)'
  <2>1. CASE pc' = pc /\ batch' = batch /\ answer' = answer
    BY <1>1, <2>1 DEF InsertRow, WaitsOnce, WrittenOnce
  <2>2. CASE autoFlush /\ Send(t, adds')
    <3>1. \A u \in Tasks : pc[u] # "flushing" /\ answer[u] = "none"
      BY <1>1, <2>2 DEF InsertRow
    <3>2. QED
      BY <1>1, <2>2, <3>1 DEF InsertRow, Send, WaitsOnce, WrittenOnce
  <2>3. QED
    BY <1>1, <2>1, <2>2 DEF InsertRow
<1>2. ASSUME NEW t \in Tasks, Flush(t), autoFlush => t = Main PROVE (WaitsOnce /\ WrittenOnce)'
  BY <1>2 DEF Flush, Send, WaitsOnce, WrittenOnce
<1>3. ASSUME NEW t \in Tasks, LeaveBlock(t), autoFlush => t = Main
      PROVE  (WaitsOnce /\ WrittenOnce)'
  BY <1>3 DEF LeaveBlock, Send, WaitsOnce, WrittenOnce
<1>4. ASSUME NEW t \in Tasks, FlushReturns(t) PROVE (WaitsOnce /\ WrittenOnce)'
  BY <1>4 DEF FlushReturns, Answered, WaitsOnce, WrittenOnce
<1>5. ASSUME NEW t \in Tasks, FlushRaises(t) PROVE (WaitsOnce /\ WrittenOnce)'
  BY <1>5 DEF FlushRaises, Answered, WaitsOnce, WrittenOnce
<1>6. ASSUME NEW t \in Tasks, Recover(t) PROVE (WaitsOnce /\ WrittenOnce)'
  BY <1>6 DEF Recover, WaitsOnce, WrittenOnce
<1>7. ASSUME NEW t \in Tasks, Abandon(t) PROVE (WaitsOnce /\ WrittenOnce)'
  BY <1>7 DEF Abandon, WaitsOnce, WrittenOnce
<1>8. ASSUME NEW t \in Tasks, Serve(t) PROVE (WaitsOnce /\ WrittenOnce)'
  <2>1. PICK F \in Failures(batch[t]) :
          /\ Store(batch[t] \ F)
          /\ \/ /\ answer' = [answer EXCEPT ![t] = "results"]
                /\ UNCHANGED unanswered
             \/ /\ answer' = [answer EXCEPT ![t] = "error"]
                /\ unanswered' = unanswered \cup batch[t]
    BY <1>8 DEF Serve
  <2>2. /\ \A r \in Rows \ batch[t] : stored'[r] = stored[r]
        /\ \A r \in batch[t] : stored'[r] \in {stored[r], stored[r] + 1}
    BY <2>1 DEF Store
  <2>3. WaitsOnce'
    BY <1>8, <2>1, <2>2 DEF Serve, WaitsOnce
  <2>4. WrittenOnce'
    BY <1>8, <2>1, <2>2 DEF Serve, WaitsOnce, WrittenOnce
  <2>5. QED
    BY <2>3, <2>4
<1>9. CASE UNCHANGED vars
  BY <1>9 DEF WaitsOnce, WrittenOnce
<1>10. QED
  BY <1>1, <1>2, <1>3, <1>4, <1>5, <1>6, <1>7, <1>8, <1>9 DEF Next, UserStep

\* WrittenOnce: the server holds two copies of a row only if a request that carried
\* it was never answered, or a second task crossed its flush.
THEOREM NoRowTwice == Spec => []WrittenOnce
<1>1. OnceInv => WrittenOnce
  BY DEF OnceInv
<1>2. QED
  BY <1>1, OnceInit, OnceStep, PTL DEF Spec

-----------------------------------------------------------------------------
(* The insert cursor of honua_gp, and the audit log. *)

\* What an applyEdits request does to the buffer, and to what was answered.
LEMMA FlushMovesRows ==
  ASSUME NEW ok \in BOOLEAN, FlushTo(ok), inserts \subseteq DaRows, answered \subseteq DaRows
  PROVE  /\ inserts' \subseteq inserts /\ answered' \subseteq DaRows
         /\ inserts \cup answered \subseteq inserts' \cup answered'
         /\ ok => inserts' = {}
<1>1. CASE inserts = {}
  BY <1>1 DEF FlushTo, requests
<1>2. CASE inserts # {} /\ ok
  BY <1>2 DEF FlushTo, SendBuffer
<1>3. CASE inserts # {} /\ ~ok
  BY <1>3 DEF FlushTo, SendBuffer
<1>4. QED
  BY <1>1, <1>2, <1>3

\* The audit record is open exactly while the cursor is entered.
RecordFollows ==
  /\ entered \in BOOLEAN
  /\ entered = record
  /\ AuditTellsTheOutcome

LEMMA RecordInit == DaInit => RecordFollows
BY DEF DaInit, RecordFollows, AuditTellsTheOutcome

LEMMA RecordStep == RecordFollows /\ [DaNext]_daVars => RecordFollows'
<1> SUFFICES ASSUME RecordFollows, [DaNext]_daVars PROVE RecordFollows'
  OBVIOUS
<1> USE DEF RecordFollows, AuditTellsTheOutcome, daVars, blockVars, history
<1>1. CASE Enter
  BY <1>1 DEF Enter
<1>2. CASE EnterFails
  BY <1>2 DEF EnterFails
<1>3. CASE Reset
  BY <1>3 DEF Reset
<1>4. CASE FlushBlock
  BY <1>4 DEF FlushBlock
<1>5. CASE Close
  BY <1>5 DEF Close, Exit, CloseRecord
<1>6. CASE Raise
  BY <1>6 DEF Raise
<1>7. CASE LeaveDaBlock
  BY <1>7 DEF LeaveDaBlock, Exit, CloseRecord
<1>8. ASSUME NEW r \in DaRows, InsertBlockRow(r) PROVE RecordFollows'
  BY <1>8 DEF InsertBlockRow
<1>9. CASE UNCHANGED daVars
  BY <1>9
<1>10. QED
  BY <1>1, <1>2, <1>3, <1>4, <1>5, <1>6, <1>7, <1>8, <1>9 DEF DaNext

\* AuditTellsTheOutcome: one record for every block, with the status its program saw.
THEOREM AuditIsTrue == DaSpec => []AuditTellsTheOutcome
<1>1. RecordFollows => AuditTellsTheOutcome
  BY DEF RecordFollows
<1>2. QED
  BY <1>1, RecordInit, RecordStep, PTL DEF DaSpec

\* A row of the current block is in the buffer or was sent; a block left without an
\* exception has an empty buffer.
BlockSends ==
  /\ inserts \subseteq DaRows /\ answered \subseteq DaRows
  /\ block \in Nat
  /\ queuedIn \in [DaRows -> Nat]
  /\ inside \in BOOLEAN /\ raising \in BOOLEAN
  /\ \A r \in DaRows : (queuedIn[r] = block /\ block > 0) => r \in inserts \cup answered
  /\ \A r \in DaRows : queuedIn[r] <= block
  /\ LeftClean => inserts = {}

LEMMA BlockInit == DaInit => BlockSends
<1> SUFFICES ASSUME DaInit PROVE BlockSends
  OBVIOUS
<1>1. block = 0 /\ inserts = {} /\ answered = {} /\ inside = FALSE /\ raising = FALSE
  BY DEF DaInit
<1>2. queuedIn \in [DaRows -> Nat] /\ \A r \in DaRows : queuedIn[r] = 0
  BY DEF DaInit
<1>3. inside \in BOOLEAN /\ raising \in BOOLEAN
  BY <1>1, Zenon
<1>4. \A r \in DaRows : queuedIn[r] <= block /\ ~(block > 0)
  BY <1>1, <1>2
<1>5. QED
  BY <1>1, <1>2, <1>3, <1>4 DEF BlockSends

LEMMA BlockStep == BlockSends /\ [DaNext]_daVars => BlockSends'
<1> SUFFICES ASSUME BlockSends, [DaNext]_daVars PROVE BlockSends'
  OBVIOUS
<1> USE DEF BlockSends, LeftClean, Status, daVars, blockVars, requests, history
<1>1. CASE Enter
  BY <1>1 DEF Enter
<1>2. CASE EnterFails
  BY <1>2 DEF EnterFails
<1>3. CASE Reset
  BY <1>3 DEF Reset
<1>4. CASE FlushBlock
  <2>1. PICK ok \in BOOLEAN : FlushTo(ok) /\ raising' \in {FALSE, ~ok}
    BY <1>4 DEF FlushBlock
  <2>2. QED
    BY <1>4, <2>1, FlushMovesRows DEF FlushBlock
<1>5. CASE Close
  <2>1. PICK ok \in BOOLEAN : FlushTo(ok) /\ raising' \in {FALSE, ~ok}
    BY <1>5 DEF Close, Exit
  <2>2. QED
    BY <1>5, <2>1, FlushMovesRows DEF Close
<1>6. CASE Raise
  BY <1>6 DEF Raise
<1>7. CASE LeaveDaBlock
  <2>1. PICK ok \in BOOLEAN : Exit(raising, ok) /\ outcome' = Status(ok)
    BY <1>7 DEF LeaveDaBlock
  <2>2. CASE raising
    BY <1>7, <2>1, <2>2 DEF LeaveDaBlock, Exit
  <2>3. CASE ~raising
    BY <1>7, <2>1, <2>3, FlushMovesRows DEF LeaveDaBlock, Exit
  <2>4. QED
    BY <2>2, <2>3
<1>8. ASSUME NEW r \in DaRows, InsertBlockRow(r) PROVE BlockSends'
  BY <1>8 DEF InsertBlockRow
<1>9. CASE UNCHANGED daVars
  BY <1>9
<1>10. QED
  BY <1>1, <1>2, <1>3, <1>4, <1>5, <1>6, <1>7, <1>8, <1>9 DEF DaNext

\* CleanBlockHasSent: a block left without an exception has sent every row it took, in
\* a request that was answered.
THEOREM CleanBlocksSend == DaSpec => []CleanBlockHasSent
<1>1. BlockSends => CleanBlockHasSent
  BY DEF BlockSends, CleanBlockHasSent
<1>2. QED
  BY <1>1, BlockInit, BlockStep, PTL DEF DaSpec

-----------------------------------------------------------------------------
(* The audit log *)

\* The steps of write that hold the lock.
Locked == {"checking", "opening", "naming", "writing"}

AuditTypes ==
  /\ day \in Nat \ {0}
  /\ step \in [Writers -> {"calling", "waiting", "ended"} \cup Locked]
  /\ path \in [Writers -> Nat \ {0}]
  /\ lines \subseteq Writers \X Nat
  /\ current \in [path : Nat, file : Nat, open : BOOLEAN]
  /\ closer \in {"idle", "closing", "forgetting"}
  /\ disturbed \subseteq Writers

\* The handle is that of the file it is named for, but while its opener names it;
\* without a close alongside, a handle is open.
HandleIsNamed ==
  /\ \A w \in Writers : step[w] \in Locked => lock = w
  /\ \A w \in Writers : step[w] \in {"naming", "writing"} => current.file \in {NoHandle, path[w]}
  /\ (current.file # NoHandle /\ \A w \in Writers : step[w] # "naming") => current.path = current.file
  /\ (current.file # NoHandle /\ closer = "idle") => current.open
  /\ closer # "idle" => \A w \in Writers : step[w] \in {"calling", "ended"} \/ w \in disturbed
  /\ \A w \in Writers \ disturbed :
       step[w] \in {"naming", "writing"} => current.file = path[w] /\ current.open
  /\ \A line \in lines : step[line[1]] = "ended"

AuditInv == AuditTypes /\ HandleIsNamed /\ RecordsReachTheirDay

LEMMA LogInit == AuditInit => AuditInv
BY AuditAssumption DEF AuditAssumption, AuditInit, AuditInv, AuditTypes, HandleIsNamed,
  RecordsReachTheirDay, Locked, Closed, NoHandle

LEMMA LogStep == AuditInv /\ [AuditNext]_auditVars => AuditInv'
<1> SUFFICES ASSUME AuditInv, [AuditNext]_auditVars PROVE AuditInv'
  OBVIOUS
<1> USE AuditAssumption
    DEF AuditAssumption, AuditInv, AuditTypes, HandleIsNamed, RecordsReachTheirDay, Locked,
        Closed, NoHandle, To, auditVars
<1>1. CASE Midnight
  BY <1>1 DEF Midnight
<1>2. CASE CloseBegins
  BY <1>2 DEF CloseBegins
<1>3. CASE CloseHandle
  BY <1>3 DEF CloseHandle
<1>4. CASE CloseEnds
  BY <1>4 DEF CloseEnds
<1>5. ASSUME NEW w \in Writers, CallEnded(w) PROVE AuditInv'
  BY <1>5 DEF CallEnded
<1>6. ASSUME NEW w \in Writers, Lock(w) PROVE AuditInv'
  BY <1>6 DEF Lock
<1>7. ASSUME NEW w \in Writers, CheckHandle(w) PROVE AuditInv'
  <2>1. lock = w /\ \A u \in Writers : step[u] \notin {"naming", "writing"}
    BY <1>7 DEF CheckHandle
  <2>2. CASE current.path # path[w] \/ current.file = NoHandle
    <3>1. current' = Closed /\ step' = [step EXCEPT ![w] = "opening"]
      BY <1>7, <2>2 DEF CheckHandle
    <3>2. AuditTypes' /\ RecordsReachTheirDay'
      BY <1>7, <3>1 DEF CheckHandle
    <3>3. HandleIsNamed'
      BY <1>7, <2>1, <3>1 DEF CheckHandle
    <3>4. QED
      BY <3>2, <3>3
  <2>3. CASE current.path = path[w] /\ current.file # NoHandle
    <3>1. current.file = path[w] /\ (closer = "idle" => current.open)
      BY <2>1, <2>3
    <3>2. current' = current /\ step' = [step EXCEPT ![w] = "writing"]
      BY <1>7, <2>3 DEF CheckHandle
    <3>3. AuditTypes' /\ RecordsReachTheirDay'
      BY <1>7, <3>2 DEF CheckHandle
    <3>4. HandleIsNamed'
      BY <1>7, <2>1, <3>1, <3>2 DEF CheckHandle
    <3>5. QED
      BY <3>3, <3>4
  <2>4. QED
    BY <2>2, <2>3
<1>8. ASSUME NEW w \in Writers, OpenFile(w) PROVE AuditInv'
  BY <1>8 DEF OpenFile
<1>9. ASSUME NEW w \in Writers, NameFile(w) PROVE AuditInv'
  BY <1>9 DEF NameFile
<1>10. ASSUME NEW w \in Writers, WriteLine(w) PROVE AuditInv'
  BY <1>10 DEF WriteLine
<1>11. ASSUME NEW w \in Writers, OpenFails(w) PROVE AuditInv'
  BY <1>11 DEF OpenFails
<1>12. CASE UNCHANGED auditVars
  BY <1>12
<1>13. QED
  BY <1>1, <1>2, <1>3, <1>4, <1>5, <1>6, <1>7, <1>8, <1>9, <1>10, <1>11, <1>12 DEF AuditNext

\* RecordsReachTheirDay: a record is in the file of the day its call ended on, unless
\* a close ran alongside, and never in the file of another day.
THEOREM RecordsAreFiled == AuditSpec => []RecordsReachTheirDay
<1>1. AuditInv => RecordsReachTheirDay
  BY DEF AuditInv
<1>2. QED
  BY <1>1, LogInit, LogStep, PTL DEF AuditSpec
=============================================================================
