---------------------------- MODULE EditCursor ----------------------------
(***************************************************************************)
(* The SDK's InsertCursor and AsyncInsertCursor: rows are queued in a       *)
(* buffer and written in batches with applyEdits.                           *)
(*                                                                         *)
(* The synchronous cursor flushes when the batch is full and blocks while   *)
(* it does; on the asynchronous one flush is explicit and awaits, so that   *)
(* the tasks that share it may queue rows or flush meanwhile.  The server   *)
(* applies a batch, rejects rows of it (all of them with                    *)
(* rollback_on_failure), or its answer is lost.  A caller may catch the     *)
(* error and go on, or let it leave the with block.                         *)
(***************************************************************************)
EXTENDS Naturals, FiniteSets

CONSTANTS
  Tasks,      \* users of an asynchronous cursor
  Main,       \* the user of a synchronous one
  Rows,
  BatchSize,
  MaxSends    \* bound on the requests of a run

ASSUME CursorAssumption == Main \in Tasks /\ BatchSize \in Nat \ {0} /\ MaxSends \in Nat

VARIABLES
  autoFlush,  \* insert_row flushes a full batch: the synchronous cursor
  rollback,   \* rollback_on_failure
  adds,       \* the buffer
  pc,         \* per user
  batch,      \* the rows of the request a user waits for
  answer,     \* what became of it
  rejected,   \* the rows of it the answer names as failed
  cursor,     \* open, or how the with block was left
  stored,     \* copies of a row on the server
  sends,      \* requests so far
  queued,     \* history: rows insert_row took
  reported,   \* history: rows an exception named as failed
  unanswered, \* history: rows of a request that was never answered
  crossed     \* history: rows queued, or sent again, while a flush was awaited

kind == <<autoFlush, rollback>>
vars == <<kind, adds, pc, batch, answer, rejected, cursor, stored, sends, queued, reported, unanswered, crossed>>

TypeOK ==
  /\ autoFlush \in BOOLEAN /\ rollback \in BOOLEAN
  /\ adds \subseteq Rows
  /\ pc \in [Tasks -> {"idle", "flushing", "raised"}]
  /\ batch \in [Tasks -> SUBSET Rows]
  /\ answer \in [Tasks -> {"none", "sent", "results", "error"}]
  /\ rejected \in [Tasks -> SUBSET Rows]
  /\ cursor \in {"open", "closing", "closed", "abandoned"}
  /\ stored \in [Rows -> Nat]
  /\ sends \in 0..MaxSends
  /\ queued \subseteq Rows
  /\ reported \subseteq queued /\ unanswered \subseteq queued /\ crossed \subseteq queued

Init ==
  /\ autoFlush \in BOOLEAN /\ rollback \in BOOLEAN
  /\ adds = {}
  /\ pc = [t \in Tasks |-> "idle"]
  /\ batch = [t \in Tasks |-> {}]
  /\ answer = [t \in Tasks |-> "none"]
  /\ rejected = [t \in Tasks |-> {}]
  /\ cursor = "open"
  /\ stored = [r \in Rows |-> 0]
  /\ sends = 0
  /\ queued = {} /\ reported = {} /\ unanswered = {} /\ crossed = {}

-----------------------------------------------------------------------------
(* The server and the network *)

Store(S) == stored' = [r \in Rows |-> IF r \in S THEN stored[r] + 1 ELSE stored[r]]

\* The rows of a batch that fail: with a rollback all of them or none.
Failures(S) == IF rollback THEN {{}, S} ELSE SUBSET S

Serve(t) ==
  /\ answer[t] = "sent"
  /\ \E F \in Failures(batch[t]) :
       /\ Store(batch[t] \ F)
       /\ \/ /\ answer' = [answer EXCEPT ![t] = "results"]
             /\ rejected' = [rejected EXCEPT ![t] = F]
             /\ UNCHANGED unanswered
          \/ /\ answer' = [answer EXCEPT ![t] = "error"]
             /\ unanswered' = unanswered \cup batch[t]
             /\ UNCHANGED rejected
  /\ UNCHANGED <<kind, adds, pc, batch, cursor, sends, queued, reported, crossed>>

-----------------------------------------------------------------------------
(* The cursor *)

\* Users of the cursor that wait for an answer.
Flushing == {u \in Tasks : pc[u] = "flushing"}

Send(t, S) ==
  /\ sends < MaxSends
  /\ sends' = sends + 1
  /\ pc' = [pc EXCEPT ![t] = "flushing"]
  /\ batch' = [batch EXCEPT ![t] = S]
  /\ answer' = [answer EXCEPT ![t] = "sent"]

\* insert_row: append, then flush a full batch.
InsertRow(t, r) ==
  /\ cursor = "open" /\ pc[t] = "idle" /\ r \notin queued
  /\ adds' = adds \cup {r}
  /\ queued' = queued \cup {r}
  /\ IF autoFlush /\ Cardinality(adds') >= BatchSize
     THEN Send(t, adds')
     ELSE UNCHANGED <<pc, batch, answer, sends>>
  /\ crossed' = IF Flushing = {} THEN crossed ELSE crossed \cup {r}
  /\ UNCHANGED <<kind, rejected, cursor, stored, reported, unanswered>>

\* flush, unless the buffer is empty.
Flush(t) ==
  /\ cursor = "open" /\ pc[t] = "idle" /\ adds # {}
  /\ Send(t, adds)
  /\ crossed' = crossed \cup UNION {batch[u] : u \in Flushing}
  /\ UNCHANGED <<kind, adds, rejected, cursor, stored, queued, reported, unanswered>>

\* The with block ends normally: __exit__ flushes.
LeaveBlock(t) ==
  /\ cursor = "open"
  /\ \A u \in Tasks : pc[u] = "idle"
  /\ IF adds = {}
     THEN cursor' = "closed" /\ UNCHANGED <<pc, batch, answer, sends>>
     ELSE cursor' = "closing" /\ Send(t, adds)
  /\ UNCHANGED <<kind, adds, rejected, stored, queued, reported, unanswered, crossed>>

Answered(t, p) ==
  /\ pc' = [pc EXCEPT ![t] = p]
  /\ batch' = [batch EXCEPT ![t] = {}]
  /\ answer' = [answer EXCEPT ![t] = "none"]
  /\ rejected' = [rejected EXCEPT ![t] = {}]

\* Mutant: the buffer is not reset.
FlushReturnsNoReset(t) ==
  /\ pc[t] = "flushing" /\ answer[t] = "results"
  /\ reported' = reported \cup rejected[t]
  /\ Answered(t, IF rejected[t] = {} THEN "idle" ELSE "raised")
  /\ cursor' = IF cursor # "closing" THEN cursor
               ELSE IF rejected[t] = {} THEN "closed" ELSE "abandoned"
  /\ UNCHANGED <<kind, adds, stored, sends, queued, unanswered, crossed>>

\* applyEdits answered: the whole buffer is dropped, whatever has been queued
\* since, and _record_result raises when a row failed.
FlushReturns(t) ==
  /\ pc[t] = "flushing" /\ answer[t] = "results"
  /\ adds' = {}
  /\ reported' = reported \cup rejected[t]
  /\ Answered(t, IF rejected[t] = {} THEN "idle" ELSE "raised")
  /\ cursor' = IF cursor # "closing" THEN cursor
               ELSE IF rejected[t] = {} THEN "closed" ELSE "abandoned"
  /\ UNCHANGED <<kind, stored, sends, queued, unanswered, crossed>>

\* Mutant: the buffer is dropped with the request.
FlushRaisesDropping(t) ==
  /\ pc[t] = "flushing" /\ answer[t] = "error"
  /\ adds' = {}
  /\ Answered(t, "raised")
  /\ cursor' = IF cursor = "closing" THEN "abandoned" ELSE cursor
  /\ UNCHANGED <<kind, stored, sends, queued, reported, unanswered, crossed>>

\* applyEdits raised: the buffer is kept.
FlushRaises(t) ==
  /\ pc[t] = "flushing" /\ answer[t] = "error"
  /\ Answered(t, "raised")
  /\ cursor' = IF cursor = "closing" THEN "abandoned" ELSE cursor
  /\ UNCHANGED <<kind, adds, stored, sends, queued, reported, unanswered, crossed>>

\* The caller catches the error inside the block ...
Recover(t) ==
  /\ cursor = "open" /\ pc[t] = "raised"
  /\ pc' = [pc EXCEPT ![t] = "idle"]
  /\ UNCHANGED <<kind, adds, batch, answer, rejected, cursor, stored, sends, queued, reported, unanswered, crossed>>

\* ... or an exception, this one or another, leaves it: __exit__ sends nothing.
Abandon(t) ==
  /\ cursor = "open" /\ pc[t] # "flushing"
  /\ cursor' = "abandoned"
  /\ UNCHANGED <<kind, adds, pc, batch, answer, rejected, stored, sends, queued, reported, unanswered, crossed>>

UserStep(t) ==
  \/ \E r \in Rows : InsertRow(t, r)
  \/ Flush(t) \/ LeaveBlock(t) \/ FlushReturns(t) \/ FlushRaises(t) \/ Recover(t) \/ Abandon(t)

Next == \E t \in (IF autoFlush THEN {Main} ELSE Tasks) : UserStep(t) \/ Serve(t)

Spec == Init /\ [][Next]_vars

-----------------------------------------------------------------------------
(* Properties *)

\* No queued row disappears: until the block is left by an exception it is in
\* the buffer, on the server, or named by an exception a user saw, and once the
\* block has been left normally nothing is in the buffer any more.  The rows a
\* task queues while another one awaits its flush are the only ones that may be
\* dropped, with the buffer that flush empties.
RowsAccountedFor ==
  cursor # "abandoned" =>
    \A r \in queued \ crossed :
      (r \in adds /\ cursor # "closed") \/ stored[r] > 0 \/ r \in reported

\* A row is written twice only if a request that carried it was never answered,
\* or two tasks flushed it at the same time.
WrittenOnce == \A r \in Rows : stored[r] > 1 => r \in unanswered \cup crossed
=============================================================================
