---------------------------- MODULE AuditWriter ----------------------------
(***************************************************************************)
(* AuditWriter and record_call of honua_gp: one line for every call of the  *)
(* scripting API, appended to the file of the day.                          *)
(*                                                                         *)
(* write holds the writer's lock and keeps one handle, which the first      *)
(* record of another day replaces.  close takes no lock: called from        *)
(* outside, it may close the handle between two steps of a write, and       *)
(* record_call drops the record with the error that follows.                *)
(***************************************************************************)
EXTENDS Naturals

CONSTANTS
  Writers,    \* threads, each making one audited call
  NoWriter,
  LastDay,    \* bound on the days of a run
  MaxCloses   \* bound on the calls of close from outside

ASSUME AuditAssumption ==
  LastDay \in Nat \ {0} /\ MaxCloses \in Nat /\ NoWriter \notin Writers

VARIABLES
  day,        \* the UTC day
  step,       \* where a writer is in record_call and write
  path,       \* the day whose file a record belongs to
  lock,       \* the writer that holds _lock
  current,    \* _current_path and _current_handle: the handle's file, and its state
  lines,      \* the records in the files: writer and day
  closer,     \* where close is
  closes,     \* calls of close so far
  disturbed   \* history: writers in write while close ran

auditVars == <<day, step, path, lock, current, lines, closer, closes, disturbed>>

NoHandle == 0
Closed == [path |-> 0, file |-> NoHandle, open |-> FALSE]

AuditInit ==
  /\ day = 1
  /\ step = [w \in Writers |-> "calling"]
  /\ path = [w \in Writers |-> 1]
  /\ lock = NoWriter
  /\ current = Closed
  /\ lines = {}
  /\ closer = "idle" /\ closes = 0
  /\ disturbed = {}

AuditTypeOK ==
  /\ day \in 1..LastDay
  /\ step \in [Writers -> {"calling", "waiting", "checking", "opening", "naming", "writing", "ended"}]
  /\ path \in [Writers -> 1..LastDay]
  /\ lock \in Writers \cup {NoWriter}
  /\ current \in [path : 0..LastDay, file : 0..LastDay, open : BOOLEAN]
  /\ lines \subseteq Writers \X (1..LastDay)
  /\ closer \in {"idle", "closing", "forgetting"} /\ closes \in 0..MaxCloses
  /\ disturbed \subseteq Writers

Midnight ==
  /\ day < LastDay /\ day' = day + 1
  /\ UNCHANGED <<step, path, lock, current, lines, closer, closes, disturbed>>

To(w, s) ==
  /\ step' = [step EXCEPT ![w] = s]
  /\ disturbed' = IF closer # "idle" THEN disturbed \cup {w} ELSE disturbed

\* The call returned or raised: its record goes to the file of this day.
CallEnded(w) ==
  /\ step[w] = "calling"
  /\ To(w, "waiting")
  /\ path' = [path EXCEPT ![w] = day]
  /\ UNCHANGED <<day, lock, current, lines, closer, closes>>

Lock(w) ==
  /\ step[w] = "waiting" /\ lock = NoWriter
  /\ lock' = w
  /\ To(w, "checking")
  /\ UNCHANGED <<day, path, current, lines, closer, closes>>

\* Mutant: a handle is good whichever day it was opened on.
CheckHandleAnyDay(w) ==
  /\ step[w] = "checking"
  /\ IF current.file = NoHandle
     THEN current' = Closed /\ To(w, "opening")
     ELSE UNCHANGED current /\ To(w, "writing")
  /\ UNCHANGED <<day, path, lock, lines, closer, closes>>

\* The handle is kept for a record of its own day, and closed for another's.
CheckHandle(w) ==
  /\ step[w] = "checking"
  /\ IF current.path # path[w] \/ current.file = NoHandle
     THEN current' = Closed /\ To(w, "opening")
     ELSE UNCHANGED current /\ To(w, "writing")
  /\ UNCHANGED <<day, path, lock, lines, closer, closes>>

\* A handle that is replaced is closed with it.
OpenFile(w) ==
  /\ step[w] = "opening"
  /\ current' = [current EXCEPT !.file = path[w], !.open = TRUE]
  /\ To(w, "naming")
  /\ UNCHANGED <<day, path, lock, lines, closer, closes>>

NameFile(w) ==
  /\ step[w] = "naming"
  /\ current' = [current EXCEPT !.path = path[w]]
  /\ To(w, "writing")
  /\ UNCHANGED <<day, path, lock, lines, closer, closes>>

\* The line is written and flushed; without an open handle the error is dropped.
WriteLine(w) ==
  /\ step[w] = "writing"
  /\ lines' = IF current.file # NoHandle /\ current.open
              THEN lines \cup {<<w, current.file>>} ELSE lines
  /\ lock' = NoWriter
  /\ To(w, "ended")
  /\ UNCHANGED <<day, path, current, closer, closes>>

\* The directory or the file cannot be opened: record_call drops the error.
OpenFails(w) ==
  /\ step[w] = "opening"
  /\ lock' = NoWriter
  /\ step' = [step EXCEPT ![w] = "calling"]
  /\ UNCHANGED <<day, path, current, lines, closer, closes, disturbed>>

\* close from outside, without the lock: it looks at the handle, ...
CloseBegins ==
  /\ closer = "idle" /\ closes < MaxCloses /\ current.file # NoHandle
  /\ closer' = "closing" /\ closes' = closes + 1
  /\ disturbed' = disturbed \cup {w \in Writers : step[w] \notin {"calling", "ended"}}
  /\ UNCHANGED <<day, step, path, lock, current, lines>>

\* ... closes the one there is by now, ...
CloseHandle ==
  /\ closer = "closing"
  /\ closer' = "forgetting"
  /\ current' = [current EXCEPT !.open = FALSE]
  /\ UNCHANGED <<day, step, path, lock, lines, closes, disturbed>>

\* ... and forgets it.
CloseEnds ==
  /\ closer = "forgetting"
  /\ closer' = "idle"
  /\ current' = Closed
  /\ UNCHANGED <<day, step, path, lock, lines, closes, disturbed>>

AuditNext ==
  \/ Midnight \/ CloseBegins \/ CloseHandle \/ CloseEnds
  \/ \E w \in Writers :
       \/ CallEnded(w) \/ Lock(w) \/ CheckHandle(w) \/ OpenFile(w) \/ NameFile(w)
       \/ WriteLine(w) \/ OpenFails(w)

AuditSpec == AuditInit /\ [][AuditNext]_auditVars

-----------------------------------------------------------------------------
(* Properties *)

\* The record of a call is in the file of the day the call ended on, whoever else
\* writes at midnight; only a close that runs alongside can lose it, and even then
\* no record turns up in the file of another day.
RecordsReachTheirDay ==
  /\ \A w \in Writers : step[w] = "ended" /\ w \notin disturbed => <<w, path[w]>> \in lines
  /\ \A line \in lines : line[2] = path[line[1]]
=============================================================================
