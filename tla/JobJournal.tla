----------------------------- MODULE JobJournal -----------------------------
(***************************************************************************)
(* honua gp inspect and honua gp logs: one reader of the event journal of a *)
(* job, which its writer still appends to.                                  *)
(*                                                                         *)
(* A local receipt is a directory with receipt.json, which holds the status  *)
(* of the run, and a journal of lines.  Every page reads both files anew.     *)
(* The writer, the devkit, is external: it appends lines to the journal and   *)
(* writes the final receipt after the last of them.  A remote page is the     *)
(* server's projection of the same kind of journal.                          *)
(***************************************************************************)
EXTENDS Integers, SequencesExt

CONSTANTS
  Commands,    \* the commands a user gives
  MaxLines     \* bound on the lines of a journal

\* inspect or logs; a local receipt or a remote job, that is found or not; the page
\* size; and the cursor to start from, or NoCursor.
ASSUME JournalAssumption ==
  Commands \subseteq
    [action : {"inspect", "logs"}, local : BOOLEAN, found : BOOLEAN, limit : Nat, cursor : Nat \cup {-1}]

Bad == 0              \* a line that is no record; a record is its number in the run
NoCursor == -1        \* no cursor: the tail
Running == "running"
Unreadable == "unreadable"   \* receipt.json while it is being replaced
Terminal == {"succeeded", "failed", "cancelled"}

VARIABLES
  lines,       \* the journal
  tail,        \* what follows its last line break: "none", "torn", or "char", cut in a character
  receipt,     \* the status in receipt.json
  run,         \* how many runs have been written to this place
  command,     \* what the user has asked for
  reading,     \* "idle", "receipt", "journal", "local", "remote" or "done"
  status,      \* the status the page at hand has taken from the receipt ...
  records,     \* ... and then its records from the journal
  nextCursor,  \* the cursor of the next page
  seen,        \* the cursors asked for so far
  shown,       \* the records printed
  lastPage,    \* the last page
  exit         \* the exit code, or NoCode

journalVars == <<lines, tail, receipt, run, command, reading, status, records, nextCursor, seen, shown, lastPage, exit>>
fileVars == <<lines, tail, receipt, run>>
pageReads == <<status, records>>
readerVars == <<command, reading, pageReads, nextCursor, seen, shown, lastPage, exit>>

Ok == 0
Failed == 1
Usage == 2
Unauthorized == 3
Missing == 4
Expired == 5
Interrupted == 6
NoCode == -1            \* no exit code yet

NoPage == [items |-> <<>>, total |-> 0, next |-> NoCursor, truncated |-> FALSE, status |-> Running]

-----------------------------------------------------------------------------
(* Pages *)

\* The records of a journal, line by line: a line that cannot be read as one is
\* passed over.
Records(journal) ==
  LET read[n \in 0..Len(journal)] ==
        IF n = 0 THEN <<>>
        ELSE IF journal[n] = Bad THEN read[n - 1] ELSE Append(read[n - 1], journal[n])
  IN read[Len(journal)]

ReadJournal == Records(lines)

\* The tail without a cursor, else the page at its offset.
SelectRecords(all, limit, start) ==
  LET total == Len(all)
      first == IF start # NoCursor THEN start ELSE IF total > limit THEN total - limit ELSE 0
      selected == SubSeq(all, first + 1, IF first + limit < total THEN first + limit ELSE total)
      end == first + Len(selected)
  IN [items |-> selected, total |-> total, truncated |-> total > Len(selected),
      next |-> IF start # NoCursor /\ end < total THEN end ELSE NoCursor]

\* Mutant: the lines passed over count for the cursor.
ProjectPageByLine(all, s) ==
  LET page == SelectRecords(all, command.limit, nextCursor)
      skipped == Len(lines) - Len(ReadJournal)
  IN [items |-> page.items, total |-> page.total, truncated |-> page.truncated, status |-> s,
      next |-> IF page.next = NoCursor THEN NoCursor ELSE page.next + skipped]

\* One page of the projection: its events and the status of the run.
ProjectPage(all, s) ==
  LET page == SelectRecords(all, command.limit, nextCursor)
  IN [items |-> page.items, total |-> page.total, truncated |-> page.truncated, status |-> s,
      next |-> page.next]

\* The exit code of a failure: what the server answered, whether the stream had begun,
\* or another error.
HttpFailure ==
  [unauthorized |-> Unauthorized, missing |-> Missing, expired |-> Expired, http |-> Failed]

ExitCode(failure, started) ==
  IF failure = "usage" THEN Usage
  ELSE IF failure \in DOMAIN HttpFailure THEN HttpFailure[failure]
  ELSE IF failure = "repeated" \/ started THEN Interrupted
  ELSE Failed

Started == command.action = "logs" /\ lastPage # NoPage

-----------------------------------------------------------------------------
JournalInit ==
  /\ lines = <<>> /\ tail = "none" /\ receipt = Running /\ run = 1
  /\ command \in Commands
  /\ reading = "idle" /\ status = Running /\ records = <<>>
  /\ nextCursor = NoCursor /\ seen = {}
  /\ shown = <<>> /\ lastPage = NoPage /\ exit = NoCode

\* The writer appends a line, which completes a torn one: a record, or, after a crash
\* within a line, something that is none.  It stops when the receipt is final.
WriteLine ==
  /\ receipt = Running /\ Len(lines) < MaxLines
  /\ \E l \in {Len(ReadJournal) + 1, Bad} : lines' = Append(lines, l)
  /\ tail' = "none"
  /\ UNCHANGED <<receipt, run, readerVars>>

Tear ==
  /\ receipt = Running /\ Len(lines) < MaxLines /\ tail = "none"
  /\ tail' \in {"torn", "char"}
  /\ UNCHANGED <<lines, receipt, run, readerVars>>

\* The final receipt takes the place of the first one.
WriteReceipt ==
  /\ tail = "none"
  /\ \/ receipt = Running /\ receipt' = Unreadable
     \/ receipt = Unreadable /\ receipt' \in Terminal
  /\ UNCHANGED <<lines, tail, run, readerVars>>

\* Another run is written to the same place.
Rewrite ==
  /\ receipt \in Terminal /\ run < 2
  /\ run' = run + 1 /\ lines' = <<>> /\ receipt' = Running
  /\ UNCHANGED <<tail, readerVars>>

-----------------------------------------------------------------------------
\* The command fails.
CommandFails(failure) ==
  /\ exit' = ExitCode(failure, Started) /\ reading' = "done"
  /\ UNCHANGED <<nextCursor, seen, shown, lastPage>>

\* The next page is asked for, unless its cursor has been asked for before.
AskEvents(start) ==
  IF start # NoCursor /\ start \in seen
  THEN /\ reading' = "done" /\ exit' = ExitCode("repeated", TRUE)
       /\ UNCHANGED <<nextCursor, seen>>
  ELSE /\ reading' = IF command.local THEN "receipt" ELSE "remote"
       /\ nextCursor' = start /\ seen' = seen \cup ({start} \ {NoCursor})
       /\ UNCHANGED exit

\* The command line: a page size out of range, a path that leads nowhere and a job on
\* a server without a base URL are errors of usage.
Parse ==
  /\ reading = "idle"
  /\ IF command.limit = 0 \/ ~command.found
     THEN CommandFails("usage")
     ELSE /\ AskEvents(IF command.action = "logs" /\ command.cursor = NoCursor THEN 0 ELSE command.cursor)
          /\ UNCHANGED <<shown, lastPage>>
  /\ UNCHANGED <<fileVars, command, pageReads>>

\* A page is printed: inspect is done with it, logs goes on to the next.
PrintPage(page) ==
  /\ lastPage' = page
  /\ IF command.action = "inspect"
     THEN exit' = Ok /\ reading' = "done" /\ UNCHANGED <<nextCursor, seen, shown>>
     ELSE /\ shown' = shown \o page.items
          /\ IF page.next = NoCursor
             THEN exit' = Ok /\ reading' = "done" /\ UNCHANGED <<nextCursor, seen>>
             ELSE AskEvents(page.next)

\* A local page reads the receipt first; one that cannot be read ends the command.
ReadReceipt ==
  /\ reading = "receipt"
  /\ IF receipt = Unreadable
     THEN CommandFails("usage") /\ UNCHANGED status
     ELSE /\ reading' = "journal" /\ status' = receipt
          /\ UNCHANGED <<nextCursor, seen, shown, lastPage, exit>>
  /\ UNCHANGED <<fileVars, command, records>>

\* Then the journal: bytes that are no text, and a cursor past the end, are errors of
\* usage.
ReadEvents ==
  /\ reading = "journal"
  /\ IF tail = "char" \/ nextCursor > Len(ReadJournal)
     THEN CommandFails("usage") /\ UNCHANGED records
     ELSE /\ reading' = "local" /\ records' = ReadJournal
          /\ UNCHANGED <<nextCursor, seen, shown, lastPage, exit>>
  /\ UNCHANGED <<fileVars, command, status>>

\* Mutant: the status is that of the receipt at the end.
PrintLocalPageLate ==
  /\ reading = "local"
  /\ PrintPage(ProjectPage(records, receipt))
  /\ records' = <<>> /\ status' = Running
  /\ UNCHANGED <<fileVars, command>>

\* Then the artifacts; the page is made of what has been read.
PrintLocalPage ==
  /\ reading = "local"
  /\ PrintPage(ProjectPage(records, status))
  /\ records' = <<>> /\ status' = Running
  /\ UNCHANGED <<fileVars, command>>

\* The server sends the page asked for, or one that leads back to its own cursor.
RemotePage ==
  /\ reading = "remote"
  /\ nextCursor <= Len(ReadJournal)
  /\ LET page == ProjectPage(ReadJournal, receipt)
     IN \/ PrintPage(page)
        \/ page.next # NoCursor /\ PrintPage([page EXCEPT !.next = nextCursor])
  /\ UNCHANGED <<fileVars, command, pageReads>>

\* The server refuses, or the way to it fails, or its document breaks the contract.
RemoteFails ==
  /\ reading = "remote"
  /\ \E failure \in {"unauthorized", "missing", "expired", "http", "transport", "contract"} :
       CommandFails(failure)
  /\ UNCHANGED <<fileVars, command, pageReads>>

ReaderStep ==
  Parse \/ ReadReceipt \/ ReadEvents \/ PrintLocalPage \/ RemotePage \/ RemoteFails

JournalNext == WriteLine \/ Tear \/ WriteReceipt \/ Rewrite \/ ReaderStep

JournalSpec == JournalInit /\ [][JournalNext]_journalVars
FairJournalSpec == JournalSpec /\ WF_journalVars(ReaderStep)

-----------------------------------------------------------------------------
(* Properties *)

\* A log that ends with success has printed, from its first cursor on, every record
\* that the journal held when it was last read, each once and in order, though the
\* journal has grown and holds garbage, unless another run has taken its place; so
\* has any log as far as it went.  Only a log that has printed something counts as
\* interrupted.  (iter_local_event_pages, iter_event_pages, diagnostics_failure)
LogsAreWhole ==
  command.action = "logs" /\ run = 1 =>
    LET first == IF command.cursor = NoCursor THEN 0 ELSE command.cursor
    IN /\ \A i \in 1..Len(shown) : shown[i] = first + i
       /\ exit = Ok => first + Len(shown) = lastPage.total
       /\ exit = Interrupted => Started

\* A local page that says how the run ended counts every record of that run, because
\* the receipt is read before the journal and written after it.  (_local_document)
VerdictsComeWithTheirEvents ==
  command.local /\ run = 1 /\ lastPage.status \in Terminal =>
    lastPage.total = Len(ReadJournal)
=============================================================================
