---------------------------- MODULE UpdateWalk ----------------------------
(***************************************************************************)
(* Iterating an update cursor while its own edits change which rows match.  *)
(*                                                                         *)
(* The SDK's UpdateCursor first takes a snapshot of the matching object ids *)
(* and then fetches the rows one batch of ids at a time; da.UpdateCursor    *)
(* of honua_gp reads the query as it goes.  Both page by resultOffset, so a *)
(* flush between two pages shifts the rest.  The loop body may update the   *)
(* row in a way that takes it out of the predicate, and may flush; another  *)
(* program edits rows too.  A query reads a bounded number of pages and     *)
(* ends without a word after the last of them.  Rows are numbered in the    *)
(* server's order.                                                         *)
(***************************************************************************)
EXTENDS Integers, Sequences, FiniteSets, SequencesExt

CONSTANTS
  Oids,
  Cursors,     \* the cursors used, and the programs around them
  MaxForeign   \* bound on the edits of other programs

\* batch_size; rows of a page: page_size or the server's own limit; the pages of a
\* query: the caller's max_pages, or what a source makes of None (100), as it
\* always does for da; the SDK's cursor, with a snapshot and automatic flushes;
\* the loop body may call flush().
ASSUME WalkAssumption ==
  /\ Oids \subseteq Nat \ {0} /\ IsFiniteSet(Oids)
  /\ Cursors \subseteq [batch : Nat \ {0}, page : Nat \ {0}, maxPages : Nat \ {0},
                          sdk : BOOLEAN, bodyFlushes : BOOLEAN]
  /\ MaxForeign \in Nat

VARIABLES
  cursor,    \* the cursor in use
  matches,   \* the rows that satisfy the predicate, on the server
  pc,
  ids,       \* the snapshot: ids of the batches to come
  chunk,     \* the ids the current query asks for
  wanted,    \* those of them not yielded yet
  offset, page, previous, more, \* the stream: position, rows left, last page, go on,
  left,      \* ... and the pages it may still ask for
  row,       \* the row the body holds
  updates,   \* queued updates, and ...
  leaving,   \* ... those that take their row out of the predicate
  original,  \* history: the rows that matched when the loop began
  foreign,   \* history: rows edited by another program ...
  edits,     \* ... and how many edits that were
  disturbed, \* history: one of them while pages of the whole query were read
  visits     \* history: how often a row has been yielded

stream == <<offset, page, previous, more, left>>
buffer == <<updates, leaving>>
others == <<foreign, edits, disturbed>>
vars == <<cursor, matches, pc, ids, chunk, wanted, stream, row, buffer, original, others, visits>>

None == 0

BatchSize == cursor.batch
PageSize == cursor.page
MaxPages == cursor.maxPages
Snapshot == cursor.sdk

TypeOK ==
  /\ cursor \in Cursors
  /\ matches \subseteq Oids
  /\ pc \in {"snapshot", "stream", "body", "done"}
  /\ ids \in Seq(Oids)
  /\ wanted \subseteq chunk /\ chunk \subseteq Oids
  /\ offset \in 0..Cardinality(Oids)
  /\ page \in Seq(Oids) /\ Len(page) <= PageSize
  /\ previous \subseteq Oids
  /\ more \in BOOLEAN
  /\ left \in 0..MaxPages /\ (more => left > 0)
  /\ row \in Oids \cup {None}
  /\ leaving \subseteq updates /\ updates \subseteq Oids
  /\ Snapshot => Cardinality(updates) < BatchSize
  /\ original \subseteq Oids /\ foreign \subseteq Oids
  /\ edits \in 0..MaxForeign /\ disturbed \in BOOLEAN
  /\ visits \in [Oids -> Nat]

StreamStart == offset = 0 /\ page = <<>> /\ previous = {} /\ more = TRUE /\ left = MaxPages
Restart == offset' = 0 /\ page' = <<>> /\ previous' = {} /\ more' = TRUE /\ left' = MaxPages

Init ==
  /\ cursor \in Cursors
  /\ matches \in SUBSET Oids
  /\ original = matches
  /\ pc = IF Snapshot THEN "snapshot" ELSE "stream"
  /\ chunk = Oids /\ wanted = Oids
  /\ ids = <<>>
  /\ StreamStart
  /\ row = None
  /\ updates = {} /\ leaving = {}
  /\ foreign = {} /\ edits = 0 /\ disturbed = FALSE
  /\ visits = [o \in Oids |-> 0]

-----------------------------------------------------------------------------
(* The pages of a query *)

\* The rows of S in the server's order, and the page of them at the stream's offset.
Rank(S, o) == Cardinality({x \in S : x <= o})
InOrder(S) == [i \in 1..Cardinality(S) |-> CHOOSE o \in S : Rank(S, o) = i]

PageOf(S) ==
  LET all == InOrder(S)
  IN SubSeq(all, offset + 1, IF offset + PageSize < Len(all) THEN offset + PageSize ELSE Len(all))

\* exceededTransferLimit
Exceeded(S) == offset + PageSize < Cardinality(S)

\* query_pages takes the next page of S: a page that adds nothing to the last
\* one ends the stream unread; an empty one, one without more, or the last that
\* max_pages allows ends it after.
TakePage(S) ==
  LET p == PageOf(S) IN
  /\ left' = left - 1
  /\ IF p # <<>> /\ ToSet(p) \subseteq previous
     THEN more' = FALSE /\ UNCHANGED <<offset, page, previous>>
     ELSE /\ page' = p
          /\ previous' = ToSet(p)
          /\ more' = (p # <<>> /\ Exceeded(S) /\ left > 1)
          /\ offset' = IF more' THEN offset + Len(p) ELSE offset

-----------------------------------------------------------------------------
(* The cursor *)

\* The next page of the query: the snapshot's, then that of a batch of ids, the
\* predicate still applied; the da cursor asks for every matching row.
FetchPage ==
  /\ pc \in {"snapshot", "stream"} /\ page = <<>> /\ more
  /\ TakePage(matches \cap chunk)
  /\ UNCHANGED <<cursor, matches, pc, ids, chunk, wanted, row, buffer, original, others, visits>>

\* Mutant: the walk begins with the first page of ids.
SnapshotPageOnly ==
  /\ pc = "snapshot" /\ page # <<>>
  /\ ids' = ids \o page
  /\ page' = <<>>
  /\ more' = FALSE
  /\ UNCHANGED <<cursor, matches, pc, chunk, wanted, offset, previous, left, row, buffer, original, others, visits>>

\* The object ids of a page, before any row is handed out.
SnapshotPage ==
  /\ pc = "snapshot" /\ page # <<>>
  /\ ids' = ids \o page
  /\ page' = <<>>
  /\ UNCHANGED <<cursor, matches, pc, chunk, wanted, offset, previous, more, left, row, buffer, original, others, visits>>

\* The stream is exhausted and the next batch of ids begins.
NextChunk ==
  /\ Snapshot /\ pc \in {"snapshot", "stream"} /\ page = <<>> /\ ~more /\ ids # <<>>
  /\ LET n == IF BatchSize < Len(ids) THEN BatchSize ELSE Len(ids)
     IN chunk' = ToSet(SubSeq(ids, 1, n)) /\ ids' = SubSeq(ids, n + 1, Len(ids))
  /\ wanted' = chunk'
  /\ pc' = "stream"
  /\ Restart
  /\ UNCHANGED <<cursor, matches, row, buffer, original, others, visits>>

\* A row of the page is yielded, by the SDK's cursor only the first time.
Yield ==
  /\ pc = "stream" /\ page # <<>>
  /\ page' = Tail(page)
  /\ IF ~Snapshot \/ Head(page) \in wanted
     THEN /\ pc' = "body"
          /\ row' = Head(page)
          /\ wanted' = wanted \ {Head(page)}
          /\ visits' = [visits EXCEPT ![Head(page)] = @ + 1]
     ELSE UNCHANGED <<pc, row, wanted, visits>>
  /\ UNCHANGED <<cursor, matches, ids, chunk, offset, previous, more, left, buffer, original, others>>

\* applyEdits with the queued updates U, of which L leave the predicate.
Apply(L) == matches' = matches \ L /\ updates' = {} /\ leaving' = {}

\* update_row or deleteRow, once a row; the SDK's cursor flushes a full batch.
UpdateRow ==
  /\ pc = "body" /\ row # None
  /\ \E gone \in BOOLEAN :
       LET U == updates \cup {row}
           L == IF gone THEN leaving \cup {row} ELSE leaving
       IN IF Snapshot /\ Cardinality(U) >= BatchSize
          THEN Apply(L)
          ELSE updates' = U /\ leaving' = L /\ UNCHANGED matches
  /\ row' = None
  /\ UNCHANGED <<cursor, pc, ids, chunk, wanted, stream, original, others, visits>>

\* The loop body flushes.
Flush ==
  /\ cursor.bodyFlushes /\ pc = "body" /\ updates # {}
  /\ Apply(leaving)
  /\ UNCHANGED <<cursor, pc, ids, chunk, wanted, stream, row, original, others, visits>>

BodyEnds ==
  /\ pc = "body"
  /\ pc' = "stream"
  /\ row' = None
  /\ UNCHANGED <<cursor, matches, ids, chunk, wanted, stream, buffer, original, others, visits>>

\* The loop is over, and so is the with block.
Finish ==
  /\ pc \in {"snapshot", "stream"} /\ page = <<>> /\ ~more /\ ids = <<>>
  /\ pc' = "done"
  /\ Apply(leaving)
  /\ UNCHANGED <<cursor, ids, chunk, wanted, stream, row, original, others, visits>>

\* Another program edits a row: it starts or ceases to match.
ForeignEdit(o) ==
  /\ pc # "done" /\ edits < MaxForeign
  /\ edits' = edits + 1
  /\ matches' = IF o \in matches THEN matches \ {o} ELSE matches \cup {o}
  /\ foreign' = foreign \cup {o}
  /\ disturbed' = (disturbed \/ pc = "snapshot" \/ ~Snapshot)
  /\ UNCHANGED <<cursor, pc, ids, chunk, wanted, stream, row, buffer, original, visits>>

WalkStep ==
  \/ FetchPage \/ SnapshotPage \/ NextChunk \/ Yield
  \/ UpdateRow \/ Flush \/ BodyEnds \/ Finish

Next == WalkStep \/ \E o \in Oids : ForeignEdit(o)

Spec == Init /\ [][Next]_vars

\* The loop body and the server make progress; other programs need not.
FairSpec == Spec /\ WF_vars(WalkStep)

-----------------------------------------------------------------------------
(* Properties *)

\* Every row that matched when the loop began, and that no other program has
\* edited, has been yielded exactly once when it ends, whatever the loop's own
\* edits did to the predicate meanwhile.  Another program's edits while pages of
\* the whole query are read can shift them, and are excluded.
EveryMatchVisitedOnce ==
  (pc = "done" /\ ~disturbed) => \A o \in original \ foreign : visits[o] = 1

\* The cursors that no flush of their own can make skip a row: the SDK's with pages
\* that hold a whole batch of ids, the scripting API's in a loop that does not flush.
Safe == IF Snapshot THEN PageSize >= BatchSize ELSE ~cursor.bodyFlushes

\* The rows a query has pages for: a match behind them is not visited by any cursor,
\* and the code says nothing of it.
Reach == MaxPages * PageSize
Due == {o \in original \ foreign : Rank(original, o) <= Reach}

\* No row is handed out twice, although edits shift the pages under the cursor.
NothingRepeats == ~disturbed => \A o \in Oids : visits[o] <= 1

\* A safe cursor visits once every match that its pages reach, however many flushes
\* fall between them, and no cursor repeats a row.  What lies behind the page cap is
\* excluded by name.  (UpdateCursor.__iter__, da.UpdateCursor.__next__)
SafeCursorsVisitTheirPages ==
  /\ NothingRepeats
  /\ (Safe /\ pc = "done" /\ ~disturbed) => \A o \in Due : visits[o] = 1

=============================================================================
