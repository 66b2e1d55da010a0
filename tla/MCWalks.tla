------------------------------ MODULE MCWalks ------------------------------
(***************************************************************************)
(* The loops that read a query page by page: an update cursor whose own     *)
(* edits change the query (UpdateWalk), the methods that walk the pages of  *)
(* a collection (Pagination), and the reader of a job's journal             *)
(* (JobJournal).  They share no state: a behaviour is one of one of them.   *)
(***************************************************************************)
EXTENDS UpdateWalk, Pagination, JobJournal

VARIABLE part

MCOids == 1..4

\* Pages as large as a batch and smaller, queries that end before the rows do, and
\* the cursor of the scripting API.
MCCursors ==
  [batch : {2}, page : {1, 2}, maxPages : {1, 3}, sdk : BOOLEAN, bodyFlushes : BOOLEAN]
    \cup [batch : {4}, page : {2}, maxPages : {100}, sdk : {TRUE}, bodyFlushes : {TRUE}]
    \cup [batch : {2}, page : {1}, maxPages : {100}, sdk : BOOLEAN, bodyFlushes : BOOLEAN]

Calls(methods, servers, links, totals, sizes, caps, starts) ==
  [method : methods, server : servers, link : links, total : totals, size : sizes, cap : caps,
   limit : {0, 1, 3}, maxPages : {0, 1, 3}, start : starts]

Results == {ClientQuery(p) : p \in Protocols} \cup {SourceQuery(p) : p \in Protocols}
Of(walker) == {m \in Methods : m.walker = walker /\ ~m.async} \ {ClientQuery("odata"), SourceQuery("odata")}

\* The servers every walker gets through from the first row on; one that knows
\* links only, whose collection does not fit into one page; pages announced in every
\* way; walks that resume at an offset; and asynchronous ones.
MCWalks ==
  Calls(Of("feature-server"), {"offset", "stuck"}, {"rel"}, {0, 1, 4}, 1..2, {1, 2}, {0})
    \cup Calls(Of("ogc") \cup Of("stac"), {"offset", "plain", "stuck"}, {"rel"}, {0, 1, 4}, 1..2, {1, 2}, {0})
    \cup Calls({ClientQuery(p) : p \in Walkers}, {"offset", "stuck"}, {"rel"}, {5}, {2, 3}, {1, 4}, {0})
    \cup Calls({ClientQuery("ogc"), ClientQuery("stac")}, {"plain"}, {"rel"}, {5}, {3}, {4}, {0})
    \cup Calls(Of("stac"), {"token"}, {"rel"}, 3..5, {2}, 1..2, {0})
    \cup Calls({m \in Results : m.walker # "feature-server"}, {"offset"}, LinkForms, {4}, {2}, {1, 2}, {0})
    \cup Calls({ClientQuery("odata")}, {"token", "stuck"}, Followed, {4}, {2}, {1, 2}, {0})
    \cup Calls({m \in Methods : ~m.async /\ (m.facade = "none" \/ m.walker # "ogc")},
               {"offset"}, {"rel"}, {4}, {2}, {1, 2}, {1, 2, 4})
    \cup Calls({m \in Methods : m.async}, {"offset"}, {"rel"}, {3}, {2}, {2}, {0})

\* Logs and inspections, of receipts and of remote jobs; and commands that fail early.
MCCommands ==
  [action : {"inspect", "logs"}, local : BOOLEAN, found : {TRUE}, limit : {1, 2}, cursor : {NoCursor, 0, 1}]
    \cup [action : {"logs"}, local : BOOLEAN, found : BOOLEAN, limit : {0, 1}, cursor : {NoCursor}]

MCInit ==
  \/ /\ part = "update" /\ walk = (CHOOSE w \in Walks : TRUE) /\ PageInit
     /\ command = (CHOOSE c \in Commands : TRUE) /\ JournalInit /\ Init
  \/ /\ part = "pages" /\ cursor = (CHOOSE c \in Cursors : TRUE) /\ matches = {} /\ Init
     /\ command = (CHOOSE c \in Commands : TRUE) /\ JournalInit /\ PageInit
  \/ /\ part = "journal" /\ cursor = (CHOOSE c \in Cursors : TRUE) /\ matches = {} /\ Init
     /\ walk = (CHOOSE w \in Walks : TRUE) /\ PageInit /\ JournalInit

MCUpdate == part = "update" /\ Next /\ UNCHANGED <<pageVars, journalVars, part>>
MCPages == part = "pages" /\ PageNext /\ UNCHANGED <<vars, journalVars, part>>
MCJournal == part = "journal" /\ JournalNext /\ UNCHANGED <<vars, pageVars, part>>
mcVars == <<vars, pageVars, journalVars, part>>

MCSpec ==
  /\ MCInit
  /\ [][MCUpdate \/ MCPages \/ MCJournal]_mcVars
  /\ WF_mcVars(part = "update" /\ WalkStep /\ UNCHANGED <<pageVars, journalVars, part>>)
  /\ WF_mcVars(MCPages)
  /\ WF_mcVars(part = "journal" /\ ReaderStep /\ UNCHANGED <<vars, pageVars, part>>)

\* Every loop of this instance comes to its end: an update cursor whatever its own edits
\* and other programs' do to the query; a walk over pages with max_pages=None over the
\* servers of MCWalks, among them one that announces its first page for ever; the reader
\* of a journal that grows to MaxLines, though a server leads it in circles
\* (_remember_cursor).  Two servers make a walk endless and are left out: for OGC API
\* Features one that knows links only (PageWalkEnds of MCPagination), for STAC and OData
\* one that ignores offsets, announces nothing that is followed and fills every page.
LoopsEnd ==
  <>(CASE part = "update" -> pc = "done"
       [] part = "pages" -> at \in {"done", "raised"}
       [] part = "journal" -> reading = "done")
=============================================================================
