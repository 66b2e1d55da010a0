---------------------------- MODULE Pagination ----------------------------
(***************************************************************************)
(* A method of honua_sdk walking the pages of one collection.               *)
(*                                                                         *)
(* Three walkers: FeatureServer query_pages (offsets and a transfer flag),  *)
(* OGC items_pages, and the walker STAC, Records and OData share (links, or *)
(* offsets while the server gives none).  The servers differ in whether     *)
(* they honour an offset, in how they announce another page (which a walker *)
(* may read otherwise than the collector of its result) and in how many     *)
(* rows they put into one.  The collection does not change during the walk. *)
(***************************************************************************)
EXTENDS Naturals, FiniteSets, FiniteSetsExt, QueryMethods

CONSTANTS
  Walks,         \* the calls made and the servers they meet
  DefaultPages   \* the page cap of a source whose query names none

\* A call's method, page size, limit, max_pages (0 for None) and the offset it
\* starts from; the server's collection and its own bound on a page.
ASSUME WalksAssumption ==
  /\ DefaultPages \in Nat \ {0}
  /\ Walks \subseteq
       [method : Methods, server : {"offset", "plain", "token", "stuck"}, link : LinkForms,
        total : Nat, size : Nat \ {0}, cap : Nat \ {0}, limit : Nat, maxPages : Nat,
        start : Nat]

VARIABLES
  walk,      \* the call and the server it meets
  at,        \* "next", "asked", "collected", "done", "raised"
  from,      \* the offset of the next page asked for by offset
  next,      \* next_href: the link of the last page, or NoLink
  last,      \* previous_next_href, or previous_object_ids of a FeatureServer
  fetched,   \* rows of the pages so far, counted when there is a limit
  pages,     \* pages_seen, counted when there is a page cap
  got,       \* copies of a row among those handed out, counted up to two
  exceeded,  \* exceeded_transfer_limit of the result
  warned     \* the ResourceWarning was given

position == <<from, next, last>>
result == <<fetched, pages, got, exceeded>>
pageVars == <<walk, at, position, result, warned>>

Walker == walk.method.walker
Yields == walk.method.yields
Server == walk.server
Rows == 1..walk.total

NoLink == [pos |-> 0, size |-> 0]
Link(pos, size) == [pos |-> pos, size |-> size]

\* A row number or an offset past the end reads as the end.
Clip(n) == Min({n, walk.total})

PageTypeOK ==
  /\ walk \in Walks
  /\ at \in {"next", "asked", "collected", "done", "raised"}
  /\ from \in 0..walk.total
  /\ next \in [pos : 0..walk.total, size : {0} \cup (1..walk.size)]
  /\ IF Walker = "feature-server"
     THEN last \in SUBSET Rows
     ELSE last \in [pos : 0..walk.total, size : 0..walk.size]
  /\ pages \in Nat
  /\ fetched \in 0..(walk.limit + walk.size)
  /\ got \in [Rows -> 0..2]
  /\ exceeded \in BOOLEAN /\ warned \in BOOLEAN

\* A source without max_pages walks no more than its default number of pages.
PageCap ==
  IF walk.method.facade = "source" /\ walk.maxPages = 0 THEN DefaultPages ELSE walk.maxPages

\* The offset of the first request.  The dispatcher hands an offset to a walker
\* among the extra parameters, and items_pages writes its own over it.
StartsAt ==
  IF Walker = "ogc" /\ walk.method.facade # "none" THEN 0 ELSE Clip(walk.start)

PageInit ==
  /\ walk \in Walks
  /\ at = "next"
  /\ from = StartsAt /\ next = NoLink
  /\ last = IF Walker = "feature-server" THEN {} ELSE NoLink
  /\ fetched = 0 /\ pages = 0
  /\ got = [r \in Rows |-> 0]
  /\ exceeded = FALSE /\ warned = FALSE

-----------------------------------------------------------------------------
(* The server *)

\* The first row, less one, of the page the request asks for.
Position ==
  IF Server = "stuck" THEN 0
  ELSE IF next # NoLink \/ Server = "token" THEN next.pos ELSE from

\* The size the request asks for: a link repeats the one it was made from.
PageLimit == IF walk.limit = 0 THEN walk.size ELSE Min({walk.size, walk.limit - fetched})
Asked == IF next # NoLink THEN next.size ELSE PageLimit

PageEnd == Clip(Position + Min({Asked, walk.cap}))
Page == (Position + 1)..PageEnd

\* The server announces another page.  A stuck one answers every request with its
\* first page and announces another.
More == Server = "stuck" \/ (Server # "plain" /\ PageEnd < walk.total)

\* _next_link: the announcement the walker follows.
Linked == walk.link \in Followed
PageLink ==
  IF ~More \/ ~Linked \/ Walker = "feature-server" THEN NoLink
  ELSE Link(IF Server = "stuck" THEN 0 ELSE PageEnd, Asked)

\* The announcement the collector reads: exceededTransferLimit, or its own look at
\* the page.
Flagged == Walker = "feature-server" \/ walk.link \in walk.method.flags
TransferExceeded == More /\ Flagged

-----------------------------------------------------------------------------
(* The walker and what becomes of its pages *)

\* No more rows than the limit leaves, unless it is pages that are handed out.
Take(page) ==
  IF walk.limit = 0 \/ Yields = "pages" THEN page
  ELSE {r \in page : r - Position <= walk.limit - fetched}

\* The page is yielded: pages_seen, exceeded and the rows.
HandOut ==
  /\ got' = [r \in Rows |-> IF r \in Take(Page) THEN Min({2, got[r] + 1}) ELSE got[r]]
  /\ fetched' = IF walk.limit = 0 THEN 0 ELSE fetched + Cardinality(Page)
  /\ pages' = IF PageCap = 0 THEN 0 ELSE pages + 1
  /\ exceeded' = TransferExceeded

\* The collector of a result stops the walk once it has all the rows it wants.
Full == Yields = "result" /\ walk.limit > 0 /\ fetched + Cardinality(Page) >= walk.limit
After(stop) == at' = IF stop \/ Full THEN "collected" ELSE "next"

\* The head of the loop: the page cap or the limit is reached, or a request goes out.
StopWalk ==
  /\ at = "next"
  /\ \/ PageCap > 0 /\ pages >= PageCap
     \/ walk.limit > 0 /\ fetched >= walk.limit
  /\ at' = "collected"
  /\ UNCHANGED <<walk, position, result, warned>>

Ask ==
  /\ at = "next"
  /\ PageCap = 0 \/ pages < PageCap
  /\ walk.limit = 0 \/ fetched < walk.limit
  /\ at' = "asked"
  /\ UNCHANGED <<walk, position, result, warned>>

Fail ==
  /\ at = "asked"
  /\ at' = "raised"
  /\ UNCHANGED <<walk, position, result, warned>>

\* The task of an asynchronous walk is cancelled while it awaits its page.
CancelWalk ==
  /\ at = "asked" /\ walk.method.async
  /\ at' = "raised"
  /\ UNCHANGED <<walk, position, result, warned>>

\* Mutant: a page shorter than asked is the last one.
AnswerFeatureServerShort ==
  /\ at = "asked" /\ Walker = "feature-server"
  /\ IF Page # {} /\ Page \subseteq last
     THEN /\ at' = "collected"
          /\ UNCHANGED <<position, result>>
     ELSE /\ HandOut
          /\ After(Cardinality(Page) < Asked)
          /\ last' = Page
          /\ from' = Clip(from + Cardinality(Page))
          /\ UNCHANGED next
  /\ UNCHANGED <<walk, warned>>

\* query_pages: a page that repeats the one before is not yielded, and ends it.
AnswerFeatureServer ==
  /\ at = "asked" /\ Walker = "feature-server"
  /\ IF Page # {} /\ Page \subseteq last
     THEN /\ at' = "collected"
          /\ UNCHANGED <<position, result>>
     ELSE /\ HandOut
          /\ After(Page = {} \/ ~More)
          /\ last' = Page
          /\ from' = Clip(from + Cardinality(Page))
          /\ UNCHANGED next
  /\ UNCHANGED <<walk, warned>>

\* Mutant: no guard against a link that repeats itself.
AnswerOgcTrusting ==
  /\ at = "asked" /\ Walker = "ogc"
  /\ HandOut
  /\ After(PageLink = NoLink /\ Cardinality(Page) < PageLimit)
  /\ next' = PageLink /\ last' = PageLink
  /\ from' = Clip(from + walk.size)
  /\ UNCHANGED <<walk, warned>>

\* items_pages: the offset goes by page numbers, whether pages came by link or
\* by offset.
AnswerOgc ==
  /\ at = "asked" /\ Walker = "ogc"
  /\ HandOut
  /\ After(IF PageLink = NoLink THEN Cardinality(Page) < PageLimit ELSE PageLink = last)
  /\ next' = PageLink /\ last' = PageLink
  /\ from' = Clip(from + walk.size)
  /\ UNCHANGED <<walk, warned>>

\* item_pages and its likes: the end of a run of links is the end.
AnswerStac ==
  /\ at = "asked" /\ Walker = "stac"
  /\ HandOut
  /\ After(IF PageLink = NoLink
           THEN next # NoLink \/ Cardinality(Page) < PageLimit
           ELSE PageLink = last)
  /\ next' = PageLink /\ last' = PageLink
  /\ from' = IF PageLink = NoLink THEN Clip(from + Cardinality(Page)) ELSE from
  /\ UNCHANGED <<walk, warned>>

CapReached == PageCap > 0 /\ pages >= PageCap

\* Mutant: the page cap has to be passed, not reached.
ReturnQuietly ==
  /\ at = "collected"
  /\ at' = "done"
  /\ warned' = (Yields = "result" /\ walk.limit = 0 /\ exceeded /\ PageCap > 0 /\ pages > PageCap)
  /\ UNCHANGED <<walk, position, result>>

\* warn_if_truncated, and the result is returned; an iterator just ends.
Return ==
  /\ at = "collected"
  /\ at' = "done"
  /\ warned' = (Yields = "result" /\ walk.limit = 0 /\ exceeded /\ CapReached)
  /\ UNCHANGED <<walk, position, result>>

PageNext ==
  \/ StopWalk \/ Ask \/ Fail \/ CancelWalk
  \/ AnswerFeatureServer \/ AnswerOgc \/ AnswerStac \/ Return

PageSpec == PageInit /\ [][PageNext]_pageVars

\* The program keeps running; a server answers, or the request fails.
FairPageSpec == PageSpec /\ WF_pageVars(PageNext)

-----------------------------------------------------------------------------
(* Properties *)

Collected == {r \in Rows : got[r] > 0}

\* The rows asked for: from the offset, and as many as the limit says.
WantedRows ==
  {r \in Rows : r > walk.start /\ (walk.limit > 0 => r <= walk.start + walk.limit)}

\* A server whose pages can be told to continue: it announces another page where
\* the walker looks, or fills every page that is not the last.
Honest ==
  \/ Server \in {"offset", "token"} /\ (Linked \/ Walker = "feature-server")
  \/ Server \in {"offset", "plain"} /\ walk.cap >= walk.size

\* Pages handed out whole may run past the limit, by less than a page.
Exact ==
  IF Yields = "pages"
  THEN /\ WantedRows \subseteq Collected
       /\ \A r \in Collected : r > walk.start
       /\ Cardinality(Collected) < Cardinality(WantedRows) + walk.size
  ELSE Collected = WantedRows

\* No row twice, unless the server hands out one link for ever: then the page is
\* yielded once more before the link is seen to repeat.
NoRowTwice == (Server # "stuck" \/ Walker = "feature-server") => \A r \in Rows : got[r] <= 1

\* A walk over an honest server that no page cap cuts hands out the rows from the
\* offset to the last, or to the limit, none else, and no row twice.  (query,
\* iter_query, and the walkers and iterators of every protocol client)
CollectsWhatWasAsked ==
  /\ NoRowTwice
  /\ at = "done" /\ Honest => Exact \/ CapReached

\* A result that lacks rows, with no limit to account for it, says so if the server
\* announced them where the collector looks (rel=next in any case among the links for
\* OGC API Features and STAC, @odata.nextLink alone for OData): it is flagged, and a
\* walk the page cap stopped warns as well.  (warn_if_truncated)
TruncationIsSignalled ==
  /\ at = "done" /\ Yields = "result" /\ walk.limit = 0 /\ Server # "plain" /\ Flagged
  /\ ~(WantedRows \subseteq Collected)
  => exceeded /\ (CapReached => warned)

\* A walk with max_pages=None drains the collection and ends.  (It does not over every
\* server; the documents promise it.)
PageWalkEnds == <>(at \in {"done", "raised"})
=============================================================================
