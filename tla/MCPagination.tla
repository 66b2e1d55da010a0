---------------------------- MODULE MCPagination ----------------------------
(* Instances of Pagination for the two disagreements with its documents. *)
EXTENDS Pagination

Whole(method, server, start) ==
  [method |-> method, server |-> server, link |-> "rel", total |-> 4, size |-> 2, cap |-> 2,
   limit |-> 0, maxPages |-> 0, start |-> start]

\* OGC items_pages with max_pages=None and a server that knows links only.
MCLinksOnly == {Whole(m, "token", 0) : m \in {ClientQuery("ogc"), OgcItemsAll}}

\* A source of every protocol asked to resume at an offset.
MCResumed == {Whole(SourceQuery(w), s, 2) : w \in Walkers, s \in {"offset", "plain"}}
=============================================================================
