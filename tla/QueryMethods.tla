--------------------------- MODULE QueryMethods ---------------------------
(***************************************************************************)
(* The methods of honua_sdk that walk the pages of a collection.            *)
(*                                                                         *)
(* Each is one of three walkers and a way of handing out what it yields:    *)
(* whole pages, rows cut at the limit, or a result with signals.  A method  *)
(* of the protocol clients takes the caller's arguments as they are; one of *)
(* the client or of a source passes a query through the dispatcher first.   *)
(***************************************************************************)

Walkers == {"feature-server", "ogc", "stac"}

\* How a server but a FeatureServer announces another page: a link of rel=next; an
\* entry of links that is none to _next_link (Next, or no href); @odata.nextLink;
\* nextLink or next.
LinkForms == {"rel", "Next", "@odata.nextLink", "nextLink"}

\* A method reads the announcement to follow it (_next_link), and a result's
\* collector once more, to flag it.
Followed == LinkForms \ {"Next"}

Method(walker, facade, yields, flags) ==
  [walker |-> walker, facade |-> facade, yields |-> yields, flags |-> flags, async |-> FALSE]

Direct(walker, yields) == Method(walker, "none", yields, {})

\* The asynchronous twin: its task can be cancelled in every request.
Twin(method) == [method EXCEPT !.async = TRUE]

-----------------------------------------------------------------------------
(* FeatureServer *)

QueryPages == Direct("feature-server", "pages")
QueryAll == Direct("feature-server", "rows")
QueryItems == Direct("feature-server", "rows")

\* The client's own loop over query_feature_set, which insists on a page cap.
QueryFeaturesAll == Direct("feature-server", "rows")

AsyncQueryPages == Twin(QueryPages)
AsyncQueryAll == Twin(QueryAll)
AsyncQueryItems == Twin(QueryItems)
AsyncQueryFeaturesAll == Twin(QueryFeaturesAll)

-----------------------------------------------------------------------------
(* OGC API Features: a collection's methods, and those of the landing page *)

CollectionItemsPages == Direct("ogc", "pages")
CollectionItemsAll == Direct("ogc", "rows")
CollectionIterItems == Direct("ogc", "rows")
OgcItemsPages == CollectionItemsPages
OgcItemsAll == CollectionItemsAll
OgcIterItems == CollectionIterItems

AsyncCollectionItemsPages == Twin(CollectionItemsPages)
AsyncCollectionItemsAll == Twin(CollectionItemsAll)
AsyncCollectionIterItems == Twin(CollectionIterItems)
AsyncOgcItemsPages == Twin(OgcItemsPages)
AsyncOgcItemsAll == Twin(OgcItemsAll)
AsyncOgcIterItems == Twin(OgcIterItems)

-----------------------------------------------------------------------------
(* STAC, with the items of a collection and the searches; OGC API Records *)

ItemPages == Direct("stac", "pages")
ItemsAll == Direct("stac", "rows")
IterItems == Direct("stac", "rows")

\* A search by POST follows the link's body, merged onto the first one, and tells
\* repeated links by method, href and body.
SearchPages == Direct("stac", "pages")
SearchItems == Direct("stac", "rows")
IterSearchItems == Direct("stac", "rows")

AsyncItemPages == Twin(ItemPages)
AsyncItemsAll == Twin(ItemsAll)
AsyncIterItems == Twin(IterItems)
AsyncSearchPages == Twin(SearchPages)
AsyncSearchItems == Twin(SearchItems)
AsyncIterSearchItems == Twin(IterSearchItems)

CollectionRecordPages == Direct("stac", "pages")
RecordPages == CollectionRecordPages
IterRecords == Direct("stac", "rows")
AsyncCollectionRecordPages == Twin(CollectionRecordPages)
AsyncRecordPages == Twin(RecordPages)
AsyncIterRecords == Twin(IterRecords)

-----------------------------------------------------------------------------
(* OData: layers and features *)

FeaturesPages == Direct("stac", "pages")
FeaturePages == FeaturesPages
FeaturesAll == Direct("stac", "rows")
IterFeatures == Direct("stac", "rows")
LayerPages == Direct("stac", "pages")
LayersAll == Direct("stac", "rows")
IterLayers == Direct("stac", "rows")

AsyncFeaturesPages == Twin(FeaturesPages)
AsyncFeaturePages == Twin(FeaturePages)
AsyncFeaturesAll == Twin(FeaturesAll)
AsyncIterFeatures == Twin(IterFeatures)
AsyncLayerPages == Twin(LayerPages)
AsyncLayersAll == Twin(LayersAll)
AsyncIterLayers == Twin(IterLayers)

-----------------------------------------------------------------------------
(* The client and a source: the same walk for every protocol *)

Protocols == Walkers \cup {"odata"}
WalkerOf(protocol) == IF protocol = "odata" THEN "stac" ELSE protocol

\* The signals read off a page: odata_pagination_signals, ogc_pagination_signals, or
\* a FeatureServer's transfer flag.
SignalsOf(protocol) ==
  CASE protocol = "feature-server" -> {}
    [] protocol = "odata" -> {"@odata.nextLink"}
    [] OTHER -> {"rel", "Next"}

Result(protocol, facade) == Method(WalkerOf(protocol), facade, "result", SignalsOf(protocol))
Stream(protocol, facade) == Method(WalkerOf(protocol), facade, "rows", {})

ClientQuery(protocol) == Result(protocol, "client")
IterQuery(protocol) == Stream(protocol, "client")
AsyncClientQuery(protocol) == Twin(ClientQuery(protocol))
AsyncIterQuery(protocol) == Twin(IterQuery(protocol))

SourceQuery(protocol) == Result(protocol, "source")

\* The rows of the result, without its signals but with its warning.
SourceQueryAll(protocol) == SourceQuery(protocol)
SourceStream(protocol) == Stream(protocol, "source")
SourceIterFeatures(protocol) == SourceStream(protocol)
AsyncSourceQuery(protocol) == Twin(SourceQuery(protocol))
AsyncSourceQueryAll(protocol) == Twin(SourceQueryAll(protocol))
AsyncSourceStream(protocol) == Twin(SourceStream(protocol))
AsyncSourceIterFeatures(protocol) == Twin(SourceIterFeatures(protocol))

-----------------------------------------------------------------------------
OwnMethods ==
  {QueryPages, QueryAll, QueryItems, QueryFeaturesAll,
   CollectionItemsPages, CollectionItemsAll, CollectionIterItems,
   OgcItemsPages, OgcItemsAll, OgcIterItems,
   ItemPages, ItemsAll, IterItems, SearchPages, SearchItems, IterSearchItems,
   CollectionRecordPages, RecordPages, IterRecords,
   FeaturesPages, FeaturePages, FeaturesAll, IterFeatures, LayerPages, LayersAll, IterLayers}
    \cup {AsyncQueryPages, AsyncQueryAll, AsyncQueryItems, AsyncQueryFeaturesAll,
          AsyncCollectionItemsPages, AsyncCollectionItemsAll, AsyncCollectionIterItems,
          AsyncOgcItemsPages, AsyncOgcItemsAll, AsyncOgcIterItems,
          AsyncItemPages, AsyncItemsAll, AsyncIterItems,
          AsyncSearchPages, AsyncSearchItems, AsyncIterSearchItems,
          AsyncCollectionRecordPages, AsyncRecordPages, AsyncIterRecords,
          AsyncFeaturesPages, AsyncFeaturePages, AsyncFeaturesAll, AsyncIterFeatures,
          AsyncLayerPages, AsyncLayersAll, AsyncIterLayers}

FacadeMethods ==
  UNION {{ClientQuery(p), IterQuery(p), SourceQuery(p), SourceQueryAll(p),
          SourceStream(p), SourceIterFeatures(p),
          AsyncClientQuery(p), AsyncIterQuery(p), AsyncSourceQuery(p), AsyncSourceQueryAll(p),
          AsyncSourceStream(p), AsyncSourceIterFeatures(p)} : p \in Protocols}

Methods == OwnMethods \cup FacadeMethods
=============================================================================
