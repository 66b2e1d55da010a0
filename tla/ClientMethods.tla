--------------------------- MODULE ClientMethods ---------------------------
(***************************************************************************)
(* The methods of the SDK's clients, one request each.                      *)
(*                                                                         *)
(* A method is a record: its verb, the resource it is about and what it     *)
(* does to it, where its Idempotency-Key comes from, whether it can carry   *)
(* If-Match, and how it reads the answer.  The records are those of the     *)
(* asynchronous classes; scripts/gen_sync.py derives the synchronous ones.  *)
(* The methods that page through a result are in Pagination.                *)
(***************************************************************************)

\* body: "json" is parsed and searched for an error envelope; "admin" is
\* unwrapped; "bytes" and "text" are handed over as they are; "locator" is
\* "json" of a client that raises for a status of 400 and above only.
Method(verb, on, does, key, body) ==
  [name |-> "", async |-> TRUE, verb |-> verb, on |-> on, does |-> does, key |-> key,
   match |-> FALSE, body |-> body]

Named(names, m) == {[m EXCEPT !.name = n] : n \in names}

\* The methods of the synchronous class.
Blocking(methods) == {[m EXCEPT !.async = FALSE] : m \in methods}

\* _json, _bytes, _binary_response and _text of the protocol mixins.
Json(on) == Method("GET", on, "read", "none", "json")
Bytes(on) == Method("GET", on, "read", "none", "bytes")
Text(on) == Method("GET", on, "read", "none", "text")
Post(on, does) == Method("POST", on, does, "none", "json")
Change(verb, on, does) == Method(verb, on, does, "given", "json")

-----------------------------------------------------------------------------
(* AsyncHonuaClient and HonuaClient. *)

\* capabilities falls back to readiness and the catalog when it is not found.
Capabilities == Method("GET", "server", "probe", "none", "json")
AsyncDiscovery == Named({"readiness"}, Json("server")) \cup Named({"capabilities", "supports"}, Capabilities)
Discovery == Blocking(AsyncDiscovery)
AsyncServiceCatalog == Named({"list_services", "list_service_summaries"}, Json("catalog"))
ServiceCatalog == Blocking(AsyncServiceCatalog)
AsyncFeatureQueries == Named({"query_features", "query_feature_set"}, Json("layer"))
FeatureQueries == Blocking(AsyncFeatureQueries)
AsyncEdits == Named({"apply_edits", "apply_edits_result"}, Method("POST", "layer", "edit", "generated", "json"))
Edits == Blocking(AsyncEdits)
AsyncExportMap == Named({"export_map"}, Bytes("map"))
ExportMap == Blocking(AsyncExportMap)

-----------------------------------------------------------------------------
(* The GeoServices protocol. *)

AsyncFeatureServer ==
  Named({"metadata", "layer_metadata", "schema", "query"}, Json("layer"))
AsyncRelatedRecords == Named({"query_related_records"}, Json("layer")) \cup AsyncEdits
AsyncAttachments == Named({"query_attachments", "list_attachments"}, Json("attachment"))
AddAttachment == [Post("attachment", "attach") EXCEPT !.name = "add_attachment"]
UpdateAttachment == [Post("attachment", "attach") EXCEPT !.name = "update_attachment"]
AsyncAttachmentEdits ==
  {AddAttachment, UpdateAttachment} \cup Named({"delete_attachment"}, Post("attachment", "detach"))
AsyncAttachmentContent == Named({"download_attachment"}, Bytes("attachment"))
FeatureServer == Blocking(AsyncFeatureServer)
RelatedRecords == Blocking(AsyncRelatedRecords)
Attachments == Blocking(AsyncAttachments)
AttachmentEdits == Blocking(AsyncAttachmentEdits)
AttachmentContent == Blocking(AsyncAttachmentContent)

AsyncMapServer ==
  Named({"metadata", "layer_metadata", "identify"}, Json("map")) \cup Named({"export", "tile"}, Bytes("map"))
AsyncImageServer ==
  Named({"metadata", "identify", "query", "legend", "compute_histograms"}, Json("image"))
    \cup Named({"export_image", "tile"}, Bytes("image"))
AsyncImageAnalysis ==
  Named({"compute_statistics_histograms", "get_samples", "multidimensional_info", "measure"}, Json("image"))
AsyncImageSearch == Named({"find", "project"}, Json("image"))

\* operation takes the verb as an argument.
AsyncGeometryServer ==
  Named({"metadata", "operation", "project", "buffer", "simplify"}, Json("geometry"))
    \cup Named({"operation"}, Post("geometry", "read"))
MapServer == Blocking(AsyncMapServer)
ImageServer == Blocking(AsyncImageServer)
ImageAnalysis == Blocking(AsyncImageAnalysis)
ImageSearch == Blocking(AsyncImageSearch)
GeometryServer == Blocking(AsyncGeometryServer)

-----------------------------------------------------------------------------
(* The OGC protocols. *)

AsyncOgcFeatures ==
  Named({"landing", "conformance", "collections", "get_collection", "queryables", "items"}, Json("item"))
AsyncOgcItem == Named({"item"}, Json("item"))
AsyncOgcEdits ==
  Named({"create_item"}, Change("POST", "item", "create"))
    \cup Named({"replace_item"}, Change("PUT", "item", "edit"))
    \cup Named({"patch_item"}, Change("PATCH", "item", "edit"))
    \cup Named({"delete_item"}, Change("DELETE", "item", "edit"))
AsyncOgcCollection == Named({"metadata", "queryables", "items"}, Json("item"))
OgcFeatures == Blocking(AsyncOgcFeatures)
OgcItem == Blocking(AsyncOgcItem)
OgcEdits == Blocking(AsyncOgcEdits)
OgcCollection == Blocking(AsyncOgcCollection)

\* The client of one collection passes its calls on.
AsyncCollectionEdits == AsyncOgcEdits
CollectionEdits == Blocking(AsyncCollectionEdits)

AsyncOgcMaps ==
  Named({"landing", "conformance", "openapi", "collection_tilesets", "collection_tileset"}, Json("tileset"))
    \cup Named({"map", "collection_map", "styled_collection_map"}, Bytes("tileset"))
AsyncOgcTiles ==
  Named({"landing", "conformance", "collections", "collection", "tile_matrix_sets", "tile_matrix_set",
         "dataset_tilesets", "collection_tilesets"}, Json("tileset"))
    \cup Named({"tile"}, Bytes("tileset"))
AsyncOgcCoverages ==
  Named({"landing", "collections", "collection"}, Json("coverage")) \cup Named({"coverage"}, Bytes("coverage"))
AsyncOgcProcesses ==
  Named({"landing", "conformance", "processes", "process", "jobs", "job", "job_results"}, Json("job"))
    \cup Named({"execute"}, Post("job", "run"))
    \cup Named({"dismiss_job"}, Method("DELETE", "job", "dismiss", "none", "json"))
AsyncOgcRecords ==
  Named({"landing", "conformance", "openapi", "collections", "get_collection", "queryables", "records",
         "items", "record", "item", "search"}, Json("record"))
    \cup Named({"search"}, Post("record", "read"))
AsyncRecordCollection ==
  Named({"metadata", "queryables", "records", "items", "record", "item", "search"}, Json("record"))
    \cup Named({"search"}, Post("record", "read"))
OgcMaps == Blocking(AsyncOgcMaps)
OgcTiles == Blocking(AsyncOgcTiles)
OgcCoverages == Blocking(AsyncOgcCoverages)
OgcProcesses == Blocking(AsyncOgcProcesses)
OgcRecords == Blocking(AsyncOgcRecords)
RecordCollection == Blocking(AsyncRecordCollection)

AsyncWms ==
  Named({"request", "request_response", "map", "map_response", "feature_info", "feature_info_response"},
        Bytes("view"))
    \cup Named({"capabilities"}, Text("view"))
AsyncWmts ==
  Named({"request", "request_response", "tile", "tile_response"}, Bytes("view"))
    \cup Named({"capabilities"}, Text("view"))

\* A transaction has no key, and its report is the caller's to read.
AsyncWfs ==
  Named({"request", "capabilities", "describe_feature_type", "get_feature"}, Text("item"))
    \cup Named({"transaction"}, Method("POST", "item", "edit", "none", "text"))
Wms == Blocking(AsyncWms)
Wmts == Blocking(AsyncWmts)
Wfs == Blocking(AsyncWfs)

-----------------------------------------------------------------------------
(* STAC, OData, scenes, workflows, geocoding, gRPC. *)

AsyncStac == Named({"catalog", "collections", "collection", "items"}, Json("record"))
AsyncStacSearch == Named({"item", "search"}, Json("record")) \cup Named({"search"}, Post("record", "read"))
AsyncOData ==
  Named({"service_document", "layers"}, Json("layer")) \cup Named({"metadata"}, Text("layer"))
AsyncODataFeatures == Named({"layer", "features"}, Json("layer"))
AsyncODataFeature == Named({"feature"}, Json("layer"))
Stac == Blocking(AsyncStac)
StacSearch == Blocking(AsyncStacSearch)
OData == Blocking(AsyncOData)
ODataFeatures == Blocking(AsyncODataFeatures)
ODataFeature == Blocking(AsyncODataFeature)

AsyncScenes ==
  Named({"list_scenes", "get_scene", "resolve_scene", "get_tileset"}, Json("scene"))
    \cup Named({"fetch_tile"}, Bytes("scene"))
AsyncElevation == Named({"value", "profile"}, Json("elevation"))
Scenes == Blocking(AsyncScenes)
Elevation == Blocking(AsyncElevation)

AsyncWorkflow ==
  Named({"node_registry", "node", "packages", "package", "versions", "version", "publications"}, Json("workflow"))
    \cup Named({"save_package", "create_version", "publish_version"}, Post("workflow", "create"))
    \cup Named({"validate_version", "dry_run_version"}, Post("workflow", "read"))
    \cup Named({"update_package"}, Method("PUT", "workflow", "edit", "none", "json"))
    \cup Named({"run"}, Method("POST", "workflow", "run", "given", "json"))
Workflow == Blocking(AsyncWorkflow)

AsyncGeocoding ==
  Named({"forward_geocode", "reverse_geocode"}, Method("GET", "locator", "read", "none", "locator"))
AsyncSuggest == Named({"suggest"}, Method("GET", "locator", "read", "none", "locator"))
Geocoding == Blocking(AsyncGeocoding)
Suggest == Blocking(AsyncSuggest)

\* One call, or one stream of pages, over a channel without the retrying transport.
AsyncGrpc == Named({"query_features", "query_features_stream"}, Method("RPC", "layer", "read", "none", "grpc"))
Grpc == Blocking(AsyncGrpc)

-----------------------------------------------------------------------------
(* The accessors: ogc_features(), feature_server(), ... *)

AsyncProtocols ==
  UNION {AsyncFeatureServer, AsyncRelatedRecords, AsyncAttachments, AsyncAttachmentEdits,
         AsyncAttachmentContent, AsyncMapServer, AsyncImageServer, AsyncImageAnalysis, AsyncImageSearch,
         AsyncGeometryServer, AsyncOgcFeatures, AsyncOgcItem, AsyncOgcEdits, AsyncOgcCollection,
         AsyncCollectionEdits, AsyncOgcMaps, AsyncOgcTiles, AsyncOgcCoverages, AsyncGeocoding, AsyncSuggest}
AsyncServices ==
  UNION {AsyncOgcProcesses, AsyncOgcRecords, AsyncRecordCollection, AsyncWms, AsyncWmts, AsyncWfs,
         AsyncStac, AsyncStacSearch, AsyncOData, AsyncODataFeatures, AsyncODataFeature, AsyncScenes,
         AsyncElevation, AsyncWorkflow}
AsyncRemote == AsyncGrpc
Protocols ==
  UNION {FeatureServer, RelatedRecords, Attachments, AttachmentEdits, AttachmentContent, MapServer,
         ImageServer, ImageAnalysis, ImageSearch, GeometryServer, OgcFeatures, OgcItem, OgcEdits,
         OgcCollection, CollectionEdits, OgcMaps, OgcTiles, OgcCoverages, Geocoding, Suggest}
Services ==
  UNION {OgcProcesses, OgcRecords, RecordCollection, Wms, Wmts, Wfs, Stac, StacSearch, OData,
         ODataFeatures, ODataFeature, Scenes, Elevation, Workflow}
Remote == Grpc

ClientOwn ==
  UNION {AsyncDiscovery, AsyncServiceCatalog, AsyncFeatureQueries, AsyncEdits, AsyncExportMap,
         Discovery, ServiceCatalog, FeatureQueries, Edits, ExportMap}

SdkMethods ==
  UNION {ClientOwn, AsyncProtocols, AsyncServices, AsyncRemote, Protocols, Services, Remote}
=============================================================================
