---------------------------- MODULE AdminMethods ----------------------------
(***************************************************************************)
(* The methods of AsyncHonuaAdminClient and HonuaAdminClient, as records of *)
(* ClientMethods.                                                           *)
(***************************************************************************)
EXTENDS ClientMethods

\* A GET, sent without a key.
Read(on) == Method("GET", on, "read", "none", "admin")

\* A PUT or DELETE, which carries a key only if the caller gives one.
Write(verb, on, does) == Method(verb, on, does, "given", "admin")

\* A POST through _idempotency_headers: the caller's key, or a generated one if
\* the client knows that its transport repeats POST.
Keyed(on, does) == Method("POST", on, does, "generated", "admin")

\* A POST that carries a key only if the caller gives one.
Bare(on, does) == Method("POST", on, does, "given", "admin")

\* A walk that asks for page after page.
Walk(on) == Method("GET", on, "walk", "none", "admin")

UploadFile == Keyed("import", "upload")
ListServices == Walk("catalog")
ListServicesPage == Read("catalog")
GetServiceSettings == Read("service")
UpdateProtocols == Write("PUT", "service", "set")
UpdateAccessPolicy == Write("PUT", "service", "set")
UpdateMapserverSettings == Write("PUT", "service", "set")
ListMetadataResources == Read("metadata")
GetMetadataResource == Read("resource")
CreateMetadataResource == Bare("resource", "create")
UpdateUnconditionally == Write("PUT", "resource", "set")
UpdateMetadataResource == [UpdateUnconditionally EXCEPT !.match = TRUE]
DeleteMetadataResource == [Write("DELETE", "resource", "remove") EXCEPT !.match = TRUE]
GetVersion == Read("server")
GetCapabilities == Read("server")
GetCapabilityFlags == GetCapabilities
CheckCompatibility == GetCapabilities
GetManifest == Read("metadata")
ApplyManifest == Keyed("metadata", "set")
ScanMigrationSource == Keyed("import", "scan")
ValidateToolboxTranslation == Keyed("import", "check")
ListConnections == Read("connection")
GetConnection == Read("connection")
CreateConnection == Keyed("connection", "create")
TestDraftConnection == Bare("connection", "check")
UpdateConnection == Write("PUT", "connection", "set")
TestConnection == Bare("connection", "check")
DeleteConnection == Write("DELETE", "connection", "remove")
ValidateEncryption == Bare("encryption", "check")
RotateEncryptionKey == Bare("encryption", "rotate")
ListLayers == Walk("catalog")
ListLayersPage == Read("catalog")
PublishLayer == Keyed("catalog", "create")
SetLayerEnabled == Write("PUT", "catalog", "set")
SetServiceLayersEnabled == Write("PUT", "catalog", "set")
DiscoverTables == Read("connection")
ListStyles == Read("style")
GetStylesheet == Read("style")
GetStyleMetadata == Read("style")
UpdateStyle == Write("PUT", "style", "set")
GetLayerStyle == Read("style")
UpdateLayerStyle == Write("PUT", "style", "set")
ListProposals == Read("proposal")
GetProposal == Read("proposal")
ApproveProposal == Bare("proposal", "decide")
RejectProposal == Bare("proposal", "decide")
GetConfig == Read("server")

SyncImports == Blocking({UploadFile})
SyncServices == Blocking({ListServices, ListServicesPage, GetServiceSettings,
                 UpdateProtocols, UpdateAccessPolicy})
SyncServiceSettings == Blocking({UpdateMapserverSettings})
SyncMetadataReads == Blocking({ListMetadataResources, GetMetadataResource})
SyncMetadataWrites == Blocking({CreateMetadataResource, UpdateMetadataResource, DeleteMetadataResource})
SyncAdministration == Blocking({GetVersion, GetCapabilities, GetCapabilityFlags, CheckCompatibility})
SyncManifests == Blocking({GetManifest, ApplyManifest, ScanMigrationSource, ValidateToolboxTranslation})
SyncConnections == Blocking({ListConnections, GetConnection, CreateConnection, TestDraftConnection})
SyncConnectionCare == Blocking({UpdateConnection, TestConnection, DeleteConnection,
                       ValidateEncryption, RotateEncryptionKey})
SyncLayers == Blocking({ListLayers, ListLayersPage, PublishLayer, SetLayerEnabled})
SyncLayerGroups == Blocking({SetServiceLayersEnabled, DiscoverTables})
SyncStyles == Blocking({ListStyles, GetStylesheet, GetStyleMetadata, UpdateStyle})
SyncLayerStyles == Blocking({GetLayerStyle, UpdateLayerStyle})
SyncProposals == Blocking({ListProposals, GetProposal, ApproveProposal, RejectProposal})
SyncConfig == Blocking({GetConfig})

AdminMethods ==
  {UploadFile, ListServices, ListServicesPage, GetServiceSettings, UpdateProtocols,
   UpdateAccessPolicy, UpdateMapserverSettings, ListMetadataResources,
   GetMetadataResource, CreateMetadataResource, UpdateMetadataResource,
   DeleteMetadataResource, GetVersion, GetCapabilities, GetCapabilityFlags,
   CheckCompatibility, GetManifest, ApplyManifest, ScanMigrationSource,
   ValidateToolboxTranslation, ListConnections, GetConnection, CreateConnection,
   TestDraftConnection, UpdateConnection, TestConnection, DeleteConnection,
   ValidateEncryption, RotateEncryptionKey, ListLayers, ListLayersPage, PublishLayer,
   SetLayerEnabled, SetServiceLayersEnabled, DiscoverTables, ListStyles, GetStylesheet,
   GetStyleMetadata, UpdateStyle, GetLayerStyle, UpdateLayerStyle, ListProposals,
   GetProposal, ApproveProposal, RejectProposal, GetConfig}
    \cup UNION {SyncImports, SyncServices, SyncServiceSettings, SyncMetadataReads, SyncMetadataWrites,
                 SyncAdministration, SyncManifests, SyncConnections, SyncConnectionCare,
                 SyncLayers, SyncLayerGroups, SyncStyles, SyncLayerStyles,
                 SyncProposals, SyncConfig}
============================================================================
