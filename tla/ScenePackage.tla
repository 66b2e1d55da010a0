---------------------------- MODULE ScenePackage ----------------------------
(***************************************************************************)
(* Offline packages of 3D scenes: a client bundles a scene, a reader        *)
(* validates a manifest, its own or another program's, as time passes and   *)
(* local files go missing.                                                  *)
(*                                                                         *)
(* The client walks a graph of tileset documents breadth first.  A reference *)
(* is what a content URI resolves to: a key, which is the path without its  *)
(* query, what that key is in lower case, and whether the path stays inside *)
(* the package.                                                             *)
(***************************************************************************)
EXTENDS Integers, FiniteSets, SequencesExt

CONSTANTS
  Keys,        \* the keys of files
  Scenes,      \* the scenes a server holds
  Builds,      \* the arguments build_offline_package is called with
  Manifests,   \* manifests of other programs
  MaxTime      \* bound on the clock

None == -1
NoKey == ""   \* a key that is missing or blank

\* A reference to tile content or to a nested tileset.
Ref(key, folded, query, tileset, safe) ==
  [key |-> key, folded |-> folded, query |-> query, tileset |-> tileset, safe |-> safe]

\* The root document as another document refers to it, by its path.
RootDocument == Ref("tileset.json", "tileset.json", "", TRUE, TRUE)

\* A manifest's entry: its key, and whether its path is inside the package (files are
\* looked up by their keys, and no rule of validate compares paths); anything else of its type but whether it is scene metadata,
\* and that it is a known one, is left out.
Asset(key, folded, known, metadata, safe, bytes, hash, required) ==
  [object |-> TRUE, key |-> key, folded |-> folded, known |-> known, metadata |-> metadata, safe |-> safe,
   bytes |-> bytes, hash |-> hash, required |-> required]

\* A scene: its metadata (an id, endpoints and links that all lead somewhere, bounds
\* as an object, whole or lacking a side, or as a bbox of so many numbers, and
\* whether they are on the globe); the references of its root document and of each
\* nested one (Malformed for one that is no JSON); the size of each file.  A build
\* may bring its own dates and byte budget, or be no build but a reader.
Malformed == <<Ref("", "", "", FALSE, FALSE)>>

\* Entries and documents of manifests: of other programs, entries may be no objects.
Assets ==
  [object : BOOLEAN, key : Keys, folded : Keys, known : BOOLEAN, metadata : BOOLEAN, safe : BOOLEAN,
   bytes : Int, hash : BOOLEAN, required : BOOLEAN]

Documents ==
  [object : {TRUE}, schema : BOOLEAN, identity : BOOLEAN, created : Int, stale : Int, expires : Int,
   extent : BOOLEAN, lod : BOOLEAN, max : Int, declared : Int, assets : Seq(Assets)]

\* A scene's documents refer to its files, and each nested tileset is one.
ASSUME SceneAssumption ==
  /\ \A s \in Scenes :
       LET refs == DOMAIN s.bytes
           docs == Seq(refs) \cup {Malformed}
       IN /\ s.bytes \in [refs -> Int] /\ s.root \in docs
          /\ \A r \in refs : r.tileset => s.nested[r] \in docs
          /\ \A r \in refs : r.key \in Keys /\ r.folded \in Keys /\ r.safe \in BOOLEAN
  /\ \A b \in Builds : {b.maxTilesets, b.stale, b.expires, b.ttl, b.max} \subseteq Int
  /\ Manifests \subseteq Documents \cup [object : {FALSE}]
  /\ {"scene-metadata", "tileset"} \subseteq Keys
  /\ MaxTime \in Nat

VARIABLES
  now,
  scene, build,      \* the scene on the server and the arguments of the call
  phase,             \* "call", "metadata", "root", "walk", "built", "received", "raised"
  pending,           \* references to fetch, in order
  fetched,           \* seen_paths
  tiles,             \* tile_assets: the references, in the order they came
  processed,         \* processed_tilesets
  created,           \* created_at_utc
  manifest,          \* the manifest at hand, or NoManifest
  stored,            \* keys, in lower case, of the files in local storage
  verdict,           \* what validate answered last: state, codes, and when
  requests           \* history: how often each reference has been fetched

sceneVars ==
  <<now, scene, build, phase, pending, fetched, tiles, processed, created,
    manifest, stored, verdict, requests>>
walkVars == <<pending, fetched, tiles, processed, created, requests>>

NoManifest == [schema |-> FALSE]
NoVerdict == [state |-> "none", now |-> 0, known |-> {}]

-----------------------------------------------------------------------------
(* The metadata of a scene *)

\* An endpoint or a link without a URL is refused.
EndpointsParse == scene.endpoints
LinksParse == scene.links
MetadataParses == scene.id /\ EndpointsParse /\ LinksParse

\* Bounds that lack a side count for nothing, and the bbox is looked at.
HasBounds == scene.bounds = "whole" \/ scene.bbox >= 4

-----------------------------------------------------------------------------
(* Walking a tileset *)

\* The references of a document, each resolved path once.
Contents(document) ==
  LET found[n \in 0..Len(document)] ==
        IF n = 0 THEN <<>>
        ELSE IF Contains(found[n - 1], document[n]) THEN found[n - 1]
        ELSE Append(found[n - 1], document[n])
  IN found[Len(document)]

AllRefs == DOMAIN scene.bytes

\* The entry of a downloaded tile.
TileAsset(r) ==
  Asset(r.key, r.folded, TRUE, FALSE, r.safe, scene.bytes[r], TRUE, FALSE)

SceneAsset == Asset("scene-metadata", "scene-metadata", TRUE, TRUE, TRUE, 1, TRUE, TRUE)
RootAsset == Asset("tileset", "tileset", TRUE, FALSE, TRUE, 1, TRUE, TRUE)

SumBytes(assets) ==
  LET sum[n \in 0..Len(assets)] == IF n = 0 THEN 0 ELSE sum[n - 1] + assets[n].bytes
  IN sum[Len(assets)]

\* Half of the time to the expiry, in whole steps.
StaleAt(expires) == created + (expires - created) \div 2

\* The manifest of what was downloaded; no budget means the size itself.
Assemble ==
  LET assets == <<SceneAsset, RootAsset>> \o [i \in 1..Len(tiles) |-> TileAsset(tiles[i])]
      expires == IF build.expires = None THEN created + build.ttl ELSE build.expires
  IN [object |-> TRUE, schema |-> TRUE, identity |-> TRUE,
      created |-> created,
      stale |-> IF build.stale = None THEN StaleAt(expires) ELSE build.stale,
      expires |-> expires,
      extent |-> HasBounds /\ scene.onGlobe, lod |-> TRUE,
      max |-> IF build.max = None THEN SumBytes(assets) ELSE build.max,
      declared |-> SumBytes(assets),
      assets |-> assets]

-----------------------------------------------------------------------------
(* Validating a manifest *)

DatesInvalid(m) ==
  \/ None \in {m.created, m.stale, m.expires}
  \/ m.stale # None /\ m.expires # None /\ m.stale > m.expires

Expired(m, t) == m.expires # None /\ t >= m.expires
Stale(m, t) == ~Expired(m, t) /\ m.stale # None /\ t >= m.stale

\* Mutant: the sum is not carried along.
BudgetForgetful(m) ==
  \/ m.max = None \/ m.declared = None \/ m.max <= 0 \/ m.declared <= 0
  \/ m.declared > m.max
  \/ \E i \in 1..Len(m.assets) : m.assets[i].bytes > m.max

\* The sizes are added up until one does not fit any more; one that is missing or
\* not positive does not count.
Count(sum, bytes, max) ==
  IF sum.over \/ bytes <= 0 THEN sum
  ELSE IF bytes > max \/ sum.total > max - bytes THEN [total |-> sum.total, over |-> TRUE]
  ELSE [total |-> sum.total + bytes, over |-> FALSE]

Counted(m) ==
  LET sum[n \in 0..Len(m.assets)] ==
        IF n = 0 THEN [total |-> 0, over |-> FALSE]
        ELSE Count(sum[n - 1], m.assets[n].bytes, m.max)
  IN sum[Len(m.assets)]

Budget(m) ==
  \/ m.max = None \/ m.declared = None \/ m.max <= 0 \/ m.declared <= 0
  \/ m.declared > m.max \/ Counted(m).over \/ Counted(m).total > m.max

\* Bounds on the globe, corners and heights in order.
ExtentInvalid(m) == ~m.extent

\* An entry is invalid on its own, as one without a key, or repeats an earlier key.
AssetInvalid(m, i) ==
  LET a == m.assets[i] IN
  \/ a.key = NoKey
  \/ a.folded \in {m.assets[j].folded : j \in 1..(i - 1)}
  \/ ~a.known \/ ~a.safe \/ a.bytes <= 0 \/ ~a.hash

AssetsInvalid(m) ==
  \/ m.assets = <<>>
  \/ \E i \in 1..Len(m.assets) : AssetInvalid(m, i)
  \/ ~\E i \in 1..Len(m.assets) : m.assets[i].required /\ m.assets[i].metadata

\* Required files that local storage lacks; one without a key is not looked for.
Partial(m, available) ==
  \E i \in 1..Len(m.assets) :
    m.assets[i].required /\ m.assets[i].key # NoKey /\ m.assets[i].folded \notin available

\* The state of a manifest at t: the worst of what is wrong with it.  The result
\* is not valid in any state but "ready" and "stale".
State(m, t, available) ==
  IF ~m.schema \/ ~m.identity \/ DatesInvalid(m) \/ ExtentInvalid(m) \/ ~m.lod
     \/ Budget(m) \/ AssetsInvalid(m)
  THEN "invalid"
  ELSE IF Partial(m, available) THEN "partial"
  ELSE IF Expired(m, t) THEN "expired"
  ELSE IF Stale(m, t) THEN "stale"
  ELSE "ready"

-----------------------------------------------------------------------------
SceneInit ==
  /\ now = 0
  /\ build \in Builds /\ scene \in Scenes
  /\ build.reads => scene = CHOOSE s \in Scenes : TRUE   \* a reader has no scene
  /\ phase = "call"
  /\ pending = <<>> /\ fetched = {} /\ tiles = <<>> /\ processed = 0
  /\ created = None
  /\ manifest = NoManifest /\ stored = {}
  /\ verdict = NoVerdict
  /\ requests = [r \in AllRefs |-> 0]

\* The arguments are resolved before the first request: created_at_utc is now,
\* and an edition gate or a tileset bound that makes no sense is refused.
Call ==
  /\ phase = "call" /\ ~build.reads
  /\ IF build.edition /\ build.maxTilesets > 0
     THEN phase' = "metadata" /\ created' = now
     ELSE phase' = "raised" /\ UNCHANGED created
  /\ UNCHANGED <<now, scene, build, pending, fetched, tiles, processed, manifest, stored, verdict, requests>>

\* get_scene, whose metadata may be refused.
GetScene ==
  /\ phase = "metadata"
  /\ phase' = IF MetadataParses THEN "root" ELSE "raised"
  /\ UNCHANGED <<now, scene, build, walkVars, manifest, stored, verdict>>

\* The root document, which may be malformed.  Its path does not join those that
\* have been fetched.
GetTileset ==
  /\ phase = "root"
  /\ requests' = [r \in AllRefs |-> requests[r] + (IF r = RootDocument THEN 1 ELSE 0)]
  /\ IF scene.root = Malformed
     THEN phase' = "raised" /\ UNCHANGED <<pending, processed>>
     ELSE phase' = "walk" /\ pending' = Contents(scene.root) /\ processed' = 1
  /\ UNCHANGED <<now, scene, build, fetched, tiles, created, manifest, stored, verdict>>

\* A path that has been fetched is passed over.
SkipSeen ==
  /\ phase = "walk" /\ pending # <<>> /\ Head(pending) \in fetched
  /\ pending' = Tail(pending)
  /\ UNCHANGED <<now, scene, build, phase, fetched, tiles, processed, created, manifest, stored, verdict, requests>>

\* Mutant: a nested document's references are taken up without their count.
FetchUnbounded ==
  /\ phase = "walk" /\ pending # <<>> /\ Head(pending) \notin fetched
  /\ LET r == Head(pending)
         expand == r.tileset /\ processed <= build.maxTilesets
     IN /\ fetched' = fetched \cup {r}
        /\ requests' = [requests EXCEPT ![r] = @ + 1]
        /\ IF expand /\ scene.nested[r] = Malformed
           THEN phase' = "raised" /\ UNCHANGED <<pending, tiles, processed>>
           ELSE /\ tiles' = Append(tiles, r)
                /\ processed' = IF expand THEN processed + 1 ELSE processed
                /\ pending' = Tail(pending) \o (IF expand THEN Contents(scene.nested[r]) ELSE <<>>)
                /\ UNCHANGED phase
  /\ UNCHANGED <<now, scene, build, created, manifest, stored, verdict>>

\* The next file is downloaded and kept; a nested tileset's references join the
\* queue while the bound on tilesets is not reached.
Fetch ==
  /\ phase = "walk" /\ pending # <<>> /\ Head(pending) \notin fetched
  /\ LET r == Head(pending)
         expand == r.tileset /\ processed < build.maxTilesets
     IN /\ fetched' = fetched \cup {r}
        /\ requests' = [requests EXCEPT ![r] = @ + 1]
        /\ IF expand /\ scene.nested[r] = Malformed
           THEN phase' = "raised" /\ UNCHANGED <<pending, tiles, processed>>
           ELSE /\ tiles' = Append(tiles, r)
                /\ processed' = IF expand THEN processed + 1 ELSE processed
                /\ pending' = Tail(pending) \o (IF expand THEN Contents(scene.nested[r]) ELSE <<>>)
                /\ UNCHANGED phase
  /\ UNCHANGED <<now, scene, build, created, manifest, stored, verdict>>

\* A request fails, and the call with it.
FetchFails ==
  /\ phase \in {"metadata", "root"} \/ (phase = "walk" /\ pending # <<>>)
  /\ phase' = "raised"
  /\ UNCHANGED <<now, scene, build, walkVars, manifest, stored, verdict>>

\* The task of an asynchronous build is cancelled in a request.
CancelBuild ==
  /\ build.async
  /\ phase \in {"metadata", "root"} \/ (phase = "walk" /\ pending # <<>>)
  /\ phase' = "raised"
  /\ UNCHANGED <<now, scene, build, walkVars, manifest, stored, verdict>>

\* Everything is there: the result holds the manifest and the files.
Bundle ==
  /\ phase = "walk" /\ pending = <<>>
  /\ phase' = "built"
  /\ manifest' = Assemble
  /\ stored' = {a.folded : a \in ToSet(manifest'.assets)}
  /\ UNCHANGED <<now, scene, build, walkVars, verdict>>

\* The reader is given another program's manifest and its files: an entry that is no
\* object is dropped, a document that is none refused.
ParseManifest(document) ==
  LET kept[n \in 0..Len(document.assets)] ==
        IF n = 0 THEN <<>>
        ELSE IF document.assets[n].object THEN Append(kept[n - 1], document.assets[n])
        ELSE kept[n - 1]
  IN [document EXCEPT !.assets = kept[Len(document.assets)]]

Receive ==
  /\ phase = "call" /\ build.reads
  /\ \E document \in Manifests :
       IF document.object
       THEN /\ phase' = "received"
            /\ manifest' = ParseManifest(document)
            /\ stored' = {a.folded : a \in ToSet(manifest'.assets)}
       ELSE phase' = "raised" /\ UNCHANGED <<manifest, stored>>
  /\ UNCHANGED <<now, scene, build, walkVars, verdict>>

\* The reader validates the manifest, telling what it finds in storage or not.
Validate ==
  /\ manifest # NoManifest
  /\ \E known \in {stored, {a.folded : a \in ToSet(manifest.assets)}} :
       verdict' = [state |-> State(manifest, now, known), now |-> now, known |-> known]
  /\ UNCHANGED <<now, scene, build, phase, walkVars, manifest, stored>>

\* A file is lost from local storage; time passes.
Lose ==
  /\ \E k \in stored : stored' = stored \ {k}
  /\ manifest # NoManifest
  /\ UNCHANGED <<now, scene, build, phase, walkVars, manifest, verdict>>

Tick ==
  /\ now < MaxTime
  /\ now' = now + 1
  /\ UNCHANGED <<scene, build, phase, walkVars, manifest, stored, verdict>>

SceneNext ==
  \/ Call \/ GetScene \/ GetTileset \/ SkipSeen \/ Fetch \/ FetchFails
  \/ CancelBuild \/ Bundle \/ Receive \/ Validate \/ Lose \/ Tick

SceneSpec == SceneInit /\ [][SceneNext]_sceneVars

-----------------------------------------------------------------------------
(* Properties *)

\* What the documents in S refer to, and what can be reached from the root: what is in
\* every set that holds the root's references and those of its own documents.
RefersTo(S) ==
  UNION {ToSet(scene.nested[r]) : r \in {q \in S : q.tileset /\ scene.nested[q] # Malformed}}
Reachable ==
  {r \in AllRefs :
     \A S \in SUBSET AllRefs : ToSet(scene.root) \cup RefersTo(S) \subseteq S => r \in S}

\* A bundle holds each file that can be reached from the root document once, or,
\* when the bound on tilesets has been reached, some of them; no document is
\* followed past the bound, and a cycle of documents is followed once.  Nothing is
\* fetched twice but the root document, when a nested one refers back to it.
\* (build_offline_package)
BundleIsWhole ==
  /\ \A r \in AllRefs : requests[r] <= IF r = RootDocument THEN 2 ELSE 1
  /\ processed > 0 => processed <= build.maxTilesets
  /\ phase = "built" =>
       /\ ToSet(tiles) = fetched /\ fetched \subseteq Reachable
       /\ processed < build.maxTilesets => fetched = Reachable
       /\ fetched # Reachable => processed = build.maxTilesets

\* A manifest passes as usable only if it is: not past its expiry, every required
\* file at hand when storage was looked at, no two files under one name, nothing
\* outside the package, and no more bytes in all than the budget.
\* (validate_scene_package_manifest)
UsableIsUsable ==
  verdict.state \in {"ready", "stale"} =>
    /\ verdict.now < manifest.expires
    /\ verdict.state = "ready" => verdict.now < manifest.stale
    /\ \A a \in ToSet(manifest.assets) : a.safe /\ (a.required => a.folded \in verdict.known)
    /\ Cardinality({a.folded : a \in ToSet(manifest.assets)}) = Len(manifest.assets)
    /\ SumBytes(manifest.assets) <= manifest.max

\* The result of build_offline_package validates, until it expires: the docstring
\* of the method and of HonuaScenePackageBuildResult say so.
BuiltPackagesValidate ==
  phase = "built" /\ now < manifest.expires /\ stored = {a.folded : a \in ToSet(manifest.assets)}
    => State(manifest, now, stored) \in {"ready", "stale"}
=============================================================================
