------------------------------ MODULE MCScenes ------------------------------
(* Scenes, builds and foreign manifests for ScenePackage. *)
EXTENDS ScenePackage, TLC

\* Two tiles, two nested tilesets, and the root document under its own name.
a == Ref("a.glb", "a.glb", "", FALSE, TRUE)
b == Ref("b.glb", "b.glb", "", FALSE, TRUE)
t == Ref("t.json", "t.json", "", TRUE, TRUE)
u == Ref("u.json", "u.json", "", TRUE, TRUE)
root == RootDocument

\* References that a package has no room for: another case of a's name, another
\* query, a path that leaves the package.
cased == Ref("A.glb", "a.glb", "", FALSE, TRUE)
queried == Ref("a.glb", "a.glb", "v=2", FALSE, TRUE)
outside == Ref("../a.glb", "../a.glb", "", FALSE, FALSE)

MCKeys ==
  {r.key : r \in {a, b, t, u, root, cased, queried, outside}} \cup {"scene-metadata", "tileset", "x", "y", NoKey}

Scene(top, nested, sizes) ==
  [root |-> top, nested |-> nested, bytes |-> sizes, id |-> TRUE, endpoints |-> TRUE,
   links |-> TRUE, bounds |-> "whole", bbox |-> 0, onGlobe |-> TRUE]

Sized(refs) == [r \in refs |-> 1]

Tree == Scene(<<a, t, a>>, (t :> <<b, u>>) @@ (u :> <<a>>), Sized({a, b, t, u}))
Cycle == Scene(<<t>>, (t :> <<u, root>>) @@ (u :> <<t, b>>) @@ (root :> <<t>>), Sized({b, t, u, root}))
Broken == Scene(<<a, t>>, t :> Malformed, Sized({a, t}))
Flat(r, size) == Scene(<<a, r>>, <<>>, (a :> 1) @@ (r :> size))

MCScenes ==
  {Tree, Cycle, Broken, Flat(b, 0), Flat(b, 2), Flat(cased, 1), Flat(queried, 1), Flat(outside, 1),
   [Tree EXCEPT !.root = Malformed], [Tree EXCEPT !.id = FALSE],
   [Tree EXCEPT !.endpoints = FALSE], [Tree EXCEPT !.links = FALSE],
   [Flat(b, 1) EXCEPT !.bounds = "none"], [Flat(b, 1) EXCEPT !.bounds = "partial", !.bbox = 4],
   [Flat(b, 1) EXCEPT !.onGlobe = FALSE]}

Build(stale, expires, ttl, max, tilesets) ==
  [edition |-> TRUE, stale |-> stale, expires |-> expires, ttl |-> ttl, max |-> max,
   maxTilesets |-> tilesets, async |-> FALSE, reads |-> FALSE]

MCBuilds ==
  {Build(None, None, 4, None, n) : n \in {0, 1, 2, 4}}
    \cup {Build(3, 2, 4, 4, 4), Build(None, 2, 4, 3, 4), Build(2, None, 4, 4, 4),
          [Build(None, None, 4, None, 4) EXCEPT !.edition = FALSE],
          [Build(None, None, 4, None, 4) EXCEPT !.reads = TRUE],
          [Build(None, None, 4, None, 3) EXCEPT !.async = TRUE]}

\* A call that asks for nothing out of the ordinary, of scenes of two tiles.
MCPlainScenes == {Flat(b, 2), [Flat(b, 1) EXCEPT !.bounds = "none"]}
MCPlainBuilds == {Build(None, None, 4, None, 4)}

Entry(k, size, required) == Asset(k, k, TRUE, FALSE, TRUE, size, TRUE, required)

MCManifests ==
  [object : {TRUE}, schema : {TRUE}, identity : {TRUE}, created : {0}, stale : {None, 1}, expires : {1, 3},
   extent : {TRUE}, lod : {TRUE}, max : {None, 3, 4}, declared : {0, 3, 5},
   assets : {<<SceneAsset, Entry("x", n, q), Entry(k, 2, FALSE)>> :
               n \in {None, 1, 2}, q \in BOOLEAN, k \in {"x", "y", NoKey}}
              \cup {<<>>, <<Entry("x", 1, TRUE)>>, <<SceneAsset, Entry(NoKey, 1, TRUE)>>,
                     <<SceneAsset, [Entry("y", 1, TRUE) EXCEPT !.object = FALSE]>>}]
    \cup {[object |-> FALSE]}

=============================================================================
