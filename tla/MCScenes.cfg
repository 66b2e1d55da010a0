SPECIFICATION SceneSpec
CONSTANTS
  Keys <- MCKeys
  Scenes <- MCScenes
  Builds <- MCBuilds
  Manifests <- MCManifests
  MaxTime = 4
CHECK_DEADLOCK FALSE
INVARIANTS
  BundleIsWhole
  UsableIsUsable
