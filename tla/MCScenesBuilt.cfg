SPECIFICATION SceneSpec
CONSTANTS
  Keys <- MCKeys
  Scenes <- MCPlainScenes
  Builds <- MCPlainBuilds
  Manifests = {}
  MaxTime = 2
CHECK_DEADLOCK FALSE
INVARIANT BuiltPackagesValidate
