SPECIFICATION Spec
CONSTANTS
  b0 = b0
  b1 = b1
  b2 = b2
  Broken = Broken
  NoBundle = NoBundle
  N = 2
  Labelled = {1, 2}
  Names <- DiskNames
  PartType = "PLAIN"
  F = 1
  Builds <- MCBuilds
  Factory = b0
  Bundles <- AllBundles
  Deferred = TRUE
  UuidRoot = FALSE
  RootArg = TRUE
  Discipline = {"fullBundles"}
PROPERTIES UpdatesAccepted SuccessRunsBundle RootFlashSparesMounted KernelCopySparesBooted
