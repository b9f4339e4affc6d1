SPECIFICATION FairSpec
CONSTANTS
  b0 = b0
  b1 = b1
  b2 = b2
  Broken = Broken
  NoBundle = NoBundle
  N = 2
  Labelled = {1, 2}
  Names <- PartUuids
  PartType = "UUID"
  F = 1
  Builds <- MCBuilds
  Factory = b0
  Bundles <- AllBundles
  Deferred = FALSE
  UuidRoot = TRUE
  RootArg = FALSE
  Discipline <- AllRules
INVARIANTS TypeOK Bootable IInv
PROPERTIES SuccessRunsBundle RootFlashSparesMounted KernelCopySparesBooted KernelFollowsRoot ComesUp ImplementsAtomicUpdate
