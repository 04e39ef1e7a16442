SPECIFICATION Spec
CONSTANTS
  Configs <- MCConfigs
  MaxInstances = 3
  MaxRootRuns = 2
  MaxToolRuns = 2
  kMaxForwardingCores = 4
  ROOT_ARRAY_SIZE = 3
  DecapPos = 1
  MayFail = TRUE
INVARIANTS
  NothingStays
  AttachedIsPrepared
  RootUsesPinned
  KatranSeesPackets
CHECK_DEADLOCK FALSE
