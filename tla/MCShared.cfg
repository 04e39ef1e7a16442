CONSTANTS
  v1 = v1  v2 = v2  s1 = s1  s2 = s2  bad = bad
  AddrCount = 3
  Addrs <- MCAddrs
  NoAddr = 0
  maxReals = 2
  BpfMayFail = FALSE
  refCountBound = 2
  VipKeys = {v1}
  NoVip = NoVip
  VipDefs = {v1}
  VipDefOf <- MCVipDefOf
  maxVips = 1
  Flags = {}
  AddFlags = {{}}
  ModFlags = {}
  Weights = {0, 1}
  chRingSize = 2
  RealBatches <- SingleReals
  GenerateMaglevHash <- MCGenerateMaglevHash
  QuicIds = {1, 2, 3}
  kMaxQuicId = 2
  quicMapSize = 3
  NoId = NoId
  QuicBatches <- MCQuicBatches
  Srcs = {s1, s2}
  BadSrc = bad
  maxLpmSrcSize = 1
  SrcBatches <- MCSrcBatches
SPECIFICATION Spec
INVARIANTS
  ServedIsConfigured
  ZeroMeansInstalled
  ErrorsCoverMissing
  IndInv
PROPERTIES
  HeldNumbersKeepAddress
  ImplementsRealNames
