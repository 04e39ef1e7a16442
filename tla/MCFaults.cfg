CONSTANTS
  v1 = v1  v2 = v2  s1 = s1  s2 = s2  bad = bad
  AddrCount = 2
  Addrs <- MCAddrs
  NoAddr = 0
  maxReals = 1
  BpfMayFail = TRUE
  refCountBound = 2
  VipKeys = {v1, v2}
  NoVip = NoVip
  VipDefs = {v1, v2}
  VipDefOf <- MCVipDefOf
  maxVips = 1
  Flags = {}
  AddFlags = {{}}
  ModFlags = {}
  Weights = {0, 1}
  chRingSize = 2
  RealBatches <- SingleReals
  GenerateMaglevHash <- MCGenerateMaglevHash
  QuicIds = {1, 2}
  kMaxQuicId = 2
  quicMapSize = 2
  NoId = NoId
  QuicBatches <- MCQuicBatches
  Srcs = {s1, s2}
  BadSrc = bad
  maxLpmSrcSize = 2
  SrcBatches <- MCSrcBatches
SPECIFICATION Spec
INVARIANTS
  VipNumPartition
  RefCountCoversUsers
PROPERTIES
  ImplementsRealNames
