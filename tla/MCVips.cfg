CONSTANTS
  v1 = v1  v2 = v2  s1 = s1  s2 = s2  bad = bad
  AddrCount = 3
  Addrs <- MCAddrs
  NoAddr = 0
  maxReals = 2
  BpfMayFail = FALSE
  refCountBound = 4
  VipKeys = {v1, v2}
  NoVip = NoVip
  VipDefs = {v1, v2}
  VipDefOf <- MCVipDefOf
  maxVips = 2
  Flags = {0}
  AddFlags = {{}}
  ModFlags = {0}
  Weights = {0, 1}
  chRingSize = 3
  RealBatches <- MCRealBatches
  GenerateMaglevHash <- MCGenerateMaglevHash
  QuicIds = {}
  kMaxQuicId = 1
  quicMapSize = 2
  NoId = NoId
  QuicBatches = {}
  Srcs = {}
  BadSrc = bad
  maxLpmSrcSize = 1
  SrcBatches = {}
SPECIFICATION Spec
INVARIANTS
  PoolPartition
  VipNumPartition
  VipMapAgrees
  RingServesVip
  RefCountExact
SYMMETRY VipSymmetry
