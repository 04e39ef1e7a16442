CONSTANTS
  s1 = s1  s2 = s2  bad = bad  c1 = c1  c2 = c2  l1 = l1
  AddrCount = 2
  Addrs <- MCAddrs
  NoAddr = 0
  maxReals = 2
  BpfMayFail = FALSE
  refCountBound = 1
  VipKeys <- AnyPortVip
  NoVip = NoVip
  VipDefs <- AnyPortVip
  VipDefOf <- MCVipDefOf
  maxVips = 1
  Flags = {"F_HASH_NO_SRC_PORT"}
  AddFlags = {{"F_HASH_NO_SRC_PORT"}}
  ModFlags = {}
  Weights = {0, 1}
  chRingSize = 2
  RealBatches <- MCRealBatches
  GenerateMaglevHash <- MCGenerateMaglevHash
  Packets <- AnyPortPackets
  Cpus = {c1}
  LruMaps = {l1}
  LruOf <- MCLruOf
  MaxTime = 2
  LRU_UDP_TIMEOUT = 1
  ONE_SEC = 1
  MAX_CONN_RATE = 1
  get_packet_hash <- MCHash
  QuicIds = {}
  kMaxQuicId = 2
  quicMapSize = 3
  NoId = NoId
  QuicBatches = {}
  Srcs = {}
  BadSrc = bad
  maxLpmSrcSize = 2
  SrcBatches = {}
  PrefixesOf <- NoPrefixes
SPECIFICATION BalancerSpec
INVARIANTS
  SessionsSafe
  FloodLimited
