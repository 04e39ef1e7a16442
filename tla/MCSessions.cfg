CONSTANTS
  s1 = s1  s2 = s2  bad = bad  c1 = c1  c2 = c2  l1 = l1
  AddrCount = 3
  Addrs <- MCAddrs
  NoAddr = 0
  maxReals = 2
  BpfMayFail = FALSE
  refCountBound = 3
  VipKeys <- TcpVip
  NoVip = NoVip
  VipDefs <- TcpVip
  VipDefOf <- MCVipDefOf
  maxVips = 1
  Flags = {}
  AddFlags = {{}}
  ModFlags = {}
  Weights = {0, 1}
  chRingSize = 3
  RealBatches <- DrainBatches
  GenerateMaglevHash <- MCGenerateMaglevHash
  Packets <- TcpPackets
  Cpus = {c1}
  LruMaps = {l1}
  LruOf <- MCLruOf
  MaxTime = 0
  LRU_UDP_TIMEOUT = 1
  ONE_SEC = 1
  MAX_CONN_RATE = 2
  get_packet_hash <- MCHash
  QuicIds = {}
  kMaxQuicId = 2
  quicMapSize = 3
  NoId = NoId
  QuicBatches = {}
  Srcs = {}
  BadSrc = bad
  maxLpmSrcSize = 2
  SrcBatches = {}
  PrefixesOf <- NoPrefixes
SPECIFICATION BalancerSpec
INVARIANTS
  PacketsReachConfigured
  SessionKeepsReal
