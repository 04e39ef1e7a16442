CONSTANTS
  s1 = s1  s2 = s2  bad = bad  c1 = c1  c2 = c2  l1 = l1
  AddrCount = 2
  Addrs <- MCAddrs
  NoAddr = 0
  maxReals = 2
  BpfMayFail = FALSE
  refCountBound = 1
  VipKeys <- UdpVip
  NoVip = NoVip
  VipDefs <- UdpVip
  VipDefOf <- MCVipDefOf
  maxVips = 1
  Flags = {"F_QUIC_VIP", "F_SRC_ROUTING"}
  AddFlags = {{"F_QUIC_VIP", "F_SRC_ROUTING"}}
  ModFlags = {}
  Weights = {0, 1}
  chRingSize = 2
  RealBatches <- NoReals
  GenerateMaglevHash <- MCGenerateMaglevHash
  Packets <- QuicPackets
  Cpus = {c1}
  LruMaps = {l1}
  LruOf <- MCLruOf
  MaxTime = 0
  LRU_UDP_TIMEOUT = 1
  ONE_SEC = 1
  MAX_CONN_RATE = 1
  get_packet_hash <- MCHash
  QuicIds = {1, 2}
  kMaxQuicId = 2
  quicMapSize = 3
  NoId = NoId
  QuicBatches <- MCQuicBatches
  Srcs = {s1, s2}
  BadSrc = bad
  maxLpmSrcSize = 2
  SrcBatches <- MCSrcBatches
  PrefixesOf <- MCPrefixesOf
SPECIFICATION BalancerSpec
INVARIANTS
  PacketsReachConfigured
