SPECIFICATION mcSpec
CONSTANTS
  Macs = {"m1", "m2"}
  BadMac = "bad"
  Addrs <- mcAddrs
  BadAddr <- mcBadAddr
  Marks = {1, 2}
  VipKeys = {"v1", "v2"}
  maxVips = 2
  maxReals = 1
  maxDecapDst = 1
  CounterLimit = 3
  BpfMayFail = TRUE
  flagTranslationTable = {"NO_SPORT", "NO_LRU", "QUIC_VIP", "DPORT_HASH"}
  MAX_RETRIES = 3
  MaxCommands <- mcMaxCommands
  MaxMoves = 2
  MaxSignals <- mcMaxSignals
  MaxPackets <- mcMaxPackets
  RealOf <- mcRealOf
  ClientFrames <- mcClientFrames
  Probes <- mcProbes
  Flows <- mcFlows
  localMac = "local"
INVARIANTS
  LibraryTells
  FramesWellFormed
  FramesArrive
  ClearAllClears
  ShownIsTrue
PROPERTIES
  ServerStops
  WatcherConverges
CHECK_DEADLOCK FALSE
