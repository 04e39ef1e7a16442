CONSTANTS
  Cpus = {c1}
  Packets <- MCPackets
  Limits = {0, 3}
  pcktLimit = 2
  snapLen = 2
  maxEvents = 2
  bufferSize = 5
  queueSize = 2
  ringSize = 1
  HdrLen = 2
  RecLen = 1
SPECIFICATION MonitorSpec
INVARIANTS
  CaptureIsRight
  ReportsAreWanted
PROPERTIES
  MonitorCallsReturn
  ShutdownJoins
CHECK_DEADLOCK FALSE
