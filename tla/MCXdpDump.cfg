SPECIFICATION DumpSpec
CONSTANTS
  Cpus = {0, 1}
  Packets <- mcPackets
  Words <- mcWords
  bufferSize = 8
  Commands <- mcCommands
  kQueueCapacity = 2
  MaxPackets = 4
  MaxSignals = 2
INVARIANTS
  EndIsClean
PROPERTIES
  EventsAreFifo
  EndsWhenAsked
CHECK_DEADLOCK FALSE
