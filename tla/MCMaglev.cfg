CONSTANTS
  ring_size = 5
  Word = 16
  MaxEndpoints = 3
  MaxWeight = 2
SPECIFICATION MaglevSpec
INVARIANTS
  RingIsRight
PROPERTIES
  RingIsFilled
CHECK_DEADLOCK FALSE
