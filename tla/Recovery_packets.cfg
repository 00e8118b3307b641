\* Four packets, thresholds small enough for spurious losses among them.
CONSTANTS
  Chunks <- SomeChunks
  INITIAL_PACKET_THRESHOLD = 2
  MAX_PACKET_THRESHOLD = 3
  MaxPackets = 4
  MaxOther = 1
  None = None
SPECIFICATION Spec
INVARIANTS NothingForgotten TimerArmed LostWithinSent
PROPERTIES ImplementsFate
CHECK_DEADLOCK FALSE
