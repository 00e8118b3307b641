\* One stream of three bytes; both directions may drop or reorder a packet, and
\* one may be declared lost that arrives.
CONSTANTS
  N = 3
  SEND_BUFFER_SIZE = 2
  MaxFrame = 2
  ReadSizes = {2}
  SlotsA = {1, 2}
  SlotsB = {1}
  StreamLimit = 2
  StreamWindow = 2
  ConnLimit = 4
  ConnWindow = 4
  MaxStreamWindow = 3
  MaxConnWindow = 5
  Abandoning = TRUE
  FinAlone = FALSE
  MaxDrops = 1
  MaxSpurious = 1
  None = None
SPECIFICATION Spec
INVARIANTS NeverRefused Queued RestDelivered CreditReturns
PROPERTIES ImplementsChannel
CHECK_DEADLOCK FALSE
