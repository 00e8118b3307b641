\* Two clients; sending to one of them may fail every time.
CONSTANTS
  Clients = {c1, c2}
  Faulty = {c1}
  None = None
  MaxMade = 6
  MaxErrors = 1
SPECIFICATION FairSpec
PROPERTIES ClosedLeave Flushed InboxRead
CHECK_DEADLOCK FALSE
