\* A mode without FEC and two with, a fade of four packets, two addresses.
CONSTANTS
  Params <- SomeParams
  CROSS_FADE_LEN = 4
  Addrs = {a1, a2}
  UseXdp = TRUE
  None = None
  MaxSends = 3
  MaxRecvs = 2
  MaxReports = 2
  MaxPaths = 2
SYMMETRY AnyAddr
SPECIFICATION Spec
INVARIANTS OnlyRepairsQueued BlockLedger RepairsAlone PeerConfirmed
