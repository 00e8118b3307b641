\* Two threads, two nodes, scheduled fairly inside their calls: every
\* interleaving of the atomic accesses of up to four calls.
CONSTANTS
  Threads = {t1, t2}
  NumNodes = 2
  CpuNodes = {0, 1}
  InitCapacity = 1
  Capacities = {0, 3}
  UsizeMod = 64
  MaxCalls = 4
SPECIFICATION FairSpec
INVARIANTS AvailableAccounting InUseAccounting
PROPERTY CallsReturn
