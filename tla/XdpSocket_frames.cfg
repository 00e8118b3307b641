\* Three frames, so that pool and rings can each run empty.
CONSTANTS
  Frames = {f1, f2, f3}
  PENDING_LEN = 2
  MaxSends = 4
  MaxArrivals = 2
  MaxInits = 1
SYMMETRY AnyFrame
SPECIFICATION Spec
INVARIANTS FramesConserved NeverOverwritten SentOnce
