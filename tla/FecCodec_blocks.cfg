\* The window slides by two; packets are reordered, lost and duplicated; packets
\* of two lengths, so that generating a repair may panic.
CONSTANTS
  K = 2
  R = 2
  WordBits = 2
  Poly = {2, 1, 0}
  Lens = {1, 2}
  BlockLen = 2
  MaxSent = 4
  Duplicates = TRUE
  None = None
SPECIFICATION Spec
INVARIANTS DecodesIffFullRank RepairsAloneDecode AnyKDecode SystematicIntact TableMultiplies
