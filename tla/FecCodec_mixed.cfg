\* One lost source packet, one repair packet.
CONSTANTS
  K = 2
  R = 1
  WordBits = 2
  Poly = {2, 1, 0}
  Lens = {1}
  BlockLen = 2
  MaxSent = 2
  Duplicates = FALSE
  None = None
SPECIFICATION Spec
INVARIANT DecodeCorrect
