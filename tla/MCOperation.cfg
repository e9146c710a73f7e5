SPECIFICATION Spec
CONSTANTS
  N = 3
  Max = 15
  Hdr = 2
  Limit = 12
  Params <- MCParams
  TaSizes = {0, 2, 4}
  WholeOffsets = {0}
INVARIANTS
  AcceptedFits
  SameLayout
  ReadsInside
  WritesInside
  SizeReported
CHECK_DEADLOCK FALSE
