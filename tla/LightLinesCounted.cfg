SPECIFICATION Spec
CONSTANTS
  CrLines = TRUE
  MAX_BYTES = 5
  MIN_BYTES = 2
  MAX_CHILDREN = 3
  MIN_CHILDREN = 1
  Sources <- LineOfOneLeaf
  CutEnds = FALSE
INVARIANT LinesCounted
