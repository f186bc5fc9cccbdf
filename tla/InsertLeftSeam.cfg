SPECIFICATION EditsSpec
VIEW EditsView
CONSTANTS
  CrLines = TRUE
  MAX_BYTES = 32
  MIN_BYTES = 15
  MAX_CHILDREN = 4
  MIN_CHILDREN = 2
  SpliceFactor = 6
  Handles <- OneRope
  Programs <- FragPrograms
PROPERTY ImplementsAbstract
CHECK_DEADLOCK FALSE
