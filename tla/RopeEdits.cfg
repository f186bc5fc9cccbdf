SPECIFICATION EditsSpec
VIEW EditsView
CONSTANTS
  CrLines = TRUE
  MAX_BYTES = 5
  MIN_BYTES = 2
  MAX_CHILDREN = 4
  MIN_CHILDREN = 2
  SpliceFactor = 1
  Handles <- TwoRopes
  Programs <- AllPrograms
INVARIANT TreeInvariants
PROPERTY ImplementsAbstract
CHECK_DEADLOCK FALSE
