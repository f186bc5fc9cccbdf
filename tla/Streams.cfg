SPECIFICATION Spec
CONSTANTS
  CrLines = TRUE
  MAX_BYTES = 5
  MIN_BYTES = 2
  MAX_CHILDREN = 4
  MIN_CHILDREN = 2
  Inputs <- MCInputs
  Feeds <- MCFeeds
INVARIANTS
  TypeOK
  NothingLost
  OutcomeRight
  BuiltRight
  WrittenAsRead
PROPERTY CallsReturn
CHECK_DEADLOCK FALSE
