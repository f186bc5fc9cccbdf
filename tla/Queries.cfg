SPECIFICATION Spec
VIEW QueriesView
CONSTANTS
  CrLines = TRUE
  MAX_BYTES = 5
  MIN_BYTES = 2
  MAX_CHILDREN = 3
  MIN_CHILDREN = 1
  BLOCK_SIZE = 3
  Texts <- AllTexts
  CutEnds = FALSE
INVARIANTS
  SliceCounted
  ConversionsRight
  Utf16Right
  LookupsRight
  EqualityByText
  HashByText
PROPERTY ImplementsView
