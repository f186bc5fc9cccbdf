SPECIFICATION Spec
VIEW RopesView
CONSTANTS
  CrLines = FALSE
  MAX_BYTES = 5
  MIN_BYTES = 2
  MAX_CHILDREN = 4
  MIN_CHILDREN = 2
  SpliceFactor = 1
  Handles = {h1}
  Programs <- CrlfPrograms
INVARIANTS
  InfosAccurate
