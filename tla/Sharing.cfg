SPECIFICATION Spec
VIEW Structure
CONSTANTS
  t1 = t1
  t2 = t2
  Thread <- Threads
  Node = {n1, n2, n3, n4, n5, n6}
  Null = Null
  Texts <- OwnTexts
  MAX_CHILDREN = 2
  MaxHeight = 1
INVARIANTS
  TypeOK
  CountsExact
  FreedOnce
  OwnedAlone
  ReadersSafe
  NothingLeaks
PROPERTY ImplementsClones
CHECK_DEADLOCK FALSE
