SPECIFICATION Spec
CONSTANTS
  Arrays = {A, B}
  Node = {n1, n2}
  RefId = {r1, r2}
  Info = {p, q}
  MAX_LEN = 3
  MaxHand = 1
  Uninit = Uninit
SYMMETRY Symmetry
INVARIANTS
  TypeOK
  UsedInitialized
  OwnedOnce
  NothingDangles
  NothingLeaks
PROPERTY ImplementsVector
