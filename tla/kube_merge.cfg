SPECIFICATION Spec
CONSTANTS
  c1 = c1
  c2 = c2
  f1 = f1
  None = None
  Mixed = Mixed
  Clusters = {c1, c2}
  Foreign = {f1}
  Folds <- AnyFold
  MaxGen = 2
  MaxCrashes = 1
INVARIANTS
  TypeOK
  Readable
  NoDangling
  Delivered
  OthersKept
