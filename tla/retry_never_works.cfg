SPECIFICATION RetrySpec
CONSTANTS
  o1 = o1
  o2 = o2
  o3 = o3
  A = A
  B = B
  n1 = n1
  m1 = m1
  None = None
  Ops = {o1}
  Clusters = {A}
  Names = {n1, n2}
  VMIDs = {v1, v2, v3}
  ClusterOf <- SoloClusterOf
  Want <- SoloWant
  Cmds <- CreateOnly
  NoRollback = {}
  Trouble = {"task"}
  MaxTrouble = 1
PROPERTIES
  RetrySucceeds
