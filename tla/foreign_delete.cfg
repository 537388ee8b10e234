SPECIFICATION Spec
CONSTANTS
  o1 = o1
  o2 = o2
  o3 = o3
  A = A
  B = B
  n1 = n1
  m1 = m1
  None = None
  Ops = {o1, o2, o3}
  Clusters = {A, B}
  Names = {n1, m1}
  VMIDs = {v1, v2}
  ClusterOf <- TrioClusterOf
  Want <- SplitWant
  Cmds <- TrioCmds
  NoRollback = {}
  Trouble = {"reject"}
  MaxTrouble = 0
SYMMETRY Ids
PROPERTIES
  DeleteOnlyTagged
