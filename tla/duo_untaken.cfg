SPECIFICATION UntakenSpec
CONSTANTS
  o1 = o1
  o2 = o2
  o3 = o3
  A = A
  B = B
  n1 = n1
  m1 = m1
  None = None
  Ops = {o1, o2}
  Clusters = {A}
  Names = {n1}
  VMIDs = {v1, v2, v3}
  ClusterOf <- SharedClusterOf
  Want <- SharedWant
  Cmds <- DuoCmds
  NoRollback = {}
  Trouble = {"lost", "poll", "task", "crash"}
  MaxTrouble = 2
SYMMETRY IdsAndTerminals
PROPERTIES
  ActsOnlyOnOwed
  Implements
