SPECIFICATION PatientSpec
CONSTANTS
  o1 = o1
  o2 = o2
  o3 = o3
  A = A
  B = B
  n1 = n1
  m1 = m1
  None = None
  Ops = {o1}
  Clusters = {A}
  Names = {n1, n2, n3, n4}
  VMIDs = {v1, v2, v3, v4}
  ClusterOf <- SoloClusterOf
  Want <- SoloWant
  Cmds <- SoloCmds
  NoRollback = {}
  Trouble = {"reject", "lost", "task", "poll", "slow", "crash", "interrupt"}
  MaxTrouble = 3
SYMMETRY IdsAndNames
INVARIANTS
  RollbackLeak
  ReadyMeansComplete
  DeleteLeavesNone
  NoDuplicates
