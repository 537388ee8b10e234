SPECIFICATION Spec
CONSTANTS
  None = None
  Bytes = 2
  Base = 4
  Memory = 8
  Configs <- LastOnly
  Edits <- AllowedEdits
  VIP <- NoVIP
  MaxVMs = 8
INVARIANTS
  TypeOK
  DistinctIPs
  SameIPAgain
  InRange
  BigEnough
  ValidBecomesPools
