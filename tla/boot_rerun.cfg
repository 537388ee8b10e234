SPECIFICATION RetrySpec
CONSTANTS
  m1 = m1
  m2 = m2
  m3 = m3
  w1 = w1
  Order <- Three
  Workers = {w1}
  MaxId = 3
  Quiets = {TRUE, FALSE}
  KubeVIP = TRUE
  Balancers = {TRUE, FALSE}
  Trouble = {"provision", "down", "ssh", "script", "unready", "crash", "interrupt"}
  MaxTrouble = 2
INVARIANTS
  TypeOK
  OneUnlessSwapped
  OrderKept
  DoneMeansJoined
PROPERTIES
  EveryRunEnds
  InterruptEnds
  
\* WaitNodesReady may poll for ever once there are two clusters.
CHECK_DEADLOCK FALSE
