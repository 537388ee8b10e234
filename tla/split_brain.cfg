SPECIFICATION Spec
CONSTANTS
  m1 = m1
  m2 = m2
  m3 = m3
  w1 = w1
  Order <- Three
  Workers = {w1}
  MaxId = 3
  Quiets = {TRUE}
  KubeVIP = FALSE
  Balancers = {TRUE}
  Trouble = {"provision", "script"}
  MaxTrouble = 2
INVARIANTS
  OneCluster
