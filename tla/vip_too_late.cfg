SPECIFICATION RetrySpec
CONSTANTS
  m1 = m1
  m2 = m2
  m3 = m3
  w1 = w1
  Order <- Three
  Workers = {w1}
  MaxId = 3
  Quiets = {TRUE}
  KubeVIP = TRUE
  Balancers = {FALSE}
  Trouble = {"ssh"}
  MaxTrouble = 0
PROPERTIES
  Converges
