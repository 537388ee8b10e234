SPECIFICATION Spec
CHECK_DEADLOCK FALSE
CONSTANTS
  h1 = h1
  h2 = h2
  h3 = h3
  m1 = m1
  m2 = m2
  m3 = m3
  w1 = w1
  c1 = c1
  c2 = c2
  None = None
  HostOrder <- ThreeHosts
  MaxMem <- Memory
  Base <- InUse
  Targets = {h1, h2, h3}
  NodeOrder <- Four
  Masters = {m1, m2, m3}
  Callers = {c1, c2}
  Parallel <- OnlyOne
  Strategies = {"least-loaded"}
  MaxClones = 2
  MaxChanges = 0
  MaxRuns = 1
INVARIANTS
  MastersApart
