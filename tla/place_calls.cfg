SPECIFICATION FairSpec
CHECK_DEADLOCK FALSE
CONSTANTS
  h1 = h1
  h2 = h2
  h3 = h3
  m1 = m1
  m2 = m2
  m3 = m3
  w1 = w1
  c1 = c1
  c2 = c2
  None = None
  HostOrder <- ThreeHosts
  MaxMem <- Memory
  Base <- InUse
  Targets = {h1, h2}
  NodeOrder <- Three
  Masters = {m1, m2, m3}
  Callers = {c1, c2}
  Parallel <- OneOrTwo
  Strategies = {"round-robin", "least-loaded"}
  MaxClones = 1
  MaxChanges = 1
  MaxRuns = 2
INVARIANTS
  TypeOK
  ClonesBounded
  EvenSpread
PROPERTIES
  CallsReturn
