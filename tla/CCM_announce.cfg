CONSTANTS
  c1 = c1
  s1 = s1
  s2 = s2
  a1 = a1
  a2 = a2
  n1 = n1
  k1 = k1
  h1 = h1
  shared = shared
  machine = machine
  Cluster = {c1}
  Service = {s1}
  ClusterOf <- OneCluster
  Address = {a1, a2}
  Reserved = {machine}
  Blank = Blank
  None = None
  Inventory <- Acquired
  Pinnable = {a2}
  Lag = FALSE
  Workers = 1
  Attempts = 2
  ConflictSteps = 2
  MayFail = {"config", "crash", "service"}
  MaxFaults = 1
  MaxEdits = 2
  Node = {n1}
  ASN = {k1}
  Host = {h1}
  Pool = {shared}
  PoolOf <- OnePool
SPECIFICATION CCMFairSpec
INVARIANTS PublishedIsAnnounced
PROPERTIES EventuallyAnnounced EventuallyWithdrawn
