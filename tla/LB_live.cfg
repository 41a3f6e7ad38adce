\* Fairness, an informer that has caught up before a sync starts, one fault, and
\* actions of users enough to acquire an address, pin another and unpin it.
CONSTANTS
  c1 = c1
  s1 = s1
  s2 = s2
  a1 = a1
  a2 = a2
  a3 = a3
  a4 = a4
  machine = machine
  Cluster = {c1}
  Service = {s1, s2}
  ClusterOf <- OneCluster
  Address = {a1, a2, a4}
  Reserved = {machine}
  Blank = Blank
  None = None
  Inventory <- WithStatic
  Pinnable = {a4}
  Lag = FALSE
  Workers = 1
  Attempts = 2
  ConflictSteps = 2
  MayFail = {"find", "update", "free", "allocate", "status", "crash"}
  MaxFaults = 1
  MaxEdits = 3
SPECIFICATION FairSpec
PROPERTIES ServedUnlessUnpinned EventuallyGone
CHECK_DEADLOCK FALSE
