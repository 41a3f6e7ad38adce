\* One service and no fault at all: deleted before its status is in the cache.
CONSTANTS
  c1 = c1
  s1 = s1
  s2 = s2
  a1 = a1
  a2 = a2
  a3 = a3
  a4 = a4
  machine = machine
  Cluster = {c1}
  Service = {s1}
  ClusterOf <- OneCluster
  Address = {a1, a2, a3}
  Reserved = {machine}
  Blank = Blank
  None = None
  Inventory <- WithMachine
  Pinnable = {a1, a2, a3}
  Lag = TRUE
  Workers = 1
  Attempts = 2
  ConflictSteps = 2
  MayFail = {}
  MaxFaults = 1
  MaxEdits = 3
SPECIFICATION Spec
INVARIANTS AbsentMeansNone
SYMMETRY ServiceSymmetry
CHECK_DEADLOCK FALSE
