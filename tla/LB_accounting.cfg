\* The default deployment as long as calls that change an existing address are answered:
\* those that may fail read, allocate an address, or go to the API server.
CONSTANTS
  c1 = c1
  s1 = s1
  s2 = s2
  a1 = a1
  a2 = a2
  a3 = a3
  a4 = a4
  machine = machine
  Cluster = {c1}
  Service = {s1, s2}
  ClusterOf <- OneCluster
  Address = {a1, a2, a3}
  Reserved = {machine}
  Blank = Blank
  None = None
  Inventory <- WithMachine
  Pinnable = {a1, a2, a3}
  Lag = TRUE
  Workers = 1
  Attempts = 2
  ConflictSteps = 2
  MayFail = {"find", "allocate", "service", "config", "status"}
  MaxFaults = 2
  MaxEdits = 4
SPECIFICATION Spec
INVARIANTS Accounted
PROPERTIES LastTagFrees KeepsForeign ImplementsOwnership
SYMMETRY ServiceSymmetry
CHECK_DEADLOCK FALSE
