\* One service, and one failed update of the configuration: never served again.
CONSTANTS
  c1 = c1
  s1 = s1
  s2 = s2
  a1 = a1
  a2 = a2
  a3 = a3
  a4 = a4
  machine = machine
  Cluster = {c1}
  Service = {s1}
  ClusterOf <- OneCluster
  Address = {a1, a2, a3}
  Reserved = {machine}
  Blank = Blank
  None = None
  Inventory <- WithMachine
  Pinnable = {}
  Lag = FALSE
  Workers = 1
  Attempts = 2
  ConflictSteps = 2
  MayFail = {"config"}
  MaxFaults = 1
  MaxEdits = 1
SPECIFICATION FairSpec
PROPERTIES EventuallyServed
CHECK_DEADLOCK FALSE
