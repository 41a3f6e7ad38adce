\* Two services synced at once, no fixed address, and two failed updates of the
\* configuration: the first rollback leaves the address in the spec of its service,
\* the second clears the tag that service has put there again.
CONSTANTS
  c1 = c1
  s1 = s1
  s2 = s2
  a1 = a1
  a2 = a2
  a3 = a3
  a4 = a4
  machine = machine
  Cluster = {c1}
  Service = {s1, s2}
  ClusterOf <- OneCluster
  Address = {a1, a2, a3}
  Reserved = {machine}
  Blank = Blank
  None = None
  Inventory <- WithMachine
  Pinnable = {}
  Lag = TRUE
  Workers = 2
  Attempts = 2
  ConflictSteps = 2
  MayFail = {"config"}
  MaxFaults = 2
  MaxEdits = 2
SPECIFICATION Spec
INVARIANTS RollbackClearsOwn
SYMMETRY ServiceSymmetry
CHECK_DEADLOCK FALSE
