\* Two services synced at once (concurrent-service-syncs above its default), while
\* calls fail or lose their answers and the process dies. No rollback runs: writing
\* the service and the configuration works, and conflicts are fewer than attempts.
CONSTANTS
  c1 = c1
  s1 = s1
  s2 = s2
  a1 = a1
  a2 = a2
  a3 = a3
  a4 = a4
  machine = machine
  Cluster = {c1}
  Service = {s1, s2}
  ClusterOf <- OneCluster
  Address = {a1, a2, a3}
  Reserved = {machine}
  Blank = Blank
  None = None
  Inventory <- WithMachine
  Pinnable = {a1, a2, a3}
  Lag = TRUE
  Workers = 2
  Attempts = 2
  ConflictSteps = 5
  MayFail = {"find", "update", "allocate", "status", "crash"}
  MaxFaults = 2
  MaxEdits = 4
SPECIFICATION Spec
INVARIANTS TypeOK LockDiscipline PublishedIsHeld DeletedIsReleased
PROPERTIES OwnTagOnly
SYMMETRY ServiceSymmetry
CHECK_DEADLOCK FALSE
