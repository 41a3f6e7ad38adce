\* A node whose machine is freed and replaced by another under its name; a fault
\* at any point: an outage, a restart, a failed label update, a node not ready.
CONSTANTS
  n1 = n1
  n2 = n2
  m1 = m1
  m2 = m2
  cluster = cluster
  role = role
  dns = dns
  own = own
  foreign = foreign
  worker = worker
  Node = {n1}
  Machine = {m1, m2}
  Key = {cluster, role, dns}
  Value = {own, foreign, worker}
  None = None
  Inventory <- OneMachine
  Tagging <- UserTags
  ClusterKey = cluster
  ClusterID = own
  Excluded = {dns}
  KeyConfigured = TRUE
  MaxAPIErrors = 1
  Cluster <- NoNodes
  Removed = TRUE
  MaxEvents = 2
  MaxFaults = 1
  MaxChanges = 2
SPECIFICATION FairSpec
INVARIANTS TypeOK
PROPERTIES NodesSurvive QuietOnceMarked EventuallyLabelled EventuallyMarked UnhealthyEnds
