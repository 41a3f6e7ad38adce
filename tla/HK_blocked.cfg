\* Two nodes; the machine of one may be freed, and nobody but the node lifecycle
\* controller is there to delete its node.
CONSTANTS
  n1 = n1
  n2 = n2
  m1 = m1
  m2 = m2
  cluster = cluster
  role = role
  dns = dns
  own = own
  foreign = foreign
  worker = worker
  Node = {n1, n2}
  Machine = {m1, m2}
  Key = {cluster, role, dns}
  Value = {own, foreign, worker}
  None = None
  Inventory <- TwoMachines
  Tagging <- UserTags
  ClusterKey = cluster
  ClusterID = own
  Excluded = {dns}
  KeyConfigured = FALSE
  MaxAPIErrors = 1
  Cluster <- TwoNodes
  Removed = FALSE
  MaxEvents = 1
  MaxFaults = 0
  MaxChanges = 1
SPECIFICATION FairSpec
PROPERTIES EventuallyLabelled
