\* Both backends under fairness: one node, two addresses that share a pool.
CONSTANTS
  n1 = n1
  n2 = n2
  k1 = k1
  k2 = k2
  h1 = h1
  h2 = h2
  a1 = a1
  a2 = a2
  a3 = a3
  static = static
  ephemeral = ephemeral
  worker = worker
  Node = {n1}
  ASN = {k1}
  Host = {h1}
  Address = {a1, a2}
  Pool = {static, ephemeral}
  PoolOf <- OneType
  Worker = {worker}
  None = None
  MaxFaults = 1
  MaxChanges = 2
SPECIFICATION FairSpec
PROPERTIES Converges EventuallyAnnotated
