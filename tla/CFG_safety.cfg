\* Both backends: three writers (the ticker, the node informer, one service
\* worker), two nodes with two ASNs, two addresses of different types.
CONSTANTS
  n1 = n1
  n2 = n2
  k1 = k1
  k2 = k2
  h1 = h1
  h2 = h2
  a1 = a1
  a2 = a2
  a3 = a3
  static = static
  ephemeral = ephemeral
  worker = worker
  Node = {n1, n2}
  ASN = {k1, k2}
  Host = {h1, h2}
  Address = {a1, a2}
  Pool = {static, ephemeral}
  PoolOf <- TwoTypes
  Worker = {worker}
  None = None
  MaxFaults = 1
  MaxChanges = 2
SPECIFICATION Spec
INVARIANTS TypeOK MutualExclusion Written
PROPERTIES Undisturbed WithdrawnIsFree
SYMMETRY Alike
