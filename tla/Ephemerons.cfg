SPECIFICATION LiveSpec
CONSTANTS
  w1 = w1
  w2 = w2
  Crews <- MCCrews
  table = table
  inner = inner
  k1 = k1
  k2 = k2
  k3 = k3
  e1 = e1
  e2 = e2
  e3 = e3
  f1 = f1
  f2 = f2
  Ephemerons = {e1, e2, e3}
  Objects = {table, inner, k1, k2, k3, e1, e2, e3}
  Null = Null
  Edges <- MCEdges
  Key <- MCKey
  Value <- MCValue
  Table <- MCTable
  Bucket <- MCBucket
  Evacuated = {k2}
  Finalizers = {f1, f2}
  Object <- MCObject
  Priority <- MCPriority
  PriorityCount = 2
  Kept = {table}
  MaxRoots <- MCMaxRoots
  MaxDead <- MCMaxDead
  MaxCount <- MCMaxCount
INVARIANTS KeepsTheLive ChainKeepsLive
PROPERTIES ResolvedOnce FiresOnlyDead CollectionEnds
