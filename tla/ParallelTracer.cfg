CONSTANTS
  a = a  b = b  c = c  d = d
  Objects = {a, b, c, d}
  Edges <- MCEdges
  NoObject = NoObject
  WorkerCount = 3
  RootBatches <- MCRootBatches
  MaxEpoch = 2
  SpuriousWakeups = TRUE
SPECIFICATION FairSpec
CHECK_DEADLOCK FALSE
INVARIANTS HelpersParked TraceComplete TracedOnce
PROPERTIES ImplementsTracing TraceTerminates
