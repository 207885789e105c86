CONSTANTS
  m1 = m1  m2 = m2  m3 = m3
  Mutators = {m1, m2, m3}
  NoOwner = NoOwner
  GC_GENERATIONAL = TRUE
  AmbiguousEdges = FALSE
  RequestKinds = {0, 2}
  MaxCollections = 2
  SpuriousWakeups = TRUE
SPECIFICATION FairSpec
INVARIANTS WorldIsStopped AllocatorsFlushed CountsAgree StopAssertions
PROPERTIES CollectedSinceRequest StopCompletes EveryoneResumes
