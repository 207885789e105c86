CONSTANTS
  m1 = m1  m2 = m2
  Mutators = {m1, m2}
  NoOwner = NoOwner
  GC_GENERATIONAL = TRUE
  AmbiguousEdges = FALSE
  RequestKinds = {0, 2}
  MaxCollections = 3
  SpuriousWakeups = FALSE
SPECIFICATION Spec
SYMMETRY Symmetry
PROPERTY FullCollectionOnReturn
