CONSTANTS
  Thieves = {t1, t2}
  BufMinLogSize = 1
  BufMaxLogSize = 2
  MaxBatch = 2
  MaxPush = 6
  Null = Null
SPECIFICATION Spec
SYMMETRY ThiefSymmetry
PROPERTIES ImplementsDeque NullMeansEmpty
