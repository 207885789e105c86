SPECIFICATION Spec
CONSTANTS
  w1 = w1
  w2 = w2
  x1 = x1
  x2 = x2
  x3 = x3
  Mutators = {m1}
  Crews <- MCCrews
  Ids = {x1, x2, x3}
  Size <- MCSize
  Finalizers <- MCFinalizers
  Handles = {r1, r2}
  Table = Table
  NewBlocks = {n1}
  OldBlocks = {o1, o2, o3}
  NoBlock = NoBlock
  n1 = n1
  n2 = n2
  Reserves <- MCReserves
  K = 2
  Capacity = 2
  Requests = {"minor", "major"}
  Null = Null
  Busy = Busy
  MaxCount <- MCMaxCount
  MaxObjects <- MCMaxObjects
SYMMETRY Symmetry
INVARIANTS KeepsTheGraph OneCopy Remembered SurvivorsApart
