SPECIFICATION Spec
CONSTANTS
  m1 = m1
  m2 = m2
  Teams <- MCTeams
  w1 = w1
  w2 = w2
  Workers = {w1, w2}
  NoOne = NoOne
  Blocks = {b1, b2, b3}
  NoBlock = NoBlock
  G = 2
  Sizes = {1, 2}
  Kinds = {"minor", "in_place", "compacting"}
  Threshold = 1
  MinReserve = 1
  Reserve = 2
  MaxHeld = 2
  MaxAlloc <- MCMaxAlloc
  MaxCount <- MCMaxCount
SYMMETRY Symmetry
INVARIANTS OneOwner HeldIntact FreeIsZero
PROPERTIES MarksFresh ReclaimsDead
