SPECIFICATION LiveSpec
CONSTANTS
  Mutators = {m1, m2}
  Background = Background
  NoOne = NoOne
  BlockSize = 2
  SlabBlocks = 4
  MetaBlocks = 1
  InitialSize = 6
  MinimumPercent = 2
  Policies = {"fixed", "growable", "adaptive"}
  AmbiguousEdges = FALSE
  Requests = {3}
  Targets = {5, 8}
  MaxRequests = 2
  MaxResizes = 1
  MaxSize = 6
INVARIANTS Budget RoomToRestart
PROPERTIES ReserveKept LargeReturns
