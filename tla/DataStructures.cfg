SPECIFICATION Spec
CONSTANTS
  o1 = o1
  o2 = o2
  o3 = o3
  o4 = o4
  o5 = o5
  Structures = {"map", "set", "tree", "slabs", "trace", "bytes", "tasks"}
  Keys <- MCKeys
  Updates <- MCUpdates
  Spans <- MCSpans
  SlabSpans <- MCSlabSpans
  Objects = {o1, o2, o3, o4, o5}
  Fields <- MCFields
  page_size = 2
  Memory <- MCMemory
  Values = {1, 2, 35}
  MARK_MASK = 7
  END = 32
  Priorities = {0, 100, 200}
  Null = Null
  MaxBytes = 2
  MaxTasks = 5
CHECK_DEADLOCK FALSE
INVARIANTS EntriesKept SpansFound ScansRight
PROPERTY ImplementsTracing
