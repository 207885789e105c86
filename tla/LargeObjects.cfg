SPECIFICATION Spec
CONSTANTS
  w1 = w1
  w2 = w2
  Crews = {{w1, w2}}
  Handles = {r1, r2}
  Stack = Stack
  Pages <- MCPages
  Bases <- MCBases
  Sizes = {1, 9}
  Kinds = {"none", "conservatively"}
  page_size = 4096
  Words = {1}
  AnyWord = FALSE
  Requests = {"minor", "major"}
  Null = Null
  MaxCount = 2
  MaxNodes = 3
SYMMETRY Symmetry
INVARIANTS SpansAgree KeepsReachable Accounting
PROPERTY Reclaims
