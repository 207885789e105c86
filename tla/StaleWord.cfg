SPECIFICATION Spec
CONSTANTS
  w1 = w1
  w2 = w2
  Crews = {{w1}}
  Handles = {r1, r2}
  Stack = Stack
  Pages <- MCPages
  Bases <- MCBases
  Sizes = {1, 9}
  Kinds = {"precisely"}
  page_size = 4096
  Words = {9}
  AnyWord = TRUE
  Requests = {"minor", "major"}
  Null = Null
  MaxCount = 3
  MaxNodes = 3
SYMMETRY Symmetry
INVARIANTS MarksLive
