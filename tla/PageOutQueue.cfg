SPECIFICATION Spec
CONSTANTS
  Blocks = {b1, b2, b3}
PROPERTIES PagedOutInTime
