SPECIFICATION Spec
CONSTANTS
  MEM = 8
  BYTE = 2
  Fills <- MCFills
INVARIANTS
  WritesRight
  ReturnsRight
  InBounds
