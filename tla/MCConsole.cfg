SPECIFICATION Spec
CONSTANTS
  COLS = 3
  LINES = 2
  Rows = 40
  W = 8
  Calls <- MCCalls
  MaxCalls = 2
INVARIANTS
  TypeOK
  IndexInFormat
  ReadsBack
  CursorOnScreen
  ShowsPaper
CHECK_DEADLOCK FALSE
