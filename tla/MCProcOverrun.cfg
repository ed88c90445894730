SPECIFICATION Spec
CONSTANTS
  MAX_PROC = 3
  MINPRIO = 0
  MAXPRIO = 255
  Prios <- MCPriosOne
  SleepArgs <- MCSleepTwo
  MaxSpawn = 3
  TickMax = 0
INVARIANTS
  AllocInTable
