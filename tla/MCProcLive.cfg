SPECIFICATION FairSpec
CONSTANTS
  MAX_PROC = 3
  MINPRIO = 0
  MAXPRIO = 255
  Prios <- MCPriosOne
  SleepArgs <- MCSleepOne
  MaxSpawn = 2
  TickMax = 0
PROPERTIES
  RunnableRuns
  SleepersWake
  TicksServed
