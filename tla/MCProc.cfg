SPECIFICATION Spec
CONSTANTS
  MAX_PROC = 3
  MINPRIO = 0
  MAXPRIO = 255
  Prios <- MCPrios
  SleepArgs <- MCSleepArgs
  MaxSpawn = 3
  TickMax = 0
INVARIANTS
  TypeOK
  NoAssertFails
  
  ContextLoaded
  ThreadsInterruptible
  ReadyHasContext
  BoundedBypass
PROPERTIES
  NoEarlyWake
  ExitIsFinal
