SPECIFICATION AppFairSpec
CONSTANTS
  MAX_PROC = 3
  MINPRIO = 0
  MAXPRIO = 255
  Prios <- MCPrios
  SleepArgs <- MCSleepArgs
  MaxSpawn = 2
  TickMax = 7
  LAPIC_SLEEP_TICKS = 1
  MASTER_SLEEP = 2
  MIN_INIT = 2
  Samples <- MCSamples
  MaxCycles = 2
  PROMPT = TRUE
INVARIANTS
  OnTimeIfPrompt
PROPERTIES
  StatsPrinted
CHECK_DEADLOCK FALSE
