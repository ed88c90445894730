SPECIFICATION AppSpec
CONSTANTS
  MAX_PROC = 3
  MINPRIO = 0
  MAXPRIO = 255
  Prios <- MCPrios
  SleepArgs <- MCSleepArgs
  MaxSpawn = 2
  TickMax = 3
  MUL = 2
  DIV = 3
  TSC_PER_USEC = 2
  DEFAULT_INTERVAL = 2
  LAPIC_TIMER_PERIOD = 4
  XLEN = 9
  INTLEN = 8
  STAT_SLEEP = 2
  MIN_INIT = 3
  MaxTsc = 20
CHECK_DEADLOCK FALSE
INVARIANT
  DiffPositive
