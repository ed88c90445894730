SPECIFICATION Spec
CONSTANTS
  NFRAME = 30
  PG_NENT = 5
  LEVELS = 3
  KERNBASE = 60
  DEVBASE = 3
  NDEV = 3
  DEVSPACE = 40
  Images <- MCImages
INVARIANTS
  TypeOK
  
  WindowComplete
  UserReach
PROPERTIES
  ImplementsAddressSpace
CHECK_DEADLOCK FALSE
