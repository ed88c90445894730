SPECIFICATION Spec
CONSTANTS
  SECT = 4
  HDRMAX = 16
  SCRATCH = 6
  EXTMEM = 24
  BOOTPT = 1
  MEM = 40
  Images <- MCImages
  ANNOUNCE = 4
  POLLS = 3
  MAX_CPU = 2
  MAX_PHYS_MEM = 2
  CONFIG_DUMMY_ACPI_NCPUS = 1
  Machines <- MCMachines
INVARIANTS
  TypeOK
  HeaderKept
  ImageLoaded
  LineInOrder
  CpusRight
  

  
CHECK_DEADLOCK FALSE
