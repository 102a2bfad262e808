\* kernel_main has stopped.
CHECK_DEADLOCK FALSE
SPECIFICATION BootSpec
CONSTANTS
  PAGE_SIZE = 4
  ENTRIES = 8
  MB = 8
  IDENTITY_MAP_SIZE = 32
  KERNEL_SPACE = 96
  FB_ADDR = 212
  FB_SIZE = 16
  ORBIT_BASE = 40
  WORD_BITS = 8
  WORD_SIZE = 1
  Machines <- MCMachines
  Lines = {0, 12}
  CASCADE_RETRIES = 2
  LINE_RETRIES = 5
  BootMasks <- MCBootMasks
  MAX_LOST = 3
  BAR_UNIT = 2
  PCB_SIZE = 1
  BOOT_ESP0 = 9
  KERNEL_INT_STACK_BASE = 20
INVARIANT BootTypeOK
INVARIANT StructuresApart
INVARIANT MapsToItself
INVARIANT ReadyForMemory
INVARIANT HandlersReady
INVARIANT MasksAsAsked
PROPERTY SysmanRuns
