SPECIFICATION FairSpec
CONSTANTS
  MAX_PROCESSES = 6
  MAX_QUEUED_PROCESSES = 2
  USER_STACK_BASE <- UserStackBase
  USER_STACK_SIZE <- UserStackSize
  KERNEL_INT_STACK_BASE <- KernelStackBase
  KERNEL_INT_STACK_SIZE <- KernelStackSize
  BOOT_ESP0 <- BootEsp0
  ORBIT_BASE <- OrbitAfterThree
  PCB_ROOM = 4
  EntryPoints <- OrbitEntry
  Syscalls = {"create", "yield", "poll", "exit"}
  MouseActive = TRUE
INVARIANT TypeOK
INVARIANT RingAgrees
INVARIANT EveryPidAccounted
INVARIANT StartedInOrder
INVARIANT StackTopsUnique
INVARIANT RunsOnItsStacks
INVARIANT FirstStacksClearOfOrbit
PROPERTY ImplementsFifo
PROPERTY TimerServes
CHECK_DEADLOCK FALSE
