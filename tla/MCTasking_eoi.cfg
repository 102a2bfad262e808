SPECIFICATION Spec
CONSTANTS
  MAX_PROCESSES = 3
  MAX_QUEUED_PROCESSES = 2
  USER_STACK_BASE <- UserStackBase
  USER_STACK_SIZE <- UserStackSize
  KERNEL_INT_STACK_BASE <- KernelStackBase
  KERNEL_INT_STACK_SIZE <- KernelStackSize
  BOOT_ESP0 <- BootEsp0
  ORBIT_BASE <- OrbitBase
  PCB_ROOM = 3
  EntryPoints <- OrbitEntry
  Syscalls = {"create"}
  MouseActive = FALSE
INVARIANT EoiAfterEachInterrupt
