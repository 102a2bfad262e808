SPECIFICATION Spec
CONSTANTS
  MAX_PROCESSES = 64
  MAX_QUEUED_PROCESSES = 16
  USER_STACK_BASE <- UserStackBase
  USER_STACK_SIZE <- UserStackSize
  KERNEL_INT_STACK_BASE <- KernelStackBase
  KERNEL_INT_STACK_SIZE <- KernelStackSize
  BOOT_ESP0 <- BootEsp0
  ORBIT_BASE <- OrbitBase
  PCB_ROOM = 63
  EntryPoints <- OrbitEntry
  Syscalls = {"create"}
  MouseActive = FALSE
INVARIANT KernelStacksClearOfOrbit
