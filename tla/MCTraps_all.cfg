\* After FaultHalts the machine stands still.
CHECK_DEADLOCK FALSE
SPECIFICATION Spec
CONSTANTS
  Wrapped <- AllWrappers
  Faults <- TwoFaults
INVARIANT TypeOK
INVARIANT ArgumentsArrive
INVARIANT CallPreserves
INVARIANT ProgramsInterruptible
PROPERTY InterruptsInvisible
