SPECIFICATION FairSpec
CONSTANTS
  MOUSE_BUF_SIZE = 2
  START_Y = 240
  MAX_Y = 300
  Bits = 8
  Movements <- Down
  Machines <- Several
  MAX_PACKETS = 3
  MAX_STARTS = 1
INVARIANT ReportedInOrder
INVARIANT WholeUndisturbed
INVARIANT OnScreen
PROPERTY BytesTaken
CHECK_DEADLOCK FALSE
