SPECIFICATION Spec
CONSTANTS
  MOUSE_BUF_SIZE = 2
  START_Y = 240
  MAX_Y = 300
  Bits = 8
  Movements <- Down
  Machines <- Polling
  MAX_PACKETS = 3
  MAX_STARTS = 0
INVARIANT StoredInBounds
CHECK_DEADLOCK FALSE
