SPECIFICATION FairSpec
CONSTANTS
  WIDTH = 3
  HEIGHT = 3
  CUR_W = 2
  CUR_H = 2
  CursorPattern <- SmallPattern
  IDLE_POLLS = 2
  REACH = 1
  MAX_PACKETS = 3
  MAX_STARTS = 1
INVARIANT CursorOverDesktop
PROPERTY CursorCatchesUp
