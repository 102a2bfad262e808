\* The program stops when it has called malloc MAX_MALLOCS times and freed everything.
CHECK_DEADLOCK FALSE
SPECIFICATION FairSpec
CONSTANTS
  PAGE_SIZE = 64
  BLOCK_HEADER_SIZE = 12
  ALIGN_SIZE = 8
  Bits = 8
  Pages = {1, 2, 3}
  Sizes <- AskedSizes
  MAX_LIVE = 3
  MAX_MALLOCS = 4
 
INVARIANT ObjectsApart
PROPERTY MallocEnds
