SPECIFICATION FairSpec
CONSTANTS
  TOTAL_PAGES = 8
  RESERVED_PAGES = 1
  START_PAGES = 1
  PAGE_SIZE <- UnitsPerPage
  PCB_SIZE = 2
  HEAP_END = 15
  MAX_CREATIONS = 5
  MAX_STARTS = 3
INVARIANT TypeOK
INVARIANT HandedOutOnce
INVARIANT CountTracksBitmap
INVARIANT HeapClearOfPrograms
INVARIANT PcbsBacked
PROPERTY CallEnds
