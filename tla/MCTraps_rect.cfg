CHECK_DEADLOCK FALSE
SPECIFICATION Spec
CONSTANTS
  Wrapped = {"fill_rect", "draw_rect"}
  Faults = {}
INVARIANT DrawnAsAsked
