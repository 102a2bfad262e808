\* No program makes more than MAX_REQUESTS calls once orbit is up; then it may stop.
SPECIFICATION TextSpec
CONSTANTS
  W = 6
  H = 4
  CHAR_W = 2
  CHAR_H = 2
  Glyph <- MCGlyph
  HALF = 16
  BUTTON_W = 3
  BUTTON_H = 2
  SHADOW = 1
  LINE = 1
  Buttons <- MCButtons
  Box <- MCBox
  Icon <- MCIcon
  MAX_BMP = 2
  Requests <- MCRequests
  Heights <- MCHeights
  Colors = {"grey", "junk"}
  MAX_REQUESTS = 3
  VGA_WIDTH = 3
  VGA_HEIGHT = 2
  INT_MAX = 127
  FAULTY = {"client", "astray"}
  MAX_FAULTS = 2
INVARIANTS
  TextTypeOK
  Painted
  DesktopShown
  TextShown
CHECK_DEADLOCK FALSE
