SPECIFICATION FairSpec
CONSTANTS
  y1 = y1
  y2 = y2
  Symbols = {y1}
  MaxVersion = 1
  MaxChanges = 0
CHECK_DEADLOCK FALSE
PROPERTIES
  LiveModeScrapes
