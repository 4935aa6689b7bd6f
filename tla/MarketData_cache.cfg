SPECIFICATION FairSpec
CONSTANTS
  y1 = y1
  y2 = y2
  Symbols = {y1}
  MaxVersion = 2
  MaxChanges = 1
CHECK_DEADLOCK FALSE
INVARIANTS
  OneThread
PROPERTIES
  DisagreesOnlyByOverlap
  EmptyIsFilled
