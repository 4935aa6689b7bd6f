SPECIFICATION Spec
CONSTANTS
  Plans <- OncePlan
  Prices = {0, 94, 98, 101}
  Books <- MCBooks
  Holdings = {0, 15, 40}
  Window = 3
  MaxScans = 4
CHECK_DEADLOCK FALSE
INVARIANTS
  OnceMeansOnce
