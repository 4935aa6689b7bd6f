SPECIFICATION Spec
CONSTANTS
  s1 = s1
  s2 = s2
  Sessions = {s1, s2}
  Prices = {104, 109, 113, 116}
  Change <- MCChange
  MaxOrders = 2
  StopPercent = 1400
  Attempts = 3
  Resume <- MCResume
  MaxMoves = 2
  MaxFaults = 1
INVARIANTS
  LimitKept
  OneOpenOrder
  OneUnlessCrowded
