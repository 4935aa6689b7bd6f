CONSTANTS
  Requests = {q1, q2}
  Symbols = {"A", "B"}
  Forms <- MCForms
  Markets <- MCMarkets
  FirstMarket <- Empty
  Lot = 10
  MaxEvents = 1
  Followers = {}
SYMMETRY Same
SPECIFICATION ScheduleSpec
CHECK_DEADLOCK FALSE
PROPERTIES SellNeedsHolding
