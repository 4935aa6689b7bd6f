CONSTANTS
  Requests = {q1, q2, q3}
  Symbols = {"A", "B"}
  Forms <- MCForms
  Markets <- MCMarkets
  FirstMarket <- Calm
  Lot = 10
  MaxEvents = 1
  Followers = {q3}
SPECIFICATION ScheduleSpec
SYMMETRY Same
CHECK_DEADLOCK FALSE
INVARIANTS
  NoSecondOrder
  ReferencesCover
PROPERTIES
  SoldFromHolding
