SPECIFICATION ScanSpec
CONSTANTS
  Plans <- MCPlans
  Prices = {0, 94, 98, 101}
  Books <- MCBooks
  Holdings = {0, 15, 40}
  Window = 3
  MaxScans = 4
  Settings <- MCSettings
  Quotes <- MCQuotes
  Profiles <- MCProfiles
  MaxStrategyScans = 5
CHECK_DEADLOCK FALSE
INVARIANTS
  PurchasesLimited
  WholeLots
  SalesWithinQuantity
PROPERTIES
  OnePerCrossing
  ConfirmedBreach
