CONSTANTS
  Requests = {q1, q2}
  Trades <- MCTrades
  PageRanges <- MCRanges
  HistoryStart = 1
  LastDay = 4
  WeekDays = 2
  YearDays = 2
  PageSize = 2
  MaxPages = 6
  RefreshDays = 1
  Styles = {"totals", "plain"}
  MaxFaults = 1
SPECIFICATION BookSpec
SYMMETRY Same
CHECK_DEADLOCK FALSE
INVARIANTS
  MarkedIsStored
  SettledTradesCounted
  LotsAreFifo
