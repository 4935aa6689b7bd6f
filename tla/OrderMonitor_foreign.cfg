SPECIFICATION Spec
CONSTANTS
  o1 = o1
  o2 = o2
  Orders = {o1, o2}
  RuleBased = {o2}
  Sells = {o1}
  CapitalProtection = {o1}
  Pair <- OnePair
  MaxQty = 1
  MaxAttempts = 1
  MaxPlaced = 2
  NoRow = NoRow
  NoOrder = NoOrder
  NoEdit = NoEdit
PROPERTIES
  CancelsOwnSellOnly
