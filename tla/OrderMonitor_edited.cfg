SPECIFICATION Spec
CONSTANTS
  o1 = o1
  o2 = o2
  Orders = {o1}
  RuleBased = {}
  Sells = {}
  CapitalProtection = {}
  Pair <- OnePair
  MaxQty = 2
  MaxAttempts = 1
  MaxPlaced = 4
  NoRow = NoRow
  NoOrder = NoOrder
  NoEdit = NoEdit
PROPERTIES
  ExecutedIsNotEdited
