SPECIFICATION FairSpec
CONSTANTS
  o1 = o1
  o2 = o2
  Orders = {o1}
  RuleBased = {}
  Sells = {o1}
  CapitalProtection = {o1}
  Pair <- OnePair
  MaxQty = 2
  MaxAttempts = 3
  MaxPlaced = 8
  NoRow = NoRow
  NoOrder = NoOrder
  NoEdit = NoEdit
INVARIANTS
  NoOverSubmission
  HistoryOnce
PROPERTIES
  ClaimIsExclusive
  SubmissionResolves
  ImplementsLifecycle
