SPECIFICATION Spec
SYMMETRY FlowSymmetry
CONSTANTS
  f1 = f1
  f2 = f2
  Flows = {f1, f2}
  MaxPassword = 3
  Typed = {1}
  MaxFaults = 1
  NoFlow = NoFlow
INVARIANTS
  RecoverablePassword
  PendingHasTask
PROPERTIES
  RotatesOnce
