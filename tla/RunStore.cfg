CONSTANTS
  Run = {r1, r2, r3}
  Initer = {i1}
  NoRun = NoRun
  MaxEdits = 2
SPECIFICATION Spec
SYMMETRY RunSymmetry
INVARIANTS
  StoreInv
  SerialVerifies
  TamperEvident
  SavedIsListed
PROPERTIES
  ImplementsLog
CHECK_DEADLOCK FALSE
