CONSTANTS
  Hook = {h1, h2}
  Repairer = {r1, r2}
  NoProc = NoProc
  MaxRecords = 4
  MaxFiles = 2
  MaxEdits = 2
SPECIFICATION Spec
SYMMETRY ProcSymmetry
INVARIANTS
  LedgerInv
  RefusedIsRepairable
PROPERTIES
  RepairHeals
  ImplementsLog
