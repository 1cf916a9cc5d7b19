CONSTANTS
  Absent = Absent
  Broken = Broken
  Partial = Partial
  Proc = {p1, p2}
  InitialFile <- AnyFile
  Name = {n1, n2}
  MaxEdits = 1
SPECIFICATION Spec
SYMMETRY ProcSymmetry
INVARIANTS
  InstallInv
  InstallSettles
PROPERTIES
  ForeignKept
  RegisteredCanRecord
  ReplacedIsBackedUp
CHECK_DEADLOCK FALSE
