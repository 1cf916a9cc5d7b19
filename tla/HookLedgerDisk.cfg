CONSTANTS
  Hook = {h1, h2}
  Repairer = {r1}
  NoProc = NoProc
  MaxRecords = 3
  MaxFiles = 2
  MaxEdits = 1
SPECIFICATION DiskSpec
SYMMETRY ProcSymmetry
PROPERTIES
  AppendDurable
