CONSTANTS
  Decision <- AnyDecision
  None = None
SPECIFICATION Spec
INVARIANTS
  LostOutputBlocks
CHECK_DEADLOCK FALSE
