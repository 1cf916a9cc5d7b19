CONSTANTS
  Decision <- AnyDecision
  None = None
SPECIFICATION Spec
INVARIANTS
  FailClosed
  RecordingIsNeutral
  AnswerIsRecorded
CHECK_DEADLOCK FALSE
