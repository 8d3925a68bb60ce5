SPECIFICATION Spec
CONSTANTS
  MaxLines = 5
INVARIANTS
  StatusIsLastCause
CHECK_DEADLOCK FALSE
