SPECIFICATION Spec
CONSTANTS
  MaxToolTurns = 3
  MaxReflectionAttempts = 2
  MaxCalls = 2
INVARIANTS
  MisshapenIsRejected
  ReflectionIsUsedUp
CHECK_DEADLOCK FALSE
