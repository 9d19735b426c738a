SPECIFICATION MCSpec
CONSTANTS
  TaskIds = {"p","q","r","s"}
  NoTask <- EmptyId
  Execs = {"e"}
  Plan <- YieldPlan
  Gated = {"r"}
  Yields <- CycleYields
  MayFail = {"q"}
  HasTimeout = {"p"}
  Answers = {"approved", "denied", "error"}
  Foreign = {}
  MaxRestarts = 2
INVARIANTS
  GateHolds
  PausesLoseNothing
PROPERTIES
  ImplementsContract
CHECK_DEADLOCK FALSE
