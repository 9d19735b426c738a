SPECIFICATION MCSpec
CONSTANTS
  TaskIds = {"p","r"}
  NoTask <- EmptyId
  Execs = {"e","f"}
  Plan <- PairPlan
  Gated = {}
  Yields <- NoYields
  MayFail = {}
  HasTimeout = {}
  Answers = {"denied"}
  Foreign = {}
  MaxRestarts = 1
PROPERTIES
  ImplementsContract
CHECK_DEADLOCK FALSE
