SPECIFICATION MCSpec
CONSTANTS
  TaskIds = {"p","r"}
  NoTask <- EmptyId
  Execs = {"e"}
  Plan <- PairPlan
  Gated = {}
  Yields <- NoYields
  MayFail = {}
  HasTimeout = {}
  Answers = {"denied"}
  Foreign = {}
  MaxRestarts = 1
INVARIANTS
  InputsRestored
CHECK_DEADLOCK FALSE
