SPECIFICATION MCSpec
CONSTANTS
  TaskIds = {"p","r","s"}
  NoTask <- EmptyId
  Execs = {"e"}
  Plan <- PairPlan
  Gated = {}
  Yields <- CycleYields
  MayFail = {}
  HasTimeout = {}
  Answers = {"denied"}
  Foreign = {}
  MaxRestarts = 1
INVARIANTS
  FrozenCanResume
CHECK_DEADLOCK FALSE
