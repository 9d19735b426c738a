SPECIFICATION MCSpec
CONSTANTS
  TaskIds = {"p","r","s"}
  NoTask <- EmptyId
  Execs = {"e"}
  Plan <- PairPlan
  Gated = {}
  Yields <- SubtaskYields
  MayFail = {}
  HasTimeout = {}
  Answers = {"denied"}
  Foreign = {}
  MaxRestarts = 1
INVARIANTS
  SubtasksFirst
CHECK_DEADLOCK FALSE
