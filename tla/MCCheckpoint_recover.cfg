SPECIFICATION MCFairSpec
CONSTANTS
  TaskIds = {"p","q","r","s"}
  NoTask <- EmptyId
  Execs = {"e"}
  Plan <- PlannedPlan
  Gated = {"r"}
  Yields <- SubtaskYields
  MayFail = {"q"}
  HasTimeout = {"p"}
  Answers = {"approved", "denied"}
  Foreign = {}
  MaxRestarts = 1
PROPERTIES
  Settles
CHECK_DEADLOCK FALSE
