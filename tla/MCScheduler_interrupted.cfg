SPECIFICATION Spec
CONSTANTS
  TaskIds = {"a", "b", "c"}
  NoTask <- EmptyId
  Plans <- LockPlans
  MaxConcurrency = 2
  NotifyCap = 1
  RequiresApproval = {}
  HasTimeout = {}
  Interactive = TRUE
  Answers <- AllAnswers
  MayFail = {}
  Yields <- NoYields
  Expansions = {}
  CtxEnds = {"cancelled"}
  Spellings <- MCSpellings
  Paths <- MCPaths
  Clean <- MCClean
  TargetPaths <- NoPaths
PROPERTIES
  InterruptedIsNotCompleted
