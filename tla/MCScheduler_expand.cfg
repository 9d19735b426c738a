SPECIFICATION Spec
CONSTANTS
  TaskIds = {"p", "r", "s1", "s2", "x"}
  NoTask <- EmptyId
  Plans <- ExpandPlans
  MaxConcurrency = 2
  NotifyCap = 1
  RequiresApproval = {"x"}
  HasTimeout = {"s2"}
  Interactive = FALSE
  Answers <- AllAnswers
  MayFail = {"p", "s1", "s2"}
  Yields <- ExpandYields
  Expansions <- ExpandCalls
  CtxEnds = {}
  Spellings <- MCSpellings
  Paths <- MCPaths
  Clean <- MCClean
  TargetPaths <- NoPaths
INVARIANTS
  DispatchedAfterDeps
  SubtasksFirst
  GraphStaysValid
PROPERTIES
  CompletedMeansAll
