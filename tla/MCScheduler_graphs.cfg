SPECIFICATION StuckHandlersSpec
CONSTANTS
  TaskIds = {"a", "b", "c"}
  NoTask <- EmptyId
  Plans <- GraphPlans
  MaxConcurrency = 2
  NotifyCap = 1
  RequiresApproval = {"c"}
  HasTimeout = {"a"}
  Interactive = TRUE
  Answers <- AllAnswers
  MayFail = {"a", "b", "c"}
  Yields <- NoYields
  Expansions = {}
  CtxEnds = {"cancelled", "deadline"}
  Spellings <- MCSpellings
  Paths <- MCPaths
  Clean <- MCClean
  TargetPaths <- OverlappingPaths
INVARIANTS
  WorkersBounded
  PathsExclusive
PROPERTIES
  ReturnsSettled
  ImplementsLocks
  ImplementsContract
  CancelReturns
