SPECIFICATION FairSpec
CONSTANTS
  TaskIds = {"a", "b", "g", "h"}
  NoTask <- EmptyId
  Plans <- GatePlans
  MaxConcurrency = 2
  NotifyCap = 1
  RequiresApproval = {"g", "h"}
  HasTimeout = {}
  Interactive = TRUE
  Answers <- AllAnswers
  MayFail = {"a"}
  Yields <- NoYields
  Expansions = {}
  CtxEnds = {}
  Spellings <- MCSpellings
  Paths <- MCPaths
  Clean <- MCClean
  TargetPaths <- GatePaths
PROPERTIES
  Termination
  WorkersEnd
  ReadyTasksRun
