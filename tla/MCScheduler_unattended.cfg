SPECIFICATION UnattendedSpec
CONSTANTS
  TaskIds = {"a", "b", "g", "h"}
  NoTask <- EmptyId
  Plans <- GatePlans
  MaxConcurrency = 2
  NotifyCap = 1
  RequiresApproval = {"g", "h"}
  HasTimeout = {}
  Interactive = TRUE
  Answers <- AllAnswers
  MayFail = {}
  Yields <- NoYields
  Expansions = {}
  CtxEnds = {}
  Spellings <- MCSpellings
  Paths <- MCPaths
  Clean <- MCClean
  TargetPaths <- GatePaths
PROPERTIES
  ReadyTasksRun
