SPECIFICATION Spec
CONSTANTS
  TaskIds = {"p", "r", "s1"}
  NoTask <- EmptyId
  Plans <- StatusPlans
  MaxConcurrency = 2
  NotifyCap = 1
  RequiresApproval = {}
  HasTimeout = {}
  Interactive = TRUE
  Answers <- AllAnswers
  MayFail = {}
  Yields <- StatusYields
  Expansions = {}
  CtxEnds = {}
  Spellings <- MCSpellings
  Paths <- MCPaths
  Clean <- MCClean
  TargetPaths <- NoPaths
PROPERTIES
  ReturnsSettled
