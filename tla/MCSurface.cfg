SPECIFICATION SurfaceSpec
CONSTANTS
  Callers = {c1, c2}
  Runs = {r1, r2}
  Nested = {"Facts", "Resume", "Approve", "Close"}
  OwnsStore = TRUE
  Sessions = {"s1"}
  Caps = {"any", "push"}
  Wildcards = {"any"}
  Enders = {"e1", "e2"}
  EnderOf <- MCEnderOf
  Checkers = {"k1", "k2"}
  MaxGrants = 2
  MaxChecks = 3
  MaxGiveUps = 1
  Tasks = {"t1", "t2"}
  Watchers = {"w1"}
  BufferSize = 2
  MayAbort = TRUE
  Gated = {"t1", "t2", "t3"}
  GatePlans <- MCGatePlans
  MaxLines = 3
  Methods = {"ping", "tools/call", "notifications/initialized", "unknown"}
  TaskIds <- MCTaskIds
  NoTask <- MCNoTask
  FlatPlans <- MCPlans
  Garbage = Garbage
  MaxReflectionAttempts = 2
  Ranks = {1, 2, 3, 4}
  Inputs <- MCInputs
  Candidates = 4
  MaxEdits = 2
  MaxResumes = 2
  MemorySessions = {"s1", "s2"}
  Topics <- MCTopics
  FactContents <- MCContents
  FactIds <- MCIds
  CleanTopic <- MCCleanTopic
  ToLower <- MCToLower
  FactId <- MCFactId
  TaskOutputs <- MCTaskOutputs
  Manual <- MCManual
  MaxSaveFailures = 2
  MaxClock = 5
  Absent = Absent
SYMMETRY Symmetry
INVARIANTS
  StoreIsOpen
  ApproveIsAlone
  GrantsAreKept
  EventsAreInOrder
  ApprovedByItsAnswer
  OneResponseEach
  PlansAreSound
  RulesAreStable
PROPERTIES
  ReturnedIsStored
CHECK_DEADLOCK FALSE
