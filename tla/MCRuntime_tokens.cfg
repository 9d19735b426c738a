SPECIFICATION RuntimeSpec
CONSTANTS
  Callers = {c1, c2, c3}
  Closers = {k1, k2}
  NoCaller = NoCaller
  QueueCap = 2
  Tasks <- MCTasks
  DependsOn <- Diamond
  InputKeys <- Ins
  OutputKeys <- Outs
  SafePart <- Parts
  BoardCrashes = 2
  BoardFailures = 2
  Calls = {1, 2}
  Runs = {1}
  Execs = {1, 2}
  Clients = {1, 2}
  ExecOf <- Each
  RunOf <- OneRun
  ClientOf <- Each
  MaxRetries = 2
  InitialBackoff = 4
  MaxBackoff = 20
  Width = 7
  MaxToolTurns = 3
  MaxReflectionAttempts = 2
  MaxCalls = 2
  Main = "main"
  Children = {"child1", "child2"}
  Silence = 3
  ActivityCap = 2
  MayEscape = TRUE
  Writes = {"w1", "w2"}
  Reads = {"r1", "r2"}
  Old = "old"
  Pieces = 2
  MaxFailures = 2
  MaxCrashes = 1
SYMMETRY Symmetry
INVARIANTS
  RunTokensRecorded
CHECK_DEADLOCK FALSE
