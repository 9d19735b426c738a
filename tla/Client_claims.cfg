SPECIFICATION Spec
CONSTANTS
  Callers = {c1, c2}
  Runs = {r1}
  Nested = {}
  OwnsStore = TRUE
INVARIANTS
  RunsAreHeard
  HandlersHaveStore
  ApproveHasTheRun
CHECK_DEADLOCK FALSE
