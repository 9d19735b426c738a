SPECIFICATION FairSpec
CONSTANTS
  Callers = {c1, c2}
  Runs = {r1}
  Nested = {"Facts"}
  OwnsStore = TRUE
PROPERTIES
  CallsReturn
CHECK_DEADLOCK FALSE
