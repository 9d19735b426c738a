CONSTANTS
  Candidates = 4
  MaxEdits = 0
  MaxResumes = 0
SPECIFICATION Spec
CHECK_DEADLOCK FALSE
INVARIANTS
  BaselineIsLast
  FrozenForTheRun
