SPECIFICATION Spec
CONSTANTS
  Tasks = {t1}
  Watchers = {}
  BufferSize = 4
  MayAbort = FALSE
INVARIANTS
  AllIsPrinted
CHECK_DEADLOCK FALSE
