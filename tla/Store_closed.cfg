SPECIFICATION Spec
CONSTANTS
  Callers = {c1}
  Closers = {k1}
  NoCaller = NoCaller
  QueueCap = 2
INVARIANTS
  ClosedIsAnError
CHECK_DEADLOCK FALSE
