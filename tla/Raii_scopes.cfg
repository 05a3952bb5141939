SPECIFICATION RaiiSpec
CONSTANTS
  t1 = t1
  t2 = t2
  addr = addr
  Tracers = {t1, t2}
  Targets = {addr}
  OperationNames <- MCOneName
  IgnoreSuffixes = {}
  MaxContexts = 3
  MaxSpans = 2
SYMMETRY TracerSymmetry
INVARIANTS
  TraceIsTree
  NoUseAfterReport
  ReadyWhenClosed
CHECK_DEADLOCK FALSE
