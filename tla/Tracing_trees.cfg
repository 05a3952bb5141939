SPECIFICATION Spec
CONSTANTS
  t1 = t1
  t2 = t2
  addr = addr
  Tracers = {t1, t2}
  Targets = {addr}
  OperationNames <- MCOperationNames
  IgnoreSuffixes <- MCIgnoreSuffixes
  MaxContexts = 2
  MaxSpans = 2
SYMMETRY TracerSymmetry
INVARIANTS
  TraceIsTree
  SegmentIsTree
  ReportedRefsResolve
  SkipModeHonoured
CHECK_DEADLOCK FALSE
