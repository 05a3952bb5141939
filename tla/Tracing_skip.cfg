SPECIFICATION Spec
CONSTANTS
  t1 = t1
  t2 = t2
  addr = addr
  Tracers = {t1, t2}
  Targets = {addr}
  OperationNames <- MCOperationNames
  IgnoreSuffixes <- MCIgnoreSuffixes
  MaxContexts = 1
  MaxSpans = 1
SYMMETRY TracerSymmetry
INVARIANTS
  SkipCoversSegment
CHECK_DEADLOCK FALSE
