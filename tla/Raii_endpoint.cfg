SPECIFICATION RaiiSpec
CONSTANTS
  t1 = t1
  t2 = t2
  addr = addr
  Tracers = {t1, t2}
  Targets = {addr}
  OperationNames <- MCOperationNames
  IgnoreSuffixes = {}
  MaxContexts = 1
  MaxSpans = 2
SYMMETRY TracerSymmetry
INVARIANTS
  EndpointIsReported
CHECK_DEADLOCK FALSE
