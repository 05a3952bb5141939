SPECIFICATION SamplesSpec
CONSTANTS
  caller = caller
  server = server
  addr = addr
  Caller = caller
  Server = server
  Tracers = {caller, server}
  Target = addr
  Targets = {addr}
  Op1 <- MCOp1
  Op2 <- MCOp2
  Op3 <- MCOp3
  OperationNames <- MCOperationNames
  IgnoreSuffixes = {}
  MaxContexts = 4
  MaxSpans = 2
  RefuseAbove = 0
  Room = 2
  MaxPings = 2
  MaxStrangers = 1
INVARIANTS
  CollectedBelongsToPing
  CollectedOnce
  NothingUnreported
PROPERTIES
  PingsEnd
CHECK_DEADLOCK FALSE
