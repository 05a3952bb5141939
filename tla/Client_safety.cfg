SPECIFICATION Spec
CONSTANTS
  r1 = r1
  r2 = r2
  r3 = r3
  Reporters = {r1, r2, r3}
  EventLoop = EventLoop
  MaxPendingMessagesSize = 1
  EarlyStartEvent = TRUE
  MaxMessages = 5
  MaxFailures = 3
SYMMETRY ReporterSymmetry
INVARIANTS
  TypeOK
  OneStreamUser
  TokenNotLost
  BufferBound
  WireInOrder
  Accounting
  StreamForWrite
PROPERTIES
  ImplementsReporter
