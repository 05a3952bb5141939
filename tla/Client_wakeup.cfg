SPECIFICATION Spec
CONSTANTS
  r1 = r1
  r2 = r2
  Reporters = {r1, r2}
  EventLoop = EventLoop
  MaxPendingMessagesSize = 1
  EarlyStartEvent = FALSE
  MaxMessages = 3
  MaxFailures = 1
SYMMETRY ReporterSymmetry
INVARIANTS
  NoStrandedMessage
