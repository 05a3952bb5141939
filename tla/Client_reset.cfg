SPECIFICATION Spec
CONSTANTS
  r1 = r1
  Reporters = {r1}
  EventLoop = EventLoop
  MaxPendingMessagesSize = 1
  EarlyStartEvent = FALSE
  MaxMessages = 2
  MaxFailures = 1
INVARIANTS
  NoOperationAfterShutdown
