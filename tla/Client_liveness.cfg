SPECIFICATION FairSpec
CONSTANTS
  r1 = r1
  r2 = r2
  Reporters = {r1, r2}
  EventLoop = EventLoop
  MaxPendingMessagesSize = 1
  EarlyStartEvent = FALSE
  MaxMessages = 4
  MaxFailures = 3
INVARIANTS
  OpsOnActiveStream
PROPERTIES
  DrainContinues
  ResetTerminates
