SPECIFICATION FairSpec
CONSTANTS
  Kinds = {packets}
  QueueSize = 1
  ErrQueueSize = 1
  IsSource = FALSE
  InputFails = TRUE
  CloseFails = FALSE
  SharedContext = TRUE
  Closers = {serving, user}
  ServeCloser = serving
INVARIANTS TypeOK NothingLost
PROPERTIES CloseReturns
CHECK_DEADLOCK FALSE
