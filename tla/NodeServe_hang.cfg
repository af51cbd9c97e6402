SPECIFICATION FairSpec
CONSTANTS
  Kinds = {packets}
  QueueSize = 1
  ErrQueueSize = 1
  IsSource = TRUE
  InputFails = FALSE
  CloseFails = FALSE
  SharedContext = TRUE
  Closers = {serving}
  ServeCloser = serving
PROPERTIES ServeReturns
CHECK_DEADLOCK FALSE
