SPECIFICATION FairSpec
CONSTANTS
  Kinds = {packets, frames}
  QueueSize = 1
  ErrQueueSize = 3
  IsSource = TRUE
  InputFails = FALSE
  CloseFails = TRUE
  SharedContext = FALSE
  Closers = {serving}
  ServeCloser = serving
INVARIANTS NoSendOnClosed
PROPERTIES ServeReturns EndsAtEOF
CHECK_DEADLOCK FALSE
