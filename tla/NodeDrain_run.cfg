SPECIFICATION FairSpec
CONSTANTS
  MaxObjects = 1
  QueueSize = 1
  MaxHeld = 1
  MayStop = TRUE
  Waiters = {w1}
INVARIANTS TypeOK SamplesAddUp
PROPERTIES BalanceMeansEmpty WaitersReturn
CHECK_DEADLOCK FALSE
