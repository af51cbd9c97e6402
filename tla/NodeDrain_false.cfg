SPECIFICATION Spec
CONSTANTS
  MaxObjects = 1
  QueueSize = 1
  MaxHeld = 0
  MayStop = FALSE
  Waiters = {w1}
PROPERTIES NeverFalselyDrained
