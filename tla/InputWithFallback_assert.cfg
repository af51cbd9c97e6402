SPECIFICATION Spec
CONSTANTS
  Last = 2
  Retryables <- Inputs
  MaxFailures <- LastStays
  Mortal = {0, 1}
PROPERTIES SyncedBefore
