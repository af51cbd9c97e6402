SPECIFICATION FairSpec
CONSTANTS
  Last = 1
  Retryables <- Inputs
  MaxFailures <- Failing
  Mortal = {1}
INVARIANTS TypeOK KernelNeedsGate
PROPERTIES WokenOpens FailedReopens
