SPECIFICATION FairBatch
CONSTANTS
  h1 = h1
  h2 = h2
  r1 = r1
  r2 = r2
  Requests <- TwoRequests
  PoolHandles <- TwoHandles
  MaxRetries = 2
  MaxRedirects = 0
  NoHandle = NoHandle
  Nobody = Nobody
INVARIANTS
  HandlesConserved
  OwnOptions
  ResultExplained
  BatchOutcome
  NoRefusalWithinPool
PROPERTIES
  NoWriteAfterReturn
  BatchReturns
\* The batch returns and every attempt is settled at last.
CHECK_DEADLOCK FALSE
