\* Up to as many answers are lost in a row as there are retries.
SPECIFICATION FairSpec
CONSTANTS
  Asserted <- MCAsserted
  Reconfigured <- MCReconfigured
  MAX_RETRY_AT = 3
INVARIANTS
  TypeOK
  OkIsConfigured
  FailsForAReason
PROPERTIES
  InitEnds
CHECK_DEADLOCK FALSE
