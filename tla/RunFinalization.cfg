SPECIFICATION Spec
CONSTANTS
  Configs <- MCConfigs
  Workers = 2
  MaxActions = 2
  MaxRunFiles = 2
  MaxFaults = 2
  MaxRetries = 1
  MaxPieces = 1
  MaxRewrites = 1
  NotHashed = NotHashed
INVARIANT FinalizationInv
INVARIANT ModelIsVerified
 
