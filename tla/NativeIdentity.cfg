SPECIFICATION JournalSpec
CONSTANTS
  Policy <- MCPolicy
  Observations <- MCObservations
  MaxJournals = 2
  MaxOperations = 2
  MaxFailures = 1
 
 
PROPERTY EveryCallReturns
CHECK_DEADLOCK FALSE
