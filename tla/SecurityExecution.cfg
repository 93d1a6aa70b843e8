SPECIFICATION Spec
CONSTANTS
    Candidate <- MCCandidate
    Participants = 3
    MaxConcurrency = 2
    MaxRate = 4
    MaxCandidates = 4
INVARIANT SecurityInv
 
PROPERTY EveryExecutionReports
