\* A fresh and a resumed run of up to three actions.
SPECIFICATION FairSpec
CONSTANTS
  s1 = s1  s2 = s2  a = a  b = b
  None = None
  States = {s1, s2}
  StartState = s1
  Actions = {a, b}
  Offered <- MCOffered
  Recordings <- MCRecordings
  RestoredBudget <- MCBudgets
  Commands = {"pause", "kill", "bookmark", "malformed"}
  MaxActions = 3
  DurationMs = 2
  Window = 2
  PerWindow = 2
  RevisitBudget = 1
  MaxBacktracks = 2
  StartTime = 1
  MaxTime = 3
  MaxRequests = 1
INVARIANT RunInv
INVARIANT VerdictIsTruthful
 
CHECK_DEADLOCK FALSE
