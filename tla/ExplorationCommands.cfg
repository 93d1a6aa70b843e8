SPECIFICATION Spec
CONSTANTS
  r1 = r1  r2 = r2  find1 = find1
  None = None
  Runners = {r1, r2}
  Creator = r1
  Commands = {"pause", "kill", "bookmark"}
  FindingIds = {find1}
  Probed = TRUE
  MaxActions = 2
  MaxRuns = 3
  MaxRequests = 2
  MaxUpdates = 1
  MaxFaults = 1
INVARIANT CommandsInv
INVARIANT PausedIsResumable
INVARIANT NoFalseDivergence
INVARIANT RunningIsAttended
PROPERTY StopHonoured
CHECK_DEADLOCK FALSE
