SPECIFICATION GuidedSpec
CONSTANTS
  None = None
  s1 = s1
  s2 = s2
  s3 = s3
  a = a
  b = b
  Start = s1
  Targets <- MCTargets
  Settings <- MCSettings
  Replayed <- MCReplayed
  LeadCap = 2
  ActionCap = 9
  RevisitBudget = 2
  MaxBacktracks = 1
INVARIANT GraphInv
INVARIANT InvestigationInv
INVARIANT EveryActionIsTried
INVARIANT ShrunkIsMinimal
CHECK_DEADLOCK FALSE
