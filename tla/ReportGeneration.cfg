\* Two generators for one output, a run that ends, a session that goes on.
SPECIFICATION FairSpec
CONSTANTS
  g1 = g1  g2 = g2  out = out
  None = None
  Generators = {g1, g2}
  Outputs = {out}
  Output <- MCOutput
  Unlucky = {g1}
  Solitary = {g2}
  MaxEvents = 2
INVARIANT IInv
INVARIANT ReceiptsAreTrue
PROPERTY LedgerSpec
PROPERTY EveryReportEnds
CHECK_DEADLOCK FALSE
