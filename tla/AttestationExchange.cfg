CONSTANTS
  Requests = {shot, trace}
  Fickle = {shot}
  Controls = {"stop", "garbled"}
  MaxFaults = 1
  MaxControls = 1
  None = None
SPECIFICATION Spec
INVARIANT ExchangeInv
PROPERTY NothingAdoptedLate
PROPERTY HandoffEnds
CHECK_DEADLOCK FALSE
