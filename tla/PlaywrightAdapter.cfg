SPECIFICATION AdapterSpec
CONSTANTS
  MaxPages = 3
  Contents <- ModelContents
  Outside <- ModelOutside
  ElementsOf <- ModelElements
  AllowedKinds <- ModelAllowed
  Setups <- ModelSetups
  TopologyCap = 3
  MaxPolls = 3
INVARIANT AdapterInv
 
 
CHECK_DEADLOCK FALSE
