------------------------ MODULE MCExplorationCommands ------------------------
(* Model-checking instances of ExplorationCommands. *)
EXTENDS ExplorationCommands

CONSTANTS r1, r2, find1
=============================================================================
