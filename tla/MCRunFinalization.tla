-------------------------- MODULE MCRunFinalization --------------------------
(* Configurations that use every feature, alone and together.  What becomes  *)
(* of the directories that runs leave is in MCAcceptance, whose assumptions  *)
(* TLC evaluates before this run.                                            *)
EXTENDS RunFinalization, MCAcceptance

MCConfigs ==
  {c \in Config : /\ c.attested => c.video # "off"
                  /\ c.llm <=> ~c.mutates
                  /\ c.llm => c.dom
                  /\ c.har <=> c.mutates}
=============================================================================
