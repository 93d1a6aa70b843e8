------------------------- MODULE MCReportGeneration -------------------------
(* Model-checking instance of ReportGeneration. *)
EXTENDS ReportGeneration

CONSTANTS g1, g2, out

\* Both generators are asked for the same output directory.
MCOutput == [g \in Generators |-> out]
=============================================================================
