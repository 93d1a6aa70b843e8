---------------------------- MODULE MCAdaptiveRun ----------------------------
(* Model-checking instances of AdaptiveRun. *)
EXTENDS AdaptiveRun

CONSTANTS s1, s2, a, b

\* The first state offers both actions, the second only one.
MCOffered == [s \in {s1, s2} |-> IF s = s1 THEN {a, b} ELSE {a}]

\* A fresh run, and the resume of a session paused after one action.
MCRecordings ==
  {[actions |-> <<>>, expected |-> None], [actions |-> <<a>>, expected |-> s2]}

\* An empty budget, one with an attempt of just before, and spent ones, of
\* which one leaves the window while the run goes on.
MCBudgets == {<<>>, <<1>>, <<0, 1>>, <<1, 1>>}
=============================================================================
