------------------------ MODULE MCSecurityExecution ------------------------
(***************************************************************************)
(* A small instance: two workers, three participants and a budget that a   *)
(* race and one more request use up.  The candidates cover every kind and  *)
(* every way to be refused.                                                *)
(***************************************************************************)
EXTENDS SecurityExecution

Good(k) == [kind |-> k, local |-> TRUE, scoped |-> TRUE, permitted |-> TRUE]
MCCandidate ==
    {Good("none"), Good("single"), Good("race"),
     [Good("single") EXCEPT !.local = FALSE],
     [Good("none") EXCEPT !.scoped = FALSE],
     [Good("race") EXCEPT !.permitted = FALSE]}
=============================================================================
