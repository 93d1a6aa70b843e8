-------------------------------- MODULE Oracles --------------------------------
(***************************************************************************)
(* The built-in oracles of an adaptive run (src/adaptive/oracles.ts and    *)
(* oracle-registry.ts): how an action's contract is checked against what   *)
(* was observed before and after it, and what the generic oracle says.     *)
(*                                                                         *)
(* An observation is a record: whether it is complete, and the fact each   *)
(* supported key of a predicate would be compared with.  A predicate is a  *)
(* function from keys to the facts expected; the empty one is absent.      *)
(***************************************************************************)

Absent(predicate) == DOMAIN predicate = {}

\* What of a predicate does not match, and what cannot be checked.
CheckPredicate(predicate, observation) ==
  LET keys == DOMAIN predicate
      known == DOMAIN observation.facts
  IN IF ~observation.complete
     THEN [mismatches |-> {}, unsupported |-> {"observation"}]
     ELSE [mismatches  |-> {k \in keys \cap known :
                              observation.facts[k] # predicate[k]},
           unsupported |-> keys \ known]

Matched(check) == check.unsupported = {} /\ check.mismatches = {}

\* A contract that cannot be checked is inconclusive, never a failure.
ProductResult(check) ==
  IF check.unsupported # {} THEN "inconclusive"
  ELSE IF check.mismatches # {} THEN "fail" ELSE "pass"

\* An action whose guard does not match, or cannot be checked, is not allowed.
GuardAllows(contract, observation) ==
  \/ Absent(contract.enabledWhen)
  \/ Matched(CheckPredicate(contract.enabledWhen, observation))

\* The postconditions after the action, the invariants before and after it.
Postconditions(contract, before, after, observed) ==
  LET pre == CheckPredicate(contract.invariants, before)
      post == CheckPredicate(contract.invariants, after)
      both == [mismatches  |-> pre.mismatches \cup post.mismatches,
               unsupported |-> pre.unsupported \cup post.unsupported]
  IN IF \/ ~observed
        \/ Absent(contract.ensures) /\ Absent(contract.invariants)
     THEN {"inconclusive"}
     ELSE (IF Absent(contract.ensures) THEN {}
           ELSE {ProductResult(CheckPredicate(contract.ensures, after))})
          \cup (IF Absent(contract.invariants) THEN {} ELSE {ProductResult(both)})

\* `alarm`: a new failure event, a lost authentication, or insecure evidence.
GenericOracle(status, alarm) ==
  IF alarm \/ status \notin {"executed", "denied"} THEN "fail"
  ELSE IF status = "denied" THEN "inconclusive" ELSE "pass"

\* evaluateBuiltInOracles
BuiltIn(contract, before, after, observed, status, alarm) ==
  [generic |-> GenericOracle(status, alarm),
   product |-> Postconditions(contract, before, after, observed)]
=============================================================================
