----------------------------- MODULE ReportLedger -----------------------------
(***************************************************************************)
(* What report generation promises its users, without files, locks or      *)
(* partial reads: each report shows its inputs as they were at one moment, *)
(* with the session between two updates, and a report, once published,     *)
(* is never replaced.                                                      *)
(***************************************************************************)
EXTENDS Naturals

CONSTANTS
  Generators,  \* the report commands
  Outputs,     \* the output directories
  None         \* no value

VARIABLES
  inputs,  \* the run is finalized; the events and the projection of the session
  taken,   \* the moment each generator has fixed
  shelf    \* the report in each output directory

Settled(i) == i.events = i.state

\* The inputs change by themselves.
Change ==
  /\ inputs' \in [run : BOOLEAN, events : Nat, state : Nat]
  /\ UNCHANGED <<taken, shelf>>

\* A generator fixes the moment its report will show.
Take(g) ==
  /\ taken[g] = None
  /\ taken' = [taken EXCEPT ![g] = inputs]
  /\ UNCHANGED <<inputs, shelf>>

\* A generator gives up.
Drop(g) ==
  /\ taken' = [taken EXCEPT ![g] = None]
  /\ UNCHANGED <<inputs, shelf>>

\* A generator puts the report of that moment where no report was, and is
\* done with it.
Publish(g, o) ==
  /\ taken[g] # None
  /\ Settled(taken[g])
  /\ shelf[o] = None
  /\ shelf' = [shelf EXCEPT ![o] = [by |-> g, what |-> taken[g]]]
  /\ taken' = [taken EXCEPT ![g] = None]
  /\ UNCHANGED inputs

Init ==
  /\ inputs \in [run : BOOLEAN, events : Nat, state : Nat]
  /\ taken = [g \in Generators |-> None]
  /\ shelf = [o \in Outputs |-> None]

Next ==
  \/ Change
  \/ \E g \in Generators : Take(g) \/ Drop(g) \/ \E o \in Outputs : Publish(g, o)

Spec == Init /\ [][Next]_<<inputs, taken, shelf>>
=============================================================================
