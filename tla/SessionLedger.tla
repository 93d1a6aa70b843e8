---------------------------- MODULE SessionLedger ----------------------------
(***************************************************************************)
(* What a session directory promises its users, without locks, files or    *)
(* processes: an append-only ledger of events in which the lifecycle is    *)
(* legal, and a published view that is a prefix of it and only ever moves  *)
(* to the whole of it.                                                     *)
(***************************************************************************)
EXTENDS SessionEvents

CONSTANT Inputs  \* the events its users may submit, a subset of EventInput

VARIABLES
  ledger,     \* the accepted events
  published   \* how many of them session.json shows

\* The lifecycle status after the first n events.
StatusAfter(n) ==
  LastWritten([i \in DOMAIN ledger |-> ledger[i].status], n, "draft")

Init == ledger = <<>> /\ published = 0

\* An event is accepted if the lifecycle allows it and it contradicts no run
\* manifest registered before.
Accept(e) ==
  /\ TypeMatchesStatus(e)
  /\ e.status # None => TransitionAllowed(StatusAfter(Len(ledger)), e.status)
  /\ \A i \in DOMAIN ledger :
       ~ManifestConflict({ledger[i].payload.manifestRef} \ {None},
                         e.payload.manifestRef)
  /\ ledger' = Append(ledger, e)
  /\ UNCHANGED published

Publish ==
  /\ published' = Len(ledger)
  /\ UNCHANGED ledger

Next == Publish \/ \E e \in Inputs : Accept(e)

Spec == Init /\ [][Next]_<<ledger, published>>
=============================================================================
