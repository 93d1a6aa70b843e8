---------------------- MODULE SecurityExecutionProofs ----------------------
(***************************************************************************)
(* Proofs about SecurityExecution, for every authorization record, any     *)
(* number of participants and workers, and any length of the run, and      *)
(* about the browser adapter of PlaywrightAdapter, for any number of pages *)
(* and of events, whatever the pages show and whatever the limits are.     *)
(***************************************************************************)
EXTENDS SecurityExecution, PlaywrightAdapter, FiniteSetTheorems, WellFoundedInduction, TLAPS

-----------------------------------------------------------------------------
(* The inductive invariant. *)

Statuses == {"executed", "timeout", "threw", "infrastructure_error"}
Places == {"out", "asking", "cleared", "sending"}

\* How many workers stand at one of the places ls.
Count(f, ls) == Cardinality({w \in Worker : f[w] \in ls})

Waiting == {"asking", "cleared"}
Sending == {"sending"}
Busy == {"asking", "cleared", "sending"}

\* A request of the execution under way has left, or may leave.
Sent == phase \in {"sending", "racing", "cleaning"}

Phases == {"collecting", "screening", "passive", "asking", "sending", "racing",
           "cleaning", "over"}
Reasons == {"no", "operator", "kill_switch_unavailable", "control",
            "race_participant_failure", "cleanup_failed"}
Verdicts == {"none", "denied", "executed", "timeout", "threw",
             "infrastructure_error", "action_failed"}

\* The type invariant in two parts: what is no number, and what is bounded.
ShapeOK ==
  /\ phase \in Phases /\ cand \in Candidate /\ valid \in BOOLEAN
  /\ killed \in Reasons /\ pc \in [Worker -> Places] /\ skipped \in BOOLEAN
  /\ verdict \in Verdicts /\ safe \subseteq Candidate /\ results \in Seq(Statuses)

NumbersOK ==
  /\ active \in 0..MaxConcurrency /\ started \in 0..MaxRate
  /\ next \in 0..Participants /\ Len(results) <= Participants
  /\ proposed \in 0..MaxCandidates /\ calls \in 0..MaxCandidates
  /\ dirty \subseteq 1..MaxCandidates

\* The counters are the requests that are out, and the budget has room for
\* the participants whose request may still leave: those that a worker asks
\* about or has cleared, and those that no worker has taken yet.
CountsInv ==
  /\ active = Count(pc, Sending) + (IF phase = "sending" THEN 1 ELSE 0)
  /\ phase # "racing" => \A w \in Worker : pc[w] = "out"
  /\ phase = "racing" =>
       started + Count(pc, Waiting) + (Participants - next) <= MaxRate

\* Every participant that was taken is with a worker, has answered, or was
\* skipped; a worker leaves only when none is left or one was skipped.
IndexInv ==
  phase = "racing" =>
    /\ Len(results) + Count(pc, Busy) <= next
    /\ ~skipped => /\ Len(results) + Count(pc, Busy) = next
                   /\ next < Participants => \A w \in Worker : pc[w] # "out"

\* Only the execution under way is dirty while its requests are out, and what
\* an earlier one left behind holds the switch.
DirtyInv ==
  /\ Sent => dirty \subseteq {calls}
  /\ active > 0 => dirty = {calls}
  /\ ~Sent /\ dirty # {} => killed # "no"

\* What is known of the answers at the end of the execution.
AnswersInv ==
  /\ phase \notin {"collecting", "over"} => verdict = "none"
  /\ phase \in {"asking", "sending", "racing", "cleaning"} => cand.kind # "none"
  /\ phase \in {"asking", "sending"} => results = <<>>
  /\ phase = "passive" => cand.kind = "none"
  /\ phase = "sending" => cand.kind = "single"
  /\ phase = "racing" => cand.kind = "race"
  /\ phase = "cleaning" /\ cand.kind = "race" =>
       skipped \/ Len(results) = Participants
  /\ phase = "cleaning" /\ cand.kind # "race" => Len(results) = 1

\* An execution follows a screening of its own.
CallsInv ==
  /\ calls <= proposed
  /\ safe # {} \/ phase = "screening" => calls < proposed
  /\ phase \notin {"collecting", "screening", "over"} => calls > 0

IInv ==
  /\ ShapeOK /\ NumbersOK /\ CountsInv /\ IndexInv /\ DirtyInv /\ AnswersInv
  /\ CallsInv /\ SuccessIsEarned

-----------------------------------------------------------------------------
(* Lemmas about the workers and the candidates. *)

LEMMA WorkerFacts ==
  /\ IsFiniteSet(Worker) /\ Worker # {}
  /\ Cardinality(Worker) \in Nat \ {0}
  /\ Cardinality(Worker) <= Participants
  /\ Cardinality(Worker) <= MaxConcurrency
<1> DEFINE n == Smaller(Participants, MaxConcurrency)
<1>1. n \in Nat \ {0} /\ n <= Participants /\ n <= MaxConcurrency
  BY BudgetAssumption DEF Smaller
<1>2. 1 \in Worker
  BY <1>1 DEF Worker
<1>3. IsFiniteSet(1..n) /\ Cardinality(1..n) = n
  <2> HIDE DEF n
  <2> QED BY <1>1, FS_Interval
<1> QED BY <1>1, <1>2, <1>3 DEF Worker

LEMMA CountType ==
  ASSUME NEW f, NEW ls
  PROVE  /\ Count(f, ls) \in Nat
         /\ Count(f, ls) <= Cardinality(Worker)
         /\ Count(f, ls) = 0 <=> \A w \in Worker : f[w] \notin ls
<1> DEFINE S == {w \in Worker : f[w] \in ls}
<1>1. IsFiniteSet(S) /\ Cardinality(S) <= Cardinality(Worker)
  BY FS_Subset, WorkerFacts
<1>2. Cardinality(S) \in Nat
  BY <1>1, FS_CardinalityType
<1>3. Cardinality(S) = 0 <=> S = {}
  BY <1>1, FS_EmptySet
<1> QED BY <1>1, <1>2, <1>3 DEF Count

\* When one worker moves, each count changes by what it leaves and enters.
LEMMA CountMove ==
  ASSUME NEW f \in [Worker -> Places], NEW w \in Worker, NEW ls,
         NEW g, \A v \in Worker : v # w => g[v] = f[v]
  PROVE  /\ (f[w] \in ls <=> g[w] \in ls) => Count(g, ls) = Count(f, ls)
         /\ f[w] \in ls /\ g[w] \notin ls => Count(g, ls) = Count(f, ls) - 1
         /\ f[w] \notin ls /\ g[w] \in ls => Count(g, ls) = Count(f, ls) + 1
<1> DEFINE S == {v \in Worker : f[v] \in ls}
           T == {v \in Worker : g[v] \in ls}
<1>1. IsFiniteSet(S) /\ IsFiniteSet(S \ {w})
  BY FS_Subset, WorkerFacts, FS_RemoveElement
<1>2. Cardinality(S) \in Nat /\ Cardinality(S \ {w}) \in Nat
  BY <1>1, FS_CardinalityType
<1>3. Cardinality(S \ {w}) = IF f[w] \in ls THEN Cardinality(S) - 1
                                          ELSE Cardinality(S)
  <2>1. w \in S <=> f[w] \in ls
    OBVIOUS
  <2> HIDE DEF S
  <2> QED BY <1>1, <2>1, FS_RemoveElement
<1>4. T = IF g[w] \in ls THEN (S \ {w}) \cup {w} ELSE S \ {w}
  OBVIOUS
<1>5. Cardinality(T) = IF g[w] \in ls THEN Cardinality(S \ {w}) + 1
                                   ELSE Cardinality(S \ {w})
  <2> DEFINE R == S \ {w}
  <2>1. w \notin R /\ T = IF g[w] \in ls THEN R \cup {w} ELSE R
    BY <1>4
  <2>2. IsFiniteSet(R)
    BY <1>1
  <2> HIDE DEF R, T
  <2>3. Cardinality(T) = IF g[w] \in ls THEN Cardinality(R) + 1 ELSE Cardinality(R)
    BY <2>1, <2>2, FS_AddElement
  <2> QED BY <2>3 DEF R
<1>6. Count(g, ls) = Cardinality(T) /\ Count(f, ls) = Cardinality(S)
  BY DEF Count
<1> HIDE DEF S, T
<1> QED BY <1>2, <1>3, <1>5, <1>6

\* The counts after a step of one worker.
LEMMA WorkerMoves ==
  ASSUME ShapeOK, NEW w \in Worker, NEW l,
         pc'[w] = l, \A v \in Worker : v # w => pc'[v] = pc[v]
  PROVE  \A ls :
           /\ (pc[w] \in ls <=> l \in ls) => Count(pc', ls) = Count(pc, ls)
           /\ pc[w] \in ls /\ l \notin ls => Count(pc', ls) = Count(pc, ls) - 1
           /\ pc[w] \notin ls /\ l \in ls => Count(pc', ls) = Count(pc, ls) + 1
<1>1. pc \in [Worker -> Places]
  BY DEF ShapeOK
<1> QED BY <1>1, CountMove

LEMMA CountFull ==
  ASSUME NEW f, NEW ls, \A w \in Worker : f[w] \in ls
  PROVE  Count(f, ls) = Cardinality(Worker)
<1>1. {w \in Worker : f[w] \in ls} = Worker
  OBVIOUS
<1> QED BY <1>1 DEF Count

LEMMA CountTypes ==
  /\ Count(pc, Waiting) \in Nat /\ Count(pc, Sending) \in Nat
  /\ Count(pc, Busy) \in Nat
  /\ Count(pc, Sending) <= Cardinality(Worker)
  /\ Count(pc, Sending) = 0 <=> \A w \in Worker : pc[w] \notin Sending
  /\ Count(pc, Waiting) = 0 <=> \A w \in Worker : pc[w] \notin Waiting
  /\ Count(pc, Busy) = 0 <=> \A w \in Worker : pc[w] \notin Busy
BY CountType

\* A set of indexes that is not empty has a least one.
LEMMA LeastIndex ==
  ASSUME NEW T \in SUBSET Nat, T # {}
  PROVE  \E m \in T : \A j \in T : m <= j
<1> DEFINE R == OpToRel(<, Nat)
<1>1. IsWellFoundedOn(R, Nat)
  BY NatLessThanWellFounded
<1>2. \A x, y \in Nat : <<x, y>> \notin R => y <= x
  BY DEF OpToRel
<1> HIDE DEF R
<1>3. \E m \in T : \A j \in T : ~ (<<j, m>> \in R)
  BY <1>1, WFMin
<1>4. PICK m \in T : \A j \in T : <<j, m>> \notin R
  BY <1>3
<1>5. \A j \in T : m <= j
  BY <1>2, <1>4
<1> QED BY <1>5

LEMMA CandidateType ==
  ASSUME NEW c \in Candidate
  PROVE  /\ c.kind \in {"none", "single", "race"}
         /\ Asked(c) = IF c.kind = "race" THEN Participants ELSE 1
         /\ Asked(c) \in Nat
BY CandidateAssumption, BudgetAssumption DEF Asked

-----------------------------------------------------------------------------
(* Type correctness. *)

LEMMA StepCases ==
  ASSUME [Next]_vars
  PROVE  \/ Expire \/ OperatorKill \/ UNCHANGED vars \/ AllReturned
         \/ \E c \in Candidate : Propose(c) \/ Execute(c)
         \/ \E a \in Answers : Screen(a) \/ Preflight(a)
         \/ \E o \in Outcomes : PassiveEnds(o) \/ SingleEnds(o)
         \/ \E w \in Worker : Start(w)
         \/ \E w \in Worker, a \in Answers : Checked(w, a)
         \/ \E w \in Worker, o \in Outcomes : ParticipantEnds(w, o)
         \/ \E b \in BOOLEAN : Cleanup(b)
BY DEF Next, Controller, Idle

LEMMA InitOK == Init => IInv
<1> SUFFICES ASSUME Init PROVE IInv
  OBVIOUS
<1>1. /\ Count(pc, Waiting) = 0 /\ Count(pc, Sending) = 0
      /\ Count(pc, Busy) = 0
  BY CountTypes DEF Init, Waiting, Sending, Busy
<1>2. ShapeOK
  <2>1. pc \in [Worker -> Places]
    BY DEF Init, Places
  <2>2. results \in Seq(Statuses)
    BY DEF Init
  <2> QED BY <2>1, <2>2 DEF Init, ShapeOK, Phases, Reasons, Verdicts
<1>3. NumbersOK
  BY BudgetAssumption DEF Init, NumbersOK
<1>4. CountsInv /\ IndexInv /\ DirtyInv /\ AnswersInv /\ CallsInv
  BY <1>1 DEF Init, CountsInv, IndexInv, DirtyInv, AnswersInv, CallsInv, Sent
<1>5. SuccessIsEarned
  BY DEF Init, SuccessIsEarned
<1> QED BY <1>2, <1>3, <1>4, <1>5 DEF IInv

LEMMA StepShape ==
  ASSUME ShapeOK, [Next]_vars
  PROVE  ShapeOK'
<1> USE DEF ShapeOK
<1>1. CASE Expire \/ OperatorKill \/ AllReturned \/ UNCHANGED vars
  BY <1>1 DEF Expire, OperatorKill, AllReturned, vars, race, round, Trip, Phases,
              Reasons
<1>2. ASSUME NEW c \in Candidate, Propose(c)
      PROVE  ShapeOK'
  BY <1>2 DEF Propose, race, Phases, Verdicts
<1>3. ASSUME NEW c \in Candidate, Execute(c)
      PROVE  ShapeOK'
  <2>1. results' \in Seq(Statuses)
    BY <1>3 DEF Execute
  <2> QED BY <1>3, <2>1 DEF Execute, race, Phases, Verdicts
<1>4. ASSUME NEW a \in Answers, Screen(a)
      PROVE  ShapeOK'
  <2>1. killed' \in Reasons
    BY <1>4 DEF Screen, Refreshed, Trip, Answers, Reasons
  <2> QED BY <1>4, <2>1 DEF Screen, race, Phases
<1>5. ASSUME NEW a \in Answers, Preflight(a)
      PROVE  ShapeOK'
  <2>1. killed' \in Reasons
    BY <1>5 DEF Preflight, Refreshed, Trip, Answers, Reasons
  <2>2. pc' \in [Worker -> Places] /\ skipped' \in BOOLEAN
    BY <1>5 DEF Preflight, race, Places
  <2>3. phase' \in Phases /\ verdict' \in Verdicts
    BY <1>5 DEF Preflight, Phases, Verdicts
  <2> QED BY <1>5, <2>1, <2>2, <2>3 DEF Preflight, round
<1>6. ASSUME NEW o \in Outcomes, PassiveEnds(o) \/ SingleEnds(o)
      PROVE  ShapeOK'
  <2>1. results' \in Seq(Statuses)
    <3>1. o \in Statuses /\ Status(o) \in Statuses
      BY DEF Outcomes, Status, Statuses
    <3>2. results' = <<o>> \/ results' = <<Status(o)>>
      BY <1>6 DEF PassiveEnds, SingleEnds
    <3>3. \A r \in Statuses : <<r>> \in Seq(Statuses)
      OBVIOUS
    <3> QED BY <3>1, <3>2, <3>3, Zenon
  <2> QED BY <1>6, <2>1 DEF PassiveEnds, SingleEnds, Outcomes, race, round, Phases,
                            Verdicts
<1>7. ASSUME NEW w \in Worker, Start(w)
      PROVE  ShapeOK'
  BY <1>7 DEF Start, round, Places
<1>8. ASSUME NEW w \in Worker, NEW a \in Answers, Checked(w, a)
      PROVE  ShapeOK'
  <2>1. killed' \in Reasons
    BY <1>8 DEF Checked, Refreshed, Trip, Answers, Reasons
  <2> QED BY <1>8, <2>1 DEF Checked, round, Places
<1>9. ASSUME NEW w \in Worker, NEW o \in Outcomes, ParticipantEnds(w, o)
      PROVE  ShapeOK'
  <2>1. killed' \in Reasons
    BY <1>9 DEF ParticipantEnds, Trip, Reasons
  <2>2. results' \in Seq(Statuses)
    <3>1. Status(o) \in Statuses
      BY DEF Outcomes, Status, Statuses
    <3> QED BY <1>9, <3>1 DEF ParticipantEnds
  <2> QED BY <1>9, <2>1, <2>2 DEF ParticipantEnds, round, Places
<1>10. ASSUME NEW b \in BOOLEAN, Cleanup(b)
       PROVE  ShapeOK'
  <2>1. killed' \in Reasons
    BY <1>10 DEF Cleanup, Trip, Reasons
  <2>2. verdict' \in Verdicts
    <3>1. FirstFailure \in Statuses
      <4>1. \A i \in DOMAIN results : results[i] \in Statuses
        OBVIOUS
      <4> DEFINE failed == {i \in DOMAIN results : results[i] # "executed"}
      <4>2. CASE failed = {}
        BY <4>2 DEF FirstFailure, Statuses
      <4>3. CASE failed # {}
        <5>1. PICK m \in failed : \A j \in failed : m <= j
          <6>1. failed \in SUBSET Nat
            OBVIOUS
          <6> HIDE DEF failed
          <6> QED BY <4>3, <6>1, LeastIndex
        <5>2. (CHOOSE i \in failed : \A j \in failed : i <= j) \in failed
          BY <5>1
        <5> QED BY <4>1, <4>3, <5>2 DEF FirstFailure
      <4> QED BY <4>2, <4>3
    <3> QED BY <1>10, <3>1 DEF Cleanup, Reported, Statuses, Verdicts
  <2> QED BY <1>10, <2>1, <2>2 DEF Cleanup, race, round, Phases
<1> QED
  BY <1>1, <1>2, <1>3, <1>4, <1>5, <1>6, <1>7, <1>8, <1>9, <1>10, StepCases

-----------------------------------------------------------------------------
(* The steps of the workers: what moves, and the counts after it.          *)

LEMMA CheckedMoves ==
  ASSUME ShapeOK, NEW w \in Worker, NEW a \in Answers, Checked(w, a)
  PROVE  /\ phase = "racing" /\ phase' = "racing"
         /\ Count(pc', Sending) = Count(pc, Sending)
         /\ \/ /\ Count(pc', Waiting) = Count(pc, Waiting)
               /\ Count(pc', Busy) = Count(pc, Busy)
               /\ skipped' = skipped
               /\ \A v \in Worker : pc'[v] = "out" => pc[v] = "out"
            \/ /\ Count(pc', Waiting) = Count(pc, Waiting) - 1
               /\ Count(pc', Busy) = Count(pc, Busy) - 1
               /\ skipped'
         /\ UNCHANGED <<cand, active, started, dirty, next, results, verdict,
                        proposed, safe, calls>>
         /\ killed # "no" => killed' # "no"
<1>1. /\ \A v \in Worker : v # w => pc'[v] = pc[v]
      /\ pc[w] = "asking"
      /\ \/ pc'[w] = "cleared" /\ skipped' = skipped
         \/ pc'[w] = "out" /\ skipped'
  BY DEF Checked, ShapeOK
<1>2. Count(pc', Sending) = Count(pc, Sending)
  BY <1>1, WorkerMoves DEF Sending
<1>3. /\ phase = "racing" /\ phase' = "racing"
      /\ UNCHANGED <<cand, active, started, dirty, next, results, verdict,
                     proposed, safe, calls>>
      /\ killed # "no" => killed' # "no"
  BY DEF Checked, sent, round, Refreshed, Trip, Answers
<1>4. CASE pc'[w] = "cleared"
  <2>1. Count(pc', Waiting) = Count(pc, Waiting)
    BY <1>1, <1>4, WorkerMoves DEF Waiting
  <2>2. Count(pc', Busy) = Count(pc, Busy)
    BY <1>1, <1>4, WorkerMoves DEF Busy
  <2> QED BY <1>1, <1>2, <1>3, <1>4, <2>1, <2>2
<1>5. CASE pc'[w] = "out"
  <2>1. Count(pc', Waiting) = Count(pc, Waiting) - 1
    BY <1>1, <1>5, WorkerMoves DEF Waiting
  <2>2. Count(pc', Busy) = Count(pc, Busy) - 1
    BY <1>1, <1>5, WorkerMoves DEF Busy
  <2> QED BY <1>1, <1>2, <1>3, <1>5, <2>1, <2>2
<1> QED BY <1>1, <1>4, <1>5

LEMMA StartMoves ==
  ASSUME ShapeOK, NEW w \in Worker, Start(w)
  PROVE  /\ phase = "racing" /\ phase' = "racing"
         /\ Count(pc', Sending) = Count(pc, Sending) + 1
         /\ Count(pc', Waiting) = Count(pc, Waiting) - 1
         /\ Count(pc', Busy) = Count(pc, Busy)
         /\ \A v \in Worker : pc'[v] = "out" => pc[v] = "out"
         /\ active' = active + 1 /\ started' = started + 1
         /\ dirty' = dirty \cup {calls}
         /\ UNCHANGED <<cand, killed, next, skipped, results, verdict, proposed,
                        safe, calls>>
<1>1. /\ \A v \in Worker : v # w => pc'[v] = pc[v]
      /\ pc[w] = "cleared" /\ pc'[w] = "sending"
  BY DEF Start, ShapeOK
<1>2. Count(pc', Sending) = Count(pc, Sending) + 1
  BY <1>1, WorkerMoves DEF Sending
<1>3. Count(pc', Waiting) = Count(pc, Waiting) - 1
  BY <1>1, WorkerMoves DEF Waiting
<1>4. Count(pc', Busy) = Count(pc, Busy)
  BY <1>1, WorkerMoves DEF Busy
<1> QED BY <1>1, <1>2, <1>3, <1>4 DEF Start, Send, round

LEMMA ParticipantMoves ==
  ASSUME ShapeOK, NEW w \in Worker, NEW o \in Outcomes, ParticipantEnds(w, o)
  PROVE  /\ phase = "racing" /\ phase' = "racing"
         /\ Count(pc', Sending) = Count(pc, Sending) - 1
         /\ active' = active - 1
         /\ results' = Append(results, Status(o)) /\ Status(o) \in Statuses
         /\ \/ /\ next < Participants /\ next' = next + 1 /\ skipped' = skipped
               /\ Count(pc', Waiting) = Count(pc, Waiting) + 1
               /\ Count(pc', Busy) = Count(pc, Busy)
               /\ \A v \in Worker : pc'[v] = "out" => pc[v] = "out"
            \/ /\ next < Participants /\ next' = next + 1 /\ skipped'
               /\ Count(pc', Waiting) = Count(pc, Waiting)
               /\ Count(pc', Busy) = Count(pc, Busy) - 1
            \/ /\ ~(next < Participants) /\ next' = next /\ skipped' = skipped
               /\ Count(pc', Waiting) = Count(pc, Waiting)
               /\ Count(pc', Busy) = Count(pc, Busy) - 1
         /\ UNCHANGED <<cand, started, dirty, verdict, proposed, safe, calls>>
         /\ killed # "no" => killed' # "no"
<1>1. /\ \A v \in Worker : v # w => pc'[v] = pc[v]
      /\ pc[w] = "sending"
      /\ \/ /\ next < Participants /\ next' = next + 1 /\ skipped' = skipped
            /\ pc'[w] = "asking"
         \/ /\ next < Participants /\ next' = next + 1 /\ skipped'
            /\ pc'[w] = "out"
         \/ /\ ~(next < Participants) /\ next' = next /\ skipped' = skipped
            /\ pc'[w] = "out"
  BY DEF ParticipantEnds, ShapeOK
<1>2. Count(pc', Sending) = Count(pc, Sending) - 1
  BY <1>1, WorkerMoves DEF Sending
<1>3. Status(o) \in Statuses
  BY DEF Outcomes, Status, Statuses
<1>4. CASE pc'[w] = "asking"
  <2>1. Count(pc', Waiting) = Count(pc, Waiting) + 1
    BY <1>1, <1>4, WorkerMoves DEF Waiting
  <2>2. Count(pc', Busy) = Count(pc, Busy)
    BY <1>1, <1>4, WorkerMoves DEF Busy
  <2> QED BY <1>1, <1>2, <1>3, <1>4, <2>1, <2>2 DEF ParticipantEnds, round, Trip
<1>5. CASE pc'[w] = "out"
  <2>1. Count(pc', Waiting) = Count(pc, Waiting)
    BY <1>1, <1>5, WorkerMoves DEF Waiting
  <2>2. Count(pc', Busy) = Count(pc, Busy) - 1
    BY <1>1, <1>5, WorkerMoves DEF Busy
  <2> QED BY <1>1, <1>2, <1>3, <1>5, <2>1, <2>2 DEF ParticipantEnds, round, Trip
<1> QED BY <1>1, <1>4, <1>5

\* The counts when the workers of a race have been started.
LEMMA RaceStarts ==
  ASSUME pc' = [w \in Worker |-> "asking"]
  PROVE  /\ Count(pc', Sending) = 0
         /\ Count(pc', Waiting) = Cardinality(Worker)
         /\ Count(pc', Busy) = Cardinality(Worker)
         /\ \A w \in Worker : pc'[w] # "out"
<1>1. \A w \in Worker : pc'[w] = "asking"
  OBVIOUS
<1>2. Count(pc', Sending) = 0
  BY <1>1, CountType DEF Sending
<1>3. Count(pc', Waiting) = Cardinality(Worker)
  BY <1>1, CountFull DEF Waiting
<1>4. Count(pc', Busy) = Cardinality(Worker)
  BY <1>1, CountFull DEF Busy
<1> QED BY <1>1, <1>2, <1>3, <1>4

-----------------------------------------------------------------------------
(* Each part of the invariant, one action at a time. *)

\* What the actions outside of an execution leave alone.
LEMMA QuietStep ==
  ASSUME \/ Expire \/ OperatorKill \/ UNCHANGED vars
         \/ \E c \in Candidate : Propose(c) \/ Execute(c)
         \/ \E a \in Answers : Screen(a)
         \/ \E o \in Outcomes : PassiveEnds(o)
  PROVE  /\ UNCHANGED <<active, started, pc, next, skipped, dirty>>
         /\ \/ phase \notin {"sending", "racing", "cleaning"} /\
               phase' \notin {"sending", "racing", "cleaning"}
            \/ UNCHANGED <<phase, cand, results, verdict, calls>>
         /\ killed # "no" => killed' # "no"
<1> USE DEF vars, race, sent, round
<1>1. CASE Expire \/ OperatorKill \/ UNCHANGED vars
  BY <1>1 DEF Expire, OperatorKill, Trip
<1>2. ASSUME NEW c \in Candidate, Propose(c) \/ Execute(c)
      PROVE  /\ UNCHANGED <<active, started, pc, next, skipped, dirty, killed>>
             /\ phase \notin {"sending", "racing", "cleaning"}
             /\ phase' \notin {"sending", "racing", "cleaning"}
  BY <1>2 DEF Propose, Execute
<1>3. ASSUME NEW a \in Answers, Screen(a)
      PROVE  /\ UNCHANGED <<active, started, pc, next, skipped, dirty>>
             /\ phase \notin {"sending", "racing", "cleaning"}
             /\ phase' \notin {"sending", "racing", "cleaning"}
             /\ killed # "no" => killed' # "no"
  BY <1>3 DEF Screen, Refreshed, Trip, Answers
<1>4. ASSUME NEW o \in Outcomes, PassiveEnds(o)
      PROVE  /\ UNCHANGED <<active, started, pc, next, skipped, dirty, killed>>
             /\ phase \notin {"sending", "racing", "cleaning"}
             /\ phase' \notin {"sending", "racing", "cleaning"}
  BY <1>4 DEF PassiveEnds
<1> QED BY <1>1, <1>2, <1>3, <1>4

\* A preflight denies, sends one request or starts the workers.
LEMMA PreflightCases ==
  ASSUME ShapeOK, NEW a \in Answers, Preflight(a)
  PROVE  /\ phase = "asking"
         /\ UNCHANGED <<cand, results, proposed, safe, calls>>
         /\ killed # "no" => killed' # "no"
         /\ \/ /\ phase' = "collecting" /\ verdict' = "denied"
               /\ UNCHANGED <<active, started, dirty, pc, next, skipped>>
            \/ /\ phase' = "sending" /\ killed' = "no" /\ cand.kind = "single"
               /\ active < MaxConcurrency /\ started < MaxRate
               /\ active' = active + 1 /\ started' = started + 1
               /\ dirty' = dirty \cup {calls}
               /\ UNCHANGED <<verdict, pc, next, skipped>>
            \/ /\ phase' = "racing" /\ killed' = "no" /\ cand.kind = "race"
               /\ started + Participants <= MaxRate
               /\ ~skipped' /\ next' = Cardinality(Worker)
               /\ pc' = [w \in Worker |-> "asking"]
               /\ UNCHANGED <<verdict, active, started, dirty>>
<1>1. killed # "no" => killed' # "no"
  BY DEF Preflight, Refreshed, Trip, Answers
<1> QED BY <1>1 DEF Preflight, Authorized, Asked, Send, race, sent, round

LEMMA CountsStep ==
  ASSUME IInv, [Next]_vars
  PROVE  CountsInv'
<1>0. /\ CountsInv /\ ShapeOK /\ NumbersOK
      /\ Cardinality(Worker) \in Nat
      /\ active \in Nat /\ started \in Nat /\ next \in Nat
      /\ Participants \in Nat /\ MaxRate \in Nat
  BY WorkerFacts, BudgetAssumption DEF IInv, NumbersOK
<1> USE CountTypes DEF CountsInv
<1>1. CASE \/ Expire \/ OperatorKill \/ UNCHANGED vars
           \/ \E c \in Candidate : Propose(c) \/ Execute(c)
           \/ \E a \in Answers : Screen(a)
           \/ \E o \in Outcomes : PassiveEnds(o)
  BY <1>0, <1>1, QuietStep
<1>2. CASE AllReturned
  BY <1>0, <1>2 DEF AllReturned, race, sent, Sending
<1>3. ASSUME NEW a \in Answers, Preflight(a)
      PROVE  CountsInv'
  <2>1. CASE phase' # "racing"
    BY <1>0, <1>3, <2>1, PreflightCases
  <2>2. CASE phase' = "racing"
    BY SMTT(20), <1>0, <1>3, <2>2, PreflightCases, RaceStarts, BudgetAssumption DEF Sending, NumbersOK
  <2> QED BY <2>1, <2>2
<1>4. ASSUME NEW o \in Outcomes, SingleEnds(o)
      PROVE  CountsInv'
  BY <1>0, <1>4 DEF SingleEnds, race, NumbersOK
<1>5. ASSUME NEW w \in Worker, Start(w)
      PROVE  CountsInv'
  <2>1. active' = Count(pc', Sending)
    BY SMTT(20), <1>0, <1>5, StartMoves DEF NumbersOK
  <2>2. started' + Count(pc', Waiting) + (Participants - next') <= MaxRate
    BY <1>0, <1>5, StartMoves, BudgetAssumption DEF NumbersOK
  <2> QED BY <1>0, <1>5, <2>1, <2>2, StartMoves, CountType
<1>6. ASSUME NEW w \in Worker, NEW a \in Answers, Checked(w, a)
      PROVE  CountsInv'
  <2>1. active' = Count(pc', Sending)
    BY <1>0, <1>6, CheckedMoves DEF NumbersOK
  <2>2. started' + Count(pc', Waiting) + (Participants - next') <= MaxRate
    BY SMTT(20), <1>0, <1>6, CheckedMoves, BudgetAssumption DEF NumbersOK
  <2> QED BY <1>0, <1>6, <2>1, <2>2, CheckedMoves, CountType
<1>7. ASSUME NEW w \in Worker, NEW o \in Outcomes, ParticipantEnds(w, o)
      PROVE  CountsInv'
  <2>1. active' = Count(pc', Sending)
    BY <1>0, <1>7, ParticipantMoves DEF NumbersOK
  <2>2. started' + Count(pc', Waiting) + (Participants - next') <= MaxRate
    <3>1. phase = "racing" /\ started' = started
      BY <1>0, <1>7, ParticipantMoves
    <3>2. \/ /\ Count(pc', Waiting) = Count(pc, Waiting) + 1
             /\ next' = next + 1
          \/ /\ Count(pc', Waiting) = Count(pc, Waiting)
             /\ next' \in {next, next + 1}
      BY <1>0, <1>7, ParticipantMoves
    <3> QED BY <1>0, <3>1, <3>2
  <2> QED BY SMTT(20), <1>0, <1>7, <2>1, <2>2, ParticipantMoves, CountType
<1>8. ASSUME NEW b \in BOOLEAN, Cleanup(b)
      PROVE  CountsInv'
  BY <1>0, <1>8 DEF Cleanup, race
<1> QED BY <1>1, <1>2, <1>3, <1>4, <1>5, <1>6, <1>7, <1>8, StepCases

LEMMA IndexStep ==
  ASSUME IInv, [Next]_vars
  PROVE  IndexInv'
<1>0. /\ IndexInv /\ ShapeOK /\ NumbersOK
      /\ Len(results) \in Nat /\ next \in Nat
      /\ skipped \in BOOLEAN /\ skipped' \in BOOLEAN
  BY StepShape DEF IInv, ShapeOK, NumbersOK
<1> USE CountTypes DEF IndexInv
<1>1. CASE \/ Expire \/ OperatorKill \/ UNCHANGED vars
           \/ \E c \in Candidate : Propose(c) \/ Execute(c)
           \/ \E a \in Answers : Screen(a)
           \/ \E o \in Outcomes : PassiveEnds(o)
  BY <1>0, <1>1, QuietStep
<1>2. CASE AllReturned \/ (\E o \in Outcomes : SingleEnds(o))
           \/ (\E b \in BOOLEAN : Cleanup(b))
  BY <1>0, <1>2 DEF AllReturned, SingleEnds, Cleanup
<1>3. ASSUME NEW a \in Answers, Preflight(a)
      PROVE  IndexInv'
  <2>1. CASE phase' # "racing"
    BY <2>1
  <2>2. CASE phase' = "racing"
    <3>1. results = <<>>
      BY <1>3 DEF IInv, AnswersInv, Preflight
    <3>2. results' = <<>> /\ Len(results') = 0
      BY <1>0, <1>3, <3>1, PreflightCases
    <3> QED BY <1>0, <1>3, <2>2, <3>2, PreflightCases, RaceStarts, WorkerFacts
  <2> QED BY <2>1, <2>2
<1>5. ASSUME NEW w \in Worker, Start(w)
      PROVE  IndexInv'
  BY <1>0, <1>5, StartMoves DEF NumbersOK
<1>6. ASSUME NEW w \in Worker, NEW a \in Answers, Checked(w, a)
      PROVE  IndexInv'
  BY <1>0, <1>6, CheckedMoves DEF NumbersOK
<1>7. ASSUME NEW w \in Worker, NEW o \in Outcomes, ParticipantEnds(w, o)
      PROVE  IndexInv'
  <2>1. Len(results') = Len(results) + 1
    BY <1>0, <1>7, ParticipantMoves DEF ShapeOK
  <2>2. Len(results') + Count(pc', Busy) <= next'
    BY SMTT(20), <1>0, <1>7, <2>1, ParticipantMoves DEF NumbersOK
  <2>3. ~skipped' => Len(results') + Count(pc', Busy) = next'
    <3>1. \/ /\ skipped' = skipped /\ next' = next + 1
             /\ Count(pc', Busy) = Count(pc, Busy)
          \/ skipped'
          \/ /\ skipped' = skipped /\ next' = next
             /\ Count(pc', Busy) = Count(pc, Busy) - 1
      BY <1>0, <1>7, ParticipantMoves
    <3>2. phase = "racing"
      BY <1>0, <1>7, ParticipantMoves
    <3> QED BY <1>0, <2>1, <3>1, <3>2
  <2>4. ~skipped' /\ next' < Participants => \A v \in Worker : pc'[v] # "out"
    BY <1>0, <1>7, ParticipantMoves DEF NumbersOK
  <2> QED BY <2>2, <2>3, <2>4
<1> QED BY <1>1, <1>2, <1>3, <1>5, <1>6, <1>7, StepCases

LEMMA CallsStep ==
  ASSUME IInv, [Next]_vars
  PROVE  CallsInv'
<1>0. /\ CallsInv /\ calls \in Nat /\ proposed \in Nat
  BY BudgetAssumption DEF IInv, NumbersOK
<1> USE DEF CallsInv
<1>1. CASE \/ Expire \/ OperatorKill \/ AllReturned \/ UNCHANGED vars
           \/ \E o \in Outcomes : PassiveEnds(o) \/ SingleEnds(o)
           \/ \E b \in BOOLEAN : Cleanup(b)
  BY <1>0, <1>1 DEF Expire, OperatorKill, AllReturned, PassiveEnds, SingleEnds,
                    Cleanup, vars, round
<1>2. ASSUME NEW c \in Candidate, Propose(c)
      PROVE  CallsInv'
  BY <1>0, <1>2 DEF Propose
<1>3. ASSUME NEW c \in Candidate, Execute(c)
      PROVE  CallsInv'
  BY <1>0, <1>3 DEF Execute
<1>4. ASSUME NEW a \in Answers, Screen(a)
      PROVE  CallsInv'
  BY <1>0, <1>4 DEF Screen
<1>5. ASSUME NEW a \in Answers, Preflight(a)
      PROVE  CallsInv'
  BY <1>0, <1>5, PreflightCases DEF IInv
<1>6. ASSUME NEW w \in Worker, Start(w)
      PROVE  CallsInv'
  BY <1>0, <1>6, StartMoves DEF IInv
<1>7. ASSUME NEW w \in Worker, NEW a \in Answers, Checked(w, a)
      PROVE  CallsInv'
  BY <1>0, <1>7, CheckedMoves DEF IInv
<1>8. ASSUME NEW w \in Worker, NEW o \in Outcomes, ParticipantEnds(w, o)
      PROVE  CallsInv'
  BY <1>0, <1>8, ParticipantMoves DEF IInv
<1> QED BY <1>1, <1>2, <1>3, <1>4, <1>5, <1>6, <1>7, <1>8, StepCases

LEMMA DirtyStep ==
  ASSUME IInv, [Next]_vars
  PROVE  DirtyInv'
<1>0. /\ DirtyInv /\ active \in Nat /\ ShapeOK
      /\ phase \notin {"sending", "racing"} => active = 0
  <2>1. ShapeOK /\ NumbersOK /\ CountsInv /\ DirtyInv
    BY DEF IInv
  <2>2. phase # "racing" => Count(pc, Sending) = 0
    BY <2>1, CountTypes DEF CountsInv, Sending
  <2> QED BY <2>1, <2>2, BudgetAssumption DEF NumbersOK, CountsInv
<1> USE DEF DirtyInv, Sent
<1>1. CASE \/ Expire \/ OperatorKill \/ UNCHANGED vars
           \/ \E c \in Candidate : Propose(c) \/ Execute(c)
           \/ \E a \in Answers : Screen(a)
           \/ \E o \in Outcomes : PassiveEnds(o)
  BY <1>0, <1>1, QuietStep
<1>2. CASE AllReturned \/ (\E o \in Outcomes : SingleEnds(o))
  BY <1>0, <1>2 DEF AllReturned, SingleEnds, race, sent, round
<1>3. ASSUME NEW a \in Answers, Preflight(a)
      PROVE  DirtyInv'
  BY <1>0, <1>3, PreflightCases
<1>4. ASSUME NEW w \in Worker, Start(w)
      PROVE  DirtyInv'
  BY <1>0, <1>4, StartMoves
<1>5. ASSUME NEW w \in Worker, NEW a \in Answers, Checked(w, a)
      PROVE  DirtyInv'
  BY <1>0, <1>5, CheckedMoves
<1>6. ASSUME NEW w \in Worker, NEW o \in Outcomes, ParticipantEnds(w, o)
      PROVE  DirtyInv'
  BY <1>0, <1>6, ParticipantMoves
<1>7. ASSUME NEW b \in BOOLEAN, Cleanup(b)
      PROVE  DirtyInv'
  BY <1>0, <1>7 DEF Cleanup, Trip, round
<1> QED BY <1>1, <1>2, <1>3, <1>4, <1>5, <1>6, <1>7, StepCases

\* The numbers stay in their bounds: a request leaves only into room that was
\* kept for it when its execution began.
LEMMA NumbersStep ==
  ASSUME IInv, [Next]_vars
  PROVE  NumbersOK'
<1>0. /\ NumbersOK /\ CountsInv /\ IndexInv /\ CallsInv /\ ShapeOK
      /\ active \in Nat /\ started \in Nat /\ next \in Nat
      /\ calls \in Nat /\ proposed \in Nat /\ Len(results) \in Nat
      /\ Participants \in Nat \ {0} /\ MaxRate \in Nat
      /\ MaxConcurrency \in Nat /\ MaxCandidates \in Nat
  BY BudgetAssumption DEF IInv, NumbersOK, ShapeOK
<1>1. /\ Cardinality(Worker) \in Nat
      /\ Cardinality(Worker) <= Participants
      /\ Cardinality(Worker) <= MaxConcurrency
  BY WorkerFacts
<1>2. CASE Expire \/ OperatorKill \/ AllReturned \/ UNCHANGED vars
  BY <1>0, <1>2 DEF NumbersOK, Expire, OperatorKill, AllReturned, vars, race, sent,
                    round
<1>3. ASSUME NEW c \in Candidate, Propose(c)
      PROVE  NumbersOK'
  BY <1>0, <1>3 DEF NumbersOK, Propose, race, sent
<1>4. ASSUME NEW c \in Candidate, Execute(c)
      PROVE  NumbersOK'
  <2>1. calls' = calls + 1 /\ calls < proposed /\ Len(results') = 0
    BY <1>0, <1>4 DEF Execute, CallsInv
  <2> QED BY <1>0, <1>4, <2>1 DEF NumbersOK, Execute, race, sent
<1>5. ASSUME NEW a \in Answers, Screen(a)
      PROVE  NumbersOK'
  BY <1>0, <1>5 DEF NumbersOK, Screen, race, sent
<1>6. ASSUME NEW a \in Answers, Preflight(a)
      PROVE  NumbersOK'
  <2>1. active' \in 0..MaxConcurrency /\ started' \in 0..MaxRate
    BY <1>0, <1>6, PreflightCases DEF NumbersOK
  <2>2. next' \in 0..Participants
    BY <1>0, <1>1, <1>6, PreflightCases DEF NumbersOK
  <2>3. dirty' \subseteq 1..MaxCandidates
    <3>1. calls > 0 /\ dirty \subseteq 1..MaxCandidates /\ calls \in 0..MaxCandidates
      BY <1>0, <1>6, PreflightCases DEF CallsInv, NumbersOK
    <3>2. calls \in 1..MaxCandidates
      BY <1>0, <3>1
    <3>3. dirty' = dirty \/ dirty' = dirty \cup {calls}
      BY <1>0, <1>6, PreflightCases
    <3> QED BY <3>1, <3>2, <3>3
  <2> QED BY <1>0, <1>6, <2>1, <2>2, <2>3, PreflightCases DEF NumbersOK
<1>7. ASSUME NEW o \in Outcomes, PassiveEnds(o) \/ SingleEnds(o)
      PROVE  NumbersOK'
  <2>1. Len(results') = 1 /\ Len(results') <= Participants
    <3>1. Len(results') = 1
      BY <1>7 DEF PassiveEnds, SingleEnds
    <3> QED BY <1>0, <3>1
  <2>2. phase = "sending" => active - 1 \in 0..MaxConcurrency
    <3>1. active \in 0..MaxConcurrency
      BY <1>0 DEF NumbersOK
    <3>2. phase = "sending" => active >= 1
      BY <1>0, CountTypes DEF CountsInv
    <3> QED BY <1>0, <3>1, <3>2
  <2>3. /\ UNCHANGED <<started, next, proposed, calls, dirty>>
        /\ \/ active' = active
           \/ phase = "sending" /\ active' = active - 1
    BY <1>7 DEF PassiveEnds, SingleEnds, race, sent, round
  <2> QED BY <1>0, <2>1, <2>2, <2>3 DEF NumbersOK
<1>8. ASSUME NEW w \in Worker, Start(w)
      PROVE  NumbersOK'
  <2>1. phase = "racing" /\ Count(pc', Sending) = Count(pc, Sending) + 1
    BY <1>0, <1>8, StartMoves
  <2>2. Count(pc', Sending) <= Cardinality(Worker) /\ Count(pc', Waiting) \in Nat
    BY CountType
  <2>3. active' \in 0..MaxConcurrency
    BY SMTT(20), <1>0, <1>1, <1>8, <2>1, <2>2, StartMoves, CountTypes DEF CountsInv
  <2>4. started' \in 0..MaxRate
    BY SMTT(20), <1>0, <1>8, <2>1, <2>2, StartMoves, CountTypes DEF CountsInv, NumbersOK
  <2>5. dirty' \subseteq 1..MaxCandidates
    <3>1. calls > 0 /\ dirty \subseteq 1..MaxCandidates /\ calls \in 0..MaxCandidates
      BY <1>0, <2>1 DEF CallsInv, NumbersOK
    <3>2. calls \in 1..MaxCandidates
      BY <1>0, <3>1
    <3>3. dirty' = dirty \cup {calls}
      BY <1>0, <1>8, StartMoves
    <3> QED BY <3>1, <3>2, <3>3
  <2> QED BY <1>0, <1>8, <2>3, <2>4, <2>5, StartMoves DEF NumbersOK
<1>9. ASSUME NEW w \in Worker, NEW a \in Answers, Checked(w, a)
      PROVE  NumbersOK'
  BY <1>0, <1>9, CheckedMoves DEF NumbersOK
<1>10. ASSUME NEW w \in Worker, NEW o \in Outcomes, ParticipantEnds(w, o)
      PROVE  NumbersOK'
  <2>1. phase = "racing" /\ Count(pc', Sending) = Count(pc, Sending) - 1
    BY <1>0, <1>10, ParticipantMoves
  <2>2. Count(pc', Sending) \in Nat /\ Count(pc', Busy) \in Nat
    BY CountType
  <2>3. active' \in 0..MaxConcurrency
    BY SMTT(20), <1>0, <1>10, <2>1, <2>2, ParticipantMoves, CountTypes DEF CountsInv, NumbersOK
  <2>4. next' \in 0..Participants
    BY <1>0, <1>10, ParticipantMoves DEF NumbersOK
  <2>5. Len(results') = Len(results) + 1
    BY <1>0, <1>10, ParticipantMoves DEF ShapeOK
  <2>6. IndexInv' /\ phase' = "racing"
    BY <1>0, <1>10, IndexStep, ParticipantMoves
  <2>7. Len(results') <= Participants
    BY <1>0, <2>2, <2>4, <2>5, <2>6 DEF IndexInv
  <2> QED BY <1>0, <1>10, <2>3, <2>4, <2>7, ParticipantMoves DEF NumbersOK
<1>11. ASSUME NEW b \in BOOLEAN, Cleanup(b)
       PROVE  NumbersOK'
  BY <1>0, <1>11 DEF NumbersOK, Cleanup, race, round
<1> QED
  BY <1>2, <1>3, <1>4, <1>5, <1>6, <1>7, <1>8, <1>9, <1>10, <1>11, StepCases

LEMMA AnswersStep ==
  ASSUME IInv, [Next]_vars
  PROVE  AnswersInv'
<1>0. /\ AnswersInv /\ IndexInv /\ ShapeOK /\ NumbersOK
      /\ next \in Nat /\ Participants \in Nat
  BY BudgetAssumption DEF IInv, NumbersOK
<1> USE DEF AnswersInv
<1>1. CASE Expire \/ OperatorKill \/ UNCHANGED vars
  BY <1>0, <1>1 DEF Expire, OperatorKill, vars, race
<1>2. ASSUME NEW c \in Candidate, Propose(c)
      PROVE  AnswersInv'
  BY <1>0, <1>2 DEF Propose
<1>3. ASSUME NEW c \in Candidate, Execute(c)
      PROVE  AnswersInv'
  BY <1>0, <1>3 DEF Execute
<1>4. ASSUME NEW a \in Answers, Screen(a)
      PROVE  AnswersInv'
  BY <1>0, <1>4 DEF Screen
<1>5. ASSUME NEW a \in Answers, Preflight(a)
      PROVE  AnswersInv'
  BY <1>0, <1>5, PreflightCases
<1>6. ASSUME NEW o \in Outcomes, PassiveEnds(o) \/ SingleEnds(o)
      PROVE  AnswersInv'
  BY <1>0, <1>6 DEF PassiveEnds, SingleEnds
<1>7. ASSUME NEW w \in Worker, Start(w)
      PROVE  AnswersInv'
  BY <1>0, <1>7, StartMoves
<1>8. ASSUME NEW w \in Worker, NEW a \in Answers, Checked(w, a)
      PROVE  AnswersInv'
  BY <1>0, <1>8, CheckedMoves
<1>9. ASSUME NEW w \in Worker, NEW o \in Outcomes, ParticipantEnds(w, o)
      PROVE  AnswersInv'
  BY <1>0, <1>9, ParticipantMoves
<1>10. CASE AllReturned
  <2>1. phase = "racing" /\ phase' = "cleaning"
        /\ UNCHANGED <<cand, results, skipped, verdict>>
        /\ \A w \in Worker : pc[w] = "out"
    BY <1>10 DEF AllReturned, race
  <2>2. Count(pc, Busy) = 0
    BY <2>1, CountTypes DEF Busy
  <2>3. \E w \in Worker : TRUE
    BY WorkerFacts
  <2>4. skipped \/ Len(results) = Participants
    BY <1>0, <2>1, <2>2, <2>3 DEF IndexInv, NumbersOK, ShapeOK
  <2> QED BY <1>0, <2>1, <2>4
<1>11. ASSUME NEW b \in BOOLEAN, Cleanup(b)
       PROVE  AnswersInv'
  BY <1>0, <1>11 DEF Cleanup
<1> QED
  BY <1>1, <1>2, <1>3, <1>4, <1>5, <1>6, <1>7, <1>8, <1>9, <1>10, <1>11, StepCases

\* A cleanup reports success only when every answer was one.
LEMMA ReportIsEarned ==
  ASSUME ShapeOK, NEW b \in BOOLEAN, Reported(b) = "executed"
  PROVE  /\ b /\ (cand.kind = "race" => ~skipped)
         /\ \A i \in DOMAIN results : results[i] = "executed"
<1>1. b /\ (cand.kind = "race" => ~skipped) /\ FirstFailure = "executed"
  BY DEF Reported, ShapeOK
<1> DEFINE failed == {i \in DOMAIN results : results[i] # "executed"}
<1>2. failed \in SUBSET Nat
  BY DEF ShapeOK
<1>3. failed = {}
  <2> SUFFICES ASSUME failed # {} PROVE FALSE
    OBVIOUS
  <2>1. PICK m \in failed : \A j \in failed : m <= j
    <3> HIDE DEF failed
    <3> QED BY <1>2, LeastIndex
  <2>2. (CHOOSE i \in failed : \A j \in failed : i <= j) \in failed
    BY <2>1
  <2> QED BY <1>1, <2>2 DEF FirstFailure
<1> QED BY <1>1, <1>3

LEMMA SuccessStep ==
  ASSUME IInv, [Next]_vars
  PROVE  SuccessIsEarned'
<1>0. SuccessIsEarned /\ AnswersInv /\ DirtyInv /\ ShapeOK
  BY DEF IInv
<1> USE DEF SuccessIsEarned
<1>1. CASE Expire \/ OperatorKill \/ UNCHANGED vars
  BY <1>0, <1>1 DEF Expire, OperatorKill, vars, race, sent, round, Asked
<1>2. ASSUME NEW c \in Candidate, Propose(c) \/ Execute(c)
      PROVE  SuccessIsEarned'
  BY <1>0, <1>2 DEF Propose, Execute, sent
<1>3. ASSUME NEW a \in Answers, Screen(a) \/ Preflight(a)
      PROVE  SuccessIsEarned'
  BY <1>0, <1>3 DEF Screen, Preflight, AnswersInv
<1>4. ASSUME NEW o \in Outcomes, PassiveEnds(o) \/ SingleEnds(o)
      PROVE  SuccessIsEarned'
  <2>1. phase = "passive" => cand.kind = "none"
    BY <1>0 DEF AnswersInv
  <2> QED BY <1>0, <1>4, <2>1 DEF PassiveEnds, SingleEnds
<1>5. CASE AllReturned \/ (\E w \in Worker : Start(w))
           \/ (\E w \in Worker, a \in Answers : Checked(w, a))
           \/ (\E w \in Worker, o \in Outcomes : ParticipantEnds(w, o))
  BY <1>5 DEF AllReturned, Start, Checked, ParticipantEnds
<1>6. ASSUME NEW b \in BOOLEAN, Cleanup(b)
      PROVE  SuccessIsEarned'
  <2> SUFFICES ASSUME verdict' = "executed"
               PROVE  /\ results' = [i \in 1..Asked(cand') |-> "executed"]
                      /\ calls' \notin dirty'
    OBVIOUS
  <2>1. /\ phase = "cleaning" /\ Reported(b) = "executed"
        /\ dirty' = IF b THEN dirty \ {calls} ELSE dirty
        /\ UNCHANGED <<cand, results, calls>>
    BY <1>6 DEF Cleanup, round
  <2>2. /\ b /\ (cand.kind = "race" => ~skipped)
        /\ \A i \in DOMAIN results : results[i] = "executed"
    BY <1>0, <2>1, ReportIsEarned
  <2>3. Len(results) = Asked(cand)
    BY <1>0, <2>1, <2>2 DEF AnswersInv, Asked
  <2>4. results = [i \in 1..Len(results) |-> "executed"]
    BY <1>0, <2>2 DEF ShapeOK
  <2> QED BY <2>1, <2>2, <2>3, <2>4
<1> QED BY <1>1, <1>2, <1>3, <1>4, <1>5, <1>6, StepCases

-----------------------------------------------------------------------------
(* The theorems. *)

\* The inductive invariant holds in every reachable state.
THEOREM ExecutionInvariant == Spec => []IInv
<1>1. IInv /\ [Next]_vars => IInv'
  BY StepShape, NumbersStep, CountsStep, IndexStep, DirtyStep, AnswersStep,
     CallsStep, SuccessStep DEF IInv
<1> QED BY InitOK, <1>1, PTL DEF Spec

THEOREM TypesHold == Spec => []TypeOK
<1>1. IInv => TypeOK
  BY DEF IInv, ShapeOK, NumbersOK, TypeOK, Phases, Reasons, Verdicts, Places
<1> QED BY <1>1, ExecutionInvariant, PTL

\* However many workers race, and whatever the bridge, the operator and the
\* clock do: the signed budget holds, an execution is cleaned up before the
\* next request leaves, and a reported success was earned.
THEOREM ExecutionIsSecure == Spec => []SecurityInv
<1>1. IInv => SecurityInv
  <2> SUFFICES ASSUME IInv PROVE SecurityInv
    OBVIOUS
  <2>1. WithinAuthorization
    BY BudgetAssumption
       DEF IInv, NumbersOK, CountsInv, Count, Sending, WithinAuthorization
  <2>2. CleanedBeforeNext
    <3>1. phase = "cleaning" => Count(pc, Sending) = 0
      BY CountTypes DEF IInv, CountsInv, Sending
    <3> QED BY <3>1 DEF IInv, CountsInv, DirtyInv, Sent, CleanedBeforeNext
  <2> QED BY <2>1, <2>2 DEF IInv, SecurityInv
<1> QED BY <1>1, ExecutionInvariant, PTL

\* Once the switch has tripped no request is cleared any more and no single
\* request leaves, whoever tripped it and between whichever awaits.
THEOREM SwitchIsFinal == Spec => KillHolds
<1> DEFINE Cleared == {w \in Worker : pc[w] = "cleared"}
           Held == killed' # "no" =>
             /\ {w \in Worker : pc'[w] = "cleared"} \subseteq Cleared
             /\ phase' = "sending" => phase = "sending"
<1>1. IInv /\ [Next]_vars => [Held]_vars
  <2> SUFFICES ASSUME IInv, [Next]_vars, killed' # "no"
               PROVE  /\ {w \in Worker : pc'[w] = "cleared"} \subseteq Cleared
                      /\ phase' = "sending" => phase = "sending"
    OBVIOUS
  <2>0. ShapeOK
    BY DEF IInv
  <2>1. CASE \/ Expire \/ OperatorKill \/ UNCHANGED vars
             \/ \E c \in Candidate : Propose(c) \/ Execute(c)
             \/ \E a \in Answers : Screen(a)
             \/ \E o \in Outcomes : PassiveEnds(o)
    BY <2>1, QuietStep
  <2>2. CASE AllReturned \/ (\E o \in Outcomes : SingleEnds(o))
             \/ (\E b \in BOOLEAN : Cleanup(b))
    BY <2>2 DEF AllReturned, SingleEnds, Cleanup, race
  <2>3. ASSUME NEW a \in Answers, Preflight(a)
        PROVE  /\ {w \in Worker : pc'[w] = "cleared"} \subseteq Cleared
               /\ phase' # "sending"
    BY <2>0, <2>3, PreflightCases
  <2>4. ASSUME NEW w \in Worker, NEW a \in Answers, Checked(w, a)
        PROVE  /\ {v \in Worker : pc'[v] = "cleared"} \subseteq Cleared
               /\ phase' # "sending"
    BY <2>0, <2>4 DEF Checked, ShapeOK
  <2>5. ASSUME NEW w \in Worker, Start(w)
        PROVE  /\ {v \in Worker : pc'[v] = "cleared"} \subseteq Cleared
               /\ phase' # "sending"
    BY <2>0, <2>5 DEF Start, ShapeOK
  <2>6. ASSUME NEW w \in Worker, NEW o \in Outcomes, ParticipantEnds(w, o)
        PROVE  /\ {v \in Worker : pc'[v] = "cleared"} \subseteq Cleared
               /\ phase' # "sending"
    BY <2>0, <2>6 DEF ParticipantEnds, ShapeOK
  <2> QED BY <2>1, <2>2, <2>3, <2>4, <2>5, <2>6, StepCases
<1> QED BY <1>1, ExecutionInvariant, PTL DEF Spec, KillHolds

-----------------------------------------------------------------------------
(* The browser adapter: the inductive invariant.                           *)

Handlings == {"none", "dismiss", "hold", "accept"}

\* What the variables can hold.
BrowserTypes ==
  /\ window \in [Pages -> {"absent", "open", "closed"}]
  /\ content \in [Pages -> Contents]
  /\ traffic \in [Pages -> [tracked : Nat, ignored : Nat, early : Nat]]
  /\ dialog \in [Pages -> [handling : Handlings, of : Nat, armed : BOOLEAN]]
  /\ masked \in [Pages -> BOOLEAN]

TopologyTypes ==
  /\ targets \in [Pages -> [opener : Pages \cup {None}, trigger : Nat, closed : BOOLEAN]]
  /\ activeTarget \in Pages \cup {None} /\ logged \in Nat
  /\ pending \in [Pages -> Nat] /\ fresh \in [Pages -> BOOLEAN]
  /\ clicked \in [Pages -> Nat]
  /\ born \in [Pages -> [begun : Nat, during : Nat, early : Nat, alone : BOOLEAN]]
  /\ seen \subseteq Pages

CallerTypes ==
  /\ stage \in {"idle", "discover", "ready", "locating", "acting", "settling", "after",
                "shooting", "unmasking"}
  /\ action \in Nat /\ flying \in Nat
  /\ control \in [policy : Handlings,
                  outcome : Handlings \cup {"held-timeout", "failed"},
                  timer : Pages \cup {None}]
  /\ settle \in [polls : Nat, dom : Contents \cup {"none"}, topo : Nat, calm : BOOLEAN,
                 before : SUBSET Pages,
                 status : {"none", "target-closed", "settled", "timed_out"}]
  /\ evidence \in [page : Pages \cup {None}, masked : BOOLEAN,
                   outcome : {"none", "no-page", "shot", "failed", "redacted"}]

\* Pages open in order, each known page has an entry that tells whether it is
\* closed, and the entries name pages that are known.
PagesInv ==
  /\ \A p, q \in Pages : q < p /\ Known(p) => Known(q)
  /\ \A p \in Pages : Known(p) => (targets[p].closed <=> window[p] = "closed")
  /\ \A p \in Pages : ~Known(p) => targets[p] = NoEntry
  /\ \A p \in Pages : LET o == targets[p].opener IN o # None => Known(o) /\ o # p
  /\ activeTarget # None => Known(activeTarget)

\* A page remembers what was under way when it opened.
TriggerInv ==
  /\ \A p \in Pages : clicked[p] <= action
  /\ \A p \in Pages : Known(p) => born[p].begun <= action
  /\ \A p \in Pages : Known(p) /\ stage \in {"acting", "settling", "after"} =>
       p \in settle.before \/ born[p].during = flying

\* Requests the policy counts, of a page that had none when it registered.
TrafficInv ==
  \A p \in Pages :
    /\ traffic[p].early <= born[p].early
    /\ born[p].early = 0 => pending[p] = traffic[p].tracked
    /\ ~Known(p) => pending[p] = 0 /\ traffic[p].tracked = 0

\* The candidate and the action in flight.
FlightInv ==
  /\ stage \in {"discover", "ready", "locating", "acting", "settling", "after"} =>
       Target \in Pages
  /\ Executing =>
       \E p \in Pages, c \in UNION {Collected(w) : w \in Contents} :
         candidate = CreateCandidate(p, candidate.source, c)
  /\ stage \in {"locating", "acting", "settling", "after"} =>
       ResolveDialogPolicy # "denied" /\ action > 0
  /\ flying # None <=> stage \in {"acting", "settling", "after"}
  /\ flying # None => flying = action
  /\ control.policy = IF flying = None THEN "none" ELSE ResolveDialogPolicy

Closed == {p \in Pages : window[p] = "closed"}

\* From one poll to the next the log grows with every page that closes.
SettleInv ==
  /\ logged <= TopologyCap
  /\ settle.calm => settle.polls > 0
  /\ stage = "acting" => settle.polls = 0
  /\ stage = "settling" /\ settle.polls > 0 =>
       /\ settle.topo <= logged
       /\ settle.topo = logged => seen = Closed \/ logged = TopologyCap

\* The screenshot under way.
MaskInv ==
  /\ stage \in {"shooting", "unmasking"} => evidence.page \in Pages
  /\ stage = "shooting" => evidence.outcome = "none"
  /\ stage = "unmasking" => evidence.outcome \in {"shot", "failed"}
  /\ stage = "unmasking" /\ evidence.outcome = "shot" /\ masked[evidence.page] =>
       evidence.masked
  /\ evidence.outcome = "redacted" => evidence.page \in Pages

AdapterTypes == BrowserTypes /\ TopologyTypes /\ CallerTypes

AdapterIInv ==
  /\ AdapterTypes /\ PagesInv /\ TriggerInv /\ TrafficInv /\ FlightInv /\ SettleInv
  /\ MaskInv /\ AdapterInv

-----------------------------------------------------------------------------
(* The browser adapter: types, and what a step leaves alone.                *)

\* The fields, page by page.
LEMMA PageFacts ==
  ASSUME BrowserTypes, TopologyTypes, NEW p \in Pages
  PROVE  /\ p \in Nat /\ p # None
         /\ window[p] \in {"absent", "open", "closed"} /\ content[p] \in Contents
         /\ traffic[p] \in [tracked : Nat, ignored : Nat, early : Nat]
         /\ traffic[p].tracked \in Nat /\ traffic[p].ignored \in Nat
         /\ traffic[p].early \in Nat
         /\ dialog[p] \in [handling : Handlings, of : Nat, armed : BOOLEAN]
         /\ dialog[p].handling \in Handlings /\ masked[p] \in BOOLEAN
         /\ targets[p] \in [opener : Pages \cup {None}, trigger : Nat, closed : BOOLEAN]
         /\ targets[p].opener \in Pages \cup {None} /\ targets[p].trigger \in Nat
         /\ targets[p].closed \in BOOLEAN
         /\ pending[p] \in Nat /\ clicked[p] \in Nat
         /\ born[p] \in [begun : Nat, during : Nat, early : Nat, alone : BOOLEAN]
         /\ born[p].begun \in Nat /\ born[p].during \in Nat /\ born[p].early \in Nat
  <1>1. p \in Nat /\ p # None
    BY AdapterConstants DEF Pages, None
  <1>2. /\ window[p] \in {"absent", "open", "closed"} /\ content[p] \in Contents
        /\ traffic[p] \in [tracked : Nat, ignored : Nat, early : Nat]
        /\ dialog[p] \in [handling : Handlings, of : Nat, armed : BOOLEAN]
        /\ masked[p] \in BOOLEAN
    BY DEF BrowserTypes
  <1>3. /\ targets[p] \in [opener : Pages \cup {None}, trigger : Nat, closed : BOOLEAN]
        /\ pending[p] \in Nat /\ clicked[p] \in Nat
        /\ born[p] \in [begun : Nat, during : Nat, early : Nat, alone : BOOLEAN]
    BY DEF TopologyTypes
  <1>4. /\ traffic[p].tracked \in Nat /\ traffic[p].ignored \in Nat
        /\ traffic[p].early \in Nat /\ dialog[p].handling \in Handlings
    BY <1>2
  <1>5. /\ targets[p].opener \in Pages \cup {None} /\ targets[p].trigger \in Nat
        /\ targets[p].closed \in BOOLEAN
        /\ born[p].begun \in Nat /\ born[p].during \in Nat /\ born[p].early \in Nat
    BY <1>3
  <1> QED BY <1>1, <1>2, <1>3, <1>4, <1>5

\* No page opens or closes, and no entry changes.
LEMMA PagesLeft ==
  ASSUME UNCHANGED <<window, targets, activeTarget, born>>
  PROVE  /\ PagesInv => PagesInv'
         /\ ActiveIsOpen => ActiveIsOpen'
         /\ TriggersAreTrue => TriggersAreTrue'
  BY DEF PagesInv, ActiveIsOpen, TriggersAreTrue, Known

\* No request starts or ends.
LEMMA TrafficLeft ==
  ASSUME TrafficInv, UNCHANGED <<window, traffic, pending, born>>
  PROVE  TrafficInv'
  BY DEF TrafficInv, Known

\* No screenshot is under way after the step, and the last one stays what it is.
LEMMA MaskLeft ==
  ASSUME MaskInv, RedactedWasMasked, UNCHANGED <<masked, evidence>>,
         stage' \notin {"shooting", "unmasking"}
  PROVE  MaskInv' /\ RedactedWasMasked'
  BY DEF MaskInv, RedactedWasMasked

\* The caller goes no further, whatever the browser does.
LEMMA CallerWaits ==
  ASSUME UNCHANGED <<caller, flying, setup>>
  PROVE  /\ TRUE
         /\ FlightInv /\ control'.policy = control.policy => FlightInv'
         /\ TriggerInv /\ UNCHANGED <<clicked, born, window>> => TriggerInv'
         /\ SettleInv /\ UNCHANGED <<window, logged, seen>> => SettleInv'
         /\ MaskInv /\ RedactedWasMasked /\ UNCHANGED <<masked, evidence>> =>
              MaskInv' /\ RedactedWasMasked'
  <1> USE DEF caller
  <1>1. ASSUME FlightInv, control'.policy = control.policy PROVE FlightInv'
    BY <1>1 DEF FlightInv, Executing, Target, ResolveDialogPolicy
  <1>2. ASSUME TriggerInv, UNCHANGED <<clicked, born, window>> PROVE TriggerInv'
    BY <1>2 DEF TriggerInv, Known
  <1>3. ASSUME SettleInv, UNCHANGED <<window, logged, seen>> PROVE SettleInv'
    BY <1>3 DEF SettleInv, Closed
  <1>4. ASSUME MaskInv, RedactedWasMasked, UNCHANGED <<masked, evidence>>
        PROVE  MaskInv' /\ RedactedWasMasked'
    BY <1>4 DEF MaskInv, RedactedWasMasked
  <1> QED BY <1>1, <1>2, <1>3, <1>4

\* The caller does not move.
LEMMA CallerTypesKept ==
  ASSUME CallerTypes, UNCHANGED <<caller, flying, evidence>>
  PROVE  control' = control => CallerTypes'
  BY DEF CallerTypes, caller

\* No dialog is accepted.
LEMMA AcceptedLeft ==
  AcceptedWasAllowed /\ accepted' = accepted => AcceptedWasAllowed'
  BY DEF AcceptedWasAllowed

\* The log grows, up to its limit.
LEMMA LogGrows ==
  ASSUME SettleInv, logged \in Nat, NEW n \in Nat
  PROVE  /\ Logged(n) \in Nat /\ Logged(n) <= TopologyCap /\ logged <= Logged(n)
         /\ n > 0 => logged < Logged(n) \/ Logged(n) = TopologyCap
  BY AdapterConstants DEF SettleInv, Logged

\* A page becomes the active one.
LEMMA ActivateKeeps ==
  ASSUME AdapterTypes, PagesInv, ActiveIsOpen, SettleInv, TriggersAreTrue,
         NEW p, Usable(p), Activate(p), UNCHANGED <<window, targets, born>>
  PROVE  /\ PagesInv' /\ ActiveIsOpen' /\ TriggersAreTrue'
         /\ activeTarget' \in Pages \cup {None}
         /\ logged' \in Nat /\ logged <= logged' /\ logged' <= TopologyCap
  <1>1. /\ p \in Pages /\ window[p] # "absent" /\ ~targets[p].closed /\ activeTarget' = p
    BY DEF Usable, Known, Activate
  <1>2. PagesInv' /\ ActiveIsOpen' /\ TriggersAreTrue'
    BY <1>1 DEF PagesInv, ActiveIsOpen, TriggersAreTrue, Known
  <1>3. PICK n \in Nat : logged' = Logged(n)
    <2>1. (IF activeTarget \notin {None, p} THEN 1 ELSE 0) \in Nat
      OBVIOUS
    <2> QED BY <2>1 DEF Activate
  <1>4. logged \in Nat
    BY DEF AdapterTypes, TopologyTypes
  <1> QED BY <1>1, <1>2, <1>3, <1>4, LogGrows

-----------------------------------------------------------------------------
(* The browser adapter: what the browser does.                              *)

\* A page navigates; if its document is a new one it has lost the mask.
LEMMA MoveKeeps ==
  ASSUME AdapterIInv, NEW p \in Pages, NEW what \in Contents, NEW new \in BOOLEAN,
         Move(p, what, new)
  PROVE  AdapterIInv'
  <1>t. /\ BrowserTypes /\ TopologyTypes /\ CallerTypes /\ PagesInv /\ TriggerInv
        /\ TrafficInv /\ FlightInv /\ SettleInv /\ MaskInv /\ ActiveIsOpen
        /\ TriggersAreTrue /\ AcceptedWasAllowed /\ RedactedWasMasked
    BY DEF AdapterIInv, AdapterTypes, AdapterInv
  <1>1. /\ content' = [content EXCEPT ![p] = what]
        /\ masked' = [masked EXCEPT ![p] = masked[p] /\ ~new]
        /\ UNCHANGED <<setup, window, traffic, dialog, targets, activeTarget, logged,
                       pending, fresh, clicked, flying, control, evidence, born, seen,
                       accepted>>
        /\ UNCHANGED caller
    BY DEF Move, topology, network, history
  <1>2. BrowserTypes'
    <2>1. \A m \in [Pages -> BOOLEAN], b \in BOOLEAN :
            [m EXCEPT ![p] = b] \in [Pages -> BOOLEAN]
      OBVIOUS
    <2>2. (masked[p] /\ ~new) \in BOOLEAN
      OBVIOUS
    <2>3. masked' \in [Pages -> BOOLEAN]
      BY <1>1, <1>t, <2>1, <2>2 DEF BrowserTypes
    <2> QED BY <1>1, <1>t, <2>3 DEF BrowserTypes
  <1>3. TopologyTypes' /\ CallerTypes'
    BY <1>1, <1>t, CallerTypesKept DEF TopologyTypes
  <1>4. PagesInv' /\ ActiveIsOpen' /\ TriggersAreTrue' /\ TrafficInv'
    BY <1>1, <1>t, PagesLeft, TrafficLeft
  <1>5. FlightInv' /\ TriggerInv' /\ SettleInv'
    BY <1>1, <1>t, CallerWaits
  <1>6. \A q \in Pages : masked'[q] => masked[q]
    BY <1>1, <1>t DEF BrowserTypes
  <1>7. MaskInv' /\ RedactedWasMasked'
    <2>1. evidence.outcome = "redacted" => evidence.page \in Pages
      BY <1>t DEF MaskInv
    <2> QED BY <1>1, <1>6, <1>t, <2>1 DEF MaskInv, RedactedWasMasked, caller
  <1>8. AcceptedWasAllowed'
    BY <1>1, <1>t, AcceptedLeft
  <1> QED BY <1>2, <1>3, <1>4, <1>5, <1>7, <1>8 DEF AdapterIInv, AdapterTypes, AdapterInv

\* A request starts: counted, or among the ignored ones.
LEMMA StartRequestKeeps ==
  ASSUME AdapterIInv, NEW p \in Pages, NEW excluded \in BOOLEAN, StartRequest(p, excluded)
  PROVE  AdapterIInv'
  <1>t. /\ BrowserTypes /\ TopologyTypes /\ CallerTypes /\ PagesInv /\ TriggerInv
        /\ TrafficInv /\ FlightInv /\ SettleInv /\ MaskInv /\ ActiveIsOpen
        /\ TriggersAreTrue /\ AcceptedWasAllowed /\ RedactedWasMasked
    BY DEF AdapterIInv, AdapterTypes, AdapterInv
  <1>1. /\ UNCHANGED <<setup, window, content, dialog, masked, targets, activeTarget, logged,
                       clicked, flying, control, evidence, born, seen, accepted>>
        /\ UNCHANGED caller
        /\ Known(p)
    BY DEF StartRequest, topology, history, Open, Known
  <1>2. /\ \A q \in Pages : q # p => traffic'[q] = traffic[q] /\ pending'[q] = pending[q]
        /\ traffic'[p].early = traffic[p].early
        /\ traffic'[p] \in [tracked : Nat, ignored : Nat, early : Nat]
        /\ pending'[p] \in Nat
        /\ pending[p] = traffic[p].tracked => pending'[p] = traffic'[p].tracked
        /\ traffic' \in [Pages -> [tracked : Nat, ignored : Nat, early : Nat]]
        /\ pending' \in [Pages -> Nat] /\ fresh' \in [Pages -> BOOLEAN]
    <2>t. /\ traffic \in [Pages -> [tracked : Nat, ignored : Nat, early : Nat]]
          /\ pending \in [Pages -> Nat] /\ fresh \in [Pages -> BOOLEAN]
          /\ pending[p] \in Nat /\ traffic[p].tracked \in Nat
      BY <1>t, PageFacts DEF BrowserTypes, TopologyTypes
    <2>1. CASE excluded
      <3>1. traffic' = [traffic EXCEPT ![p].ignored = @ + 1] /\ UNCHANGED <<pending, fresh>>
        BY <2>1 DEF StartRequest, NetworkStarted, network
      <3> QED BY <2>t, <3>1
    <2>2. CASE ~excluded
      <3>1. /\ traffic' = [traffic EXCEPT ![p].tracked = @ + 1]
            /\ pending' = [pending EXCEPT ![p] = @ + 1]
            /\ fresh' = [fresh EXCEPT ![p] = TRUE]
        BY <2>2 DEF StartRequest, NetworkStarted
      <3> QED BY <2>t, <3>1
    <2> QED BY <2>1, <2>2
  <1>3. TrafficInv'
    <2> SUFFICES ASSUME NEW q \in Pages
                 PROVE  /\ traffic'[q].early <= born[q].early
                        /\ born[q].early = 0 => pending'[q] = traffic'[q].tracked
                        /\ ~Known(q) => pending'[q] = 0 /\ traffic'[q].tracked = 0
      BY <1>1 DEF TrafficInv, Known
    <2>1. CASE q # p
      BY <1>2, <1>t, <2>1 DEF TrafficInv
    <2>2. CASE q = p
      <3>2. born[p].early = 0 => pending[p] = traffic[p].tracked
        BY <1>t DEF TrafficInv
      <3>3. born[p].early = 0 => pending'[p] = traffic'[p].tracked
        BY <1>2, <3>2
      <3>4. traffic'[p].early <= born[p].early
        BY <1>2, <1>t DEF TrafficInv
      <3> QED BY <1>1, <2>2, <3>3, <3>4
    <2> QED BY <2>1, <2>2
  <1>4. BrowserTypes' /\ TopologyTypes' /\ CallerTypes'
    BY <1>1, <1>2, <1>t, CallerTypesKept DEF BrowserTypes, TopologyTypes
  <1>5. PagesInv' /\ ActiveIsOpen' /\ TriggersAreTrue'
    BY <1>1, <1>t, PagesLeft
  <1>6. FlightInv' /\ TriggerInv' /\ SettleInv' /\ MaskInv' /\ RedactedWasMasked'
    BY <1>1, <1>t, CallerWaits
  <1>7. AcceptedWasAllowed'
    BY <1>1, <1>t, AcceptedLeft
  <1> QED BY <1>3, <1>4, <1>5, <1>6, <1>7 DEF AdapterIInv, AdapterTypes, AdapterInv

\* A request ends; the count of the policy goes down for one it has counted, and
\* perhaps for one under way before the page registered.
LEMMA FinishRequestKeeps ==
  ASSUME AdapterIInv, NEW p \in Pages, NEW kind \in {"tracked", "ignored", "early"},
         FinishRequest(p, kind)
  PROVE  AdapterIInv'
  <1>t. /\ BrowserTypes /\ TopologyTypes /\ CallerTypes /\ PagesInv /\ TriggerInv
        /\ TrafficInv /\ FlightInv /\ SettleInv /\ MaskInv /\ ActiveIsOpen
        /\ TriggersAreTrue /\ AcceptedWasAllowed /\ RedactedWasMasked
    BY DEF AdapterIInv, AdapterTypes, AdapterInv
  <1>1. /\ UNCHANGED <<setup, window, content, dialog, masked, targets, activeTarget, logged,
                       clicked, flying, control, evidence, born, seen, accepted>>
        /\ UNCHANGED caller
        /\ Known(p)
    BY DEF FinishRequest, topology, history, Open, Known
  <1>2. /\ \A q \in Pages : q # p => traffic'[q] = traffic[q] /\ pending'[q] = pending[q]
        /\ traffic'[p].early <= traffic[p].early
        /\ traffic[p].early = 0 /\ pending[p] = traffic[p].tracked =>
             pending'[p] = traffic'[p].tracked
        /\ traffic' \in [Pages -> [tracked : Nat, ignored : Nat, early : Nat]]
        /\ pending' \in [Pages -> Nat] /\ fresh' \in [Pages -> BOOLEAN]
    <2>t. /\ traffic \in [Pages -> [tracked : Nat, ignored : Nat, early : Nat]]
          /\ pending \in [Pages -> Nat] /\ fresh \in [Pages -> BOOLEAN]
          /\ pending[p] \in Nat /\ traffic[p].tracked \in Nat
          /\ traffic[p].early \in Nat /\ traffic[p].ignored \in Nat
      BY <1>t, PageFacts DEF BrowserTypes, TopologyTypes
    <2>1. CASE kind = "ignored"
      <3>1. /\ traffic[p].ignored > 0 /\ traffic' = [traffic EXCEPT ![p].ignored = @ - 1]
            /\ UNCHANGED <<pending, fresh>>
        BY <2>1 DEF FinishRequest, NetworkFinished, network
      <3> QED BY <2>t, <3>1
    <2>2. CASE kind = "tracked"
      <3>1. /\ traffic[p].tracked > 0 /\ traffic' = [traffic EXCEPT ![p].tracked = @ - 1]
            /\ pending' = [pending EXCEPT ![p] = IF @ = 0 THEN 0 ELSE @ - 1]
            /\ fresh' = [fresh EXCEPT ![p] = TRUE]
        BY <2>2 DEF FinishRequest, NetworkFinished
      <3> QED BY <2>t, <3>1
    <2>3. CASE kind = "early"
      <3>1. /\ traffic[p].early > 0 /\ traffic' = [traffic EXCEPT ![p].early = @ - 1]
            /\ pending' = [pending EXCEPT ![p] = IF @ = 0 THEN 0 ELSE @ - 1]
            /\ fresh' = [fresh EXCEPT ![p] = TRUE]
        BY <2>3 DEF FinishRequest, NetworkFinished
      <3> QED BY <2>t, <3>1
    <2> QED BY <2>1, <2>2, <2>3
  <1>3. TrafficInv'
    <2> SUFFICES ASSUME NEW q \in Pages
                 PROVE  /\ traffic'[q].early <= born[q].early
                        /\ born[q].early = 0 => pending'[q] = traffic'[q].tracked
                        /\ ~Known(q) => pending'[q] = 0 /\ traffic'[q].tracked = 0
      BY <1>1 DEF TrafficInv, Known
    <2>1. CASE q # p
      BY <1>2, <1>t, <2>1 DEF TrafficInv
    <2>2. CASE q = p
      <3>1. /\ traffic[p].early \in Nat /\ traffic'[p].early \in Nat /\ born[p].early \in Nat
            /\ traffic[p].early <= born[p].early
        BY <1>2, <1>t, PageFacts DEF TrafficInv
      <3>2. born[p].early = 0 => traffic[p].early = 0
        BY <3>1
      <3>3. traffic'[p].early <= born[p].early
        BY <1>2, <3>1
      <3>4. born[p].early = 0 => pending[p] = traffic[p].tracked
        BY <1>t DEF TrafficInv
      <3>5. born[p].early = 0 => pending'[p] = traffic'[p].tracked
        BY <1>2, <3>2, <3>4
      <3> QED BY <1>1, <2>2, <3>3, <3>5
    <2> QED BY <2>1, <2>2
  <1>4. BrowserTypes' /\ TopologyTypes' /\ CallerTypes'
    BY <1>1, <1>2, <1>t, CallerTypesKept DEF BrowserTypes, TopologyTypes
  <1>5. PagesInv' /\ ActiveIsOpen' /\ TriggersAreTrue'
    BY <1>1, <1>t, PagesLeft
  <1>6. FlightInv' /\ TriggerInv' /\ SettleInv' /\ MaskInv' /\ RedactedWasMasked'
    BY <1>1, <1>t, CallerWaits
  <1>7. AcceptedWasAllowed'
    BY <1>1, <1>t, AcceptedLeft
  <1> QED BY <1>3, <1>4, <1>5, <1>6, <1>7 DEF AdapterIInv, AdapterTypes, AdapterInv

\* A step that only answers or raises a dialog, or opens or closes pages, leaves
\* the candidate and the policy for its dialogs.
LEMMA AcceptedFacts ==
  ASSUME FlightInv, control.policy = "accept"
  PROVE  /\ flying # None /\ candidate # NoCandidate
         /\ candidate.chosen.dialog = "accept"
         /\ candidate.mutation \in AllowedKinds
         /\ candidate.mutation = ClassifyMutation(candidate.chosen)
  <1>1. flying # None /\ ResolveDialogPolicy = "accept"
    BY DEF FlightInv
  <1>2. PICK p \in Pages, c \in UNION {Collected(w) : w \in Contents} :
          candidate = CreateCandidate(p, candidate.source, c)
    BY <1>1 DEF FlightInv, Executing
  <1>3. /\ candidate.target = p /\ candidate.chosen = c
        /\ candidate.mutation = ClassifyMutation(c)
    BY <1>2 DEF CreateCandidate
  <1>4. p # 0
    BY AdapterConstants DEF Pages
  <1>5. candidate # NoCandidate
    BY <1>3, <1>4 DEF NoCandidate, None
  <1>6. candidate.chosen.dialog = "accept" /\ candidate.mutation \in AllowedKinds
    BY <1>1 DEF ResolveDialogPolicy
  <1> QED BY <1>1, <1>3, <1>5, <1>6

\* What is known of a control is one kind of mutation, or the kind is unknown.
LEMMA ClassifiedKind ==
  ASSUME NEW c, ClassifyMutation(c) \in AllowedKinds, "unknown" \notin AllowedKinds
  PROVE  /\ Evidence(c) # {} /\ Evidence(c) \subseteq AllowedKinds
         /\ c.method # "absent" => MethodMutation(c.method) \in AllowedKinds
  <1>1. ClassifyMutation(c) # "unknown"
    OBVIOUS
  <1>2. /\ Cardinality(Evidence(c)) = 1
        /\ ~(c.method # "absent" /\ MethodMutation(c.method) = "absent")
        /\ ClassifyMutation(c) = CHOOSE kind \in Evidence(c) : TRUE
    BY <1>1 DEF ClassifyMutation
  <1>3. IsFiniteSet(Evidence(c))
    <2>1. \A d, m, k, h : IsFiniteSet({d, m, k, h})
      <3> TAKE d, m, k, h
      <3>1. IsFiniteSet({d})
        BY FS_Singleton
      <3>2. IsFiniteSet({d} \cup {m})
        BY <3>1, FS_AddElement
      <3>3. IsFiniteSet(({d} \cup {m}) \cup {k})
        BY <3>2, FS_AddElement
      <3>4. IsFiniteSet((({d} \cup {m}) \cup {k}) \cup {h})
        BY <3>3, FS_AddElement
      <3>5. (({d} \cup {m}) \cup {k}) \cup {h} = {d, m, k, h}
        OBVIOUS
      <3> QED BY <3>4, <3>5
    <2>2. Evidence(c) \subseteq
            {c.declared, MethodMutation(c.method), c.contract, HeuristicMutation(c)}
      BY DEF Evidence
    <2> QED BY <2>1, <2>2, FS_Subset
  <1>4. PICK k : Evidence(c) = {k}
    BY <1>2, <1>3, FS_Singleton
  <1>5. ClassifyMutation(c) = k
    BY <1>2, <1>4
  <1>6. c.method # "absent" => MethodMutation(c.method) \in Evidence(c)
    BY <1>2 DEF Evidence
  <1> QED BY <1>4, <1>5, <1>6

\* A dialog is accepted under the policy of the action in flight, which the recheck
\* has found allowed.
LEMMA RaiseDialogKeeps ==
  ASSUME AdapterIInv, NEW p \in Pages, RaiseDialog(p)
  PROVE  AdapterIInv'
  <1>t. /\ BrowserTypes /\ TopologyTypes /\ CallerTypes /\ PagesInv /\ TriggerInv
        /\ TrafficInv /\ FlightInv /\ SettleInv /\ MaskInv /\ ActiveIsOpen
        /\ TriggersAreTrue /\ AcceptedWasAllowed /\ RedactedWasMasked
    BY DEF AdapterIInv, AdapterTypes, AdapterInv
  <1>1. /\ dialog' = [dialog EXCEPT ![p] =
             [handling |-> Handling, of |-> flying, armed |-> Handling = "hold"]]
        /\ control' = IF Handling = "hold" THEN [control EXCEPT !.timer = p] ELSE control
        /\ UNCHANGED <<setup, window, content, traffic, masked, targets, activeTarget, logged,
                       pending, fresh, clicked, flying, evidence, born, seen>>
        /\ UNCHANGED caller
    BY DEF RaiseDialog, topology, network
  <1>2. Handling \in Handlings /\ flying \in Nat
    BY <1>t DEF CallerTypes, Handling, Handlings
  <1>3. BrowserTypes'
    <2>1. PICK h \in Handlings : h = Handling
      BY <1>2
    <2>2. [handling |-> h, of |-> flying, armed |-> h = "hold"]
            \in [handling : Handlings, of : Nat, armed : BOOLEAN]
      BY <1>2
    <2>3. dialog' \in [Pages -> [handling : Handlings, of : Nat, armed : BOOLEAN]]
      BY <1>1, <1>t, <2>1, <2>2 DEF BrowserTypes
    <2> QED BY <1>1, <1>t, <2>3 DEF BrowserTypes
  <1>4. TopologyTypes'
    BY <1>1, <1>t DEF TopologyTypes
  <1>5. CallerTypes' /\ control'.policy = control.policy
    BY <1>1, <1>t DEF CallerTypes, caller
  <1>6. PagesInv' /\ ActiveIsOpen' /\ TriggersAreTrue' /\ TrafficInv'
    BY <1>1, <1>t, PagesLeft, TrafficLeft
  <1>7. FlightInv' /\ TriggerInv' /\ SettleInv' /\ MaskInv' /\ RedactedWasMasked'
    BY <1>1, <1>5, <1>t, CallerWaits
  <1>8. AcceptedWasAllowed'
    <2>1. CASE Handling # "accept"
      BY <1>t, <2>1, AcceptedLeft DEF RaiseDialog
    <2>2. CASE Handling = "accept"
      <3>1. control.policy = "accept"
        BY <2>2 DEF Handling
      <3>2. /\ flying # None /\ candidate # NoCandidate
            /\ candidate.chosen.dialog = "accept"
            /\ ClassifyMutation(candidate.chosen) \in AllowedKinds
        BY <1>t, <3>1, AcceptedFacts
      <3>3. accepted' = accepted \cup {candidate}
        BY <2>2, <3>2 DEF RaiseDialog
      <3>4. "unknown" \notin AllowedKinds =>
              /\ Evidence(candidate.chosen) # {}
              /\ Evidence(candidate.chosen) \subseteq AllowedKinds
              /\ candidate.chosen.method # "absent" =>
                   MethodMutation(candidate.chosen.method) \in AllowedKinds
        BY <3>2, ClassifiedKind
      <3> QED BY <1>t, <3>2, <3>3, <3>4 DEF AcceptedWasAllowed
    <2> QED BY <2>1, <2>2
  <1> QED BY <1>3, <1>4, <1>5, <1>6, <1>7, <1>8 DEF AdapterIInv, AdapterTypes, AdapterInv

\* The answer to a dialog, in time or after its timer: the policy stays.
LEMMA AnswerDialogKeeps ==
  ASSUME AdapterIInv, NEW p \in Pages, AnswerDialog(p)
  PROVE  AdapterIInv'
  <1>t. /\ BrowserTypes /\ TopologyTypes /\ CallerTypes /\ PagesInv /\ TriggerInv
        /\ TrafficInv /\ FlightInv /\ SettleInv /\ MaskInv /\ ActiveIsOpen
        /\ TriggersAreTrue /\ AcceptedWasAllowed /\ RedactedWasMasked
    BY DEF AdapterIInv, AdapterTypes, AdapterInv
  <1>1. /\ dialog' = [dialog EXCEPT ![p] = NoDialog]
        /\ \/ control' = control
           \/ \E o \in Handlings \cup {"held-timeout", "failed"} :
                control' = [control EXCEPT !.outcome = o]
        /\ UNCHANGED <<setup, window, content, traffic, masked, targets, activeTarget, logged,
                       pending, fresh, clicked, flying, evidence, born, seen, accepted>>
        /\ UNCHANGED caller
    <2>1. dialog[p].handling \in Handlings
      BY <1>t, PageFacts
    <2> QED BY <2>1 DEF AnswerDialog, topology, network, history
  <1>2. BrowserTypes'
    <2>1. NoDialog \in [handling : Handlings, of : Nat, armed : BOOLEAN]
      BY DEF NoDialog, Handlings, None
    <2> QED BY <1>1, <1>t, <2>1 DEF BrowserTypes
  <1>3. TopologyTypes'
    BY <1>1, <1>t DEF TopologyTypes
  <1>4. CallerTypes' /\ control'.policy = control.policy
    BY <1>1, <1>t DEF CallerTypes, caller
  <1>5. PagesInv' /\ ActiveIsOpen' /\ TriggersAreTrue' /\ TrafficInv'
    BY <1>1, <1>t, PagesLeft, TrafficLeft
  <1>6. FlightInv' /\ TriggerInv' /\ SettleInv' /\ MaskInv' /\ RedactedWasMasked'
    BY <1>1, <1>4, <1>t, CallerWaits
  <1>7. AcceptedWasAllowed'
    BY <1>1, <1>t, AcceptedLeft
  <1> QED BY <1>2, <1>3, <1>4, <1>5, <1>6, <1>7 DEF AdapterIInv, AdapterTypes, AdapterInv

\* A page closes: the caller is moved to one that is open, if any is.
LEMMA CloseEffectKeeps ==
  ASSUME AdapterIInv, NEW p \in Pages, NEW extra \in Nat, Usable(p) \/ Open(p),
         CloseEffect(p, extra),
         UNCHANGED <<setup, content, traffic, masked, pending, fresh, clicked, flying,
                     evidence, born, seen, accepted>>,
         UNCHANGED caller
  PROVE  AdapterIInv'
  <1>t. /\ BrowserTypes /\ TopologyTypes /\ CallerTypes /\ PagesInv /\ TriggerInv
        /\ TrafficInv /\ FlightInv /\ SettleInv /\ MaskInv /\ ActiveIsOpen
        /\ TriggersAreTrue /\ AcceptedWasAllowed /\ RedactedWasMasked
    BY DEF AdapterIInv, AdapterTypes, AdapterInv
  <1>0. Known(p) /\ window[p] = "open"
    <2>1. window[p] \in {"absent", "open", "closed"} /\ targets[p].closed \in BOOLEAN
      BY <1>t, PageFacts
    <2> QED BY <1>t, <2>1 DEF Usable, Open, Known, PagesInv
  <1> DEFINE return == ReturnTarget(p)
  <1>1. /\ window' = [window EXCEPT ![p] = "closed"]
        /\ targets' = [targets EXCEPT ![p].closed = TRUE]
        /\ activeTarget' = IF return = None THEN activeTarget ELSE return
        /\ logged' = Logged(extra + IF return = None THEN 1 ELSE 2)
        /\ dialog' = [dialog EXCEPT ![p] = NoDialog]
        /\ control' = control \/ control' = [control EXCEPT !.outcome = "failed"]
    BY DEF CloseEffect
  <1>2. return # None => Known(return) /\ return # p /\ ~targets[return].closed
    <2> DEFINE opener == targets[p].opener
               others == {q \in Pages \ {p} : Known(q) /\ ~targets[q].closed}
    <2>1. opener # None => Known(opener) /\ opener # p
      BY <1>0, <1>t DEF PagesInv
    <2>2. CASE opener # None /\ ~targets[opener].closed
      BY <2>1, <2>2 DEF ReturnTarget
    <2>3. CASE ~(opener # None /\ ~targets[opener].closed) /\ others = {}
      BY <2>3 DEF ReturnTarget
    <2>4. CASE ~(opener # None /\ ~targets[opener].closed) /\ others # {}
      <3>1. PICK m \in others : \A q \in others : m <= q
        <4>1. others \in SUBSET Nat
          BY AdapterConstants DEF Pages
        <4> QED BY <2>4, <4>1, LeastIndex
      <3>2. return = CHOOSE q \in others : \A r \in others : q <= r
        BY <2>4 DEF ReturnTarget
      <3>3. return \in others
        BY <3>1, <3>2
      <3> QED BY <3>3 DEF Known
    <2> QED BY <2>2, <2>3, <2>4
  <1>3. return = None => \A q \in Pages : Known(q) => q = p \/ targets[q].closed
    <2> DEFINE opener == targets[p].opener
               others == {q \in Pages \ {p} : Known(q) /\ ~targets[q].closed}
    <2> SUFFICES ASSUME return = None PROVE others = {}
      OBVIOUS
    <2> SUFFICES ASSUME others # {} PROVE FALSE
      OBVIOUS
    <2>1. PICK m \in others : \A q \in others : m <= q
      <3>1. others \in SUBSET Nat
        BY AdapterConstants DEF Pages
      <3> QED BY <3>1, LeastIndex
    <2>2. \/ return = opener /\ opener # None
          \/ return = CHOOSE q \in others : \A r \in others : q <= r
      BY DEF ReturnTarget
    <2>3. return \in others
      BY <2>1, <2>2
    <2>4. return \in Nat \ {0}
      BY <2>3, AdapterConstants DEF Pages
    <2> QED BY <2>4 DEF None
  <1> HIDE DEF return
  <1>4. /\ \A q \in Pages : q # p => window'[q] = window[q] /\ targets'[q] = targets[q]
        /\ window'[p] = "closed" /\ targets'[p].closed
        /\ targets'[p].opener = targets[p].opener /\ targets'[p].trigger = targets[p].trigger
        /\ \A q : Known(q)' <=> Known(q)
    BY <1>0, <1>1, <1>t DEF BrowserTypes, TopologyTypes, Known
  <1>5. BrowserTypes'
    <2>1. NoDialog \in [handling : Handlings, of : Nat, armed : BOOLEAN]
      BY DEF NoDialog, Handlings, None
    <2> QED BY <1>1, <1>t, <2>1 DEF BrowserTypes
  <1>6. logged' \in Nat /\ logged' <= TopologyCap /\ (logged < logged' \/ logged' = TopologyCap)
    <2>1. PICK n \in Nat : n > 0 /\ logged' = Logged(n)
      BY <1>1
    <2> QED BY <1>t, <2>1, LogGrows DEF TopologyTypes
  <1>7. TopologyTypes'
    <2>1. targets' \in [Pages -> [opener : Pages \cup {None}, trigger : Nat, closed : BOOLEAN]]
      BY <1>1, <1>t DEF TopologyTypes
    <2>2. activeTarget' \in Pages \cup {None}
      BY <1>1, <1>2, <1>t DEF TopologyTypes, Known
    <2> QED BY <1>6, <1>t, <2>1, <2>2 DEF TopologyTypes
  <1>8. CallerTypes' /\ control'.policy = control.policy
    BY <1>1, <1>t DEF CallerTypes, caller
  <1>9. PagesInv'
    <2>1. \A q \in Pages : targets'[q].opener = targets[q].opener
      BY <1>4
    <2>2. \A q \in Pages : Known(q) => (targets'[q].closed <=> window'[q] = "closed")
      BY <1>4, <1>t DEF PagesInv
    <2>3. activeTarget' # None => Known(activeTarget')
      BY <1>1, <1>2, <1>t DEF PagesInv
    <2> QED BY <1>0, <1>4, <1>t, <2>1, <2>2, <2>3 DEF PagesInv
  <1>10. ActiveIsOpen'
    <2> SUFFICES ASSUME activeTarget' # None, targets'[activeTarget'].closed,
                        NEW q \in Pages, Known(q)
                 PROVE  targets'[q].closed
      BY <1>4 DEF ActiveIsOpen
    <2>1. return = None
      <3> SUFFICES ASSUME return # None PROVE FALSE
        OBVIOUS
      <3>1. activeTarget' = return /\ return \in Pages
        BY <1>1, <1>2 DEF Known
      <3> QED BY <1>2, <1>4, <3>1
    <2> QED BY <1>3, <1>4, <2>1
  <1>11. TriggersAreTrue' /\ TriggerInv' /\ TrafficInv'
    <2>1. \A q \in Pages : targets'[q].trigger = targets[q].trigger
      BY <1>4
    <2>2. TriggersAreTrue'
      BY <1>4, <1>t, <2>1 DEF TriggersAreTrue
    <2>3. TriggerInv'
      BY <1>4, <1>t DEF TriggerInv, caller
    <2>4. TrafficInv'
      BY <1>4, <1>t DEF TrafficInv
    <2> QED BY <2>2, <2>3, <2>4
  <1>12. SettleInv'
    <2>1. ASSUME stage = "settling", settle.polls > 0
          PROVE  settle.topo <= logged' /\ (settle.topo = logged' => logged' = TopologyCap)
      <3>1. settle.topo <= logged /\ settle.topo \in Nat /\ logged \in Nat
            /\ logged <= TopologyCap
        BY <1>t, <2>1 DEF SettleInv, CallerTypes, TopologyTypes
      <3> QED BY <1>6, <3>1, AdapterConstants
    <2> QED BY <1>6, <1>t, <2>1 DEF SettleInv, caller
  <1>13. FlightInv' /\ MaskInv' /\ RedactedWasMasked'
    BY <1>8, <1>t, CallerWaits
  <1>14. AcceptedWasAllowed'
    BY <1>t, AcceptedLeft
  <1> QED BY <1>5, <1>7, <1>8, <1>9, <1>10, <1>11, <1>12, <1>13, <1>14
          DEF AdapterIInv, AdapterTypes, AdapterInv

\* A page closes by itself or by the caller.
LEMMA ClosePageKeeps ==
  ASSUME AdapterIInv, NEW p \in Pages, ClosePage(p) \/ CloseTarget(p)
  PROVE  AdapterIInv'
  BY CloseEffectKeeps DEF ClosePage, CloseTarget, network, history

\* A page opens.  If no other is open, it is alone; otherwise one that is open has
\* a lower number.
LEMMA OpenPageKeeps ==
  ASSUME AdapterIInv, NEW q \in Pages, NEW p \in Pages \cup {None}, NEW early \in 0..1,
         OpenPage(q, p, early)
  PROVE  AdapterIInv'
  <1>t. /\ BrowserTypes /\ TopologyTypes /\ CallerTypes /\ PagesInv /\ TriggerInv
        /\ TrafficInv /\ FlightInv /\ SettleInv /\ MaskInv /\ ActiveIsOpen
        /\ TriggersAreTrue /\ AcceptedWasAllowed /\ RedactedWasMasked
    BY DEF AdapterIInv, AdapterTypes, AdapterInv
  <1>0. /\ ~Known(q) /\ \A r \in Pages : r < q => Known(r)
        /\ p # None => Known(p) /\ p # q
    BY DEF OpenPage, Open, Known
  <1> DEFINE viaContext == IF setup.context THEN RegisterPage(NoEntry, None, flying)
                                            ELSE NoEntry
             entry == IF p # None THEN RegisterPage(viaContext, p, flying) ELSE viaContext
             birth == [begun |-> action, during |-> flying, early |-> early,
                       alone |-> \A r \in Pages : ~Open(r)]
  <1>1. /\ targets' = [targets EXCEPT ![q] = entry]
        /\ window' = [window EXCEPT ![q] = "open"]
        /\ traffic' = [traffic EXCEPT ![q].early = early]
        /\ logged' = Logged(IF p # None /\ ~setup.context THEN 1 ELSE 0)
        /\ clicked' = [r \in Pages |->
             IF r = p /\ Inferred(p, flying) # None THEN None ELSE clicked[r]]
        /\ born' = [born EXCEPT ![q] = birth]
        /\ UNCHANGED <<setup, content, dialog, masked, activeTarget, pending, fresh, flying,
                       control, evidence, seen, accepted>>
        /\ UNCHANGED caller
    BY DEF OpenPage, network
  <1>2. /\ entry \in [opener : Pages \cup {None}, trigger : Nat, closed : BOOLEAN]
        /\ ~entry.closed
        /\ entry.opener # None => entry.opener = p
        /\ entry.trigger <= action
        /\ flying # None => entry.trigger = flying
    <2>1. flying \in Nat /\ action \in Nat /\ flying <= action
      BY <1>t DEF CallerTypes, FlightInv, None
    <2>2. p # None => clicked[p] \in Nat /\ clicked[p] <= action
      BY <1>t, PageFacts DEF TriggerInv
    <2>3. p # None => setup.context \/ viaContext = NoEntry
      OBVIOUS
    <2>4. /\ viaContext \in [opener : Pages \cup {None}, trigger : Nat, closed : BOOLEAN]
          /\ viaContext.opener = None /\ ~viaContext.closed
          /\ viaContext.trigger \in {None, flying}
          /\ p = None => viaContext.trigger = flying
      <3>1. p = None => setup.context
        BY DEF OpenPage
      <3>2. NoEntry \in [opener : Pages \cup {None}, trigger : Nat, closed : BOOLEAN]
        BY DEF NoEntry, None
      <3>3. CASE setup.context
        <4>1. RegisterPage(NoEntry, None, flying)
                = [opener |-> None, trigger |-> flying, closed |-> FALSE]
          <5>1. Inferred(None, flying) = flying
            BY DEF Inferred
          <5>2. RegisterPage(NoEntry, None, flying) =
                  [NoEntry EXCEPT !.opener = None, !.trigger = flying]
            BY <5>1 DEF RegisterPage, NoEntry
          <5> QED BY <5>2 DEF NoEntry
        <4> QED BY <2>1, <3>3, <4>1
      <3>4. CASE ~setup.context
        BY <3>1, <3>2, <3>4 DEF NoEntry
      <3> QED BY <3>3, <3>4
    <2>5. CASE p = None
      BY <2>1, <2>4, <2>5
    <2>6. CASE p # None
      <3>1. PICK t \in Nat : /\ t = IF viaContext.trigger = None THEN Inferred(p, flying)
                                                                   ELSE viaContext.trigger
                             /\ t <= action
                             /\ flying # None => t = flying
        BY <2>1, <2>2, <2>4, <2>6 DEF Inferred
      <3>2. entry = [viaContext EXCEPT !.opener = p, !.trigger = t]
        BY <2>4, <2>6, <3>1 DEF RegisterPage
      <3> HIDE DEF entry, viaContext
      <3> QED BY <2>4, <2>6, <3>1, <3>2
    <2> QED BY <2>5, <2>6
  <1>3. birth \in [begun : Nat, during : Nat, early : Nat, alone : BOOLEAN]
    <2>1. action \in Nat /\ flying \in Nat /\ early \in Nat
      BY <1>t DEF CallerTypes
    <2> QED BY <2>1
  <1>4. birth.begun = action /\ birth.during = flying /\ birth.early = early
    OBVIOUS
  <1>5. birth.alone <=> \A r \in Pages : ~Open(r)
    OBVIOUS
  <1> HIDE DEF entry, birth
  <1>6. /\ \A r \in Pages : r # q => /\ window'[r] = window[r] /\ targets'[r] = targets[r]
                                     /\ born'[r] = born[r] /\ traffic'[r] = traffic[r]
        /\ window'[q] = "open" /\ targets'[q] = entry /\ born'[q] = birth
        /\ traffic'[q].early = early /\ traffic'[q].tracked = traffic[q].tracked
        /\ \A r : Known(r)' <=> Known(r) \/ r = q
    <2>1. /\ DOMAIN window = Pages /\ DOMAIN traffic = Pages
          /\ DOMAIN targets = Pages /\ DOMAIN born = Pages
          /\ DOMAIN traffic[q] = {"tracked", "ignored", "early"}
      BY <1>t DEF BrowserTypes, TopologyTypes
    <2>2. /\ \A r \in Pages : r # q => window'[r] = window[r] /\ targets'[r] = targets[r]
          /\ window'[q] = "open" /\ targets'[q] = entry
      BY <1>1, <2>1
    <2>3. /\ \A r \in Pages : r # q => born'[r] = born[r] /\ traffic'[r] = traffic[r]
          /\ born'[q] = birth
      BY <1>1, <2>1
    <2>4. traffic'[q].early = early /\ traffic'[q].tracked = traffic[q].tracked
      BY <1>1, <2>1
    <2>5. \A r : Known(r)' <=> Known(r) \/ r = q
      BY <2>2 DEF Known
    <2> QED BY <2>2, <2>3, <2>4, <2>5
  <1>7. BrowserTypes'
    <2>1. traffic' \in [Pages -> [tracked : Nat, ignored : Nat, early : Nat]]
      <3> DEFINE Counters == [tracked : Nat, ignored : Nat, early : Nat]
                 counters == [traffic[q] EXCEPT !.early = early]
      <3>1. traffic \in [Pages -> Counters] /\ traffic[q] \in Counters
        BY <1>t DEF BrowserTypes
      <3>2. counters \in Counters
        BY <3>1
      <3>3. traffic' = [traffic EXCEPT ![q] = counters]
        BY <1>1
      <3> HIDE DEF Counters, counters
      <3>4. traffic' \in [Pages -> Counters]
        BY <3>1, <3>2, <3>3
      <3> QED BY <3>4 DEF Counters
    <2>2. window' \in [Pages -> {"absent", "open", "closed"}]
      BY <1>1, <1>t DEF BrowserTypes
    <2> QED BY <1>1, <1>t, <2>1, <2>2 DEF BrowserTypes
  <1>8. logged' \in Nat /\ logged <= logged' /\ logged' <= TopologyCap
    <2>1. PICK n \in Nat : logged' = Logged(n)
      BY <1>1
    <2> QED BY <1>t, <2>1, LogGrows DEF TopologyTypes
  <1>9. clicked' \in [Pages -> Nat] /\ \A r \in Pages : clicked'[r] <= action
    <2>1. \A r \in Pages : clicked[r] \in Nat /\ clicked[r] <= action
      BY <1>t, PageFacts DEF TriggerInv
    <2>2. action \in Nat /\ None = 0
      BY <1>t DEF CallerTypes, None
    <2> QED BY <1>1, <2>1, <2>2
  <1>10. TopologyTypes'
    BY <1>1, <1>2, <1>3, <1>8, <1>9, <1>t DEF TopologyTypes
  <1>11. CallerTypes'
    BY <1>1, <1>t, CallerTypesKept
  <1>12. PagesInv'
    <2>1. \A r, s \in Pages : s < r /\ (Known(r) \/ r = q) => Known(s) \/ s = q
      BY <1>0, <1>t DEF PagesInv
    <2>2. \A r \in Pages : LET o == targets'[r].opener IN
                             o # None => (Known(o) \/ o = q) /\ o # r
      BY <1>0, <1>2, <1>6, <1>t DEF PagesInv
    <2>3. \A r \in Pages : Known(r) \/ r = q => (targets'[r].closed <=> window'[r] = "closed")
      BY <1>2, <1>6, <1>t DEF PagesInv
    <2>4. \A r \in Pages : ~(Known(r) \/ r = q) => targets'[r] = NoEntry
      BY <1>6, <1>t DEF PagesInv
    <2>5. activeTarget' = activeTarget /\ (activeTarget # None => Known(activeTarget))
      BY <1>1, <1>t DEF PagesInv
    <2> QED BY <1>6, <2>1, <2>2, <2>3, <2>4, <2>5 DEF PagesInv
  <1>13. ActiveIsOpen'
    <2> SUFFICES ASSUME activeTarget' # None, targets'[activeTarget'].closed,
                        NEW r \in Pages, Known(r) \/ r = q
                 PROVE  targets'[r].closed \/ \E s \in 1..r : born'[s].alone
      BY <1>6 DEF ActiveIsOpen
    <2>1. Known(activeTarget) /\ activeTarget \in Pages /\ activeTarget # q
          /\ activeTarget # None
      BY <1>0, <1>1, <1>t DEF PagesInv, Known
    <2>2. \A s \in Pages : Known(s) => targets[s].closed \/ \E z \in 1..s : born[z].alone
      BY <1>1, <1>6, <1>t, <2>1 DEF ActiveIsOpen
    <2>3. \A s \in Pages : s \in Nat /\ s \in 1..s /\ 1..s \subseteq Pages
      BY AdapterConstants DEF Pages
    <2>4. \A s \in Pages : Known(s) => s < q
      <3> SUFFICES ASSUME NEW s \in Pages, Known(s) PROVE s < q
        OBVIOUS
      <3>1. s # q /\ ~(q < s)
        BY <1>0, <1>t DEF PagesInv
      <3> QED BY <2>3, <3>1
    <2>5. CASE r # q
      <3>1. Known(r) /\ r < q
        BY <2>4, <2>5
      <3>2. \A z \in 1..r : z \in Pages /\ z # q
        BY <2>3, <3>1
      <3> QED BY <1>6, <2>2, <2>5, <3>1, <3>2
    <2>6. CASE r = q
      <3>1. CASE \A s \in Pages : ~Open(s)
        BY <1>5, <1>6, <2>3, <2>6, <3>1
      <3>2. CASE \E s \in Pages : Open(s)
        <4>1. PICK s \in Pages : Open(s)
          BY <3>2
        <4>2. Known(s) /\ ~targets[s].closed
          BY <1>t, <4>1 DEF PagesInv, Open, Known
        <4>3. PICK z \in 1..s : born[z].alone
          BY <2>2, <4>2
        <4>4. z \in 1..q /\ z \in Pages /\ z # q
          BY <2>3, <2>4, <4>2, <4>3
        <4> QED BY <1>6, <2>6, <4>3, <4>4
      <3> QED BY <3>1, <3>2
    <2> QED BY <2>5, <2>6
  <1>14. TriggersAreTrue'
    <2> SUFFICES ASSUME NEW r \in Pages, Known(r) \/ r = q
                 PROVE  /\ targets'[r].trigger <= born'[r].begun
                        /\ born'[r].during # None => targets'[r].trigger = born'[r].during
      BY <1>6 DEF TriggersAreTrue
    <2>1. CASE r = q
      BY <1>2, <1>4, <1>6, <2>1
    <2>2. CASE r # q
      BY <1>6, <1>t, <2>2 DEF TriggersAreTrue
    <2> QED BY <2>1, <2>2
  <1>15. TriggerInv'
    <2>1. action' = action /\ flying' = flying /\ stage' = stage /\ settle' = settle
      BY <1>1 DEF caller
    <2>2. \A r \in Pages : Known(r) \/ r = q => born'[r].begun <= action
      <3>1. action \in Nat
        BY <1>t DEF CallerTypes
      <3> QED BY <1>4, <1>6, <1>t, <3>1 DEF TriggerInv
    <2>3. \A r \in Pages : (Known(r) \/ r = q) /\ stage \in {"acting", "settling", "after"} =>
            r \in settle.before \/ born'[r].during = flying
      BY <1>4, <1>6, <1>t DEF TriggerInv
    <2> QED BY <1>6, <1>9, <2>1, <2>2, <2>3 DEF TriggerInv
  <1>16. TrafficInv'
    <2> SUFFICES ASSUME NEW r \in Pages
                 PROVE  /\ traffic'[r].early <= born'[r].early
                        /\ born'[r].early = 0 => pending'[r] = traffic'[r].tracked
                        /\ ~(Known(r) \/ r = q) => pending'[r] = 0 /\ traffic'[r].tracked = 0
      BY <1>6 DEF TrafficInv
    <2>1. CASE r = q
      <3>1. pending[q] = 0 /\ traffic[q].tracked = 0
        BY <1>0, <1>t DEF TrafficInv
      <3> QED BY <1>1, <1>4, <1>6, <2>1, <3>1
    <2>2. CASE r # q
      BY <1>1, <1>6, <1>t, <2>2 DEF TrafficInv
    <2> QED BY <2>1, <2>2
  <1>17. SettleInv'
    <2>1. Closed' = Closed
      <3>1. window[q] # "closed" /\ window'[q] # "closed"
        BY <1>0, <1>6 DEF Known
      <3> QED BY <1>6, <3>1 DEF Closed
    <2>2. ASSUME stage = "settling", settle.polls > 0
          PROVE  /\ settle.topo <= logged'
                 /\ settle.topo = logged' => seen = Closed \/ logged' = TopologyCap
      <3>1. /\ settle.topo <= logged /\ settle.topo \in Nat /\ logged \in Nat
            /\ settle.topo = logged => seen = Closed \/ logged = TopologyCap
        BY <1>t, <2>2 DEF SettleInv, CallerTypes, TopologyTypes
      <3> QED BY <1>8, <3>1, AdapterConstants
    <2> QED BY <1>1, <1>8, <1>t, <2>1, <2>2 DEF SettleInv, caller
  <1>18. FlightInv' /\ MaskInv' /\ RedactedWasMasked'
    BY <1>1, <1>t, CallerWaits
  <1>19. AcceptedWasAllowed'
    BY <1>1, <1>t, AcceptedLeft
  <1> QED BY <1>7, <1>10, <1>11, <1>12, <1>13, <1>14, <1>15, <1>16, <1>17, <1>18, <1>19
          DEF AdapterIInv, AdapterTypes, AdapterInv

-----------------------------------------------------------------------------
(* The browser adapter: what the caller does.                               *)

\* Execute comes back: nothing is in flight any more.
LEMMA ReturnLeaves ==
  ASSUME AdapterTypes, MaskInv, RedactedWasMasked, NEW status, Return(status),
         UNCHANGED <<masked, evidence>>, action' \in Nat
  PROVE  /\ stage' = "idle" /\ flying' = None /\ settle' = NoSettle
         /\ CallerTypes' /\ FlightInv' /\ MaskInv' /\ RedactedWasMasked'
         /\ dialog' \in [Pages -> [handling : Handlings, of : Nat, armed : BOOLEAN]]
  <1>1. /\ stage' = "idle" /\ flying' = None /\ settle' = NoSettle /\ control' = NoControl
        /\ dialog' = IF control.timer = None THEN dialog
                     ELSE [dialog EXCEPT ![control.timer].armed = FALSE]
    BY DEF Return
  <1>2. dialog' \in [Pages -> [handling : Handlings, of : Nat, armed : BOOLEAN]]
    <2>1. dialog \in [Pages -> [handling : Handlings, of : Nat, armed : BOOLEAN]]
      BY DEF AdapterTypes, BrowserTypes
    <2>2. control.timer \in Pages \cup {None}
      BY DEF AdapterTypes, CallerTypes
    <2> QED BY <1>1, <2>1, <2>2
  <1>3. CallerTypes'
    <2>1. NoControl \in [policy : Handlings,
                         outcome : Handlings \cup {"held-timeout", "failed"},
                         timer : Pages \cup {None}]
      BY DEF NoControl, Handlings
    <2>2. NoSettle \in [polls : Nat, dom : Contents \cup {"none"}, topo : Nat, calm : BOOLEAN,
                        before : SUBSET Pages,
                        status : {"none", "target-closed", "settled", "timed_out"}]
      BY DEF NoSettle
    <2>3. None \in Nat
      BY DEF None
    <2> QED BY <1>1, <2>1, <2>2, <2>3 DEF AdapterTypes, CallerTypes
  <1>4. FlightInv'
    BY <1>1 DEF FlightInv, Executing, NoControl
  <1>5. MaskInv' /\ RedactedWasMasked'
    BY <1>1, MaskLeft
  <1> QED BY <1>1, <1>2, <1>3, <1>4, <1>5

\* Whether and when the caller goes on, the log does not shrink.
LEMMA CallerGoesOn ==
  ASSUME AdapterIInv, UNCHANGED <<window, born, clicked, seen>>,
         action' \in Nat, action <= action', logged' <= TopologyCap,
         stage' \notin {"acting", "settling", "after"}, settle'.calm => settle'.polls > 0
  PROVE  TriggerInv' /\ SettleInv'
  <1>t. /\ TriggerInv /\ SettleInv /\ BrowserTypes /\ TopologyTypes /\ action \in Nat
    BY DEF AdapterIInv, AdapterTypes, CallerTypes
  <1>1. TriggerInv'
    <2>1. \A p \in Pages : clicked[p] \in Nat /\ born[p].begun \in Nat
      BY <1>t, PageFacts
    <2> QED BY <1>t, <2>1 DEF TriggerInv, Known
  <1>2. SettleInv'
    BY <1>t DEF SettleInv
  <1> QED BY <1>1, <1>2

\* An observation makes its page the active one.
LEMMA ObserveKeeps ==
  ASSUME AdapterIInv, NEW p \in Pages, Observe(p)
  PROVE  AdapterIInv'
  <1>t. /\ AdapterTypes /\ BrowserTypes /\ TopologyTypes /\ CallerTypes /\ PagesInv
        /\ TrafficInv /\ FlightInv /\ SettleInv /\ MaskInv /\ ActiveIsOpen
        /\ TriggersAreTrue /\ AcceptedWasAllowed /\ RedactedWasMasked
    BY DEF AdapterIInv, AdapterTypes, AdapterInv
  <1>1. /\ stage = "idle" /\ Usable(p) /\ Activate(p)
        /\ \/ stage' = "discover" /\ candidate'.target = p
           \/ UNCHANGED <<stage, candidate>>
        /\ UNCHANGED <<setup, window, content, traffic, dialog, masked, targets, pending,
                       fresh, clicked, flying, control, action, settle, evidence, born,
                       seen, accepted>>
    BY DEF Observe, AtRest, browser, network, history
  <1>2. /\ PagesInv' /\ ActiveIsOpen' /\ TriggersAreTrue'
        /\ activeTarget' \in Pages \cup {None} /\ logged' \in Nat /\ logged' <= TopologyCap
    BY <1>1, <1>t, ActivateKeeps
  <1>3. BrowserTypes' /\ TopologyTypes' /\ CallerTypes'
    BY <1>1, <1>2, <1>t DEF BrowserTypes, TopologyTypes, CallerTypes
  <1>4. TrafficInv' /\ MaskInv' /\ RedactedWasMasked'
    BY <1>1, <1>t, TrafficLeft, MaskLeft
  <1>5. TriggerInv' /\ SettleInv'
    BY <1>1, <1>2, <1>t, CallerGoesOn DEF CallerTypes, SettleInv
  <1>6. FlightInv'
    BY <1>1, <1>t DEF FlightInv, Executing, Target
  <1>7. AcceptedWasAllowed'
    BY <1>1, <1>t, AcceptedLeft
  <1> QED BY <1>2, <1>3, <1>4, <1>5, <1>6, <1>7 DEF AdapterIInv, AdapterTypes, AdapterInv

\* The caller turns to another open page.
LEMMA SwitchTargetKeeps ==
  ASSUME AdapterIInv, NEW p \in Pages, SwitchTarget(p)
  PROVE  AdapterIInv'
  <1>t. /\ AdapterTypes /\ BrowserTypes /\ TopologyTypes /\ CallerTypes /\ PagesInv
        /\ TrafficInv /\ FlightInv /\ SettleInv /\ MaskInv /\ ActiveIsOpen
        /\ TriggersAreTrue /\ AcceptedWasAllowed /\ RedactedWasMasked
    BY DEF AdapterIInv, AdapterTypes, AdapterInv
  <1>1. /\ stage = "idle" /\ Usable(p) /\ Activate(p)
        /\ UNCHANGED caller
        /\ UNCHANGED <<setup, window, content, traffic, dialog, masked, targets, pending,
                       fresh, clicked, flying, control, evidence, born, seen, accepted>>
    BY DEF SwitchTarget, AtRest, browser, network, history
  <1>2. /\ PagesInv' /\ ActiveIsOpen' /\ TriggersAreTrue'
        /\ activeTarget' \in Pages \cup {None} /\ logged' \in Nat /\ logged' <= TopologyCap
    BY <1>1, <1>t, ActivateKeeps
  <1>3. BrowserTypes' /\ TopologyTypes' /\ CallerTypes'
    BY <1>1, <1>2, <1>t, CallerTypesKept DEF BrowserTypes, TopologyTypes
  <1>4. TrafficInv' /\ MaskInv' /\ RedactedWasMasked' /\ FlightInv'
    BY <1>1, <1>t, TrafficLeft, CallerWaits
  <1>5. TriggerInv' /\ SettleInv'
    BY <1>1, <1>2, <1>t, CallerGoesOn DEF CallerTypes, SettleInv, caller
  <1>6. AcceptedWasAllowed'
    BY <1>1, <1>t, AcceptedLeft
  <1> QED BY <1>2, <1>3, <1>4, <1>5, <1>6 DEF AdapterIInv, AdapterTypes, AdapterInv

\* A candidate is a control of what a page can show, and carries its own
\* classification.
LEMMA DiscoverKeeps ==
  ASSUME AdapterIInv, Discover
  PROVE  AdapterIInv'
  <1>t. /\ AdapterTypes /\ BrowserTypes /\ TopologyTypes /\ CallerTypes /\ PagesInv
        /\ TrafficInv /\ FlightInv /\ SettleInv /\ MaskInv /\ ActiveIsOpen
        /\ TriggersAreTrue /\ AcceptedWasAllowed /\ RedactedWasMasked
    BY DEF AdapterIInv, AdapterTypes, AdapterInv
  <1>1. /\ stage = "discover"
        /\ \/ stage' = "idle"
           \/ /\ stage' = "ready"
              /\ \E c \in Collected(content[Target]) :
                   candidate' = CreateCandidate(Target, candidate.source, c)
        /\ UNCHANGED <<setup, window, content, traffic, dialog, masked, targets, activeTarget,
                       logged, pending, fresh, clicked, flying, control, action, settle,
                       evidence, born, seen, accepted>>
    BY DEF Discover, Target, browser, topology, network, history
  <1>2. PagesInv' /\ ActiveIsOpen' /\ TriggersAreTrue' /\ TrafficInv'
    BY <1>1, <1>t, PagesLeft, TrafficLeft
  <1>3. BrowserTypes' /\ TopologyTypes' /\ CallerTypes'
    BY <1>1, <1>t DEF BrowserTypes, TopologyTypes, CallerTypes
  <1>4. MaskInv' /\ RedactedWasMasked'
    BY <1>1, <1>t, MaskLeft
  <1>5. TriggerInv' /\ SettleInv'
    BY <1>1, <1>t, CallerGoesOn DEF CallerTypes, SettleInv
  <1>6. FlightInv'
    <2>1. Target \in Pages /\ flying = None /\ control.policy = "none"
      BY <1>1, <1>t DEF FlightInv
    <2>2. CASE stage' = "idle"
      BY <1>1, <2>1, <2>2 DEF FlightInv, Executing
    <2>3. CASE stage' = "ready"
      <3>1. PICK c \in Collected(content[Target]) :
              candidate' = CreateCandidate(Target, candidate.source, c)
        BY <1>1, <2>3
      <3>2. content[Target] \in Contents
        BY <1>t, <2>1, PageFacts
      <3>3. c \in UNION {Collected(w) : w \in Contents}
        BY <3>2
      <3>4. candidate'.target = Target /\ candidate'.source = candidate.source
        BY <3>1 DEF CreateCandidate
      <3>5. \E p \in Pages, d \in UNION {Collected(w) : w \in Contents} :
              candidate' = CreateCandidate(p, candidate'.source, d)
        BY <2>1, <3>1, <3>3, <3>4
      <3>6. Target' \in Pages
        BY <2>1, <3>4 DEF Target
      <3> QED BY <1>1, <2>1, <2>3, <3>5, <3>6 DEF FlightInv, Executing
    <2> QED BY <1>1, <2>2, <2>3
  <1>7. AcceptedWasAllowed'
    BY <1>1, <1>t, AcceptedLeft
  <1> QED BY <1>2, <1>3, <1>4, <1>5, <1>6, <1>7 DEF AdapterIInv, AdapterTypes, AdapterInv

\* Execute comes back, and the page it leaves active is the one of before or one
\* that is open.
LEMMA ReturnKeeps ==
  ASSUME AdapterIInv, NEW status, Return(status), action' \in Nat, action <= action',
         UNCHANGED <<activeTarget, logged>> \/ \E q : Usable(q) /\ Activate(q),
         UNCHANGED <<setup, window, content, traffic, masked, targets, pending, fresh,
                     clicked, evidence, born, seen, accepted>>
  PROVE  AdapterIInv'
  <1>t. /\ AdapterTypes /\ BrowserTypes /\ TopologyTypes /\ CallerTypes /\ PagesInv
        /\ TrafficInv /\ FlightInv /\ SettleInv /\ MaskInv /\ ActiveIsOpen
        /\ TriggersAreTrue /\ AcceptedWasAllowed /\ RedactedWasMasked
    BY DEF AdapterIInv, AdapterTypes, AdapterInv
  <1>1. /\ stage' = "idle" /\ flying' = None /\ settle' = NoSettle
        /\ CallerTypes' /\ FlightInv' /\ MaskInv' /\ RedactedWasMasked'
        /\ dialog' \in [Pages -> [handling : Handlings, of : Nat, armed : BOOLEAN]]
    BY <1>t, ReturnLeaves
  <1>2. /\ PagesInv' /\ ActiveIsOpen' /\ TriggersAreTrue'
        /\ activeTarget' \in Pages \cup {None} /\ logged' \in Nat /\ logged' <= TopologyCap
    <2>1. CASE UNCHANGED <<activeTarget, logged>>
      BY <2>1, <1>t, PagesLeft DEF TopologyTypes, SettleInv
    <2>2. CASE \E q : Usable(q) /\ Activate(q)
      BY <2>2, <1>t, ActivateKeeps
    <2> QED BY <2>1, <2>2
  <1>3. BrowserTypes'
    BY <1>1, <1>t DEF BrowserTypes
  <1>4. TopologyTypes'
    BY <1>2, <1>t DEF TopologyTypes
  <1>5. TrafficInv'
    BY <1>t, TrafficLeft
  <1>6. TriggerInv' /\ SettleInv'
    BY <1>1, <1>2, CallerGoesOn DEF NoSettle
  <1>7. AcceptedWasAllowed'
    BY <1>t, AcceptedLeft
  <1> QED BY <1>1, <1>2, <1>3, <1>4, <1>5, <1>6, <1>7 DEF AdapterIInv, AdapterTypes, AdapterInv

\* The action is numbered; what goes on has a dialog policy it may have.
LEMMA RecheckKeeps ==
  ASSUME AdapterIInv, Recheck
  PROVE  AdapterIInv'
  <1>t. /\ AdapterTypes /\ BrowserTypes /\ TopologyTypes /\ CallerTypes /\ PagesInv
        /\ TrafficInv /\ FlightInv /\ SettleInv /\ MaskInv /\ ActiveIsOpen
        /\ TriggersAreTrue /\ AcceptedWasAllowed /\ RedactedWasMasked
    BY DEF AdapterIInv, AdapterTypes, AdapterInv
  <1>0. action' \in Nat /\ action <= action' /\ action' > 0
    BY <1>t DEF CallerTypes, Recheck
  <1>1. /\ stage = "ready"
        /\ UNCHANGED <<setup, window, content, traffic, masked, targets, pending, fresh,
                       clicked, evidence, born, seen, accepted>>
    BY DEF Recheck, network, history
  <1> DEFINE Back == /\ \E status : Return(status)
                     /\ \/ UNCHANGED <<activeTarget, logged>>
                        \/ Usable(Target) /\ Activate(Target)
             Goes == /\ stage' = "locating" /\ Usable(Target) /\ Activate(Target)
                     /\ ResolveDialogPolicy # "denied"
                     /\ UNCHANGED <<result, settle, candidate, control, flying, dialog>>
  <1>2. Back \/ Goes
    BY DEF Recheck
  <1>3. CASE Back
    <2>1. PICK status : Return(status)
      BY <1>3
    <2> QED BY <1>0, <1>1, <1>3, <2>1, ReturnKeeps
  <1>4. CASE Goes
    <2>1. /\ PagesInv' /\ ActiveIsOpen' /\ TriggersAreTrue'
          /\ activeTarget' \in Pages \cup {None} /\ logged' \in Nat /\ logged' <= TopologyCap
      BY <1>1, <1>4, <1>t, ActivateKeeps
    <2>2. BrowserTypes' /\ TopologyTypes' /\ CallerTypes'
      BY <1>0, <1>1, <1>4, <2>1, <1>t DEF BrowserTypes, TopologyTypes, CallerTypes
    <2>3. TrafficInv' /\ MaskInv' /\ RedactedWasMasked'
      BY <1>1, <1>4, <1>t, TrafficLeft, MaskLeft
    <2>4. TriggerInv' /\ SettleInv'
      BY <1>0, <1>1, <1>4, <2>1, <1>t, CallerGoesOn DEF SettleInv
    <2>5. FlightInv'
      <3>1. Target \in Pages /\ flying = None /\ control.policy = "none"
        BY <1>1, <1>t DEF FlightInv
      <3>2. \E p \in Pages, c \in UNION {Collected(w) : w \in Contents} :
              candidate = CreateCandidate(p, candidate.source, c)
        BY <1>1, <1>t DEF FlightInv, Executing
      <3>3. Target' = Target /\ ResolveDialogPolicy' = ResolveDialogPolicy
        BY <1>4 DEF Target, ResolveDialogPolicy
      <3>4. action' # 0
        BY <1>0
      <3> QED BY <1>0, <1>1, <1>4, <3>1, <3>2, <3>3, <3>4 DEF FlightInv, Executing
    <2>6. AcceptedWasAllowed'
      BY <1>1, <1>t, AcceptedLeft
    <2> QED BY <2>1, <2>2, <2>3, <2>4, <2>5, <2>6 DEF AdapterIInv, AdapterTypes, AdapterInv
  <1> HIDE DEF Back, Goes
  <1> QED BY <1>2, <1>3, <1>4

\* Nothing is in flight yet: every page that is known by now is noted.
LEMMA LaunchKeeps ==
  ASSUME AdapterIInv, Launch
  PROVE  AdapterIInv'
  <1>t. /\ AdapterTypes /\ BrowserTypes /\ TopologyTypes /\ CallerTypes /\ PagesInv
        /\ TriggerInv /\ TrafficInv /\ FlightInv /\ SettleInv /\ MaskInv /\ ActiveIsOpen
        /\ TriggersAreTrue /\ AcceptedWasAllowed /\ RedactedWasMasked
    BY DEF AdapterIInv, AdapterTypes, AdapterInv
  <1>1. /\ stage = "locating" /\ action' = action
        /\ UNCHANGED <<setup, window, content, traffic, masked, targets, activeTarget, logged,
                       pending, fresh, evidence, born, seen, accepted>>
    BY DEF Launch, topology, network, history
  <1>2. \/ (\E status : Return(status)) /\ clicked' = clicked
        \/ /\ stage' = "acting" /\ flying' = action
           /\ control' = [NoControl EXCEPT !.policy = ResolveDialogPolicy]
           /\ settle' = [NoSettle EXCEPT !.before = Before]
           /\ \/ clicked' = [clicked EXCEPT ![Target] = action]
              \/ clicked' = clicked
           /\ UNCHANGED <<result, candidate, dialog>>
    BY DEF Launch
  <1>3. CASE (\E status : Return(status)) /\ clicked' = clicked
    <2>1. PICK status : Return(status)
      BY <1>3
    <2>2. action \in Nat /\ action <= action
      BY <1>t DEF CallerTypes
    <2> QED BY <1>1, <1>3, <2>1, <2>2, ReturnKeeps
  <1>4. CASE /\ stage' = "acting" /\ flying' = action
             /\ control' = [NoControl EXCEPT !.policy = ResolveDialogPolicy]
             /\ settle' = [NoSettle EXCEPT !.before = Before]
             /\ \/ clicked' = [clicked EXCEPT ![Target] = action]
                \/ clicked' = clicked
             /\ UNCHANGED <<result, candidate, dialog>>
    <2>1. /\ Target \in Pages /\ action # None /\ action \in Nat
          /\ ResolveDialogPolicy # "denied"
      BY <1>1, <1>t DEF FlightInv, CallerTypes, None
    <2>2. ResolveDialogPolicy \in Handlings
      BY <2>1 DEF ResolveDialogPolicy, Handlings
    <2>3. control' = [policy |-> ResolveDialogPolicy, outcome |-> "none", timer |-> None]
      BY <1>4 DEF NoControl
    <2>4. settle' = [polls |-> 0, dom |-> "none", topo |-> 0, calm |-> FALSE,
                     before |-> Before, status |-> "none"]
      BY <1>4 DEF NoSettle
    <2>5. Before \in SUBSET Pages /\ \A p \in Pages : Known(p) => p \in Before
      BY DEF Before
    <2>6. CallerTypes'
      <3>1. control' \in [policy : Handlings,
                          outcome : Handlings \cup {"held-timeout", "failed"},
                          timer : Pages \cup {None}]
        BY <2>2, <2>3 DEF Handlings
      <3>2. settle' \in [polls : Nat, dom : Contents \cup {"none"}, topo : Nat,
                         calm : BOOLEAN, before : SUBSET Pages,
                         status : {"none", "target-closed", "settled", "timed_out"}]
        BY <2>4, <2>5
      <3> QED BY <1>1, <1>4, <2>1, <3>1, <3>2, <1>t DEF CallerTypes
    <2>7. clicked' \in [Pages -> Nat] /\ \A p \in Pages : clicked'[p] <= action
      <3>1. clicked \in [Pages -> Nat]
        BY <1>t DEF TopologyTypes
      <3>2. \A p \in Pages : clicked[p] <= action
        BY <1>t DEF TriggerInv
      <3>3. CASE clicked' = clicked
        BY <3>1, <3>2, <3>3
      <3>4. CASE clicked' = [clicked EXCEPT ![Target] = action]
        <4>1. clicked' \in [Pages -> Nat]
          BY <2>1, <3>1, <3>4
        <4>2. ASSUME NEW p \in Pages PROVE clicked'[p] <= action
          <5>1. clicked'[p] = clicked[p] \/ clicked'[p] = action
            BY <2>1, <3>1, <3>4
          <5> QED BY <2>1, <3>2, <5>1
        <4> QED BY <4>1, <4>2
      <3> QED BY <1>4, <3>3, <3>4
    <2>8. BrowserTypes' /\ TopologyTypes'
      BY <1>1, <1>4, <2>7, <1>t DEF BrowserTypes, TopologyTypes
    <2>9. PagesInv' /\ ActiveIsOpen' /\ TriggersAreTrue' /\ TrafficInv'
      BY <1>1, <1>t, PagesLeft, TrafficLeft
    <2>10. TriggerInv'
      BY <1>1, <2>4, <2>5, <2>7, <1>t DEF TriggerInv, Known
    <2>11. SettleInv'
      BY <1>1, <1>4, <2>4, <1>t DEF SettleInv
    <2>12. MaskInv' /\ RedactedWasMasked'
      BY <1>1, <1>4, <1>t, MaskLeft
    <2>13. FlightInv'
      <3>1. \E p \in Pages, c \in UNION {Collected(w) : w \in Contents} :
              candidate = CreateCandidate(p, candidate.source, c)
        BY <1>1, <1>t DEF FlightInv, Executing
      <3>2. Target' = Target /\ ResolveDialogPolicy' = ResolveDialogPolicy
        BY <1>1, <1>4 DEF Target, ResolveDialogPolicy
      <3>3. control'.policy = ResolveDialogPolicy
        BY <2>3
      <3>4. action > 0
        BY <1>1, <1>t DEF FlightInv
      <3> QED BY <1>1, <1>4, <2>1, <3>1, <3>2, <3>3, <3>4 DEF FlightInv, Executing
    <2>14. AcceptedWasAllowed'
      BY <1>1, <1>t, AcceptedLeft
    <2> QED BY <2>6, <2>8, <2>9, <2>10, <2>11, <2>12, <2>13, <2>14
            DEF AdapterIInv, AdapterTypes, AdapterInv
  <1> QED BY <1>2, <1>3, <1>4

\* The gesture fails, or the page closes under the wait.
LEMMA GestureFailsKeeps ==
  ASSUME AdapterIInv, GestureFails \/ SettleFails
  PROVE  AdapterIInv'
  <1>1. PICK status : Return(status)
    BY DEF GestureFails, SettleFails
  <1>2. action' = action /\ action \in Nat
    BY DEF GestureFails, SettleFails, AdapterIInv, AdapterTypes, CallerTypes
  <1>3. UNCHANGED <<setup, window, content, traffic, masked, targets, activeTarget, logged,
                    pending, fresh, clicked, evidence, born, seen, accepted>>
    BY DEF GestureFails, SettleFails, topology, network, history
  <1> QED BY <1>1, <1>2, <1>3, ReturnKeeps

\* The action in flight stays the same one.
LEMMA FlightGoesOn ==
  ASSUME FlightInv, stage \in {"acting", "settling", "after"},
         stage' \in {"acting", "settling", "after"},
         UNCHANGED <<candidate, flying, control, action>>
  PROVE  FlightInv'
  <1>1. Target' = Target /\ ResolveDialogPolicy' = ResolveDialogPolicy
    BY DEF Target, ResolveDialogPolicy
  <1>2. \E p \in Pages, c \in UNION {Collected(w) : w \in Contents} :
          candidate = CreateCandidate(p, candidate.source, c)
    BY DEF FlightInv, Executing
  <1> QED BY <1>1, <1>2 DEF FlightInv, Executing

\* The gesture is made: the wait begins with no round behind it.
LEMMA LandKeeps ==
  ASSUME AdapterIInv, Land
  PROVE  AdapterIInv'
  <1>t. /\ AdapterTypes /\ BrowserTypes /\ TopologyTypes /\ CallerTypes /\ PagesInv
        /\ TriggerInv /\ TrafficInv /\ FlightInv /\ SettleInv /\ MaskInv /\ ActiveIsOpen
        /\ TriggersAreTrue /\ AcceptedWasAllowed /\ RedactedWasMasked
    BY DEF AdapterIInv, AdapterTypes, AdapterInv
  <1>1. /\ stage = "acting"
        /\ UNCHANGED <<setup, window, content, traffic, dialog, masked, targets, activeTarget,
                       logged, pending, fresh, clicked, flying, control, action, candidate,
                       evidence, born, seen, accepted>>
    BY DEF Land, browser, topology, network, history
  <1>2. \/ stage' = "after" /\ settle' = [settle EXCEPT !.status = "target-closed"]
        \/ /\ stage' = "settling"
           /\ settle' = [settle EXCEPT !.dom = content[Target], !.topo = logged]
    BY DEF Land
  <1>3. Target \in Pages /\ content[Target] \in Contents /\ logged \in Nat
    BY <1>1, <1>t, PageFacts DEF FlightInv, TopologyTypes
  <1>4. settle \in [polls : Nat, dom : Contents \cup {"none"}, topo : Nat,
                    calm : BOOLEAN, before : SUBSET Pages,
                    status : {"none", "target-closed", "settled", "timed_out"}]
    BY <1>t DEF CallerTypes
  <1>5. /\ settle' \in [polls : Nat, dom : Contents \cup {"none"}, topo : Nat,
                        calm : BOOLEAN, before : SUBSET Pages,
                        status : {"none", "target-closed", "settled", "timed_out"}]
        /\ settle'.before = settle.before /\ settle'.polls = settle.polls
        /\ settle'.calm = settle.calm
    BY <1>2, <1>3, <1>4
  <1>6. BrowserTypes' /\ TopologyTypes'
    BY <1>1, <1>t DEF BrowserTypes, TopologyTypes
  <1>7. CallerTypes'
    BY <1>1, <1>2, <1>5, <1>t DEF CallerTypes
  <1>8. PagesInv' /\ ActiveIsOpen' /\ TriggersAreTrue' /\ TrafficInv'
    BY <1>1, <1>t, PagesLeft, TrafficLeft
  <1>9. TriggerInv'
    BY <1>1, <1>2, <1>5, <1>t DEF TriggerInv, Known
  <1>10. SettleInv'
    <2>1. settle.polls = 0 /\ settle.polls \in Nat /\ ~(settle.polls > 0)
      BY <1>1, <1>4, <1>t DEF SettleInv
    <2>2. settle.calm => settle.polls > 0
      BY <1>t DEF SettleInv
    <2>3. logged <= TopologyCap
      BY <1>t DEF SettleInv
    <2> QED BY <1>1, <1>2, <1>5, <2>1, <2>2, <2>3 DEF SettleInv
  <1>11. MaskInv' /\ RedactedWasMasked'
    BY <1>1, <1>2, <1>t, MaskLeft
  <1>12. FlightInv'
    BY <1>1, <1>2, <1>t, FlightGoesOn
  <1>13. AcceptedWasAllowed'
    BY <1>1, <1>t, AcceptedLeft
  <1> QED BY <1>6, <1>7, <1>8, <1>9, <1>10, <1>11, <1>12, <1>13
          DEF AdapterIInv, AdapterTypes, AdapterInv

\* A round of the wait notes the length of the log and the pages that are closed.
LEMMA PollKeeps ==
  ASSUME AdapterIInv, Poll
  PROVE  AdapterIInv'
  <1>t. /\ AdapterTypes /\ BrowserTypes /\ TopologyTypes /\ CallerTypes /\ PagesInv
        /\ TriggerInv /\ TrafficInv /\ FlightInv /\ SettleInv /\ MaskInv /\ ActiveIsOpen
        /\ TriggersAreTrue /\ AcceptedWasAllowed /\ RedactedWasMasked
    BY DEF AdapterIInv, AdapterTypes, AdapterInv
  <1>1. /\ stage = "settling" /\ stage' \in {"after", "settling"}
        /\ fresh' = [fresh EXCEPT ![Target] = FALSE]
        /\ seen' = Closed
        /\ UNCHANGED <<setup, window, content, traffic, dialog, masked, targets, activeTarget,
                       logged, pending, clicked, flying, control, action, candidate,
                       evidence, born, accepted>>
    BY DEF Poll, browser, topology, Closed
  <1>2. PICK calm \in BOOLEAN,
             status \in {"none", "target-closed", "settled", "timed_out"} :
          settle' = [settle EXCEPT !.polls = settle.polls + 1, !.dom = content[Target],
                                   !.topo = logged, !.calm = calm, !.status = status]
    <2> DEFINE p == Target
               calm == /\ content[p] = settle.dom
                       /\ setup.policy = "consensus" =>
                            logged = settle.topo /\ pending[p] = 0 /\ ~fresh[p] /\ Ready(p)
               settled == calm /\ (setup.policy = "consensus" => settle.calm)
               last == settle.polls + 1 >= MaxPolls
               st == IF settled THEN "settled" ELSE IF last THEN "timed_out" ELSE settle.status
    <2>1. settle' = [settle EXCEPT !.polls = settle.polls + 1, !.dom = content[p],
                                   !.topo = logged, !.calm = calm, !.status = st]
      BY DEF Poll
    <2>2. calm \in BOOLEAN
      OBVIOUS
    <2>3. settle.status \in {"none", "target-closed", "settled", "timed_out"}
      BY <1>t DEF CallerTypes
    <2>4. st \in {"none", "target-closed", "settled", "timed_out"}
      BY <2>3
    <2> HIDE DEF calm, st
    <2> QED BY <2>1, <2>2, <2>4
  <1>3. Target \in Pages /\ content[Target] \in Contents /\ logged \in Nat
    BY <1>1, <1>t, PageFacts DEF FlightInv, TopologyTypes
  <1>4. settle \in [polls : Nat, dom : Contents \cup {"none"}, topo : Nat,
                    calm : BOOLEAN, before : SUBSET Pages,
                    status : {"none", "target-closed", "settled", "timed_out"}]
    BY <1>t DEF CallerTypes
  <1>5. /\ settle' \in [polls : Nat, dom : Contents \cup {"none"}, topo : Nat,
                        calm : BOOLEAN, before : SUBSET Pages,
                        status : {"none", "target-closed", "settled", "timed_out"}]
        /\ settle'.before = settle.before /\ settle'.polls > 0
        /\ settle'.topo = logged
    <2>1. /\ settle.polls \in Nat /\ settle.polls + 1 \in Nat /\ settle.polls + 1 > 0
          /\ settle.before \in SUBSET Pages
      BY <1>4
    <2>2. settle' = [polls |-> settle.polls + 1, dom |-> content[Target], topo |-> logged,
                     calm |-> calm, before |-> settle.before, status |-> status]
      BY <1>2, <1>4
    <2> QED BY <1>3, <2>1, <2>2
  <1>6. BrowserTypes' /\ CallerTypes'
    BY <1>1, <1>5, <1>t DEF BrowserTypes, CallerTypes
  <1>7. TopologyTypes'
    <2>1. fresh' \in [Pages -> BOOLEAN]
      BY <1>1, <1>t DEF TopologyTypes
    <2>2. seen' \subseteq Pages
      BY <1>1 DEF Closed
    <2> QED BY <1>1, <2>1, <2>2, <1>t DEF TopologyTypes
  <1>8. PagesInv' /\ ActiveIsOpen' /\ TriggersAreTrue' /\ TrafficInv'
    BY <1>1, <1>t, PagesLeft, TrafficLeft
  <1>9. TriggerInv'
    BY <1>1, <1>5, <1>t DEF TriggerInv, Known
  <1>10. SettleInv'
    <2>1. Closed' = Closed
      BY <1>1 DEF Closed
    <2> QED BY <1>1, <1>3, <1>5, <2>1, <1>t DEF SettleInv
  <1>11. MaskInv' /\ RedactedWasMasked'
    BY <1>1, <1>t, MaskLeft
  <1>12. FlightInv'
    BY <1>1, <1>t, FlightGoesOn
  <1>13. AcceptedWasAllowed'
    BY <1>1, <1>t, AcceptedLeft
  <1> QED BY <1>6, <1>7, <1>8, <1>9, <1>10, <1>11, <1>12, <1>13
          DEF AdapterIInv, AdapterTypes, AdapterInv

\* A page that opened meanwhile was put down to the action when it registered: the
\* last note finds nothing to do.
LEMMA FinishKeeps ==
  ASSUME AdapterIInv, Finish
  PROVE  AdapterIInv'
  <1>t. /\ AdapterTypes /\ BrowserTypes /\ TopologyTypes /\ CallerTypes /\ PagesInv
        /\ TriggerInv /\ FlightInv /\ TriggersAreTrue
    BY DEF AdapterIInv, AdapterTypes, AdapterInv
  <1>1. /\ stage = "after" /\ action' = action
        /\ UNCHANGED <<setup, window, content, traffic, masked, pending, fresh, clicked,
                       evidence, born, seen, accepted>>
    BY DEF Finish, network, history
  <1>2. \A q \in Pages : Known(q) /\ q \notin settle.before => targets[q].trigger # None
    <2> SUFFICES ASSUME NEW q \in Pages, Known(q), q \notin settle.before
                 PROVE  targets[q].trigger # None
      OBVIOUS
    <2>1. born[q].during = flying
      BY <1>1, <1>t DEF TriggerInv
    <2>2. flying # None
      BY <1>1, <1>t DEF FlightInv
    <2>3. targets[q].trigger = born[q].during
      BY <2>1, <2>2, <1>t DEF TriggersAreTrue
    <2> QED BY <2>1, <2>2, <2>3
  <1>3. targets' = targets
    <2>1. targets' = [q \in Pages |->
            IF Known(q) /\ q \notin settle.before /\ targets[q].trigger = None
            THEN [targets[q] EXCEPT !.trigger = action] ELSE targets[q]]
      BY DEF Finish
    <2>2. targets' = [q \in Pages |-> targets[q]]
      BY <1>2, <2>1
    <2>3. targets \in [Pages -> [opener : Pages \cup {None}, trigger : Nat, closed : BOOLEAN]]
      BY <1>t DEF TopologyTypes
    <2> QED BY <2>2, <2>3
  <1>4. \/ UNCHANGED <<activeTarget, logged>>
        \/ Usable(Observed) /\ Activate(Observed)
    BY DEF Finish
  <1>5. PICK status : Return(status)
    BY DEF Finish
  <1>6. action \in Nat /\ action <= action
    BY <1>t DEF CallerTypes
  <1> QED BY <1>1, <1>3, <1>4, <1>5, <1>6, ReturnKeeps

\* What a step of captureEvidence leaves alone.
LEMMA CaptureKeeps ==
  ASSUME AdapterIInv, stage \in {"idle", "shooting", "unmasking"},
         stage' \in {"idle", "shooting", "unmasking"},
         UNCHANGED <<setup, window, content, traffic, dialog, targets, activeTarget, logged,
                     pending, fresh, clicked, flying, control, action, candidate, settle,
                     born, seen, accepted>>,
         masked' \in [Pages -> BOOLEAN],
         evidence' \in [page : Pages \cup {None}, masked : BOOLEAN,
                        outcome : {"none", "no-page", "shot", "failed", "redacted"}],
         MaskInv', RedactedWasMasked'
  PROVE  AdapterIInv'
  <1>t. /\ AdapterTypes /\ BrowserTypes /\ TopologyTypes /\ CallerTypes /\ PagesInv
        /\ TrafficInv /\ FlightInv /\ SettleInv /\ ActiveIsOpen /\ TriggersAreTrue
        /\ AcceptedWasAllowed
    BY DEF AdapterIInv, AdapterTypes, AdapterInv
  <1>1. BrowserTypes' /\ TopologyTypes' /\ CallerTypes'
    BY <1>t DEF BrowserTypes, TopologyTypes, CallerTypes
  <1>2. PagesInv' /\ ActiveIsOpen' /\ TriggersAreTrue' /\ TrafficInv'
    BY <1>t, PagesLeft, TrafficLeft
  <1>3. TriggerInv' /\ SettleInv'
    BY <1>t, CallerGoesOn DEF CallerTypes, SettleInv
  <1>4. FlightInv'
    BY <1>t DEF FlightInv, Executing
  <1>5. AcceptedWasAllowed'
    BY <1>t, AcceptedLeft
  <1> QED BY <1>1, <1>2, <1>3, <1>4, <1>5 DEF AdapterIInv, AdapterTypes, AdapterInv

\* The page of the screenshot is the active one, or the newest that is open.
LEMMA MaskPageKeeps ==
  ASSUME AdapterIInv, MaskPage
  PROVE  AdapterIInv'
  <1>t. MaskInv /\ masked \in [Pages -> BOOLEAN]
    BY DEF AdapterIInv, AdapterTypes, BrowserTypes
  <1>1. /\ stage = "idle"
        /\ UNCHANGED <<setup, window, content, traffic, dialog, targets, activeTarget, logged,
                       pending, fresh, clicked, flying, control, action, candidate, settle,
                       born, seen, accepted>>
    BY DEF MaskPage, AtRest, topology, network, history
  <1>2. \/ /\ Open(EvidencePage) /\ stage' = "shooting"
           /\ masked' = [masked EXCEPT ![EvidencePage] = TRUE]
           /\ evidence' = [page |-> EvidencePage, masked |-> FALSE, outcome |-> "none"]
        \/ /\ evidence' = [page |-> EvidencePage, masked |-> FALSE, outcome |-> "no-page"]
           /\ masked' = masked /\ stage' = stage
    BY DEF MaskPage
  <1>3. EvidencePage \in Pages \cup {None}
    <2> DEFINE open == {p \in Pages : Open(p)}
    <2>1. activeTarget \in Pages \cup {None}
      BY DEF AdapterIInv, AdapterTypes, TopologyTypes
    <2>2. ASSUME open # {} PROVE (CHOOSE p \in open : \A q \in open : q <= p) \in open
      <3>1. open \in SUBSET Nat /\ MaxPages \in Nat /\ \A p \in open : p <= MaxPages
        BY AdapterConstants DEF Pages
      <3> DEFINE left == {MaxPages - p : p \in open}
      <3>2. left \in SUBSET Nat /\ left # {}
        BY <2>2, <3>1
      <3>3. PICK n \in left : \A m \in left : n <= m
        BY <3>2, LeastIndex
      <3>4. PICK p \in open : n = MaxPages - p
        BY <3>3
      <3>5. ASSUME NEW q \in open PROVE q <= p
        <4>1. MaxPages - q \in left
          OBVIOUS
        <4>2. MaxPages - p <= MaxPages - q
          BY <3>3, <3>4, <4>1
        <4>3. p \in Nat /\ q \in Nat
          BY <3>1
        <4> QED BY <3>1, <4>2, <4>3
      <3> QED BY <3>5
    <2> QED BY <2>1, <2>2 DEF EvidencePage
  <1>4. CASE /\ Open(EvidencePage) /\ stage' = "shooting"
             /\ masked' = [masked EXCEPT ![EvidencePage] = TRUE]
             /\ evidence' = [page |-> EvidencePage, masked |-> FALSE, outcome |-> "none"]
    <2>1. EvidencePage \in Pages
      BY <1>4 DEF Open
    <2>2. MaskInv' /\ RedactedWasMasked'
      BY <1>4, <2>1 DEF MaskInv, RedactedWasMasked
    <2> QED BY <1>1, <1>3, <1>4, <1>t, <2>1, <2>2, CaptureKeeps
  <1>5. CASE /\ evidence' = [page |-> EvidencePage, masked |-> FALSE, outcome |-> "no-page"]
             /\ masked' = masked /\ stage' = stage
    <2>1. MaskInv' /\ RedactedWasMasked'
      BY <1>1, <1>5 DEF MaskInv, RedactedWasMasked
    <2> QED BY <1>1, <1>3, <1>5, <1>t, <2>1, CaptureKeeps
  <1> QED BY <1>2, <1>4, <1>5

\* A screenshot that is taken remembers whether the mask was on.
LEMMA TakeScreenshotKeeps ==
  ASSUME AdapterIInv, TakeScreenshot
  PROVE  AdapterIInv'
  <1>t. /\ MaskInv /\ masked \in [Pages -> BOOLEAN]
        /\ evidence \in [page : Pages \cup {None}, masked : BOOLEAN,
                         outcome : {"none", "no-page", "shot", "failed", "redacted"}]
    BY DEF AdapterIInv, AdapterTypes, BrowserTypes, CallerTypes
  <1>1. /\ stage = "shooting" /\ stage' = "unmasking"
        /\ UNCHANGED <<setup, window, content, traffic, dialog, masked, targets, activeTarget,
                       logged, pending, fresh, clicked, flying, control, action, candidate,
                       settle, born, seen, accepted>>
    BY DEF TakeScreenshot, browser, topology, network, history
  <1>2. evidence.page \in Pages /\ masked[evidence.page] \in BOOLEAN
    BY <1>1, <1>t DEF MaskInv
  <1>3. \/ evidence' = [evidence EXCEPT !.masked = masked[evidence.page], !.outcome = "shot"]
        \/ evidence' = [evidence EXCEPT !.outcome = "failed"]
    BY DEF TakeScreenshot
  <1>4. /\ evidence' \in [page : Pages \cup {None}, masked : BOOLEAN,
                          outcome : {"none", "no-page", "shot", "failed", "redacted"}]
        /\ evidence'.page = evidence.page /\ evidence'.outcome \in {"shot", "failed"}
        /\ evidence'.outcome = "shot" => evidence'.masked = masked[evidence.page]
    BY <1>2, <1>3, <1>t
  <1>5. MaskInv' /\ RedactedWasMasked'
    BY <1>1, <1>2, <1>4 DEF MaskInv, RedactedWasMasked
  <1> QED BY <1>1, <1>4, <1>5, <1>t, CaptureKeeps

\* The mask comes off; if it was still there it was there for the screenshot too,
\* since a document that lost it does not get it back.
LEMMA UnmaskKeeps ==
  ASSUME AdapterIInv, Unmask
  PROVE  AdapterIInv'
  <1>t. /\ MaskInv /\ masked \in [Pages -> BOOLEAN]
        /\ evidence \in [page : Pages \cup {None}, masked : BOOLEAN,
                         outcome : {"none", "no-page", "shot", "failed", "redacted"}]
    BY DEF AdapterIInv, AdapterTypes, BrowserTypes, CallerTypes
  <1>1. /\ stage = "unmasking" /\ stage' = "idle"
        /\ masked' = [masked EXCEPT ![evidence.page] = FALSE]
        /\ UNCHANGED <<setup, window, content, traffic, dialog, targets, activeTarget, logged,
                       pending, fresh, clicked, flying, control, action, candidate, settle,
                       born, seen, accepted>>
    BY DEF Unmask, topology, network, history
  <1>2. \/ /\ evidence.outcome = "shot" /\ masked[evidence.page]
           /\ evidence' = [evidence EXCEPT !.outcome = "redacted"]
        \/ evidence' = [evidence EXCEPT !.outcome = "failed"]
    BY DEF Unmask
  <1>3. evidence.page \in Pages
    BY <1>1, <1>t DEF MaskInv
  <1>4. /\ evidence' \in [page : Pages \cup {None}, masked : BOOLEAN,
                          outcome : {"none", "no-page", "shot", "failed", "redacted"}]
        /\ evidence'.page = evidence.page /\ evidence'.masked = evidence.masked
        /\ \/ /\ evidence.outcome = "shot" /\ masked[evidence.page]
              /\ evidence'.outcome = "redacted"
           \/ evidence'.outcome = "failed"
    BY <1>2, <1>t
  <1>5. MaskInv' /\ RedactedWasMasked'
    BY <1>1, <1>3, <1>4, <1>t DEF MaskInv, RedactedWasMasked
  <1>6. masked' \in [Pages -> BOOLEAN]
    BY <1>1, <1>t
  <1> QED BY <1>1, <1>4, <1>5, <1>6, CaptureKeeps

-----------------------------------------------------------------------------
(* The browser adapter: the theorems.                                       *)

\* One page, nothing done yet.
LEMMA AdapterInitInv ==
  ASSUME AdapterInit
  PROVE  AdapterIInv
  <1>1. 1 \in Pages /\ None \notin Pages /\ \A p \in Pages : p \in Nat /\ 1 <= p
    BY AdapterConstants DEF Pages, None
  <1>2. AdapterTypes
    <2>1. setup.start \in Contents
      BY AdapterConstants DEF AdapterInit
    <2>2. BrowserTypes
      BY <2>1 DEF AdapterInit, BrowserTypes, NoDialog, Handlings, None
    <2>3. TopologyTypes
      BY DEF AdapterInit, TopologyTypes, NoEntry, None
    <2>4. CallerTypes
      BY DEF AdapterInit, CallerTypes, NoControl, NoSettle, Handlings, None
    <2> QED BY <2>2, <2>3, <2>4 DEF AdapterTypes
  <1>3. PagesInv
    BY <1>1 DEF AdapterInit, PagesInv, Known, NoEntry
  <1>4. TriggerInv /\ TrafficInv
    BY <1>1 DEF AdapterInit, TriggerInv, TrafficInv, Known, None
  <1>5. FlightInv
    BY DEF AdapterInit, FlightInv, Executing, NoControl
  <1>6. SettleInv /\ MaskInv
    BY AdapterConstants DEF AdapterInit, SettleInv, MaskInv, NoSettle
  <1>7. AdapterInv
    BY <1>1 DEF AdapterInit, AdapterInv, ActiveIsOpen, TriggersAreTrue, AcceptedWasAllowed,
                RedactedWasMasked, NoEntry, Known, None
  <1> QED BY <1>2, <1>3, <1>4, <1>5, <1>6, <1>7 DEF AdapterIInv

\* A step that changes nothing the adapter knows.
LEMMA AdapterStutters ==
  ASSUME AdapterIInv, UNCHANGED adapterVars
  PROVE  AdapterIInv'
  <1>t. /\ BrowserTypes /\ TopologyTypes /\ CallerTypes /\ PagesInv /\ TriggerInv
        /\ TrafficInv /\ FlightInv /\ SettleInv /\ MaskInv /\ ActiveIsOpen
        /\ TriggersAreTrue /\ AcceptedWasAllowed /\ RedactedWasMasked
    BY DEF AdapterIInv, AdapterTypes, AdapterInv
  <1>1. /\ UNCHANGED <<setup, window, content, traffic, dialog, masked, targets, activeTarget,
                       logged, pending, fresh, clicked, flying, control, evidence, born, seen,
                       accepted>>
        /\ UNCHANGED caller
    BY DEF adapterVars, browser, topology, network, history
  <1>2. BrowserTypes' /\ TopologyTypes' /\ CallerTypes'
    BY <1>1, <1>t, CallerTypesKept DEF BrowserTypes, TopologyTypes
  <1>3. PagesInv' /\ ActiveIsOpen' /\ TriggersAreTrue' /\ TrafficInv'
    BY <1>1, <1>t, PagesLeft, TrafficLeft
  <1>4. TriggerInv' /\ FlightInv' /\ SettleInv' /\ MaskInv' /\ RedactedWasMasked'
    BY <1>1, <1>t, CallerWaits
  <1>5. AcceptedWasAllowed'
    BY <1>1, <1>t, AcceptedLeft
  <1> QED BY <1>2, <1>3, <1>4, <1>5 DEF AdapterIInv, AdapterTypes, AdapterInv

\* Every step of the browser, of the dialogs and of the caller keeps the invariant.
LEMMA AdapterStep ==
  ASSUME AdapterIInv, [AdapterNext]_adapterVars
  PROVE  AdapterIInv'
  <1>1. CASE Browser
    <2>1. CASE \E q \in Pages, p \in Pages \cup {None}, early \in 0..1 : OpenPage(q, p, early)
      BY <2>1, OpenPageKeeps
    <2>2. CASE \E p \in Pages : ClosePage(p)
      BY <2>2, ClosePageKeeps
    <2>3. CASE \E p \in Pages, what \in Contents, new \in BOOLEAN : Move(p, what, new)
      BY <2>3, MoveKeeps
    <2>4. CASE \E p \in Pages, excluded \in BOOLEAN : StartRequest(p, excluded)
      BY <2>4, StartRequestKeeps
    <2>5. CASE \E p \in Pages, kind \in {"tracked", "ignored", "early"} : FinishRequest(p, kind)
      BY <2>5, FinishRequestKeeps
    <2>6. CASE \E p \in Pages : RaiseDialog(p)
      BY <2>6, RaiseDialogKeeps
    <2> QED BY <1>1, <2>1, <2>2, <2>3, <2>4, <2>5, <2>6 DEF Browser
  <1>2. CASE AnswerDialogs
    BY <1>2, AnswerDialogKeeps DEF AnswerDialogs
  <1>3. CASE ExecuteStep
    BY <1>3, RecheckKeeps, LaunchKeeps, LandKeeps, GestureFailsKeeps, PollKeeps, FinishKeeps
       DEF ExecuteStep
  <1>4. CASE Caller
    <2>1. CASE \E p \in Pages : Observe(p)
      BY <2>1, ObserveKeeps
    <2>2. CASE \E p \in Pages : SwitchTarget(p)
      BY <2>2, SwitchTargetKeeps
    <2>3. CASE \E p \in Pages : CloseTarget(p)
      BY <2>3, ClosePageKeeps
    <2>4. CASE \E p \in Pages, what \in Contents : Recover(p, what)
      BY <2>4, MoveKeeps DEF Recover
    <2>5. CASE Discover
      BY <2>5, DiscoverKeeps
    <2>6. CASE MaskPage \/ TakeScreenshot \/ Unmask
      BY <2>6, MaskPageKeeps, TakeScreenshotKeeps, UnmaskKeeps
    <2> QED BY <1>4, <2>1, <2>2, <2>3, <2>4, <2>5, <2>6 DEF Caller
  <1>5. CASE UNCHANGED adapterVars
    BY <1>5, AdapterStutters
  <1> QED BY <1>1, <1>2, <1>3, <1>4, <1>5 DEF AdapterNext

\* The invariant that carries the adapter's promises through every step: the
\* entries of the pages, what was under way when each opened, the requests that
\* are counted, the action in flight, the wait for quiet and the screenshot.
THEOREM AdapterIInvHolds == AdapterSpec => []AdapterIInv
  <1>1. AdapterInit => AdapterIInv
    BY AdapterInitInv
  <1>2. AdapterIInv /\ [AdapterNext]_adapterVars => AdapterIInv'
    BY AdapterStep
  <1> QED BY <1>1, <1>2, PTL DEF AdapterSpec

\* What the adapter tells the loop of its pages, and does to them, holds with every
\* page opening, closing and navigating between any two of its awaits: the active
\* target is open while any page is, a popup is put down to the action that was in
\* flight, a dialog is accepted only where everything known of the control is
\* allowed, and a redacted screenshot was taken with the mask on.
THEOREM AdapterInvHolds == AdapterSpec => []AdapterInv
  <1>1. AdapterIInv => AdapterInv
    BY DEF AdapterIInv
  <1> QED BY <1>1, AdapterIInvHolds, PTL

\* A round of the wait that calls the page settled under the consensus policy.
LEMMA PollSettles ==
  ASSUME AdapterIInv, Poll, settle'.status = "settled", settle.status # "settled",
         setup.policy = "consensus"
  PROVE  /\ traffic[Target].tracked = 0 \/ born[Target].early > 0
         /\ seen = Closed \/ logged = TopologyCap
  <1>t. BrowserTypes /\ TopologyTypes /\ CallerTypes /\ TrafficInv /\ FlightInv /\ SettleInv
    BY DEF AdapterIInv, AdapterTypes
  <1>1. stage = "settling" /\ Target \in Pages
    BY <1>t DEF Poll, FlightInv
  <1>2. logged = settle.topo /\ pending[Target] = 0 /\ settle.calm
    <2> DEFINE p == Target
               calm == /\ content[p] = settle.dom
                       /\ setup.policy = "consensus" =>
                            logged = settle.topo /\ pending[p] = 0 /\ ~fresh[p] /\ Ready(p)
               settled == calm /\ (setup.policy = "consensus" => settle.calm)
               last == settle.polls + 1 >= MaxPolls
               st == IF settled THEN "settled" ELSE IF last THEN "timed_out" ELSE settle.status
    <2>1. settle' = [settle EXCEPT !.polls = settle.polls + 1, !.dom = content[p],
                                   !.topo = logged, !.calm = calm, !.status = st]
      BY DEF Poll
    <2>2. settle \in [polls : Nat, dom : Contents \cup {"none"}, topo : Nat,
                      calm : BOOLEAN, before : SUBSET Pages,
                      status : {"none", "target-closed", "settled", "timed_out"}]
      BY <1>t DEF CallerTypes
    <2>3. settle'.status = st
      <3> HIDE DEF calm, st
      <3> QED BY <2>1, <2>2
    <2>4. settled
      <3> HIDE DEF settled
      <3> QED BY <2>3
    <2> QED BY <2>4
  <1>3. settle.polls > 0
    BY <1>2, <1>t DEF SettleInv
  <1>4. seen = Closed \/ logged = TopologyCap
    BY <1>1, <1>2, <1>3, <1>t DEF SettleInv
  <1>5. traffic[Target].tracked = 0 \/ born[Target].early > 0
    <2>1. born[Target].early \in Nat
      BY <1>1, <1>t, PageFacts
    <2>2. born[Target].early = 0 => pending[Target] = traffic[Target].tracked
      BY <1>1, <1>t DEF TrafficInv
    <2> QED BY <1>2, <2>1, <2>2
  <1> QED BY <1>4, <1>5

\* Only a round of the wait calls a page settled.
LEMMA OnlyPollSettles ==
  ASSUME AdapterIInv, [AdapterNext]_adapterVars, settle'.status = "settled",
         settle.status # "settled"
  PROVE  Poll
  <1>0. settle \in [polls : Nat, dom : Contents \cup {"none"}, topo : Nat,
                    calm : BOOLEAN, before : SUBSET Pages,
                    status : {"none", "target-closed", "settled", "timed_out"}]
    BY DEF AdapterIInv, AdapterTypes, CallerTypes
  <1>1. settle' # settle
    OBVIOUS
  <1>2. ASSUME NEW status, Return(status) PROVE FALSE
    BY <1>2 DEF Return, NoSettle
  <1>3. ~Browser
    BY <1>1 DEF Browser, OpenPage, ClosePage, Move, StartRequest, FinishRequest, RaiseDialog,
                caller
  <1>4. ~AnswerDialogs
    BY <1>1 DEF AnswerDialogs, AnswerDialog, caller
  <1>5. ~Caller
    BY <1>1 DEF Caller, Observe, SwitchTarget, CloseTarget, Recover, Move, Discover, MaskPage,
                TakeScreenshot, Unmask, caller
  <1>6. ~Recheck /\ ~GestureFails /\ ~SettleFails /\ ~Finish
    BY <1>1, <1>2 DEF Recheck, GestureFails, SettleFails, Finish
  <1>7. ~Launch
    <2>1. ASSUME Launch PROVE \/ \E status : Return(status)
                              \/ settle' = [NoSettle EXCEPT !.before = Before]
      BY <2>1 DEF Launch
    <2>2. ASSUME settle' = [NoSettle EXCEPT !.before = Before] PROVE settle'.status = "none"
      BY <2>2 DEF NoSettle
    <2> QED BY <1>2, <2>1, <2>2
  <1>8. ~Land
    <2>1. ASSUME Land
          PROVE  \/ settle' = [settle EXCEPT !.status = "target-closed"]
                 \/ settle' = [settle EXCEPT !.dom = content[Target], !.topo = logged]
      BY <2>1 DEF Land
    <2>2. ASSUME Land
          PROVE  settle'.status = "target-closed" \/ settle'.status = settle.status
      BY <1>0, <2>1, <2>2
    <2> QED BY <2>2
  <1>9. ~UNCHANGED adapterVars
    BY <1>1 DEF adapterVars, caller
  <1> QED BY <1>3, <1>4, <1>5, <1>6, <1>7, <1>8, <1>9 DEF AdapterNext, ExecuteStep

\* When the consensus policy calls a page settled, none of its requests that the
\* policy counts is outstanding, unless the page had requests under way when it
\* registered, and no page has closed since the last poll, unless the log is full.
THEOREM SettledIsQuietHolds == AdapterSpec => SettledIsQuiet
  <1>1. ASSUME AdapterIInv, [AdapterNext]_adapterVars
        PROVE  [settle'.status = "settled" /\ settle.status # "settled"
                  /\ setup.policy = "consensus" =>
                  /\ traffic[Target].tracked = 0 \/ born[Target].early > 0
                  /\ \/ seen = {p \in Pages : window[p] = "closed"}
                     \/ logged = TopologyCap]_adapterVars
    BY <1>1, OnlyPollSettles, PollSettles DEF Closed
  <1> QED BY <1>1, AdapterIInvHolds, PTL DEF AdapterSpec, SettledIsQuiet

=============================================================================
