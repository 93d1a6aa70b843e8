-------------------------- MODULE AdaptiveRunProofs --------------------------
(***************************************************************************)
(* Proofs about AdaptiveRun, for every target, charter, recording and      *)
(* restored budget, and for any length of the run.                         *)
(***************************************************************************)
EXTENDS AdaptiveRun, FiniteSetTheorems, SequenceTheorems, WellFoundedInduction,
        TLAPS

-----------------------------------------------------------------------------
(* The inductive invariant.                                                  *)

Failing == {"timeout", "failed"}

\* The times that count for the rate: the restored ones, and one for each
\* execution.
TimesOf(given0, done) == given0 \o [i \in DOMAIN done |-> done[i].at]

Times == TimesOf(restored, trace)

\* The budget keeps the last of these times; those it has forgotten are older
\* than the window.
Keeps(kept, times) ==
  LET gone == Len(times) - Len(kept)
  IN  /\ Len(kept) <= Len(times)
      /\ \A i \in 1..Len(kept) : kept[i] = times[gone + i]
      /\ \A i \in 1..gone : times[i] <= now - Window

\* When an action has been admitted its time counts already.
BudgetInv ==
  /\ Paced(Times)
  /\ pc \in Loop \ {"execute"} => Keeps(attempts, Times)
  /\ pc = "execute" =>
       /\ attempts # <<>>
       /\ LET admitted == Append(Times, attempts[Len(attempts)])
          IN Paced(admitted) /\ Keeps(attempts, admitted)

\* The earlier timeouts of an action in a state.
TimeoutsOf(s, a) ==
  {j \in 1..Len(trace) : /\ trace[j].status = "timeout"
                         /\ trace[j].from = s /\ trace[j].action = a}

\* The table counts the timeouts and blocks the action after each of them, and
\* what was selected is not blocked.
QuarantineInv ==
  /\ \A s \in States, a \in Actions :
       /\ quarantine[<<s, a>>].timeouts = Cardinality(TimeoutsOf(s, a))
       /\ \A j \in TimeoutsOf(s, a) : quarantine[<<s, a>>].until >= j + 1
  /\ pc \in {"consume", "execute"} =>
       /\ candidate \in Actions
       /\ ~Replaying => ~Quarantined(seen, candidate)

\* What is selected is the recorded action, and what is observed the expected
\* state.
ResumeInv ==
  /\ pc \in {"consume", "execute"} /\ Replaying =>
       candidate = replay.actions[actions + 1]
  /\ /\ pc \in {"select", "consume", "execute"}
     /\ actions = Len(replay.actions) /\ replay.expected # None
     => seen = replay.expected

\* The failures the loop has gone on from.
Recovered(n) == {i \in 1..n : trace[i].status \in Failing}

FailedLast == actions > 0 /\ trace[actions].status \in Failing

\* Each of them has cost a recovery, and the target is back where the last
\* action started, or this is what was observed.
RecoveryInv ==
  /\ recoveries <= MaxBacktracks
  /\ Cardinality(Recovered(actions - 1)) <= recoveries
  /\ pc \in Loop \ {"judge", "recover"} =>
       Cardinality(Recovered(actions)) <= recoveries
  /\ pc \in {"setup", "control", "limits"} /\ FailedLast =>
       state = trace[actions].from
  /\ pc \in {"select", "consume", "execute"} /\ FailedLast =>
       seen = trace[actions].from
  /\ pc \in {"judge", "recover"} => actions > 0 /\ seen = trace[actions].from

\* Nothing failed in the run.
NoFailure == \A i \in DOMAIN trace : trace[i].status \notin Failing

StopVerdict(command) ==
  [outcome |-> "partial",
   reason |-> IF command = "kill" THEN "machine_failure" ELSE "hold"]

\* As long as the loop runs its outcome is not set.  What is not set, or says
\* passed, says it of a run without a failure, and an operator's stop has set
\* the outcome that only an error replaces.
VerdictInv ==
  /\ pc \in Loop => verdict.outcome = "error" /\ stop = None
  /\ pc \in Loop \ {"judge"} /\ ~failures => NoFailure
  /\ pc = "judge" /\ ~failures =>
       \A i \in 1..(actions - 1) : trace[i].status \notin Failing
  /\ pc = "ended" /\ verdict.outcome = "error" /\ ~failures => NoFailure
  /\ verdict.outcome = "passed" => NoFailure
  /\ pc = "done" /\ verdict.outcome = "passed" => ~artifacts
  /\ pc = "ended" /\ stop \in {"pause", "kill"} => verdict = StopVerdict(stop)
  /\ stop \in {"pause", "kill"} =>
       verdict.outcome = "error" \/ verdict = StopVerdict(stop)

IInv ==
  /\ TypeOK /\ BudgetInv /\ QuarantineInv /\ QuarantineHolds
  /\ ResumeInv /\ ResumesWhereExpected /\ RecoveryInv /\ RecoveredBeforeNext
  /\ VerdictInv

-----------------------------------------------------------------------------
(* Lemmas about sequences of times and executions.                           *)

LEMMA LeastIndex ==
  ASSUME NEW T \in SUBSET Nat, T # {}
  PROVE  \E m \in T : \A j \in T : m <= j
<1>1. IsWellFoundedOn(OpToRel(<, Nat), Nat)
  BY NatLessThanWellFounded
<1>2. PICK m \in T : \A j \in T : ~(<<j, m>> \in OpToRel(<, Nat))
  BY <1>1, WFMin
<1>3. \A j \in T : ~(j < m)
  BY <1>2 DEF OpToRel
<1> QED BY <1>3

\* What prune leaves is the end of the sequence, and what it shifts out is old.
LEMMA PrunedIsEnd ==
  ASSUME attempts \in Seq(Nat), now \in Nat
  PROVE  \E gone \in 0..Len(attempts) :
           /\ Pruned \in Seq(Nat) /\ Len(Pruned) = Len(attempts) - gone
           /\ \A i \in 1..Len(Pruned) : Pruned[i] = attempts[gone + i]
           /\ \A i \in 1..gone : attempts[i] <= now - Window
<1> DEFINE P(k) == /\ \A i \in 1..k : Old(i)
                   /\ k < Len(attempts) => ~Old(k + 1)
           gone == CHOOSE k \in 0..Len(attempts) : P(k)
<1>1. \E k \in 0..Len(attempts) : P(k)
  <2> DEFINE T == {i \in 1..Len(attempts) : ~Old(i)}
  <2>1. CASE T = {}
    <3>1. P(Len(attempts))
      BY <2>1
    <3> QED BY <3>1
  <2>2. CASE T # {}
    <3>1. T \in SUBSET Nat /\ \A i \in T : i \in 1..Len(attempts) /\ ~Old(i)
      OBVIOUS
    <3>2. \A i \in 1..Len(attempts) : i \notin T => Old(i)
      OBVIOUS
    <3> HIDE DEF T
    <3>3. PICK m \in T : \A j \in T : m <= j
      BY <2>2, <3>1, LeastIndex
    <3>4. m - 1 \in 0..Len(attempts) /\ P(m - 1)
      BY <3>1, <3>2, <3>3
    <3> QED BY <3>4
  <2> QED BY <2>1, <2>2
<1>2. gone \in 0..Len(attempts) /\ P(gone)
  BY <1>1
<1>3. Pruned = SubSeq(attempts, gone + 1, Len(attempts))
  BY DEF Pruned
<1> HIDE DEF gone
<1>4. /\ Pruned \in Seq(Nat) /\ Len(Pruned) = Len(attempts) - gone
      /\ \A i \in 1..Len(Pruned) : Pruned[i] = attempts[gone + i]
  BY <1>2, <1>3
<1>5. \A i \in 1..gone : attempts[i] <= now - Window
  BY <1>2 DEF Old
<1> QED BY <1>2, <1>4, <1>5

LEMMA TimesShape ==
  ASSUME NEW first \in Seq(Nat), NEW done \in Seq(Execution)
  PROVE  /\ TimesOf(first, done) \in Seq(Nat)
         /\ Len(TimesOf(first, done)) = Len(first) + Len(done)
         /\ \A i \in 1..Len(first) : TimesOf(first, done)[i] = first[i]
         /\ \A i \in 1..Len(done) :
              TimesOf(first, done)[Len(first) + i] = done[i].at
<1> DEFINE ats == [i \in DOMAIN done |-> done[i].at]
<1>1. ats \in Seq(Nat) /\ Len(ats) = Len(done)
  <2>1. DOMAIN done = 1..Len(done) /\ Len(done) \in Nat
    OBVIOUS
  <2>2. \A i \in 1..Len(done) : done[i].at \in Nat
    <3>1. \A i \in 1..Len(done) : done[i] \in Execution
      OBVIOUS
    <3> QED BY <3>1 DEF Execution
  <2>3. ats \in [1..Len(done) -> Nat]
    BY <2>1, <2>2
  <2>4. ats \in Seq(Nat)
    BY <2>1, <2>3
  <2> QED BY <2>1, <2>3, <2>4
<1>2. \A i \in 1..Len(done) : ats[i] = done[i].at
  OBVIOUS
<1> HIDE DEF ats
<1>3. TimesOf(first, done) = first \o ats
  BY DEF TimesOf, ats
<1> QED BY <1>1, <1>2, <1>3

LEMMA TimesAppend ==
  ASSUME NEW first \in Seq(Nat), NEW done \in Seq(Execution), NEW e \in Execution
  PROVE  TimesOf(first, Append(done, e)) = Append(TimesOf(first, done), e.at)
<1> DEFINE t == TimesOf(first, done)
           more == Append(done, e)
           u == TimesOf(first, more)
           v == Append(t, e.at)
<1>1. e.at \in Nat /\ Len(first) \in Nat /\ Len(done) \in Nat
  BY DEF Execution
<1>2. /\ t \in Seq(Nat) /\ Len(t) = Len(first) + Len(done)
      /\ \A i \in 1..Len(first) : t[i] = first[i]
      /\ \A i \in 1..Len(done) : t[Len(first) + i] = done[i].at
  BY TimesShape
<1>3. /\ more \in Seq(Execution) /\ Len(more) = Len(done) + 1
      /\ \A i \in 1..Len(done) : more[i] = done[i]
      /\ more[Len(done) + 1] = e
  OBVIOUS
<1> HIDE DEF more, t
<1>4. /\ u \in Seq(Nat) /\ Len(u) = Len(first) + Len(more)
      /\ \A i \in 1..Len(first) : u[i] = first[i]
      /\ \A i \in 1..Len(more) : u[Len(first) + i] = more[i].at
  BY <1>3, TimesShape
<1>5. /\ v \in Seq(Nat) /\ Len(v) = Len(t) + 1 /\ v[Len(t) + 1] = e.at
      /\ \A i \in 1..Len(t) : v[i] = t[i]
  BY <1>1, <1>2
<1> HIDE DEF u, v
<1>6. \A i \in 1..Len(u) : u[i] = v[i]
  <2> SUFFICES ASSUME NEW i \in 1..Len(u) PROVE u[i] = v[i]
    OBVIOUS
  <2>1. CASE i <= Len(first)
    BY <1>1, <1>2, <1>4, <1>5, <2>1
  <2>2. CASE i > Len(first)
    <3>1. PICK j \in 1..(Len(done) + 1) : i = Len(first) + j
      <4>1. /\ i - Len(first) \in 1..(Len(done) + 1)
            /\ i = Len(first) + (i - Len(first))
        BY <1>1, <1>3, <1>4, <2>2
      <4> QED BY <4>1
    <3>2. u[i] = more[j].at
      BY <1>3, <1>4, <3>1
    <3>3. CASE j = Len(done) + 1
      BY <1>1, <1>2, <1>3, <1>5, <3>1, <3>2, <3>3
    <3>4. CASE j # Len(done) + 1
      <4>1. j \in 1..Len(done) /\ i \in 1..Len(t)
        BY <1>1, <1>2, <3>1, <3>4
      <4> QED BY <1>2, <1>3, <1>5, <3>1, <3>2, <4>1
    <3> QED BY <3>3, <3>4
  <2> QED BY <1>1, <1>4, <2>1, <2>2
<1>7. Len(u) = Len(v)
  BY <1>1, <1>2, <1>3, <1>4, <1>5
<1>8. u = v
  BY <1>4, <1>5, <1>6, <1>7, SeqEqual
<1> QED BY <1>8 DEF more, t, u, v

\* Forgetting the old ones, and admitting one more into a window that is not
\* full.
LEMMA PrunedKeeps ==
  ASSUME attempts \in Seq(Nat), now \in Nat, NEW times \in Seq(Nat),
         Keeps(attempts, times)
  PROVE  Keeps(Pruned, times)
<1>1. PICK gone \in 0..Len(attempts) :
           /\ Pruned \in Seq(Nat) /\ Len(Pruned) = Len(attempts) - gone
           /\ \A i \in 1..Len(Pruned) : Pruned[i] = attempts[gone + i]
           /\ \A i \in 1..gone : attempts[i] <= now - Window
  BY PrunedIsEnd
<1> DEFINE d == Len(times) - Len(attempts)
           n == Len(times) - Len(Pruned)
<1>2. /\ d \in Nat /\ n = d + gone /\ Len(attempts) \in Nat /\ Len(Pruned) \in Nat
      /\ Len(times) \in Nat
      /\ \A i \in 1..Len(attempts) : attempts[i] = times[d + i]
      /\ \A i \in 1..d : times[i] <= now - Window
  BY <1>1 DEF Keeps
<1> HIDE DEF d, n
<1>3. \A i \in 1..Len(Pruned) : Pruned[i] = times[n + i]
  BY <1>1, <1>2
<1>4. \A i \in 1..n : times[i] <= now - Window
  <2> SUFFICES ASSUME NEW i \in 1..n PROVE times[i] <= now - Window
    OBVIOUS
  <2>1. CASE i <= d
    BY <1>2, <2>1
  <2>2. CASE i > d
    <3>1. i - d \in 1..gone /\ i - d \in 1..Len(attempts) /\ d + (i - d) = i
      BY <1>1, <1>2, <2>2
    <3> QED BY <1>1, <1>2, <3>1
  <2> QED BY <1>1, <1>2, <2>1, <2>2
<1> QED BY <1>1, <1>2, <1>3, <1>4 DEF Keeps, n

LEMMA AdmittedIsPaced ==
  ASSUME NEW kept \in Seq(Nat), now \in Nat, NEW times \in Seq(Nat),
         Keeps(kept, times), Paced(times), Len(kept) < PerWindow
  PROVE  /\ Paced(Append(times, now))
         /\ Keeps(Append(kept, now), Append(times, now))
<1> DEFINE m == Len(times)
           k == Len(kept)
           t == Append(times, now)
           s == Append(kept, now)
<1>1. /\ m \in Nat /\ k \in Nat /\ k <= m /\ k < PerWindow
      /\ PerWindow \in Nat \ {0} /\ Window \in Nat
      /\ \A i \in 1..k : kept[i] = times[(m - k) + i]
      /\ \A i \in 1..(m - k) : times[i] <= now - Window
  BY RunAssumption DEF Keeps
<1>2. /\ t \in Seq(Nat) /\ Len(t) = m + 1 /\ t[m + 1] = now
      /\ \A i \in 1..m : t[i] = times[i] /\ times[i] \in Nat
  OBVIOUS
<1>3. /\ s \in Seq(Nat) /\ Len(s) = k + 1 /\ s[k + 1] = now
      /\ \A i \in 1..k : s[i] = kept[i]
  OBVIOUS
<1>4. DOMAIN times = 1..m /\ DOMAIN t = 1..(m + 1)
  BY <1>2
<1> HIDE DEF m, k, t, s
<1>5. Paced(t)
  <2> SUFFICES ASSUME NEW i \in 1..(m + 1), i + PerWindow \in 1..(m + 1)
               PROVE  t[i + PerWindow] - t[i] >= Window
    BY <1>4 DEF Paced
  <2>1. CASE i + PerWindow = m + 1
    <3>1. i \in 1..(m - k) /\ i \in 1..m
      BY <1>1, <2>1
    <3>2. times[i] <= now - Window /\ times[i] \in Nat /\ t[i] = times[i]
      BY <1>1, <1>2, <3>1
    <3>3. t[i + PerWindow] = now
      BY <1>2, <2>1
    <3> QED BY <1>1, <3>2, <3>3
  <2>2. CASE i + PerWindow # m + 1
    <3>1. i \in 1..m /\ i + PerWindow \in 1..m
      BY <1>1, <2>2
    <3>2. times[i + PerWindow] - times[i] >= Window
      BY <1>4, <3>1 DEF Paced
    <3> QED BY <1>2, <3>1, <3>2
  <2> QED BY <2>1, <2>2
<1>6. Keeps(s, t)
  <2>1. Len(t) - Len(s) = m - k /\ Len(s) <= Len(t)
    BY <1>1, <1>2, <1>3
  <2>2. \A i \in 1..(k + 1) : s[i] = t[(m - k) + i]
    <3> SUFFICES ASSUME NEW i \in 1..(k + 1) PROVE s[i] = t[(m - k) + i]
      OBVIOUS
    <3>1. CASE i = k + 1
      <4>1. (m - k) + i = m + 1
        BY <1>1, <3>1
      <4> QED BY <1>2, <1>3, <3>1, <4>1
    <3>2. CASE i # k + 1
      <4>1. i \in 1..k /\ (m - k) + i \in 1..m
        BY <1>1, <3>2
      <4> QED BY <1>1, <1>2, <1>3, <4>1
    <3> QED BY <3>1, <3>2
  <2>3. \A i \in 1..(m - k) : t[i] <= now - Window
    <3>1. \A i \in 1..(m - k) : i \in 1..m
      BY <1>1
    <3> QED BY <1>1, <1>2, <3>1
  <2> QED BY <1>3, <2>1, <2>2, <2>3 DEF Keeps
<1> QED BY <1>5, <1>6 DEF t, s

-----------------------------------------------------------------------------
(* The steps by what they leave alone.                                       *)

Quiet ==
  \/ TakeStop \/ TakeBookmark \/ TakeMalformed \/ NoRequest \/ Limit
  \/ StopWhen \/ Observe \/ Select \/ ReplayDiverges \/ NothingToDo
  \/ SelectionFails \/ OracleFails \/ Judge \/ Recover \/ RecoveryFails
  \/ Conclude \/ Close \/ Finalize \/ Throw \/ Request \/ UNCHANGED vars

\* Only Execute changes the trace and the quarantine; only these steps change
\* the budget.
LEMMA StepCases ==
  ASSUME [Next]_vars
  PROVE  \/ Execute \/ Consume \/ Begin \/ Tick \/ Quiet
         \/ BudgetSpent \/ LlmUnavailable \/ RateLimit
BY DEF Next, Step, Quiet

LEMMA QuietFrame ==
  ASSUME Quiet
  PROVE  /\ UNCHANGED <<trace, quarantine, replay, restored, attempts, now>>
         /\ pc' \in Loop => pc \in Loop /\ (pc' = "execute" <=> pc = "execute")
<1> USE DEF env, given, tables, flags, Break, Completed, Loop
<1>1. CASE \/ TakeStop \/ TakeBookmark \/ TakeMalformed \/ NoRequest \/ Limit
           \/ StopWhen \/ Observe
  BY <1>1 DEF TakeStop, TakeBookmark, TakeMalformed, NoRequest, Limit, StopWhen,
       Observe
<1>2. CASE Select \/ ReplayDiverges \/ NothingToDo \/ SelectionFails
  BY <1>2 DEF Select, ReplayDiverges, NothingToDo, SelectionFails
<1>3. CASE \/ OracleFails \/ Judge \/ Recover \/ RecoveryFails
           \/ Conclude \/ Close \/ Finalize \/ Throw \/ Request \/ UNCHANGED vars
  BY <1>3 DEF OracleFails, Judge, Recover, RecoveryFails, Conclude, Close,
       Finalize, Throw, Request, vars
<1> QED BY <1>1, <1>2, <1>3 DEF Quiet

LEMMA OtherFrame ==
  ASSUME Consume \/ Begin \/ Tick \/ Quiet \/ BudgetSpent \/ LlmUnavailable
           \/ RateLimit
  PROVE  UNCHANGED <<trace, quarantine, replay, restored>>
BY QuietFrame DEF Consume, Begin, Tick, BudgetSpent, LlmUnavailable, RateLimit,
   given, tables

\* An execution is appended to the trace.
Appends(e) ==
  /\ trace' = Append(trace, e) /\ e \in Execution
  /\ e.action = candidate /\ e.from = seen
  /\ e.at = attempts[Len(attempts)]
  /\ e.replayed <=> Replaying
  /\ quarantine' =
       IF e.status # "timeout" THEN quarantine
       ELSE [quarantine EXCEPT ![<<seen, candidate>>] =
               [timeouts |-> @.timeouts + 1, until |-> actions + 2]]

LEMMA ExecuteAppends ==
  ASSUME TypeOK, BudgetInv, QuarantineInv, Execute
  PROVE  /\ \E e \in Execution : Appends(e)
         /\ pc = "execute" /\ pc' = "judge"
         /\ state' \in States
         /\ UNCHANGED <<now, control, requests, seen, candidate, replay, restored,
                        attempts, recoveries, failures, artifacts, stop, verdict>>
<1>1. PICK status \in Statuses :
        /\ trace' = Append(trace, [action |-> candidate, from |-> seen,
                                   at |-> attempts[Len(attempts)],
                                   status |-> status, replayed |-> Replaying])
        /\ quarantine' =
             IF status # "timeout" THEN quarantine
             ELSE [quarantine EXCEPT ![<<seen, candidate>>] =
                     [timeouts |-> @.timeouts + 1, until |-> actions + 2]]
  BY DEF Execute
<1> DEFINE e == [action |-> candidate, from |-> seen,
                 at |-> attempts[Len(attempts)],
                 status |-> status, replayed |-> Replaying]
<1>2. candidate \in Actions /\ attempts # <<>> /\ attempts \in Seq(Nat)
      /\ seen \in States /\ state \in States
  BY DEF Execute, BudgetInv, QuarantineInv, TypeOK
<1>3. attempts[Len(attempts)] \in Nat
  BY <1>2
<1>4. Replaying \in BOOLEAN
  BY DEF Replaying
<1>5. e \in Execution
  BY <1>2, <1>3, <1>4 DEF Execution
<1>6. Appends(e)
  BY <1>1, <1>5 DEF Appends
<1>7. state' \in States
  BY <1>2 DEF Execute
<1> QED BY <1>5, <1>6, <1>7 DEF Execute, env, given, flags

LEMMA AppendedTrace ==
  ASSUME trace \in Seq(Execution), NEW e \in Execution, trace' = Append(trace, e)
  PROVE  /\ actions \in Nat /\ actions' = actions + 1
         /\ trace' \in Seq(Execution)
         /\ DOMAIN trace = 1..actions /\ DOMAIN trace' = 1..(actions + 1)
         /\ \A i \in 1..actions : trace'[i] = trace[i]
         /\ trace'[actions + 1] = e
BY DEF actions

-----------------------------------------------------------------------------
(* The rate budget.                                                          *)

LEMMA BudgetStep ==
  ASSUME TypeOK, BudgetInv, QuarantineInv, [Next]_vars
  PROVE  BudgetInv'
<1>0. /\ attempts \in Seq(Nat) /\ restored \in Seq(Nat) /\ trace \in Seq(Execution)
      /\ now \in Nat /\ PerWindow \in Nat \ {0} /\ Window \in Nat
      /\ Times \in Seq(Nat)
  BY RunAssumption, TimesShape DEF TypeOK, Times
<1>1. PICK gone \in 0..Len(attempts) :
           /\ Pruned \in Seq(Nat) /\ Len(Pruned) = Len(attempts) - gone
           /\ \A i \in 1..Len(Pruned) : Pruned[i] = attempts[gone + i]
           /\ \A i \in 1..gone : attempts[i] <= now - Window
  BY <1>0, PrunedIsEnd
<1>2. CASE Execute
  <2>1. PICK e \in Execution : Appends(e)
    BY <1>2, ExecuteAppends
  <2>2. /\ pc = "execute" /\ pc' = "judge"
        /\ UNCHANGED <<restored, attempts, now>>
    BY <1>2, ExecuteAppends
  <2>3. Times' = Append(Times, attempts[Len(attempts)])
    BY SMTT(20), <1>0, <2>1, <2>2, TimesAppend DEF Times, Appends
  <2> QED BY <2>2, <2>3 DEF BudgetInv, Keeps
<1>3. CASE Consume
  <2>1. /\ Len(Pruned) < PerWindow /\ attempts' = Append(Pruned, now)
        /\ pc = "consume" /\ pc' = "execute" /\ UNCHANGED <<trace, restored, now>>
    BY <1>3 DEF Consume, env, given
  <2>2. Keeps(Pruned, Times) /\ Paced(Times)
    BY <1>0, <2>1, PrunedKeeps DEF BudgetInv, Loop
  <2>3. /\ Paced(Append(Times, now))
        /\ Keeps(Append(Pruned, now), Append(Times, now))
    BY <1>0, <1>1, <2>1, <2>2, AdmittedIsPaced
  <2>4. attempts' # <<>> /\ attempts'[Len(attempts')] = now
    <3> DEFINE s == Pruned
    <3>1. s \in Seq(Nat) /\ now \in Nat
      BY <1>0, <1>1
    <3> HIDE DEF s
    <3>2. /\ Append(s, now) # <<>> /\ Len(Append(s, now)) = Len(s) + 1
          /\ Append(s, now)[Len(s) + 1] = now
      BY <3>1
    <3>3. attempts' = Append(s, now)
      BY <2>1 DEF s
    <3> QED BY <3>2, <3>3
  <2>5. Times' = Times
    BY <2>1 DEF Times
  <2> QED BY <2>1, <2>2, <2>3, <2>4, <2>5 DEF BudgetInv, Keeps
<1>4. CASE Begin
  <2>1. /\ attempts' = Pruned /\ pc = "setup" /\ pc' = "control"
        /\ UNCHANGED <<trace, restored, now>>
    BY <1>4 DEF Begin, env, given
  <2>2. Keeps(Pruned, Times) /\ Paced(Times)
    BY <1>0, <2>1, PrunedKeeps DEF BudgetInv, Loop
  <2>3. Times' = Times
    BY <2>1 DEF Times
  <2> QED BY <2>1, <2>2, <2>3 DEF BudgetInv, Keeps
<1>5. CASE BudgetSpent \/ LlmUnavailable \/ RateLimit
  <2>1. /\ pc' \notin Loop /\ UNCHANGED <<trace, restored>>
    BY <1>5 DEF BudgetSpent, LlmUnavailable, RateLimit, Break, given, Loop
  <2>2. Times' = Times
    BY <2>1 DEF Times
  <2> QED BY <2>1, <2>2 DEF BudgetInv, Loop
<1>6. CASE Tick
  <2>1. now' = now + 1 /\ UNCHANGED <<pc, attempts, trace, restored>>
    BY <1>6 DEF Tick, given, tables
  <2>2. Times' = Times
    BY <2>1 DEF Times
  <2>3. ASSUME NEW t \in Seq(Nat), Keeps(attempts, t)
        PROVE  Keeps(attempts, t)'
    <3>1. \A i \in 1..(Len(t) - Len(attempts)) : t[i] \in Nat
      BY <1>0, <2>3 DEF Keeps
    <3>2. \A i \in 1..(Len(t) - Len(attempts)) : t[i] <= now' - Window
      <4>1. \A i \in 1..(Len(t) - Len(attempts)) : t[i] <= now - Window
        BY <2>3 DEF Keeps
      <4>2. now' = now + 1 /\ now \in Int /\ Window \in Int
        BY <1>0, <2>1
      <4> SUFFICES ASSUME NEW i \in 1..(Len(t) - Len(attempts))
                   PROVE  t[i] <= now' - Window
        OBVIOUS
      <4>3. t[i] \in Int /\ t[i] <= now - Window
        BY <3>1, <4>1
      <4> QED BY <4>2, <4>3
    <3> QED BY <2>1, <2>3, <3>2 DEF Keeps
  <2>4. CASE pc = "execute"
    <3>1. /\ attempts # <<>>
          /\ Append(Times, attempts[Len(attempts)]) \in Seq(Nat)
      BY <1>0, <2>4 DEF BudgetInv
    <3> QED BY <2>1, <2>2, <2>3, <2>4, <3>1 DEF BudgetInv, Keeps
  <2>5. CASE pc # "execute"
    BY <1>0, <2>1, <2>2, <2>3, <2>5 DEF BudgetInv, Keeps
  <2> QED BY <2>4, <2>5
<1>7. CASE Quiet
  <2>1. /\ UNCHANGED <<trace, restored, attempts, now>>
        /\ pc' \in Loop => pc \in Loop /\ (pc' = "execute" <=> pc = "execute")
    BY <1>7, QuietFrame
  <2>2. Times' = Times
    BY <2>1 DEF Times
  <2> QED BY <2>1, <2>2 DEF BudgetInv, Keeps, Loop
<1> QED BY <1>2, <1>3, <1>4, <1>5, <1>6, <1>7, StepCases

-----------------------------------------------------------------------------
(* The quarantine.                                                           *)

LEMMA TimeoutsFinite ==
  ASSUME TypeOK, NEW s, NEW a
  PROVE  /\ IsFiniteSet(TimeoutsOf(s, a)) /\ Cardinality(TimeoutsOf(s, a)) \in Nat
         /\ TimeoutsOf(s, a) \subseteq 1..actions
<1>1. actions \in Nat
  BY DEF TypeOK, actions
<1>2. IsFiniteSet(1..actions)
  BY <1>1, FS_Interval
<1>3. TimeoutsOf(s, a) \subseteq 1..actions
  BY DEF TimeoutsOf, actions
<1> QED BY <1>2, <1>3, FS_Subset, FS_CardinalityType

\* What an execution adds to the timeouts.
LEMMA TimeoutsMove ==
  ASSUME TypeOK, NEW e \in Execution, trace' = Append(trace, e), NEW s, NEW a
  PROVE  TimeoutsOf(s, a)' =
           IF e.status = "timeout" /\ e.from = s /\ e.action = a
             THEN TimeoutsOf(s, a) \cup {actions + 1} ELSE TimeoutsOf(s, a)
<1>1. /\ actions \in Nat /\ Len(trace) = actions /\ Len(trace') = actions + 1
      /\ \A i \in 1..actions : trace'[i] = trace[i]
      /\ trace'[actions + 1] = e
  BY AppendedTrace DEF TypeOK, actions
<1>2. TimeoutsOf(s, a)' =
        {j \in 1..(actions + 1) : /\ trace'[j].status = "timeout"
                                  /\ trace'[j].from = s /\ trace'[j].action = a}
  BY <1>1 DEF TimeoutsOf
<1>3. TimeoutsOf(s, a) =
        {j \in 1..actions : /\ trace[j].status = "timeout"
                            /\ trace[j].from = s /\ trace[j].action = a}
  BY <1>1 DEF TimeoutsOf
<1>4. 1..(actions + 1) = (1..actions) \cup {actions + 1}
  BY <1>1
<1> QED BY <1>1, <1>2, <1>3, <1>4

LEMMA QuarantineStep ==
  ASSUME TypeOK, BudgetInv, QuarantineInv, [Next]_vars
  PROVE  QuarantineInv'
<1>1. CASE Execute
  <2>1. PICK e \in Execution : Appends(e)
    BY <1>1, ExecuteAppends
  <2>2. pc' = "judge"
    BY <1>1, ExecuteAppends
  <2> SUFFICES ASSUME NEW s \in States, NEW a \in Actions
               PROVE  /\ quarantine'[<<s, a>>].timeouts =
                           Cardinality(TimeoutsOf(s, a)')
                      /\ \A j \in TimeoutsOf(s, a)' :
                           quarantine'[<<s, a>>].until >= j + 1
    BY <2>2 DEF QuarantineInv
  <2>3. /\ actions \in Nat /\ seen \in States /\ candidate \in Actions
        /\ e.from = seen /\ e.action = candidate /\ trace' = Append(trace, e)
    BY <1>1, <2>1 DEF Execute, QuarantineInv, TypeOK, actions, Appends
  <2>4. quarantine[<<s, a>>].timeouts \in Nat /\ quarantine[<<s, a>>].until \in Nat
    BY DEF TypeOK
  <2>5. /\ quarantine[<<s, a>>].timeouts = Cardinality(TimeoutsOf(s, a))
        /\ \A j \in TimeoutsOf(s, a) : quarantine[<<s, a>>].until >= j + 1
    BY DEF QuarantineInv
  <2>6. CASE e.status = "timeout" /\ s = seen /\ a = candidate
    <3>1. TimeoutsOf(s, a)' = TimeoutsOf(s, a) \cup {actions + 1}
      BY <2>3, <2>6, TimeoutsMove
    <3>2. actions + 1 \notin TimeoutsOf(s, a)
      BY <2>3, TimeoutsFinite
    <3>3. Cardinality(TimeoutsOf(s, a)') = Cardinality(TimeoutsOf(s, a)) + 1
      BY <3>1, <3>2, TimeoutsFinite, FS_AddElement
    <3>4. quarantine'[<<s, a>>] =
            [timeouts |-> quarantine[<<s, a>>].timeouts + 1, until |-> actions + 2]
      BY <2>1, <2>3, <2>6 DEF Appends, TypeOK
    <3>5. \A j \in TimeoutsOf(s, a)' : actions + 2 >= j + 1
      BY <2>3, <3>1, TimeoutsFinite
    <3> QED BY <2>5, <3>3, <3>4, <3>5
  <2>7. CASE ~(e.status = "timeout" /\ s = seen /\ a = candidate)
    <3>1. TimeoutsOf(s, a)' = TimeoutsOf(s, a)
      BY <2>3, <2>7, TimeoutsMove
    <3>2. quarantine'[<<s, a>>] = quarantine[<<s, a>>]
      BY <2>1, <2>3, <2>7 DEF Appends, TypeOK
    <3> QED BY <2>5, <3>1, <3>2
  <2> QED BY <2>6, <2>7
<1>2. CASE Select
  <2>1. /\ UNCHANGED <<trace, quarantine, seen, replay>> /\ pc' = "consume"
        /\ IF Replaying THEN /\ replay.actions[actions + 1] \in Offered[seen]
                             /\ candidate' = replay.actions[actions + 1]
           ELSE candidate' \in SafeCandidates
    BY <1>2 DEF Select, tables, given
  <2>2. Offered[seen] \subseteq Actions
    BY RunAssumption DEF TypeOK
  <2>3. candidate' \in Actions /\ (~Replaying => ~Quarantined(seen, candidate'))
    BY <2>1, <2>2 DEF SafeCandidates
  <2> QED BY <2>1, <2>3
        DEF QuarantineInv, TimeoutsOf, Quarantined, Replaying, actions
<1>3. CASE \/ Consume \/ Begin \/ Tick \/ BudgetSpent \/ LlmUnavailable
           \/ RateLimit \/ (Quiet /\ ~Select)
  <2>1. UNCHANGED <<trace, quarantine, replay>>
    BY <1>3, OtherFrame
  <2>2. pc' \in {"consume", "execute"} =>
          pc \in {"consume", "execute"} /\ UNCHANGED <<seen, candidate>>
    <3>1. CASE \/ Consume \/ Begin \/ Tick \/ BudgetSpent \/ LlmUnavailable
               \/ RateLimit
      BY <3>1 DEF Consume, Begin, Tick, BudgetSpent, LlmUnavailable, RateLimit, Break
    <3>2. CASE \/ TakeStop \/ TakeBookmark \/ TakeMalformed \/ NoRequest \/ Limit
               \/ StopWhen \/ Observe \/ ReplayDiverges \/ NothingToDo
               \/ SelectionFails
      BY <3>2 DEF TakeStop, TakeBookmark, TakeMalformed, NoRequest, Limit,
           StopWhen, Observe, ReplayDiverges, NothingToDo, SelectionFails, Break,
           Completed
    <3>3. CASE \/ OracleFails \/ Judge \/ Recover \/ RecoveryFails
               \/ Conclude \/ Close \/ Finalize \/ Throw \/ Request \/ UNCHANGED vars
      BY <3>3 DEF OracleFails, Judge, Recover, RecoveryFails, Conclude, Close,
           Finalize, Throw, Request, vars, Break
    <3> QED BY <1>3, <3>1, <3>2, <3>3 DEF Quiet
  <2> QED BY <2>1, <2>2
        DEF QuarantineInv, TimeoutsOf, Quarantined, Replaying, actions
<1> QED BY <1>1, <1>2, <1>3, StepCases

LEMMA HoldsStep ==
  ASSUME TypeOK, BudgetInv, QuarantineInv, QuarantineHolds, [Next]_vars
  PROVE  QuarantineHolds'
<1>1. CASE Execute
  <2>1. PICK e \in Execution : Appends(e)
    BY <1>1, ExecuteAppends
  <2>2. /\ actions \in Nat /\ trace' = Append(trace, e)
        /\ DOMAIN trace = 1..actions /\ DOMAIN trace' = 1..(actions + 1)
        /\ \A i \in 1..actions : trace'[i] = trace[i]
        /\ trace'[actions + 1] = e
    BY <2>1, AppendedTrace DEF TypeOK, Appends
  <2> SUFFICES ASSUME NEW i \in 1..(actions + 1), ~trace'[i].replayed
               PROVE  /\ i > 1 => ~TimedOut(i, i - 1)'
                      /\ Cardinality({j \in 1..(i - 1) : TimedOut(i, j)'}) <
                           RevisitBudget
    BY <2>2 DEF QuarantineHolds
  <2>3. \A j \in 1..actions, k \in 1..actions : TimedOut(k, j)' <=> TimedOut(k, j)
    BY <2>2 DEF TimedOut
  <2>4. CASE i \in 1..actions
    <3>1. {j \in 1..(i - 1) : TimedOut(i, j)'} = {j \in 1..(i - 1) : TimedOut(i, j)}
      BY <2>2, <2>3, <2>4
    <3>2. i > 1 => (TimedOut(i, i - 1)' <=> TimedOut(i, i - 1))
      BY <2>2, <2>3, <2>4
    <3>3. ~trace[i].replayed
      BY <2>2, <2>4
    <3> QED BY <2>2, <2>4, <3>1, <3>2, <3>3 DEF QuarantineHolds
  <2>5. CASE i = actions + 1
    <3> DEFINE T == TimeoutsOf(seen, candidate)
               q == quarantine[<<seen, candidate>>]
    <3>1. /\ seen \in States /\ candidate \in Actions
          /\ e.from = seen /\ e.action = candidate /\ ~Replaying
      BY <1>1, <2>1, <2>2, <2>5 DEF Execute, QuarantineInv, TypeOK, Appends
    <3>2. ~Quarantined(seen, candidate)
      BY <1>1, <3>1 DEF Execute, QuarantineInv
    <3>3. /\ q.timeouts = Cardinality(T) /\ q.timeouts \in Nat /\ q.until \in Nat
          /\ \A j \in T : q.until >= j + 1
      BY <3>1 DEF QuarantineInv, TypeOK
    <3>4. {j \in 1..(i - 1) : TimedOut(i, j)'} = T
      <4>1. i - 1 = actions /\ Len(trace) = actions
        BY <2>2, <2>5 DEF actions
      <4>2. \A j \in 1..actions :
              TimedOut(i, j)' <=> /\ trace[j].status = "timeout"
                                  /\ trace[j].from = seen
                                  /\ trace[j].action = candidate
        BY <2>2, <2>5, <3>1 DEF TimedOut
      <4> QED BY <4>1, <4>2 DEF TimeoutsOf
    <3>5. RevisitBudget \in Nat \ {0}
      BY RunAssumption
    <3>6. Cardinality(T) < RevisitBudget
      BY <3>2, <3>3, <3>5 DEF Quarantined
    <3>7. ASSUME i > 1, TimedOut(i, i - 1)'
          PROVE  FALSE
      <4>1. actions \in T
        BY <2>2, <2>5, <3>4, <3>7
      <4>2. q.until >= actions + 1 /\ q.timeouts > 0
        <5>1. T # {} /\ IsFiniteSet(T)
          BY <4>1, TimeoutsFinite
        <5>2. Cardinality(T) # 0
          BY <5>1, FS_EmptySet
        <5> QED BY <3>3, <4>1, <5>2
      <4> QED BY <2>2, <3>2, <3>3, <4>2 DEF Quarantined
    <3> QED BY <3>4, <3>6, <3>7
  <2> QED BY <2>2, <2>4, <2>5
<1>2. CASE UNCHANGED trace
  BY <1>2 DEF QuarantineHolds, TimedOut
<1> QED BY <1>1, <1>2, StepCases, OtherFrame

-----------------------------------------------------------------------------
(* The replay and the resume.                                                *)

LEMMA RecordingType ==
  ASSUME TypeOK
  PROVE  /\ replay.actions \in Seq(Actions) /\ Len(replay.actions) \in Nat
         /\ actions \in Nat /\ seen \in States /\ state \in States
BY RunAssumption DEF TypeOK, actions

LEMMA ResumeStep ==
  ASSUME TypeOK, BudgetInv, QuarantineInv, ResumeInv, [Next]_vars
  PROVE  ResumeInv'
<1>1. CASE Execute
  BY <1>1, ExecuteAppends DEF ResumeInv
<1>2. CASE Select
  <2>1. /\ UNCHANGED <<trace, seen, replay>> /\ pc = "select" /\ pc' = "consume"
        /\ Replaying => candidate' = replay.actions[actions + 1]
    BY <1>2 DEF Select, tables, given
  <2> QED BY <2>1 DEF ResumeInv, Replaying, actions
<1>3. CASE Observe
  <2>1. /\ seen' = state /\ UNCHANGED <<trace, replay>> /\ pc = "limits"
        /\ \/ pc' = "ended"
           \/ /\ pc' = "select"
              /\ ~ /\ replay.expected # None /\ actions = Len(replay.actions)
                   /\ state # replay.expected
    BY <1>3 DEF Observe, tables, given, Break
  <2> QED BY <2>1 DEF ResumeInv, actions
<1>4. CASE /\ \/ Consume \/ Begin \/ Tick \/ BudgetSpent \/ LlmUnavailable
              \/ RateLimit \/ Quiet
           /\ ~Select /\ ~Observe
  <2>1. UNCHANGED <<trace, replay>>
    BY <1>4, OtherFrame
  <2>2. /\ pc' \in {"consume", "execute"} =>
             pc \in {"consume", "execute"} /\ UNCHANGED candidate
        /\ pc' \in {"select", "consume", "execute"} =>
             pc \in {"select", "consume", "execute"} /\ UNCHANGED seen
    <3>1. CASE \/ Consume \/ Begin \/ Tick \/ BudgetSpent \/ LlmUnavailable
               \/ RateLimit
      BY <3>1 DEF Consume, Begin, Tick, BudgetSpent, LlmUnavailable, RateLimit, Break
    <3>2. CASE \/ TakeStop \/ TakeBookmark \/ TakeMalformed \/ NoRequest \/ Limit
               \/ StopWhen \/ ReplayDiverges \/ NothingToDo \/ SelectionFails
      BY <3>2 DEF TakeStop, TakeBookmark, TakeMalformed, NoRequest, Limit,
           StopWhen, ReplayDiverges, NothingToDo, SelectionFails, Break, Completed
    <3>3. CASE \/ OracleFails \/ Judge \/ Recover \/ RecoveryFails
               \/ Conclude \/ Close \/ Finalize \/ Throw \/ Request \/ UNCHANGED vars
      BY <3>3 DEF OracleFails, Judge, Recover, RecoveryFails, Conclude, Close,
           Finalize, Throw, Request, vars, Break
    <3> QED BY <1>4, <3>1, <3>2, <3>3 DEF Quiet
  <2> QED BY <2>1, <2>2 DEF ResumeInv, Replaying, actions
<1> QED BY <1>1, <1>2, <1>3, <1>4, StepCases

LEMMA ResumesStep ==
  ASSUME TypeOK, BudgetInv, QuarantineInv, ResumeInv, ResumesWhereExpected,
         [Next]_vars
  PROVE  ResumesWhereExpected'
<1>1. CASE Execute
  <2>1. PICK e \in Execution : Appends(e)
    BY <1>1, ExecuteAppends
  <2>2. /\ actions \in Nat /\ replay' = replay
        /\ DOMAIN trace = 1..actions /\ DOMAIN trace' = 1..(actions + 1)
        /\ \A i \in 1..actions : trace'[i] = trace[i]
        /\ trace'[actions + 1] = e
        /\ e.action = candidate /\ e.from = seen /\ pc = "execute"
    BY <1>1, <2>1, ExecuteAppends, AppendedTrace DEF TypeOK, Appends
  <2> SUFFICES ASSUME NEW i \in 1..(actions + 1)
               PROVE  /\ i <= Len(replay.actions) =>
                           trace'[i].action = replay.actions[i]
                      /\ i = Len(replay.actions) + 1 /\ replay.expected # None =>
                           trace'[i].from = replay.expected
    BY <2>2 DEF ResumesWhereExpected
  <2>3. CASE i \in 1..actions
    BY <2>2, <2>3 DEF ResumesWhereExpected
  <2>4. CASE i = actions + 1
    BY <2>2, <2>4, RecordingType DEF ResumeInv, Replaying
  <2> QED BY <2>2, <2>3, <2>4
<1>2. CASE UNCHANGED <<trace, replay>>
  BY <1>2 DEF ResumesWhereExpected
<1> QED BY <1>1, <1>2, StepCases, OtherFrame

-----------------------------------------------------------------------------
(* Recovery.                                                                 *)

LEMMA RecoveredFinite ==
  ASSUME NEW n \in Int
  PROVE  IsFiniteSet(Recovered(n)) /\ Cardinality(Recovered(n)) \in Nat
<1>1. IsFiniteSet(1..n)
  BY FS_Interval
<1>2. Recovered(n) \subseteq 1..n
  BY DEF Recovered
<1> QED BY <1>1, <1>2, FS_Subset, FS_CardinalityType

\* The failures up to the last action, and up to the one before.
LEMMA RecoveredLast ==
  ASSUME TypeOK, actions > 0
  PROVE  /\ trace[actions].status \in Failing =>
              Cardinality(Recovered(actions)) = Cardinality(Recovered(actions - 1)) + 1
         /\ trace[actions].status \notin Failing =>
              Recovered(actions) = Recovered(actions - 1)
<1>1. actions \in Nat /\ actions - 1 \in Int
  BY DEF TypeOK, actions
<1>2. 1..actions = (1..(actions - 1)) \cup {actions} /\ actions \notin 1..(actions - 1)
  BY <1>1
<1>3. CASE trace[actions].status \in Failing
  <2>1. /\ Recovered(actions) = Recovered(actions - 1) \cup {actions}
        /\ actions \notin Recovered(actions - 1)
    BY <1>2, <1>3 DEF Recovered
  <2> QED BY <1>1, <1>3, <2>1, RecoveredFinite, FS_AddElement
<1>4. CASE trace[actions].status \notin Failing
  BY <1>2, <1>4 DEF Recovered
<1> QED BY <1>3, <1>4

LEMMA RecoveryStep ==
  ASSUME TypeOK, BudgetInv, QuarantineInv, RecoveryInv, [Next]_vars
  PROVE  RecoveryInv'
<1>0. /\ actions \in Nat /\ recoveries \in Nat /\ MaxBacktracks \in Nat
      /\ Cardinality(Recovered(actions)) \in Nat
      /\ Cardinality(Recovered(actions - 1)) \in Nat
  <2>1. actions \in Int /\ actions - 1 \in Int /\ actions \in Nat
    BY DEF TypeOK, actions
  <2>2. recoveries \in Nat /\ MaxBacktracks \in Nat
    BY RunAssumption DEF TypeOK
  <2>3. Cardinality(Recovered(actions)) \in Nat
    BY <2>1, RecoveredFinite
  <2>4. Cardinality(Recovered(actions - 1)) \in Nat
    BY <2>1, RecoveredFinite
  <2> QED BY <2>1, <2>2, <2>3, <2>4
<1>1. CASE Execute
  <2>1. PICK e \in Execution : Appends(e)
    BY <1>1, ExecuteAppends
  <2>2. /\ pc = "execute" /\ pc' = "judge"
        /\ UNCHANGED <<seen, recoveries>>
    BY <1>1, ExecuteAppends
  <2>3. /\ actions' = actions + 1
        /\ \A i \in 1..actions : trace'[i] = trace[i]
        /\ trace'[actions + 1] = e /\ e.from = seen
    BY <2>1, AppendedTrace DEF TypeOK, Appends
  <2>4. actions' - 1 = actions /\ actions' > 0
    BY <1>0, <2>3
  <2>5. {i \in 1..actions : trace'[i].status \in Failing} = Recovered(actions)
    BY <2>3 DEF Recovered
  <2>6. Recovered(actions - 1)' = Recovered(actions)
    BY <2>4, <2>5 DEF Recovered
  <2>7. Cardinality(Recovered(actions)) <= recoveries
    BY <2>2 DEF RecoveryInv, Loop
  <2>8. trace'[actions'].from = seen
    BY <2>3
  <2> QED BY <2>2, <2>4, <2>6, <2>7, <2>8 DEF RecoveryInv, FailedLast
<1>2. CASE Recover
  <2>1. /\ pc = "recover" /\ pc' = "control" /\ recoveries < MaxBacktracks
        /\ recoveries' = recoveries + 1 /\ state' = seen /\ UNCHANGED trace
    BY <1>2 DEF Recover
  <2>2. actions' = actions /\ UNCHANGED Recovered(actions) /\ UNCHANGED Recovered(actions - 1)
    BY <2>1 DEF actions, Recovered
  <2>3. actions > 0 /\ seen = trace[actions].from
    BY <2>1 DEF RecoveryInv
  <2>4. Cardinality(Recovered(actions)) <= recoveries'
    BY <1>0, <2>1, <2>3, RecoveredLast DEF RecoveryInv
  <2> QED BY <1>0, <2>1, <2>2, <2>3, <2>4 DEF RecoveryInv, Loop
<1>3. CASE RecoveryFails
  <2>1. /\ pc = "recover" /\ pc' = "ended" /\ UNCHANGED trace
        /\ recoveries' = recoveries \/ recoveries' = recoveries + 1
        /\ recoveries' <= MaxBacktracks
    BY <1>0, <1>3 DEF RecoveryFails, Break, RecoveryInv
  <2>2. actions' = actions /\ UNCHANGED Recovered(actions - 1)
    BY <2>1 DEF actions, Recovered
  <2> QED BY <1>0, <2>1, <2>2 DEF RecoveryInv, Loop
<1>4. CASE Judge
  <2>1. /\ pc = "judge" /\ pc' \in {"control", "ended", "recover"}
        /\ pc' = "control" => trace[actions].status \notin Failing
        /\ UNCHANGED <<trace, recoveries, seen, state>>
    BY <1>4 DEF Judge, Last, Break, tables, Failing
  <2>2. actions' = actions /\ UNCHANGED Recovered(actions) /\ UNCHANGED Recovered(actions - 1)
    BY <2>1 DEF actions, Recovered
  <2>3. actions > 0 /\ seen = trace[actions].from
    BY <2>1 DEF RecoveryInv
  <2>4. pc' = "control" => Cardinality(Recovered(actions)) <= recoveries
    BY <1>0, <2>1, <2>3, RecoveredLast DEF RecoveryInv
  <2> QED BY <1>0, <2>1, <2>2, <2>3, <2>4 DEF RecoveryInv, FailedLast, Loop
<1>5. CASE /\ \/ Consume \/ Begin \/ Tick \/ BudgetSpent \/ LlmUnavailable
              \/ RateLimit \/ Quiet
           /\ ~Judge /\ ~Recover /\ ~RecoveryFails
  <2>1. UNCHANGED trace
    BY <1>5, OtherFrame
  <2>2. actions' = actions /\ UNCHANGED Recovered(actions) /\ UNCHANGED Recovered(actions - 1)
    BY <2>1 DEF actions, Recovered
  <2>3. /\ recoveries' = recoveries
        /\ pc' \in {"judge", "recover"} => pc' = pc /\ UNCHANGED seen
        /\ pc' \in Loop => pc \in Loop
        /\ pc' \in {"setup", "control", "limits"} =>
             pc \in {"setup", "control", "limits"} /\ UNCHANGED state
        /\ pc' \in {"select", "consume", "execute"} =>
             \/ pc \in {"select", "consume", "execute"} /\ UNCHANGED seen
             \/ pc = "limits" /\ seen' = state
    <3> USE DEF tables, Break, Completed, Loop
    <3>1. CASE \/ Consume \/ Begin \/ Tick \/ BudgetSpent \/ LlmUnavailable
               \/ RateLimit
      BY <3>1 DEF Consume, Begin, Tick, BudgetSpent, LlmUnavailable, RateLimit
    <3>2. CASE \/ TakeStop \/ TakeBookmark \/ TakeMalformed \/ NoRequest \/ Limit
               \/ StopWhen
      BY <3>2 DEF TakeStop, TakeBookmark, TakeMalformed, NoRequest, Limit, StopWhen
    <3>3. CASE Observe \/ Select \/ ReplayDiverges \/ NothingToDo \/ SelectionFails
      BY <3>3 DEF Observe, Select, ReplayDiverges, NothingToDo, SelectionFails
    <3>4. CASE \/ OracleFails \/ Conclude \/ Close \/ Finalize \/ Throw \/ Request
               \/ UNCHANGED vars
      BY <3>4 DEF OracleFails, Conclude, Close, Finalize, Throw, Request, vars
    <3> QED BY <1>5, <3>1, <3>2, <3>3, <3>4 DEF Quiet
  <2> QED BY <2>1, <2>2, <2>3 DEF RecoveryInv, FailedLast, Loop
<1> QED BY <1>1, <1>2, <1>3, <1>4, <1>5, StepCases DEF Quiet

LEMMA RecoveredStep ==
  ASSUME TypeOK, BudgetInv, QuarantineInv, RecoveryInv, RecoveredBeforeNext,
         RecoveryInv', TypeOK', [Next]_vars
  PROVE  RecoveredBeforeNext'
<1>1. Cardinality({i \in 1..actions' : /\ trace'[i].status \in Failing
                                       /\ i < actions'}) <= MaxBacktracks
  <2>1. actions' \in Nat /\ actions' - 1 \in Int /\ recoveries' \in Nat /\ MaxBacktracks \in Nat
    BY RunAssumption DEF TypeOK, actions
  <2>2. {i \in 1..actions' : trace'[i].status \in Failing /\ i < actions'} =
          Recovered(actions - 1)'
    BY <2>1 DEF Recovered
  <2>3. Cardinality(Recovered(actions - 1)') \in Nat
    <3>1. Recovered(actions - 1)' \subseteq 1..actions' /\ IsFiniteSet(1..actions')
      BY <2>1, FS_Interval DEF Recovered
    <3> QED BY <3>1, FS_Subset, FS_CardinalityType
  <2> QED BY <2>1, <2>2, <2>3 DEF RecoveryInv
<1>2. ASSUME NEW i \in 1..actions', trace'[i].status \in Failing, i < actions'
      PROVE  trace'[i + 1].from = trace'[i].from
  <2>1. CASE Execute
    <3>1. PICK e \in Execution : Appends(e)
      BY <2>1, ExecuteAppends
    <3>2. /\ actions \in Nat /\ actions' = actions + 1
          /\ DOMAIN trace = 1..actions
          /\ \A k \in 1..actions : trace'[k] = trace[k]
          /\ trace'[actions + 1] = e /\ e.from = seen /\ pc = "execute"
      BY <2>1, <3>1, AppendedTrace, ExecuteAppends DEF TypeOK, Appends
    <3>3. CASE i < actions
      <4>1. i \in 1..actions /\ i + 1 \in 1..actions
        BY <3>2, <3>3
      <4> QED BY <1>2, <3>2, <3>3, <4>1 DEF RecoveredBeforeNext, Failing
    <3>4. CASE i = actions
      BY <1>2, <3>2, <3>4 DEF RecoveryInv, FailedLast
    <3> QED BY <1>2, <3>2, <3>3, <3>4
  <2>2. CASE UNCHANGED trace
    <3>1. DOMAIN trace = 1..actions /\ actions' = actions
      BY <2>2 DEF TypeOK, actions
    <3> QED BY <1>2, <2>2, <3>1 DEF RecoveredBeforeNext, Failing
  <2> QED BY <2>1, <2>2, StepCases, OtherFrame
<1>3. DOMAIN trace' = 1..actions'
  BY DEF TypeOK, actions
<1> QED BY <1>1, <1>2, <1>3 DEF RecoveredBeforeNext, Failing

-----------------------------------------------------------------------------
(* The verdict.                                                              *)

\* The steps of the loop that leave the trace alone and do not judge it.
Looping ==
  \/ Begin \/ BudgetSpent \/ LlmUnavailable \/ TakeBookmark \/ TakeMalformed
  \/ NoRequest \/ Limit \/ StopWhen \/ Observe \/ Select \/ ReplayDiverges
  \/ NothingToDo \/ SelectionFails \/ Consume \/ RateLimit \/ OracleFails
  \/ Recover \/ RecoveryFails \/ Throw

\* They go on with the loop, or leave it with an outcome that says passed only
\* when nothing has failed.
Goes ==
  /\ pc' \in Loop \ {"judge"} /\ pc # "judge"
  /\ UNCHANGED <<verdict, stop>> /\ (~failures' => ~failures)

Leaves ==
  /\ pc' \in {"ended", "closed", "finalize"} /\ stop' \in {stop, "malformed"}
  /\ (~failures' => ~failures)
  /\ \/ verdict'.outcome \in {"partial", "failed"}
     \/ verdict'.outcome = "passed" /\ pc # "judge" /\ ~failures
     \/ verdict'.outcome = "error" /\ (failures' \/ pc # "judge")

LEMMA LoopingCases ==
  ASSUME TypeOK, Looping
  PROVE  pc \in Loop /\ UNCHANGED trace /\ (Goes \/ Leaves)
<1> USE DEF Loop, Break, Completed, tables, flags
<1>0. failures \in BOOLEAN
  BY DEF TypeOK
<1>1. \A o, why : Verdict(o, why) => verdict'.outcome = o
  BY DEF Verdict
<1>2. CASE Begin \/ Select \/ Consume \/ Recover \/ TakeBookmark \/ NoRequest
  BY <1>2 DEF Begin, Select, Consume, Recover, TakeBookmark, NoRequest, Goes
<1>3. CASE BudgetSpent \/ LlmUnavailable \/ RateLimit \/ ReplayDiverges \/ Limit
  BY <1>1, <1>3 DEF BudgetSpent, LlmUnavailable, RateLimit, ReplayDiverges, Limit,
       Leaves
<1>4. CASE SelectionFails \/ OracleFails \/ RecoveryFails
  BY <1>1, <1>4 DEF SelectionFails, OracleFails, RecoveryFails, Leaves
<1>5. CASE TakeMalformed \/ Throw
  BY <1>1, <1>5 DEF TakeMalformed, Throw, Leaves
<1>6. CASE StopWhen \/ NothingToDo
  BY <1>0, <1>1, <1>6 DEF StopWhen, NothingToDo, Leaves
<1>7. CASE Observe
  <2>1. \/ Verdict("failed", "machine_failure") /\ pc' = "ended"
        \/ pc' = "select" /\ UNCHANGED verdict
    BY <1>7 DEF Observe
  <2>2. pc = "limits" /\ UNCHANGED <<trace, failures, stop>>
    BY <1>7 DEF Observe
  <2> QED BY <1>1, <2>1, <2>2 DEF Goes, Leaves
<1> QED BY <1>2, <1>3, <1>4, <1>5, <1>6, <1>7 DEF Looping

LEMMA VerdictStep ==
  ASSUME TypeOK, BudgetInv, QuarantineInv, RecoveryInv, VerdictInv, [Next]_vars
  PROVE  VerdictInv'
<1> USE DEF Loop
<1>0. /\ failures \in BOOLEAN /\ artifacts \in BOOLEAN
      /\ stop \in {None, "pause", "kill", "malformed"}
      /\ None \notin {"pause", "kill"}
      /\ actions \in Nat /\ DOMAIN trace = 1..actions
      /\ verdict \in [outcome : Outcomes, reason : Reasons]
  BY RunAssumption DEF TypeOK, Optional, actions
<1>1. CASE Execute
  <2>1. PICK e \in Execution : Appends(e)
    BY <1>1, ExecuteAppends
  <2>2. /\ pc = "execute" /\ pc' = "judge"
        /\ UNCHANGED <<failures, artifacts, stop, verdict>>
    BY <1>1, ExecuteAppends
  <2>3. /\ actions' = actions + 1 /\ \A i \in 1..actions : trace'[i] = trace[i]
    BY <2>1, AppendedTrace DEF TypeOK, Appends
  <2>4. ~failures => \A i \in 1..actions : trace'[i].status \notin Failing
    BY <1>0, <2>2, <2>3 DEF VerdictInv, NoFailure
  <2>5. ~failures' => \A i \in 1..(actions' - 1) : trace'[i].status \notin Failing
    BY <1>0, <2>2, <2>3, <2>4
  <2>6. verdict'.outcome = "error" /\ stop' = None
    BY <2>2 DEF VerdictInv
  <2> QED BY <1>0, <2>2, <2>5, <2>6 DEF VerdictInv
<1>2. CASE Looping
  <2>1. pc \in Loop /\ UNCHANGED trace /\ (Goes \/ Leaves)
    BY <1>2, LoopingCases
  <2>2. verdict.outcome = "error" /\ stop = None
    BY <2>1 DEF VerdictInv
  <2>3. NoFailure' <=> NoFailure
    BY <2>1 DEF NoFailure
  <2>4. CASE Goes
    <3>1. /\ pc' \in Loop \ {"judge"} /\ (~failures' => ~failures)
          /\ verdict'.outcome = "error" /\ stop' = None
      BY <2>2, <2>4 DEF Goes
    <3>2. ~failures => NoFailure
      BY <2>1, <2>4 DEF VerdictInv, Goes
    <3>3. ~failures' => NoFailure'
      BY <2>3, <3>1, <3>2
    <3> QED BY <1>0, <3>1, <3>3 DEF VerdictInv
  <2>5. CASE Leaves
    <3>1. stop' \notin {"pause", "kill"}
      BY <1>0, <2>2, <2>5 DEF Leaves
    <3>2. pc # "judge" /\ ~failures => NoFailure
      BY <2>1 DEF VerdictInv
    <3>3. /\ verdict'.outcome = "passed" => NoFailure'
          /\ verdict'.outcome = "error" /\ ~failures' => NoFailure'
      BY <2>3, <2>5, <3>2 DEF Leaves
    <3>4. pc' \in {"ended", "closed", "finalize"}
      BY <2>5 DEF Leaves
    <3> QED BY <3>1, <3>3, <3>4 DEF VerdictInv
  <2> QED BY <2>1, <2>4, <2>5
<1>3. CASE TakeStop
  <2>1. /\ pc' = "ended" /\ stop' \in {"pause", "kill"}
        /\ verdict' = StopVerdict(stop')
    BY <1>3 DEF TakeStop, Break, Verdict, StopVerdict
  <2>2. verdict'.outcome = "partial"
    BY <2>1 DEF StopVerdict
  <2> QED BY <2>1, <2>2 DEF VerdictInv
<1>4. CASE Judge
  <2>1. /\ pc = "judge" /\ UNCHANGED <<trace, stop, artifacts>>
        /\ \/ /\ pc' = "control" /\ trace[actions].status \notin Failing
              /\ UNCHANGED <<failures, verdict>>
           \/ /\ pc' = "ended"
              /\ verdict' = [outcome |-> "failed", reason |-> "machine_failure"]
           \/ pc' = "recover" /\ failures' = TRUE /\ UNCHANGED verdict
    BY <1>4 DEF Judge, Last, Break, Verdict, tables, Failing
  <2>2. verdict.outcome = "error" /\ stop = None
    BY <2>1 DEF VerdictInv
  <2>3. ~failures /\ trace[actions].status \notin Failing => NoFailure
    <3>1. ~failures => \A i \in 1..(actions - 1) : trace[i].status \notin Failing
      BY <2>1 DEF VerdictInv
    <3>2. \A i \in 1..actions : i = actions \/ i \in 1..(actions - 1)
      BY <1>0
    <3> QED BY <1>0, <3>1, <3>2 DEF NoFailure
  <2>4. NoFailure' <=> NoFailure
    BY <2>1 DEF NoFailure
  <2>5. CASE pc' = "control"
    BY <1>0, <2>1, <2>2, <2>3, <2>4, <2>5 DEF VerdictInv
  <2>6. CASE pc' = "ended"
    <3>1. verdict'.outcome = "failed" /\ stop' = None
      BY <2>1, <2>2, <2>6
    <3> QED BY <1>0, <2>6, <3>1 DEF VerdictInv
  <2>7. CASE pc' = "recover"
    BY <1>0, <2>1, <2>2, <2>7 DEF VerdictInv
  <2> QED BY <2>1, <2>5, <2>6, <2>7
<1>5. CASE Conclude
  <2>1. /\ pc = "ended" /\ pc' = "closed" /\ UNCHANGED <<trace, failures, stop>>
        /\ verdict.outcome = "error" =>
             verdict' = [outcome |-> IF failures THEN "failed" ELSE "passed",
                         reason |-> "completed"]
        /\ verdict.outcome # "error" => verdict' = verdict
    BY <1>5 DEF Conclude, Verdict, tables, flags
  <2>2. NoFailure' <=> NoFailure
    BY <2>1 DEF NoFailure
  <2>3. CASE verdict.outcome = "error"
    <3>1. verdict'.outcome = IF failures THEN "failed" ELSE "passed"
      BY <2>1, <2>3
    <3>2. verdict'.outcome = "passed" => NoFailure
      BY <1>0, <2>1, <2>3, <3>1 DEF VerdictInv
    <3>3. stop' \notin {"pause", "kill"}
      <4>1. \A c \in {"pause", "kill"} : StopVerdict(c).outcome = "partial"
        BY DEF StopVerdict
      <4>2. stop \in {"pause", "kill"} => verdict = StopVerdict(stop)
        BY <2>1 DEF VerdictInv
      <4> QED BY <2>1, <2>3, <4>1, <4>2
    <3> QED BY <2>1, <2>2, <3>2, <3>3 DEF VerdictInv
  <2>4. CASE verdict.outcome # "error"
    BY <2>1, <2>2, <2>4 DEF VerdictInv
  <2> QED BY <2>3, <2>4
<1>6. CASE Close
  <2>1. /\ pc = "closed" /\ pc' = "finalize" /\ UNCHANGED <<trace, stop>>
        /\ \/ UNCHANGED verdict
           \/ verdict' = [outcome |-> "error", reason |-> "executor_error"]
    BY <1>6 DEF Close, Verdict, tables
  <2>2. verdict' = verdict \/ verdict'.outcome = "error"
    BY <2>1
  <2>3. NoFailure' <=> NoFailure
    BY <2>1 DEF NoFailure
  <2> QED BY <2>1, <2>2, <2>3 DEF VerdictInv
<1>7. CASE Finalize
  <2>1. /\ pc = "finalize" /\ pc' = "done"
        /\ UNCHANGED <<trace, failures, artifacts, stop>>
        /\ \/ /\ verdict' = verdict /\ ~(artifacts /\ verdict.outcome # "error")
           \/ verdict' = [outcome |-> "error", reason |-> "artifact_failure"]
    BY <1>7 DEF Finalize, Verdict, tables, flags
  <2>2. \/ /\ verdict' = verdict /\ ~(artifacts /\ verdict.outcome # "error")
        \/ verdict'.outcome = "error"
    BY <2>1
  <2>3. NoFailure' <=> NoFailure
    BY <2>1 DEF NoFailure
  <2> QED BY <1>0, <2>1, <2>2, <2>3 DEF VerdictInv
<1>8. CASE Tick \/ Request \/ UNCHANGED vars
  <2>1. UNCHANGED <<pc, trace, verdict, stop, failures, artifacts>>
    BY <1>8 DEF Tick, Request, vars, tables, flags
  <2>2. actions' = actions
    BY <2>1 DEF actions
  <2> QED BY <2>1, <2>2 DEF VerdictInv, NoFailure
<1> QED BY <1>1, <1>2, <1>3, <1>4, <1>5, <1>6, <1>7, <1>8, StepCases
       DEF Looping, Quiet

-----------------------------------------------------------------------------
(* Types.                                                                    *)

LEMMA BudgetType ==
  ASSUME TypeOK, Next
  PROVE  attempts' \in Seq(Nat)
<1>1. attempts \in Seq(Nat) /\ now \in Nat
  BY DEF TypeOK
<1>2. Pruned \in Seq(Nat)
  BY <1>1, PrunedIsEnd
<1>3. Append(Pruned, now) \in Seq(Nat)
  BY <1>1, <1>2
<1>4. attempts' \in {attempts, Pruned, Append(Pruned, now)}
  <2> USE DEF tables
  <2>1. CASE \/ Begin \/ BudgetSpent \/ LlmUnavailable \/ Consume \/ RateLimit
    BY <2>1 DEF Begin, BudgetSpent, LlmUnavailable, Consume, RateLimit
  <2>2. CASE Execute \/ Tick
    BY <2>2 DEF Execute, Tick
  <2>3. CASE Quiet
    BY <2>3, QuietFrame
  <2> QED BY <2>1, <2>2, <2>3, StepCases
<1> QED BY <1>1, <1>2, <1>3, <1>4

LEMMA VerdictType ==
  ASSUME TypeOK, Next
  PROVE  verdict' \in [outcome : Outcomes, reason : Reasons]
<1>1. verdict \in [outcome : Outcomes, reason : Reasons]
  BY DEF TypeOK
<1>2. verdict' = verdict \/ \E o \in Outcomes, r \in Reasons : Verdict(o, r)
  <2> USE DEF tables, flags, Break, Completed, Outcomes, Reasons
  <2>1. CASE \/ Begin \/ BudgetSpent \/ LlmUnavailable \/ TakeStop
             \/ TakeBookmark \/ TakeMalformed \/ NoRequest
    BY <2>1 DEF Begin, BudgetSpent, LlmUnavailable, TakeStop, TakeBookmark,
         TakeMalformed, NoRequest
  <2>2. CASE Limit \/ StopWhen \/ Observe \/ Select \/ ReplayDiverges \/ NothingToDo
    BY <2>2 DEF Limit, StopWhen, Observe, Select, ReplayDiverges, NothingToDo
  <2>3. CASE SelectionFails \/ Consume \/ RateLimit \/ Execute \/ OracleFails \/ Judge
    BY <2>3 DEF SelectionFails, Consume, RateLimit, Execute, OracleFails, Judge
  <2>4. CASE Recover \/ RecoveryFails \/ Throw \/ Conclude \/ Close \/ Finalize
             \/ Tick \/ Request
    BY <2>4 DEF Recover, RecoveryFails, Throw, Conclude, Close, Finalize, Tick,
         Request
  <2> QED BY <2>1, <2>2, <2>3, <2>4 DEF Next, Step
<1> QED BY <1>1, <1>2 DEF Verdict

LEMMA ControlType ==
  ASSUME TypeOK, Next
  PROVE  /\ control' \in Seq(Commands) /\ now' \in Nat /\ requests' \in Nat
         /\ stop' \in Optional({"pause", "kill", "malformed"})
         /\ pc' \in Loop \cup {"ended", "closed", "finalize", "done"}
         /\ UNCHANGED <<replay, restored>>
<1>1. /\ control \in Seq(Commands) /\ now \in Nat /\ requests \in Nat
      /\ stop \in Optional({"pause", "kill", "malformed"})
      /\ pc \in Loop \cup {"ended", "closed", "finalize", "done"}
  BY DEF TypeOK
<1> USE DEF env, given, flags, Break, Completed, Loop, Optional
<1>2. CASE TakeStop
  <2>1. control # <<>> => Tail(control) \in Seq(Commands)
    BY <1>1
  <2>2. /\ control' = Tail(control) /\ control # <<>>
        /\ stop' \in {"pause", "kill"} /\ pc' = "ended"
        /\ UNCHANGED <<now, requests, replay, restored>>
    BY <1>2 DEF TakeStop
  <2> QED BY <1>1, <2>1, <2>2
<1>3. CASE TakeBookmark
  <2>1. control # <<>> => Tail(control) \in Seq(Commands)
    BY <1>1
  <2>2. /\ control' = Tail(control) /\ control # <<>> /\ pc' = "limits"
        /\ UNCHANGED <<now, requests, replay, restored, stop>>
    BY <1>3 DEF TakeBookmark
  <2> QED BY <1>1, <2>1, <2>2
<1>4. CASE Request
  <2>1. PICK c \in Commands : control' = Append(control, c)
    BY <1>4 DEF Request
  <2>2. control' \in Seq(Commands)
    BY <1>1, <2>1
  <2>3. /\ requests' = requests + 1
        /\ UNCHANGED <<pc, now, replay, restored, stop>>
    BY <1>4 DEF Request
  <2> QED BY <1>1, <2>2, <2>3
<1>5. CASE Tick
  BY <1>1, <1>5 DEF Tick
<1>6. CASE \/ Begin \/ BudgetSpent \/ LlmUnavailable \/ TakeMalformed \/ NoRequest
           \/ Limit \/ StopWhen \/ Observe \/ Select
  BY <1>1, <1>6 DEF Begin, BudgetSpent, LlmUnavailable, TakeMalformed, NoRequest,
       Limit, StopWhen, Observe, Select
<1>7. CASE \/ ReplayDiverges \/ NothingToDo \/ SelectionFails \/ Consume
           \/ RateLimit \/ Execute \/ OracleFails \/ Judge
  BY <1>1, <1>7 DEF ReplayDiverges, NothingToDo, SelectionFails, Consume,
       RateLimit, Execute, OracleFails, Judge
<1>8. CASE Recover \/ RecoveryFails \/ Throw \/ Conclude \/ Close \/ Finalize
  BY <1>1, <1>8 DEF Recover, RecoveryFails, Throw, Conclude, Close, Finalize
<1> QED BY <1>2, <1>3, <1>4, <1>5, <1>6, <1>7, <1>8 DEF Next, Step

LEMMA StateType ==
  ASSUME TypeOK, QuarantineInv, ResumeInv, Next
  PROVE  /\ {state, seen}' \subseteq States /\ candidate' \in Optional(Actions)
         /\ recoveries' \in Nat /\ {failures, artifacts}' \subseteq BOOLEAN
<1>1. /\ state \in States /\ seen \in States /\ candidate \in Optional(Actions)
      /\ recoveries \in Nat /\ failures \in BOOLEAN /\ artifacts \in BOOLEAN
      /\ Offered[seen] \subseteq Actions
  BY RunAssumption DEF TypeOK
<1> USE DEF tables, flags
<1>2. CASE Select
  <2>1. candidate' \in Offered[seen]
    BY <1>2 DEF Select, SafeCandidates
  <2> QED BY <1>1, <1>2, <2>1 DEF Select, Optional
<1>3. CASE \/ Begin \/ BudgetSpent \/ LlmUnavailable \/ TakeStop \/ TakeBookmark
           \/ TakeMalformed \/ NoRequest \/ Limit \/ StopWhen
  BY <1>1, <1>3 DEF Begin, BudgetSpent, LlmUnavailable, TakeStop, TakeBookmark,
       TakeMalformed, NoRequest, Limit, StopWhen
<1>4. CASE \/ Observe \/ ReplayDiverges \/ NothingToDo \/ SelectionFails
           \/ Consume \/ RateLimit \/ OracleFails \/ Judge
  BY <1>1, <1>4 DEF Observe, ReplayDiverges, NothingToDo, SelectionFails, Consume,
       RateLimit, OracleFails, Judge
<1>5. CASE Execute
  <2>1. /\ state' \in States
        /\ UNCHANGED <<seen, candidate, recoveries, failures, artifacts>>
    BY <1>1, <1>5 DEF Execute
  <2> QED BY <1>1, <2>1
<1>6. CASE Recover \/ RecoveryFails
  <2>1. /\ state' \in States /\ recoveries' \in {recoveries, recoveries + 1}
        /\ UNCHANGED <<seen, candidate, failures, artifacts>>
    BY <1>1, <1>6 DEF Recover, RecoveryFails
  <2> QED BY <1>1, <2>1
<1>7. CASE Throw \/ Conclude \/ Close
  <2>1. /\ failures' = failures \/ failures' = TRUE
        /\ artifacts' = artifacts \/ artifacts' = TRUE
        /\ UNCHANGED <<state, seen, candidate, recoveries>>
    BY <1>7 DEF Throw, Conclude, Close
  <2> QED BY <1>1, <2>1
<1>8. CASE Finalize \/ Tick \/ Request
  BY <1>1, <1>8 DEF Finalize, Tick, Request
<1> QED BY <1>2, <1>3, <1>4, <1>5, <1>6, <1>7, <1>8 DEF Next, Step

LEMMA TraceType ==
  ASSUME TypeOK, BudgetInv, QuarantineInv, Next
  PROVE  /\ trace' \in Seq(Execution)
         /\ quarantine' \in [States \X Actions -> [timeouts : Nat, until : Nat]]
<1>1. /\ trace \in Seq(Execution) /\ actions \in Nat
      /\ quarantine \in [States \X Actions -> [timeouts : Nat, until : Nat]]
  BY DEF TypeOK, actions
<1>2. CASE Execute
  <2>1. PICK e \in Execution : Appends(e)
    BY <1>2, ExecuteAppends
  <2>2. trace' \in Seq(Execution)
    BY <1>1, <2>1, AppendedTrace DEF Appends
  <2>3. <<seen, candidate>> \in States \X Actions
    BY <2>1 DEF Appends, Execution
  <2>4. quarantine[<<seen, candidate>>].timeouts \in Nat
    BY <1>1, <2>3
  <2>5. [timeouts |-> quarantine[<<seen, candidate>>].timeouts + 1,
         until |-> actions + 2] \in [timeouts : Nat, until : Nat]
    BY <1>1, <2>4
  <2> QED BY <1>1, <2>1, <2>2, <2>5 DEF Appends
<1>3. CASE UNCHANGED <<trace, quarantine>>
  BY <1>1, <1>3
<1> QED BY <1>2, <1>3, StepCases, OtherFrame

LEMMA TypeStep ==
  ASSUME TypeOK, BudgetInv, QuarantineInv, ResumeInv, [Next]_vars
  PROVE  TypeOK'
<1>1. CASE Next
  <2>1. attempts' \in Seq(Nat) /\ verdict' \in [outcome : Outcomes, reason : Reasons]
    BY <1>1, BudgetType, VerdictType
  <2>2. /\ control' \in Seq(Commands) /\ now' \in Nat /\ requests' \in Nat
        /\ stop' \in Optional({"pause", "kill", "malformed"})
        /\ pc' \in Loop \cup {"ended", "closed", "finalize", "done"}
        /\ UNCHANGED <<replay, restored>>
    BY <1>1, ControlType
  <2>3. /\ {state, seen}' \subseteq States /\ candidate' \in Optional(Actions)
        /\ recoveries' \in Nat /\ {failures, artifacts}' \subseteq BOOLEAN
    BY <1>1, StateType
  <2>4. /\ trace' \in Seq(Execution)
        /\ quarantine' \in [States \X Actions -> [timeouts : Nat, until : Nat]]
    BY <1>1, TraceType
  <2> QED BY <2>1, <2>2, <2>3, <2>4 DEF TypeOK
<1>2. CASE UNCHANGED vars
  BY <1>2 DEF vars, TypeOK
<1> QED BY <1>1, <1>2

-----------------------------------------------------------------------------
(* The theorems.                                                             *)

LEMMA InitOK ==
  ASSUME Init
  PROVE  IInv
<1>1. /\ restored \in Seq(Nat) /\ Paced(restored) /\ attempts = restored
      /\ trace = <<>> /\ pc = "setup" /\ recoveries = 0 /\ MaxBacktracks \in Nat
      /\ StartState \in States /\ StartTime \in Nat
  BY RunAssumption DEF Init
<1>2. actions = 0 /\ DOMAIN trace = {}
  BY <1>1 DEF actions
<1>3. TypeOK
  <2>1. /\ trace \in Seq(Execution) /\ control \in Seq(Commands)
    BY DEF Init
  <2>2. verdict \in [outcome : Outcomes, reason : Reasons]
    BY DEF Init, Outcomes, Reasons
  <2>3. quarantine \in [States \X Actions -> [timeouts : Nat, until : Nat]]
    BY DEF Init
  <2>4. /\ now \in Nat /\ attempts \in Seq(Nat) /\ recoveries \in Nat
        /\ requests \in Nat
    BY <1>1 DEF Init
  <2>5. /\ {state, seen} \subseteq States /\ candidate \in Optional(Actions)
        /\ {failures, artifacts} \subseteq BOOLEAN
        /\ stop \in Optional({"pause", "kill", "malformed"})
        /\ replay \in Recordings /\ restored \in RestoredBudget
    BY <1>1 DEF Init, Optional
  <2> QED BY <1>1, <2>1, <2>2, <2>3, <2>4, <2>5 DEF TypeOK, Loop
<1>4. BudgetInv
  <2>1. Times = restored
    <3> DEFINE ats == [i \in DOMAIN trace |-> trace[i].at]
    <3>1. ats = <<>>
      BY <1>2
    <3> HIDE DEF ats
    <3>2. restored \o ats = restored
      BY <1>1, <3>1
    <3> QED BY <3>2 DEF Times, TimesOf, ats
  <2>2. Keeps(restored, restored)
    BY <1>1 DEF Keeps
  <2> QED BY <1>1, <2>1, <2>2 DEF BudgetInv
<1>5. QuarantineInv
  <2>1. \A s \in States, a \in Actions :
          TimeoutsOf(s, a) = {} /\ quarantine[<<s, a>>].timeouts = 0
    BY <1>1 DEF TimeoutsOf, Init
  <2> QED BY <1>1, <2>1, FS_EmptySet DEF QuarantineInv
<1>6. QuarantineHolds /\ ResumesWhereExpected
  BY <1>2 DEF QuarantineHolds, ResumesWhereExpected
<1>7. ResumeInv
  BY <1>1 DEF ResumeInv
<1>8. RecoveryInv
  <2>1. Recovered(actions) = {} /\ Recovered(actions - 1) = {}
    BY <1>2 DEF Recovered
  <2>2. ~FailedLast
    BY <1>2 DEF FailedLast
  <2>3. /\ Cardinality(Recovered(actions)) = 0
        /\ Cardinality(Recovered(actions - 1)) = 0
    BY <2>1, FS_EmptySet
  <2> QED BY <1>1, <2>2, <2>3 DEF RecoveryInv
<1>9. RecoveredBeforeNext
  <2>1. {i \in DOMAIN trace : trace[i].status \in {"timeout", "failed"}} = {}
    BY <1>2
  <2>2. Cardinality({}) <= MaxBacktracks
    BY <1>1, FS_EmptySet
  <2> QED BY <1>2, <2>1, <2>2 DEF RecoveredBeforeNext
<1>10. VerdictInv
  <2>1. /\ stop = None /\ failures = FALSE /\ verdict.outcome = "error"
        /\ None \notin {"pause", "kill"}
    BY RunAssumption DEF Init
  <2> QED BY <1>1, <1>2, <2>1 DEF VerdictInv, NoFailure
<1> QED BY <1>3, <1>4, <1>5, <1>6, <1>7, <1>8, <1>9, <1>10 DEF IInv

LEMMA IInvStep ==
  ASSUME IInv, [Next]_vars
  PROVE  IInv'
<1> USE DEF IInv
<1>1. TypeOK'
  BY TypeStep
<1>2. BudgetInv' /\ QuarantineInv' /\ QuarantineHolds'
  BY BudgetStep, QuarantineStep, HoldsStep
<1>3. ResumeInv' /\ ResumesWhereExpected'
  BY ResumeStep, ResumesStep
<1>4. RecoveryInv'
  BY RecoveryStep
<1>5. RecoveredBeforeNext'
  BY <1>1, <1>4, RecoveredStep
<1>6. VerdictInv'
  BY VerdictStep
<1> QED BY <1>1, <1>2, <1>3, <1>4, <1>5, <1>6

\* In every reachable state of a run the budget holds the end of the times that
\* count, the quarantine table counts the timeouts in the trace, each failure the
\* run has gone on from has cost a recovery, and the outcome is not set before
\* the loop is left: what runAdaptiveExplore keeps beside its trace says what the
\* trace says.
THEOREM RunInvariant == Spec => []IInv
<1>1. Init => IInv
  BY InitOK
<1>2. IInv /\ [Next]_vars => IInv'
  BY IInvStep
<1> QED BY <1>1, <1>2, PTL DEF Spec

\* A run keeps to the rate of its charter across a resume, to the quarantine of
\* what timed out, to the recorded actions and the expected state, and to the
\* recovery from a failure at every one of its actions: ActionBudget, the
\* quarantine table, selectNextCandidate and recoverAdaptiveFailure in the loop of
\* runAdaptiveExplore, for every number of actions, window, budget and target.
THEOREM RunHolds == Spec => []RunInv
<1>1. IInv => RunInv
  BY DEF IInv, RunInv, BudgetInv, Times, TimesOf, RateRespected
<1> QED BY <1>1, RunInvariant, PTL

\* A run that is reported as passed had no failed or timed-out action, lost no
\* artifact and was not stopped, and an operator's pause or kill is reported as
\* such unless an error is: the breaks of the loop, its finally block and
\* the finalization in runLakda.
THEOREM VerdictHolds == Spec => []VerdictIsTruthful
<1>1. IInv => VerdictIsTruthful
  <2> SUFFICES ASSUME IInv, pc = "done"
               PROVE  /\ verdict.outcome = "passed" =>
                           /\ \A i \in DOMAIN trace :
                                trace[i].status \in {"executed", "denied"}
                           /\ ~artifacts /\ stop \notin {"pause", "kill"}
                      /\ stop = "pause" => verdict = StopVerdict("pause")
                                             \/ verdict.outcome = "error"
                      /\ stop = "kill" => verdict = StopVerdict("kill")
                                            \/ verdict.outcome = "error"
    BY DEF VerdictIsTruthful, StopVerdict
  <2>1. \A i \in DOMAIN trace : trace[i].status \in Statuses
    <3>1. \A i \in DOMAIN trace : trace[i] \in Execution
      BY DEF IInv, TypeOK
    <3> QED BY <3>1 DEF Execution
  <2>2. /\ verdict.outcome = "passed" => NoFailure
        /\ verdict.outcome = "passed" => ~artifacts
        /\ stop \in {"pause", "kill"} =>
             verdict.outcome = "error" \/ verdict = StopVerdict(stop)
    BY DEF IInv, VerdictInv
  <2>3. \A c \in {"pause", "kill"} : StopVerdict(c).outcome = "partial"
    BY DEF StopVerdict
  <2> QED BY <2>1, <2>2, <2>3 DEF NoFailure, Failing, Statuses
<1> QED BY <1>1, RunInvariant, PTL

=============================================================================
