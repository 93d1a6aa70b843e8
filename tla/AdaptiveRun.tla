----------------------------- MODULE AdaptiveRun -----------------------------
(***************************************************************************)
(* One adaptive run: the loop of runAdaptiveExplore (src/adaptive/         *)
(* coordinator/orchestrator.ts) with the steps it calls - observation and  *)
(* quarantine, selection, the action budget, recovery - and the verdict    *)
(* that runLakda (src/core/runner.ts) gives in the end.                    *)
(*                                                                         *)
(* The target is an application with a few states; its adapter offers      *)
(* actions in each of them and reports how an attempt went.  What an       *)
(* adapter, an oracle, a generator or the target may do is a choice; what  *)
(* the loop does with it is not.  A run may begin with the replay of a     *)
(* recorded sequence of actions.                                           *)
(***************************************************************************)
EXTENDS Integers, Sequences, FiniteSets

CONSTANTS
  States,         \* fingerprints of the target
  StartState,     \* the one in which it starts
  Actions,        \* candidate identifiers
  Offered,        \* the candidates of each state
  Recordings,     \* the replays a run may be given: the actions to repeat
                  \* and the fingerprint to be reached by them, or None
  Commands,       \* what may be in a control file
  RestoredBudget, \* timestamps a resumed session may hand to the budget
  StartTime,      \* the time at which the run starts
  None,           \* an absent optional value
  MaxActions,     \* maxActions
  DurationMs,     \* durationMs
  Window,         \* the 60 000 ms of the action budget
  PerWindow,      \* maxActionsPerMinute
  RevisitBudget,  \* recovery.maxAttemptsPerState
  MaxBacktracks,  \* recovery.maxBacktracks
  MaxTime,        \* bound on the clock
  MaxRequests     \* bound on the operator's requests

\* No window of time holds more than PerWindow of these times.
Paced(times) ==
  \A i \in DOMAIN times :
    i + PerWindow \in DOMAIN times => times[i + PerWindow] - times[i] >= Window

ASSUME RunAssumption ==
  /\ StartState \in States
  /\ Offered \in [States -> SUBSET Actions]
  /\ Recordings \subseteq
       [actions : Seq(Actions), expected : States \cup {None}]
  /\ Commands \subseteq {"pause", "kill", "bookmark", "malformed"}
  /\ None \notin States \cup Actions \cup {"pause", "kill", "bookmark", "malformed"}
  /\ \A times \in RestoredBudget : times \in Seq(Nat) /\ Paced(times)
  /\ {MaxActions, DurationMs, Window, MaxBacktracks, StartTime, MaxTime,
      MaxRequests} \subseteq Nat
  /\ {PerWindow, RevisitBudget} \subseteq Nat \ {0}

Optional(S) == S \cup {None}

Statuses == {"executed", "denied", "timeout", "failed"}

\* An execution: what was attempted, where, when, how it went, and whether it
\* repeated a recorded action.
Execution ==
  [action : Actions, from : States, at : Nat, status : Statuses,
   replayed : BOOLEAN]

Outcomes == {"passed", "partial", "failed", "error"}

Reasons ==
  {"completed", "max_actions", "duration_limit", "rate_limit", "hold",
   "machine_failure", "llm_error", "executor_error", "artifact_failure"}

VARIABLES
  pc,          \* where the loop is
  now,         \* the clock
  control,     \* the control directory
  state,       \* the state of the target
  seen,        \* the fingerprint last observed
  candidate,   \* the candidate selected
  replay,      \* the recording this run repeats
  trace,       \* the executions so far; its length is `actions`
  attempts,    \* the timestamps the action budget keeps
  restored,    \* those it was given
  quarantine,  \* timeouts of a candidate in a state, and the action count
               \* up to which it is blocked
  recoveries,  \* recoveryAttempts
  failures,    \* collector.failures is not empty
  artifacts,   \* collector.artifactFailure
  stop,        \* the operator's command that was accepted
  verdict,     \* outcome and terminationReason
  requests     \* requests of the operator so far

vars == <<pc, now, control, state, seen, candidate, replay, trace, attempts,
          restored, quarantine, recoveries, failures, artifacts, stop, verdict,
          requests>>

Loop == {"setup", "control", "limits", "select", "consume", "execute",
         "judge", "recover"}

Init ==
  /\ pc = "setup"
  /\ now = StartTime
  /\ control = <<>>
  /\ state = StartState
  /\ seen = StartState
  /\ candidate = None
  /\ replay \in Recordings
  /\ trace = <<>>
  /\ restored \in RestoredBudget
  /\ attempts = restored
  /\ quarantine = [k \in States \X Actions |-> [timeouts |-> 0, until |-> 0]]
  /\ recoveries = 0
  /\ failures = FALSE
  /\ artifacts = FALSE
  /\ stop = None
  /\ verdict = [outcome |-> "error", reason |-> "executor_error"]
  /\ requests = 0

actions == Len(trace)

Elapsed == now - StartTime

Replaying == actions < Len(replay.actions)

Verdict(outcome, reason) == verdict' = [outcome |-> outcome, reason |-> reason]

\* A break out of the loop.
Break(outcome, reason) == pc' = "ended" /\ Verdict(outcome, reason)

\* What most steps leave alone.
env    == <<now, control, requests>>
given  == <<replay, restored>>
tables == <<trace, attempts, quarantine, recoveries>>
flags  == <<failures, artifacts, stop>>

\* prune: attempts that have left the window are shifted out, up to the first
\* that has not.
Old(i) == attempts[i] <= now - Window

Pruned ==
  LET gone == CHOOSE k \in 0..Len(attempts) :
                /\ \A i \in 1..k : Old(i)
                /\ k < Len(attempts) => ~Old(k + 1)
  IN  SubSeq(attempts, gone + 1, Len(attempts))

-----------------------------------------------------------------------------
(* Before the loop *)

\* The budget has something left, and the target and the model behind the
\* generator are there.
Begin ==
  /\ pc = "setup"
  /\ Len(Pruned) < PerWindow
  /\ attempts' = Pruned
  /\ pc' = "control"
  /\ UNCHANGED <<env, state, seen, candidate, given, trace, quarantine,
                 recoveries, flags, verdict>>

\* runLakda does not start a run whose budget is spent.
BudgetSpent ==
  /\ pc = "setup"
  /\ Len(Pruned) >= PerWindow
  /\ attempts' = Pruned
  /\ pc' = "finalize"
  /\ Verdict("partial", "rate_limit")
  /\ UNCHANGED <<env, state, seen, candidate, given, trace, quarantine,
                 recoveries, flags>>

\* preflightLlmSelection fails; a replay does not ask the model.
LlmUnavailable ==
  /\ pc = "setup"
  /\ Len(Pruned) < PerWindow
  /\ replay.actions = <<>>
  /\ attempts' = Pruned
  /\ pc' = "closed"
  /\ Verdict("partial", "llm_error")
  /\ UNCHANGED <<env, state, seen, candidate, given, trace, quarantine,
                 recoveries, flags>>

-----------------------------------------------------------------------------
(* Top of the loop: control and limits *)

\* The first control file is parsed and removed.  Pause and kill end the run.
TakeStop ==
  /\ pc = "control"
  /\ control # <<>> /\ Head(control) \in {"pause", "kill"}
  /\ control' = Tail(control)
  /\ stop' = Head(control)
  /\ Break("partial", IF Head(control) = "kill" THEN "machine_failure"
                      ELSE "hold")
  /\ UNCHANGED <<now, requests, state, seen, candidate, given, tables, failures,
                 artifacts>>

\* A bookmark whose evidence cannot be captured fails the artifacts.
TakeBookmark ==
  /\ pc = "control"
  /\ control # <<>> /\ Head(control) = "bookmark"
  /\ control' = Tail(control)
  /\ pc' = "limits"
  /\ \/ UNCHANGED <<failures, artifacts>>
     \/ failures' = TRUE /\ artifacts' = TRUE
  /\ UNCHANGED <<now, requests, state, seen, candidate, given, tables, stop,
                 verdict>>

\* A file that cannot be parsed stays where it is and ends the run.
TakeMalformed ==
  /\ pc = "control"
  /\ control # <<>> /\ Head(control) = "malformed"
  /\ stop' = "malformed"
  /\ Break("error", "executor_error")
  /\ UNCHANGED <<env, state, seen, candidate, given, tables, failures,
                 artifacts>>

NoRequest ==
  /\ pc = "control"
  /\ control = <<>>
  /\ pc' = "limits"
  /\ UNCHANGED <<env, state, seen, candidate, given, tables, flags, verdict>>

\* The verdict of a run that has done all it was to do.
Completed == Break(IF failures THEN "failed" ELSE "passed", "completed")

\* Mutant of Limit: only the number of actions ends the run.
LimitOfActions ==
  /\ pc = "limits"
  /\ Elapsed < DurationMs /\ actions >= MaxActions
  /\ Break("partial", "max_actions")
  /\ UNCHANGED <<env, state, seen, candidate, given, tables, flags>>

\* The duration comes before the number of actions.
Limit ==
  /\ pc = "limits"
  /\ \/ /\ Elapsed >= DurationMs
        /\ Break("partial", "duration_limit")
     \/ /\ Elapsed < DurationMs
        /\ actions >= MaxActions
        /\ Break("partial", "max_actions")
  /\ UNCHANGED <<env, state, seen, candidate, given, tables, flags>>

InLimits == Elapsed < DurationMs /\ actions < MaxActions

\* graph.stop: a stop condition holds.
StopWhen ==
  /\ pc = "limits"
  /\ InLimits /\ actions > 0
  /\ Completed
  /\ UNCHANGED <<env, state, seen, candidate, given, tables, flags>>

\* observeCandidateSet, which fails the artifacts when it cannot capture an
\* unknown screen, and the comparison of its fingerprint with the checkpoint of
\* the session that is resumed.
Observe ==
  /\ pc = "limits"
  /\ InLimits
  /\ seen' = state
  /\ IF /\ replay.expected # None /\ actions = Len(replay.actions)
        /\ state # replay.expected
       THEN Break("failed", "machine_failure")
       ELSE pc' = "select" /\ UNCHANGED verdict
  /\ artifacts' \in {artifacts, TRUE}
  /\ UNCHANGED <<env, state, candidate, given, tables, failures, stop>>

-----------------------------------------------------------------------------
(* Selection and budget *)

\* Mutant of Quarantined: only the last timeout counts.
QuarantinedOnce(s, a) ==
  LET q == quarantine[<<s, a>>]
  IN  q.timeouts > 0 /\ actions < q.until

\* A candidate that has timed out is left alone for one action, and for good
\* when it has used up its budget of revisits.
Quarantined(s, a) ==
  LET q == quarantine[<<s, a>>]
  IN  q.timeouts > 0 /\ (actions < q.until \/ q.timeouts >= RevisitBudget)

SafeCandidates == {a \in Offered[seen] : ~Quarantined(seen, a)}

\* selectNextCandidate: the recorded candidate during the replay, the
\* generator's choice after it.
Select ==
  /\ pc = "select"
  /\ IF Replaying THEN /\ replay.actions[actions + 1] \in Offered[seen]
                       /\ candidate' = replay.actions[actions + 1]
     ELSE candidate' \in SafeCandidates
  /\ pc' = "consume"
  /\ UNCHANGED <<env, state, seen, given, tables, flags, verdict>>

\* The recorded candidate is not there, is no longer what it was, or is not
\* allowed any more.
ReplayDiverges ==
  /\ pc = "select"
  /\ Replaying
  /\ Break("failed", "machine_failure")
  /\ UNCHANGED <<env, state, seen, candidate, given, tables, flags>>

\* The generator stops, or there is nothing left to do.
NothingToDo ==
  /\ pc = "select"
  /\ ~Replaying
  /\ Completed
  /\ UNCHANGED <<env, state, seen, candidate, given, tables, flags>>

\* The model behind the generator fails, the guard denies the choice, or there
\* is no input for it.
SelectionFails ==
  /\ pc = "select"
  /\ ~Replaying
  /\ \/ Break("partial", "llm_error")
     \/ Break("partial", "completed")
     \/ Break("failed", "machine_failure")
  /\ UNCHANGED <<env, state, seen, candidate, given, tables, flags>>

\* tryConsume succeeds.
Consume ==
  /\ pc = "consume"
  /\ Len(Pruned) < PerWindow
  /\ attempts' = Append(Pruned, now)
  /\ pc' = "execute"
  /\ UNCHANGED <<env, state, seen, candidate, given, trace, quarantine,
                 recoveries, flags, verdict>>

RateLimit ==
  /\ pc = "consume"
  /\ Len(Pruned) >= PerWindow
  /\ attempts' = Pruned
  /\ Break("partial", "rate_limit")
  /\ UNCHANGED <<env, state, seen, candidate, given, trace, quarantine,
                 recoveries, flags>>

-----------------------------------------------------------------------------
(* Execution and what follows it *)

\* The adapter executes the candidate; the action is counted, and a timeout
\* puts the candidate into quarantine.  The target may have moved.
Execute ==
  /\ pc = "execute"
  /\ \E status \in Statuses :
       /\ trace' = Append(trace, [action |-> candidate, from |-> seen,
                                  at |-> attempts[Len(attempts)],
                                  status |-> status, replayed |-> Replaying])
       /\ IF status = "denied" THEN UNCHANGED state ELSE state' \in States
       /\ quarantine' =
            IF status # "timeout" THEN quarantine
            ELSE [quarantine EXCEPT ![<<seen, candidate>>] =
                    [timeouts |-> @.timeouts + 1, until |-> actions + 2]]
  /\ pc' = "judge"
  /\ UNCHANGED <<env, seen, candidate, given, attempts, recoveries, flags,
                 verdict>>

Last == trace[actions]

\* A failed oracle, or a replay that does not go the way it was recorded.
OracleFails ==
  /\ pc = "judge"
  /\ Break("failed", "machine_failure")
  /\ UNCHANGED <<env, state, seen, candidate, given, tables, flags>>

\* Mutant of Judge: a timeout is no failure.
JudgeLeniently ==
  /\ pc = "judge"
  /\ pc' = IF Last.status \in {"timeout", "failed"} THEN "recover" ELSE "control"
  /\ UNCHANGED <<env, state, seen, candidate, given, tables, flags, verdict>>

\* An executed action and, outside a replay, a denied one are followed by the
\* next iteration; anything else is a failure that needs a recovery.
Judge ==
  /\ pc = "judge"
  /\ \/ /\ \/ Last.status = "executed"
           \/ Last.status = "denied" /\ ~Last.replayed
        /\ pc' = "control"
        /\ UNCHANGED <<failures, verdict>>
     \/ /\ Last.status = "denied" /\ Last.replayed
        /\ Break("failed", "machine_failure")
        /\ UNCHANGED failures
     \/ /\ Last.status \in {"timeout", "failed"}
        /\ pc' = "recover"
        /\ failures' = TRUE
        /\ UNCHANGED verdict
  /\ UNCHANGED <<env, state, seen, candidate, given, tables, artifacts, stop>>

\* recoverAdaptiveFailure: the target is back where it was before the action.
Recover ==
  /\ pc = "recover"
  /\ recoveries < MaxBacktracks
  /\ recoveries' = recoveries + 1
  /\ state' = seen
  /\ pc' = "control"
  /\ UNCHANGED <<env, seen, candidate, given, trace, attempts, quarantine, flags,
                 verdict>>

\* It is not, or there have been too many recoveries.
RecoveryFails ==
  /\ pc = "recover"
  /\ \/ recoveries >= MaxBacktracks /\ UNCHANGED <<recoveries, state>>
     \/ /\ recoveries < MaxBacktracks
        /\ recoveries' = recoveries + 1
        /\ state' \in States
  /\ Break("failed", "machine_failure")
  /\ UNCHANGED <<env, seen, candidate, given, trace, attempts, quarantine, flags>>

-----------------------------------------------------------------------------
(* The end of the run *)

\* An exception in the loop or before it: the catch block.  Reading a control
\* file has a handler of its own, and the budget does not throw.
Throw ==
  /\ pc \in Loop \ {"control", "consume"}
  /\ pc' = "closed"
  /\ failures' = TRUE
  /\ Verdict("error", "executor_error")
  /\ UNCHANGED <<env, state, seen, candidate, given, tables, artifacts, stop>>

\* After the loop an outcome of error is taken for one that was never set.
Conclude ==
  /\ pc = "ended"
  /\ pc' = "closed"
  /\ IF verdict.outcome = "error"
       THEN Verdict(IF failures THEN "failed" ELSE "passed", "completed")
       ELSE UNCHANGED verdict
  /\ UNCHANGED <<env, state, seen, candidate, given, tables, flags>>

\* The finally block: the evidence is captured, the adapter is closed and the
\* trace is written.  Evidence that cannot be had fails the artifacts; a trace
\* that cannot be written is an exception for runLakda.
Close ==
  /\ pc = "closed"
  /\ pc' = "finalize"
  /\ \/ UNCHANGED <<failures, artifacts, verdict>>
     \/ failures' = TRUE /\ artifacts' = TRUE /\ UNCHANGED verdict
     \/ /\ failures' = TRUE /\ UNCHANGED artifacts
        /\ Verdict("error", "executor_error")
  /\ UNCHANGED <<env, state, seen, candidate, given, tables, stop>>

\* runLakda: failed artifacts make any other outcome an error.
Finalize ==
  /\ pc = "finalize"
  /\ pc' = "done"
  /\ IF artifacts /\ verdict.outcome # "error"
       THEN Verdict("error", "artifact_failure")
       ELSE UNCHANGED verdict
  /\ UNCHANGED <<env, state, seen, candidate, given, tables, flags>>

-----------------------------------------------------------------------------
Tick ==
  /\ now < MaxTime
  /\ pc # "done"
  /\ now' = now + 1
  /\ UNCHANGED <<pc, control, requests, state, seen, candidate, given, tables,
                 flags, verdict>>

\* The operator adds a control file.
Request ==
  /\ requests < MaxRequests
  /\ pc \in Loop
  /\ requests' = requests + 1
  /\ \E c \in Commands : control' = Append(control, c)
  /\ UNCHANGED <<pc, now, state, seen, candidate, given, tables, flags, verdict>>

\* The steps of the run, exceptions aside.
Step ==
  \/ Begin \/ BudgetSpent \/ LlmUnavailable
  \/ TakeStop \/ TakeBookmark \/ TakeMalformed \/ NoRequest
  \/ Limit \/ StopWhen \/ Observe
  \/ Select \/ ReplayDiverges \/ NothingToDo \/ SelectionFails
  \/ Consume \/ RateLimit
  \/ Execute \/ OracleFails \/ Judge \/ Recover \/ RecoveryFails
  \/ Conclude \/ Close \/ Finalize

Next == Step \/ Throw \/ Tick \/ Request

Spec == Init /\ [][Next]_vars

\* The run goes on, for every adapter call it makes has a timeout; it does not
\* count on an exception.
FairSpec == Spec /\ WF_vars(Step)
-----------------------------------------------------------------------------
(* Properties *)

TypeOK ==
  /\ pc \in Loop \cup {"ended", "closed", "finalize", "done"}
  /\ now \in Nat
  /\ control \in Seq(Commands)
  /\ {state, seen} \subseteq States
  /\ candidate \in Optional(Actions)
  /\ replay \in Recordings
  /\ trace \in Seq(Execution)
  /\ attempts \in Seq(Nat)
  /\ restored \in RestoredBudget
  /\ quarantine \in [States \X Actions -> [timeouts : Nat, until : Nat]]
  /\ recoveries \in Nat
  /\ {failures, artifacts} \subseteq BOOLEAN
  /\ stop \in Optional({"pause", "kill", "malformed"})
  /\ verdict \in [outcome : Outcomes, reason : Reasons]
  /\ requests \in Nat

\* No window of time holds more executions than the charter allows, those
\* before the resume included: ActionBudget over its pruning and its restored
\* timestamps.
RateRespected == Paced(restored \o [i \in DOMAIN trace |-> trace[i].at])

TimedOut(i, j) ==
  /\ trace[j].status = "timeout"
  /\ trace[j].from = trace[i].from /\ trace[j].action = trace[i].action

\* Outside a replay, an action that has just timed out in a state is not the
\* next one there, and it is not tried again once it has timed out as often as
\* the recovery policy allows.
QuarantineHolds ==
  \A i \in DOMAIN trace :
    ~trace[i].replayed =>
      /\ i > 1 => ~TimedOut(i, i - 1)
      /\ Cardinality({j \in 1..(i - 1) : TimedOut(i, j)}) < RevisitBudget

\* A resumed run repeats the recorded actions in their order before anything
\* else, and goes on only from the state the checkpoint names.
ResumesWhereExpected ==
  LET n == Len(replay.actions)
  IN  \A i \in DOMAIN trace :
        /\ i <= n => trace[i].action = replay.actions[i]
        /\ i = n + 1 /\ replay.expected # None =>
             trace[i].from = replay.expected

\* After a failed action the run goes on only from where that action started,
\* and at most MaxBacktracks times.
RecoveredBeforeNext ==
  LET failed == {i \in DOMAIN trace : trace[i].status \in {"timeout", "failed"}}
  IN  /\ \A i \in failed : i < actions => trace[i + 1].from = trace[i].from
      /\ Cardinality({i \in failed : i < actions}) <= MaxBacktracks

\* A run passes only if nothing failed in it and nobody stopped it; an
\* operator's stop is not replaced by a verdict of the loop, only by an error.
VerdictIsTruthful ==
  pc = "done" =>
    /\ verdict.outcome = "passed" =>
         /\ \A i \in DOMAIN trace : trace[i].status \in {"executed", "denied"}
         /\ ~artifacts /\ stop \notin {"pause", "kill"}
    /\ stop = "pause" => verdict = [outcome |-> "partial", reason |-> "hold"]
                           \/ verdict.outcome = "error"
    /\ stop = "kill" => verdict = [outcome |-> "partial",
                                   reason |-> "machine_failure"]
                          \/ verdict.outcome = "error"

\* Every run ends, whatever the target does and however many requests come.
Terminates == <>(pc = "done")

\* What the loop keeps to at every action of every run: the rate of the charter,
\* the quarantine of what timed out, the recorded actions and the expected state
\* of a resume, and the recovery from a failure.
RunInv ==
  /\ TypeOK
  /\ RateRespected
  /\ QuarantineHolds
  /\ ResumesWhereExpected
  /\ RecoveredBeforeNext

=============================================================================
