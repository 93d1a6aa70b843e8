------------------------- MODULE SecurityExecution -------------------------
(***************************************************************************)
(* The security execution controller (src/src/adaptive/security-           *)
(* execution.ts) with the policy it consults (security-policy.ts), the     *)
(* shared kill switch and the common safety rules (safety.ts), driven the  *)
(* way the adaptive run drives it: a candidate is screened while           *)
(* candidates are collected, and the chosen one is executed later.         *)
(*                                                                         *)
(* The controller runs on one JavaScript thread.  Between two awaits       *)
(* nothing else happens; at an await any other pending continuation may    *)
(* run first, and the workers of a race are such continuations.  A worker  *)
(* whose check succeeded still waits for its own continuation ("cleared")  *)
(* before it sends: a sibling's failure may trip the switch in between.    *)
(***************************************************************************)
EXTENDS Naturals, Sequences, FiniteSets

CONSTANTS
    Candidate,      \* what the generators may propose
    Participants,   \* raceParticipants of a race candidate
    MaxConcurrency, \* of the authorization record
    MaxRate,        \* maxRatePerMinute of the record
    MaxCandidates   \* how many candidates one checked run proposes

ASSUME CandidateAssumption ==
    Candidate \subseteq [kind: {"none", "single", "race"}, local: BOOLEAN,
                         scoped: BOOLEAN, permitted: BOOLEAN]
ASSUME BudgetAssumption ==
    /\ Participants \in Nat /\ Participants >= 2
    /\ MaxConcurrency \in Nat \ {0} /\ MaxRate \in Nat \ {0}
    /\ MaxCandidates \in Nat

VARIABLES
    phase,    \* where the run is in the life of its current candidate
    cand,     \* the candidate
    valid,    \* now is inside validFrom..validUntil
    killed,   \* the reason the kill switch holds, or "no"
    active,   \* activeRequests
    started,  \* startedRequests
    pc,       \* the race workers
    next,     \* the next participant index of the race
    skipped,  \* some participant was left out
    results,  \* statuses in the order the requests ended
    verdict,  \* the status of the last execution
    proposed, \* candidates proposed so far
    safe,     \* candidates of this round that were screened and not denied
    calls,    \* executions begun
    dirty     \* executions that sent a request and are not cleaned up

vars == <<phase, cand, valid, killed, active, started, pc, next, skipped,
          results, verdict, proposed, safe, calls, dirty>>
race == <<pc, next, skipped>>
sent == <<active, started, dirty>>
round == <<proposed, safe, calls>>

Smaller(a, b) == IF a < b THEN a ELSE b
Worker == 1..Smaller(Participants, MaxConcurrency)
Asked(c) == IF c.kind = "race" THEN Participants ELSE 1

-----------------------------------------------------------------------------
(* Decisions.                                                              *)

\* evaluateSecurityAuthorization in its order, then the race's own budget:
\* an upfront check asks for every participant, a participant for itself.
Authorized(c, asking) ==
    /\ valid
    /\ c.scoped
    /\ active < MaxConcurrency
    /\ started < MaxRate
    /\ c.kind = "none" \/ c.permitted
    /\ c.kind = "race" => started + asking <= MaxRate

\* evaluateAdaptiveSafety: the switch, then the rules that need no request.
Safe(c) == killed = "no" /\ c.local

\* KillSwitch.request keeps the first reason.
Trip(reason) == killed' = IF killed = "no" THEN reason ELSE killed

\* What one refresh of the switch does to it.
Refreshed(answer) ==
    CASE answer = "clear" -> UNCHANGED killed
      [] answer = "triggered" -> Trip("operator")
      [] answer = "unavailable" -> Trip("kill_switch_unavailable")

Answers == {"clear", "triggered", "unavailable"}

-----------------------------------------------------------------------------
Init ==
    /\ phase = "collecting" /\ cand \in Candidate /\ valid = TRUE /\ killed = "no"
    /\ active = 0 /\ started = 0
    /\ pc = [w \in Worker |-> "out"] /\ next = 0 /\ skipped = FALSE
    /\ results = <<>> /\ verdict = "none"
    /\ proposed = 0 /\ safe = {} /\ calls = 0
    /\ dirty = {}

\* The record's validity ends.
Expire ==
    /\ valid /\ phase # "over" /\ valid' = FALSE
    /\ UNCHANGED <<phase, cand, killed, race, sent, results, verdict, round>>

\* A stop or kill request is read at the top of a round and trips the switch.
OperatorKill ==
    /\ phase = "collecting" /\ safe = {}
    /\ killed = "no" /\ Trip("control")
    /\ UNCHANGED <<phase, cand, valid, race, sent, results, verdict, round>>

\* A generated candidate passes the safety rules, then awaits denyReason.
Propose(c) ==
    /\ phase = "collecting" /\ proposed < MaxCandidates
    /\ proposed' = proposed + 1 /\ cand' = c /\ verdict' = "none"
    /\ phase' = IF Safe(c) THEN "screening" ELSE "collecting"
    /\ UNCHANGED <<valid, killed, race, sent, results, safe, calls>>

Screen(answer) ==
    /\ phase = "screening"
    /\ Refreshed(answer)
    /\ safe' = IF killed' = "no" /\ Authorized(cand, Asked(cand))
               THEN safe \cup {cand} ELSE safe
    /\ phase' = "collecting"
    /\ UNCHANGED <<cand, valid, race, sent, results, verdict, proposed, calls>>

\* The run executes the one it selects: a passive one by the adapter itself,
\* an active one by the controller, which denies at once under the switch.
Execute(c) ==
    /\ phase = "collecting" /\ c \in safe
    /\ cand' = c /\ safe' = {} /\ calls' = calls + 1 /\ results' = <<>>
    /\ phase' = CASE c.kind = "none" -> "passive"
                  [] c.kind # "none" /\ killed # "no" -> "collecting"
                  [] OTHER -> "asking"
    /\ verdict' = IF phase' = "collecting" THEN "denied" ELSE "none"
    /\ UNCHANGED <<valid, killed, race, sent, proposed>>

PassiveEnds(outcome) ==
    /\ phase = "passive"
    /\ results' = <<outcome>> /\ verdict' = outcome
    /\ phase' = IF outcome = "threw" THEN "over" ELSE "collecting"
    /\ UNCHANGED <<cand, valid, killed, race, sent, round>>

\* One request leaves: both counters move with the permit.
Send ==
    /\ active' = active + 1 /\ started' = started + 1
    /\ dirty' = dirty \cup {calls}

\* Preflight answers: deny, send the one request, or start the workers.  A
\* worker takes its index and asks for the switch before anything awaits.
Preflight(answer) ==
    /\ phase = "asking"
    /\ Refreshed(answer)
    /\ \/ /\ killed' # "no" \/ ~Authorized(cand, Asked(cand))
          /\ phase' = "collecting" /\ verdict' = "denied"
          /\ UNCHANGED <<race, sent>>
       \/ /\ killed' = "no" /\ Authorized(cand, Asked(cand))
          /\ cand.kind = "single" /\ Send
          /\ phase' = "sending"
          /\ UNCHANGED <<race, verdict>>
       \/ /\ killed' = "no" /\ Authorized(cand, Asked(cand))
          /\ cand.kind = "race"
          /\ phase' = "racing" /\ skipped' = FALSE
          /\ pc' = [w \in Worker |-> "asking"]
          /\ next' = Cardinality(Worker)
          /\ UNCHANGED <<sent, verdict>>
    /\ UNCHANGED <<cand, valid, results, round>>

\* The adapter's answers: its own status, or an exception.
Outcomes == {"executed", "timeout", "threw"}
Status(outcome) == IF outcome = "threw" THEN "infrastructure_error" ELSE outcome

SingleEnds(outcome) ==
    /\ phase = "sending"
    /\ active' = active - 1
    /\ results' = <<Status(outcome)>>
    /\ phase' = "cleaning"
    /\ UNCHANGED <<cand, valid, killed, race, started, dirty, verdict, round>>

-----------------------------------------------------------------------------
(* The workers of a race.                                                  *)

\* Mutant of Checked: the switch is refreshed and not looked at.
CheckedBudgetOnly(w, answer) ==
    /\ phase = "racing" /\ pc[w] = "asking"
    /\ Refreshed(answer)
    /\ pc' = [pc EXCEPT ![w] = IF Authorized(cand, 1) THEN "cleared" ELSE "out"]
    /\ skipped' = (skipped \/ pc'[w] = "out")
    /\ UNCHANGED <<phase, cand, valid, next, sent, results, verdict, round>>

\* The check of one participant answers; a refusal retires the worker.
Checked(w, answer) ==
    /\ phase = "racing" /\ pc[w] = "asking"
    /\ Refreshed(answer)
    /\ LET go == killed' = "no" /\ Authorized(cand, 1)
       IN  /\ pc' = [pc EXCEPT ![w] = IF go THEN "cleared" ELSE "out"]
           /\ skipped' = (skipped \/ ~go)
    /\ UNCHANGED <<phase, cand, valid, next, sent, results, verdict, round>>

Start(w) ==
    /\ phase = "racing" /\ pc[w] = "cleared"
    /\ pc' = [pc EXCEPT ![w] = "sending"]
    /\ Send
    /\ UNCHANGED <<phase, cand, valid, killed, next, skipped, results, verdict, round>>

\* A participant ends; its worker takes the next index, and asks again
\* unless the switch already holds.  An exception trips the switch.
ParticipantEnds(w, outcome) ==
    /\ phase = "racing" /\ pc[w] = "sending"
    /\ active' = active - 1
    /\ results' = Append(results, Status(outcome))
    /\ IF outcome = "threw" THEN Trip("race_participant_failure") ELSE UNCHANGED killed
    /\ LET more == next < Participants
       IN  /\ next' = IF more THEN next + 1 ELSE next
           /\ pc' = [pc EXCEPT ![w] = IF more /\ killed' = "no" THEN "asking" ELSE "out"]
           /\ skipped' = (skipped \/ (more /\ killed' # "no"))
    /\ UNCHANGED <<phase, cand, valid, started, dirty, verdict, round>>

\* Mutant of AllReturned: the scheduler waits for every participant.
AllAnswered ==
    /\ phase = "racing" /\ Len(results) = Participants
    /\ phase' = "cleaning"
    /\ UNCHANGED <<cand, valid, killed, race, sent, results, verdict, round>>

AllReturned ==
    /\ phase = "racing" /\ \A w \in Worker : pc[w] = "out"
    /\ phase' = "cleaning"
    /\ UNCHANGED <<cand, valid, killed, race, sent, results, verdict, round>>

-----------------------------------------------------------------------------
\* The status an execution reports once cleanup has answered.
FirstFailure ==
    LET failed == {i \in DOMAIN results : results[i] # "executed"}
    IN  IF failed = {} THEN "executed"
        ELSE results[CHOOSE i \in failed : \A j \in failed : i <= j]

\* Mutant of Reported: a race is judged by the answers that came.
ReportedOfSent(cleaned) == IF cleaned THEN FirstFailure ELSE "action_failed"

Reported(cleaned) ==
    CASE ~cleaned -> "action_failed"
      [] cleaned /\ cand.kind = "race" /\ (killed # "no" \/ skipped) -> "denied"
      [] OTHER -> FirstFailure

\* Cleanup completes, says it did not, or throws: the last two trip the switch.
Cleanup(cleaned) ==
    /\ phase = "cleaning"
    /\ IF cleaned THEN UNCHANGED killed ELSE Trip("cleanup_failed")
    /\ dirty' = IF cleaned THEN dirty \ {calls} ELSE dirty
    /\ verdict' = Reported(cleaned)
    /\ phase' = "collecting"
    /\ UNCHANGED <<cand, valid, race, active, started, results, round>>

Stopped == phase = "over" \/ (phase = "collecting" /\ proposed = MaxCandidates)
Idle == Stopped /\ UNCHANGED vars

Controller ==
    \/ \E a \in Answers : Screen(a) \/ Preflight(a)
    \/ \E c \in Candidate : Execute(c)
    \/ \E o \in Outcomes : PassiveEnds(o) \/ SingleEnds(o)
    \/ \E w \in Worker, a \in Answers : Checked(w, a)
    \/ \E w \in Worker : Start(w)
    \/ \E w \in Worker, o \in Outcomes : ParticipantEnds(w, o)
    \/ AllReturned
    \/ \E c \in BOOLEAN : Cleanup(c)

Next ==
    \/ Expire \/ OperatorKill \/ Idle
    \/ \E c \in Candidate : Propose(c)
    \/ Controller

\* Every call of the bridge answers or is aborted after 15 s
\* (loopback-json.ts), so whatever the controller awaits settles.
Spec == Init /\ [][Next]_vars /\ WF_vars(Controller)

-----------------------------------------------------------------------------
TypeOK ==
    /\ phase \in {"collecting", "screening", "passive", "asking", "sending",
                  "racing", "cleaning", "over"}
    /\ cand \in Candidate /\ valid \in BOOLEAN
    /\ killed \in {"no", "operator", "kill_switch_unavailable", "control",
                   "race_participant_failure", "cleanup_failed"}
    /\ active \in 0..MaxConcurrency /\ started \in 0..MaxRate
    /\ pc \in [Worker -> {"out", "asking", "cleared", "sending"}]
    /\ next \in 0..Participants /\ skipped \in BOOLEAN
    /\ Len(results) <= Participants
    /\ verdict \in {"none", "denied", "executed", "timeout", "threw",
                    "infrastructure_error", "action_failed"}
    /\ proposed \in 0..MaxCandidates /\ calls \in 0..MaxCandidates
    /\ safe \subseteq Candidate /\ dirty \subseteq 1..MaxCandidates

\* The signed budget holds although workers check it before, and count
\* after, an await: no more requests at once or in all than authorized, and
\* the counter of active requests is the number really being sent.
WithinAuthorization ==
    /\ active <= MaxConcurrency /\ started <= MaxRate
    /\ active = Cardinality({w \in Worker : pc[w] = "sending"})
                + (IF phase = "sending" THEN 1 ELSE 0)

\* Cleanup never overtakes a request of its execution, and no request of a
\* later execution is ever sent on top of one that was not cleaned up: an
\* incomplete cleanup trips the switch before the next candidate is judged.
CleanedBeforeNext ==
    /\ phase = "cleaning" => active = 0
    /\ active > 0 => dirty = {calls}
    /\ phase = "collecting" /\ dirty # {} => killed # "no"

\* Once the switch has tripped, whoever tripped it and at whichever await,
\* no single request leaves and no worker is cleared: all that may still be
\* sent are the requests of siblings whose own check had succeeded before.
KillHolds ==
    [][killed' # "no" =>
          /\ {w \in Worker : pc'[w] = "cleared"} \subseteq {w \in Worker : pc[w] = "cleared"}
          /\ phase' = "sending" => phase = "sending"]_vars

\* An execution reports success only if every request it was authorized for
\* was sent and succeeded, and its cleanup completed: no sibling left out, no
\* failure hidden behind a later success.
SuccessIsEarned ==
    phase = "collecting" /\ verdict = "executed" /\ cand.kind # "none" =>
        /\ results = [i \in 1..Asked(cand) |-> "executed"]
        /\ calls \notin dirty

\* Every screening and every execution ends, whatever the bridge answers.
EveryExecutionReports ==
    phase \notin {"collecting", "over"} ~> phase \in {"collecting", "over"}

\* The budget, the cleanup and the verdict of executions whose workers check
\* before an await what others change during it.
SecurityInv ==
    /\ WithinAuthorization
    /\ CleanedBeforeNext
    /\ SuccessIsEarned

=============================================================================
