------------------------------- MODULE GuidedRun -------------------------------
(***************************************************************************)
(* What an adaptive run records and what is done with it: the loop of      *)
(* runAdaptiveExplore (src/adaptive/coordinator/orchestrator.ts) with the  *)
(* state graph, the generators, the oracles, the trace and the recovery of *)
(* failures; the reduction of a failing sequence                           *)
(* (coordinator/shrinking.ts); the scouting of the trace for leads; and    *)
(* the strict replay of the trace by `investigate` on behalf of a lead,    *)
(* with its verdict and the promotion of it                                *)
(* (src/commands/investigation.ts, src/adaptive/replay.ts,                 *)
(* investigation.ts).                                                      *)
(*                                                                         *)
(* The target is deterministic: it says what each action does in each of   *)
(* its states.  The investigation may meet another target than the run     *)
(* that was recorded.  What may interrupt the loop - the operator, budgets *)
(* and the clock - is AdaptiveRun's subject.                               *)
(***************************************************************************)
EXTENDS Scouting, Oracles, RunCatalog

CONSTANTS
  Start,          \* the fingerprint in which a target starts
  Targets,        \* targets: offers, effects, recoveries, obligations, what is
                  \* observed of a state, and the contracts of actions
  Settings,       \* configurations: strategy, stopWhen, risk, scouting by a model
  Replayed(_),    \* the targets the investigation of one may meet
  ActionCap,      \* maxActions
  RevisitBudget,  \* recovery.maxAttemptsPerState
  MaxBacktracks   \* recovery.maxBacktracks

\* Every state of a target offers finitely many candidates and has finitely many
\* obligations; an action, and going back after it, lead to one of its states.
WellFormed(t) ==
  LET states == DOMAIN t.offers
  IN /\ Start \in states /\ None \notin states
     /\ \A s \in states :
          /\ IsFiniteSet(t.offers[s]) /\ IsFiniteSet(DOMAIN t.obligations[s])
          /\ \A o \in DOMAIN t.obligations[s] :
               t.obligations[s][o] \in {"met", "unmet", "unknown"}
          /\ \A c \in t.offers[s] :
               /\ t.effects[<<s, c>>].next \in states
               /\ t.effects[<<s, c>>].post \in states \cup {None}
               /\ t.recovers[<<s, c>>] \in states \cup {None}

ASSUME GuidedAssumption ==
  /\ ActionCap \in Nat \ {0}
  /\ RevisitBudget \in Nat \ {0}
  /\ MaxBacktracks \in Nat
  /\ \A t \in Targets : \A u \in Replayed(t) \cup {t} : WellFormed(u)
  /\ \A s \in Settings : \A c \in s.stopWhen.any \cup s.stopWhen.all :
       c.type = "noveltyPlateau" => c.windowActions \in Nat /\ c.minActions \in Nat

VARIABLES
  phase,          \* where the run, the reduction or the investigation is
  target,         \* the target met
  setting,        \* the configuration
  here,           \* the state of the target
  graph,          \* the state graph
  trace,          \* what the run has recorded
  actions,        \* how many actions it has executed
  quarantine,     \* timeouts of an action and the count it is blocked before
  backtracks,     \* recoveryAttempts
  anyFailed,      \* collector.failures is not empty
  termination,    \* outcome and terminationReason, or None
  recording,      \* the target of a recorded run and its steps, for a replay
  shrink,         \* the reduction under way
  investigation   \* lead and status of the investigation, whether it was promoted

guidedVars ==
  <<phase, target, setting, here, graph, trace, actions, quarantine, backtracks,
    anyFailed, termination, recording, shrink, investigation>>

loop == <<here, graph, trace, actions, quarantine, backtracks, anyFailed, termination>>

NoShrink == [current |-> << >>, chunk |-> 0, from |-> 0, tries |-> 0]

Fresh ==
  /\ here = Start
  /\ graph = NewGraph
  /\ trace = << >>
  /\ actions = 0
  /\ quarantine = << >>
  /\ backtracks = 0
  /\ anyFailed = FALSE
  /\ termination = None

GuidedInit ==
  /\ phase = "top"
  /\ target \in Targets
  /\ setting \in Settings
  /\ Fresh
  /\ recording = [target |-> None, steps |-> << >>]
  /\ shrink = NoShrink
  /\ investigation = [lead |-> None, status |-> "none", promoted |-> FALSE]

-----------------------------------------------------------------------------
(* The trace *)

steps == recording.steps

\* One entry more for buildReplaySteps: an execution begins a step, and a verdict
\* of the oracles belongs to the step begun last.
WithEntry(built, e) ==
  CASE e.type = "execution" ->
         Append(built, [action |-> e.action, status |-> e.status, pre |-> e.pre,
                        post |-> e.post, oracle |-> None])
    [] e.type = "oracle" -> [built EXCEPT ![Len(built)].oracle = e.verdict]
    [] OTHER -> built

\* buildReplaySteps: every candidate with the execution and the oracle verdict
\* recorded after it.
StepsOf(entries) ==
  LET built[n \in 0..Len(entries)] ==
        IF n = 0 THEN << >> ELSE WithEntry(built[n - 1], entries[n])
  IN built[Len(entries)]

\* Of its own trace an investigation reads the steps in the same way, by
\* replayRecords.
Steps == StepsOf(trace)

OracleFail(oracle) == oracle.generic = "fail" \/ "fail" \in oracle.product

Failing(step) == step.status # "executed" \/ OracleFail(step.oracle)

\* The run is a replay as long as recorded steps are left; afterwards it goes
\* on as an exploration.
Replaying == actions < Len(steps)

End(outcome, reason) ==
  /\ phase' = "ended"
  /\ termination' = [outcome |-> outcome, reason |-> reason]

\* A replay that differs from the recording is given up.
Diverge(kind) ==
  /\ trace' = Append(trace, [type |-> "divergence", reason |-> kind])
  /\ End("failed", "machine_failure")
  /\ UNCHANGED <<target, setting, here, graph, actions, quarantine, backtracks,
                 anyFailed, recording, shrink, investigation>>

Completed == End(IF anyFailed THEN "failed" ELSE "passed", "completed")

-----------------------------------------------------------------------------
(* The loop *)

\* Out of actions.
OutOfActions ==
  /\ phase = "top"
  /\ actions >= ActionCap
  /\ End("partial", "max_actions")
  /\ UNCHANGED <<target, setting, here, graph, trace, actions, quarantine,
                 backtracks, anyFailed, recording, shrink, investigation>>

\* The stop conditions are asked before every action but the first.
StopConditions(late) ==
  IF actions = 0 THEN {}
  ELSE MetConditions(graph, setting.stopWhen, actions, late)

Stopped(met) == Append(trace, [type |-> "stop", actions |-> actions, met |-> met])

StopWhen ==
  /\ phase = "top"
  /\ actions < ActionCap
  /\ \E late \in BOOLEAN :
       /\ StopConditions(late) # {}
       /\ trace' = Stopped(StopConditions(late))
  /\ Completed
  /\ UNCHANGED <<target, setting, here, graph, actions, quarantine, backtracks,
                 anyFailed, recording, shrink, investigation>>

Observed(state, offered, at) ==
  [type |-> "observation", state |-> state, offered |-> offered, at |-> at]

\* observeCandidateSet: the state and the candidates it offers are recorded.
Observe ==
  /\ phase = "top"
  /\ actions < ActionCap
  /\ \E late \in BOOLEAN : StopConditions(late) = {}
  /\ graph' = RecordOffered(
                RecordState(graph, here, target.obligations[here], actions),
                here, target.offers[here], actions)
  /\ trace' = Append(trace, Observed(here, target.offers[here], actions))
  /\ phase' = "select"
  /\ UNCHANGED <<target, setting, here, actions, quarantine, backtracks, anyFailed,
                 termination, recording, shrink, investigation>>

Allowed(action) == GuardAllows(target.contracts[action], target.views[here])

\* The candidates whose guard matches and that are not in quarantine.
Safe ==
  {a \in {<<here, c>> : c \in target.offers[here]} :
     /\ Allowed(a)
     /\ \/ a \notin DOMAIN quarantine
        \/ /\ actions >= quarantine[a].until
           /\ quarantine[a].timeouts < RevisitBudget}

NothingSafe ==
  /\ phase = "select"
  /\ ~Replaying
  /\ Safe = {}
  /\ trace' = Stopped({})
  /\ Completed
  /\ UNCHANGED <<target, setting, here, graph, actions, quarantine, backtracks,
                 anyFailed, recording, shrink, investigation>>

\* The model of llm-select must be there before the loop begins; a replay does
\* without it.
PreflightFails ==
  /\ phase = "top"
  /\ trace = << >>
  /\ steps = << >>
  /\ setting.strategy = "llm-select"
  /\ End("partial", "llm_error")
  /\ UNCHANGED <<target, setting, here, graph, trace, actions, quarantine,
                 backtracks, anyFailed, recording, shrink, investigation>>

\* The model is asked for a candidate.
Asked ==
  /\ phase = "select"
  /\ ~Replaying
  /\ setting.strategy = "llm-select"
  /\ Safe # {}

\* It may stop the run.
SelectorStops ==
  /\ Asked
  /\ Completed
  /\ trace' = Stopped({})
  /\ UNCHANGED <<target, setting, here, graph, actions, quarantine, backtracks,
                 anyFailed, recording, shrink, investigation>>

\* It may not answer, or answer what is no decision on a candidate it was offered.
SelectorFails ==
  /\ Asked
  /\ End("partial", "llm_error")
  /\ UNCHANGED <<target, setting, here, graph, trace, actions, quarantine,
                 backtracks, anyFailed, recording, shrink, investigation>>

\* A recorded step whose candidate is not offered, or not by this state, or not
\* allowed in it.
Unresolved ==
  /\ phase = "select"
  /\ Replaying
  /\ LET expected == steps[actions + 1].action
     IN \/ /\ expected[2] \notin target.offers[here]
           /\ Diverge("candidate-unresolved")
        \/ /\ expected[2] \in target.offers[here]
           /\ expected[1] # here
           /\ Diverge("candidate-replay-mismatch")
        \/ /\ expected \in {<<here, c>> : c \in target.offers[here]}
           /\ ~Allowed(expected)
           /\ Diverge("scope-or-safety-violation")

\* An action done here: the effect, the new edge, the fingerprint reached, the
\* observation of it when the target is still there, the verdict of the oracles,
\* and the quarantine of one that timed out.
Perform(action) ==
  LET effect == target.effects[action]
      n      == actions + 1
      edged  == RecordTransition(graph, action[1], action[2], effect.status,
                                 effect.post, n)
      posted == IF effect.post = None THEN edged
                ELSE RecordState(edged, effect.post, << >>, n)
      there  == effect.status # "target_lost"
      after  == IF there
                THEN RecordState(posted, effect.next,
                                 target.obligations[effect.next], n)
                ELSE posted
      old    == IF action \in DOMAIN quarantine THEN quarantine[action].timeouts
                                                ELSE 0
  IN /\ here' = effect.next
     /\ graph' = after
     /\ actions' = n
     /\ trace' = trace \o
          <<[type |-> "execution", action |-> action, status |-> effect.status,
             pre |-> here, post |-> effect.post, at |-> n]>>
          \o (IF there THEN <<Observed(effect.next, {}, n)>> ELSE << >>)
          \o <<[type |-> "oracle",
               verdict |-> BuiltIn(target.contracts[action], target.views[here],
                                   target.views[effect.next], there,
                                   effect.status, effect.alarm)]>>
     /\ quarantine' = IF effect.status = "timeout"
                      THEN With(quarantine, action,
                                [timeouts |-> old + 1, until |-> n + 1])
                      ELSE quarantine
     /\ phase' = "judge"
     /\ UNCHANGED <<target, setting, backtracks, anyFailed, termination, recording, shrink,
                    investigation>>

Explore ==
  /\ phase = "select"
  /\ ~Replaying
  /\ \E action \in Selectable(graph, setting.strategy, setting.risk, Safe) :
       Perform(action)

Repeat ==
  /\ phase = "select"
  /\ Replaying
  /\ steps[actions + 1].action \in {<<here, c>> : c \in target.offers[here]}
  /\ Allowed(steps[actions + 1].action)
  /\ Perform(steps[actions + 1].action)

\* The step judged is the last of the trace, and repeats the one of its number.
LastStep == Steps[actions]

Repeated == actions <= Len(steps)

\* The oracles fail the run by a contract, or when the action itself was carried
\* out or refused.
OracleFailed ==
  \/ "fail" \in LastStep.oracle.product
  \/ LastStep.oracle.generic = "fail" /\ LastStep.status \in {"executed", "denied"}

\* executionDivergence and oracleDivergence: the first difference.
Divergence(expected, actual) ==
  IF expected.status # actual.status THEN "execution-status-mismatch"
  ELSE IF expected.pre # actual.pre THEN "pre-fingerprint-mismatch"
  ELSE IF expected.post # actual.post THEN "post-fingerprint-mismatch"
  ELSE IF expected.oracle # actual.oracle THEN "oracle-result-mismatch"
  ELSE "none"

\* A replayed step differs from its recording; one that was denied counts as
\* different even when it was denied before.
StepDiverges ==
  /\ phase = "judge"
  /\ Repeated
  /\ LET differs == Divergence(steps[actions], LastStep)
     IN \/ differs # "none" /\ Diverge(differs)
        \/ /\ differs = "none"
           /\ ~OracleFailed
           /\ LastStep.status = "denied"
           /\ Diverge("none")

Agrees ==
  /\ phase = "judge"
  /\ Repeated => Divergence(steps[actions], LastStep) = "none"

OracleFails ==
  /\ Agrees
  /\ OracleFailed
  /\ End("failed", "machine_failure")
  /\ UNCHANGED <<target, setting, here, graph, trace, actions, quarantine,
                 backtracks, anyFailed, recording, shrink, investigation>>

GoOn ==
  /\ Agrees
  /\ ~OracleFailed
  /\ \/ LastStep.status = "executed"
     \/ LastStep.status = "denied" /\ ~Repeated
  /\ phase' = "top"
  /\ UNCHANGED <<target, setting, loop, recording, shrink, investigation>>

\* recoverAdaptiveFailure: no backtracks are left, or the adapter goes back and
\* the state it reaches must be the one before the action.
Recover ==
  /\ Agrees
  /\ ~OracleFailed
  /\ LastStep.status \notin {"executed", "denied"}
  /\ anyFailed' = TRUE
  /\ LET action  == LastStep.action
         reached == target.recovers[action]
         from    == IF LastStep.post = None THEN LastStep.pre ELSE LastStep.post
         n       == backtracks + 1
         known   == IF reached = None THEN graph
                    ELSE RecordState(graph, reached,
                                     target.obligations[reached], actions)
         matched == reached # None /\ reached = LastStep.pre
         status  == CASE reached = None -> "not_recovered"
                      [] matched        -> "recovered"
                      [] OTHER          -> "diverged"
     IN \/ /\ backtracks >= MaxBacktracks
           /\ End("failed", "machine_failure")
           /\ trace' = Append(trace, [type |-> "max-backtracks"])
           /\ UNCHANGED <<here, graph, backtracks>>
        \/ /\ backtracks < MaxBacktracks
           /\ backtracks' = n
           /\ graph' = RecordControl(known, from, <<action[2], n>>, status,
                                     reached, "backtrack", actions)
           /\ here' = IF reached = None THEN here ELSE reached
           /\ trace' = trace
                \o (IF reached = None THEN << >>
                    ELSE <<Observed(reached, {}, actions)>>)
                \o <<[type |-> "recovery", action |-> <<from, <<action[2], n>> >>,
                      status |-> status, pre |-> from, post |-> reached,
                      at |-> actions]>>
           /\ IF matched THEN phase' = "top" /\ UNCHANGED termination
                         ELSE End("failed", "machine_failure")
  /\ UNCHANGED <<target, setting, actions, quarantine, recording, shrink,
                 investigation>>

-----------------------------------------------------------------------------
(* The reduction of a failing sequence *)

Sequence == [i \in 1..actions |-> [id |-> i, candidate |-> Steps[i].action[2],
                                   status |-> Steps[i].status]]

\* The first step that was not executed; its status is to be reproduced.
FailureStep ==
  LET bad == {i \in 1..actions : Steps[i].status # "executed"}
  IN IF bad = {} THEN None ELSE CHOOSE i \in bad : \A j \in bad : i <= j

\* A replay on the target from its start: the candidates are resolved by their
\* identifier, and the first one not executed decides.
Reproduces(met, sequence, status) ==
  LET run[i \in 1..Len(sequence) + 1, s \in DOMAIN met.offers] ==
        IF i > Len(sequence) THEN FALSE
        ELSE LET c == sequence[i].candidate
             IN /\ c \in met.offers[s]
                /\ LET effect == met.effects[<<s, c>>]
                   IN IF effect.status # "executed" THEN effect.status = status
                      ELSE run[i + 1, effect.next]
  IN run[1, Start]

Goal == Steps[FailureStep].status

\* The identifiers of the steps are their numbers, so what is filtered out by
\* identifier is what was cut out by position.
Without(sequence, from, n) ==
  SubSeq(sequence, 1, from - 1) \o SubSeq(sequence, from + n, Len(sequence))

\* Only a first run that failed at a step of its own is reduced.
BeginShrink ==
  /\ phase = "ended"
  /\ steps = << >>
  /\ IF termination.outcome = "failed" /\ FailureStep # None
     THEN /\ phase' = "shrink"
          /\ shrink' = [current |-> Sequence,
                        chunk |-> IF actions > 1 THEN actions \div 2 ELSE 1,
                        from |-> 1, tries |-> 0]
     ELSE phase' = "recorded" /\ UNCHANGED shrink
  /\ UNCHANGED <<target, setting, loop, recording, investigation>>

\* Mutant of Try: what is left once a part could go is not tried again.
TryOnce ==
  /\ phase = "shrink"
  /\ shrink.chunk >= 1
  /\ shrink.from <= Len(shrink.current)
  /\ LET rest == Without(shrink.current, shrink.from, shrink.chunk)
         good == rest # << >> /\ Reproduces(target, rest, Goal)
     IN shrink' = IF good
                  THEN [shrink EXCEPT !.current = rest, !.chunk = 0,
                                      !.tries = @ + 1]
                  ELSE [shrink EXCEPT !.from = @ + shrink.chunk,
                                      !.tries = IF rest = << >> THEN @ ELSE @ + 1]
  /\ UNCHANGED <<phase, target, setting, loop, recording, investigation>>

\* One candidate of the reduction: a part less.  When it still fails the same
\* way it is kept and the parts of its size are tried again from the first.
Try ==
  /\ phase = "shrink"
  /\ shrink.chunk >= 1
  /\ shrink.from <= Len(shrink.current)
  /\ LET rest == Without(shrink.current, shrink.from, shrink.chunk)
         good == rest # << >> /\ Reproduces(target, rest, Goal)
     IN shrink' = IF good
                  THEN [shrink EXCEPT !.current = rest, !.from = 1,
                                      !.tries = @ + 1]
                  ELSE [shrink EXCEPT !.from = @ + shrink.chunk,
                                      !.tries = IF rest = << >> THEN @ ELSE @ + 1]
  /\ UNCHANGED <<phase, target, setting, loop, recording, investigation>>

\* No part of this size can go: halve it.
Halve ==
  /\ phase = "shrink"
  /\ shrink.chunk >= 1
  /\ shrink.from > Len(shrink.current)
  /\ shrink' = [shrink EXCEPT !.chunk = @ \div 2, !.from = 1]
  /\ UNCHANGED <<phase, target, setting, loop, recording, investigation>>

EndShrink ==
  /\ phase = "shrink"
  /\ shrink.chunk = 0
  /\ phase' = "recorded"
  /\ UNCHANGED <<target, setting, loop, recording, shrink, investigation>>

-----------------------------------------------------------------------------
(* The investigation *)

\* scout: the report of the leads of the recorded trace.
Scout ==
  /\ phase = "recorded"
  /\ investigation.lead = None
  /\ \E leads \in Leads(trace) :
       \E lead \in Reported(leads, setting.model) :
         investigation' = [investigation EXCEPT !.lead = lead]
  /\ UNCHANGED <<phase, target, setting, loop, recording, shrink>>

\* validateAdaptiveReplayTrace: a recording has a step, and no entry of a kind
\* that is unknown to it, as those about the model of llm-select are.
Replayable == actions > 0 /\ setting.strategy # "llm-select"

\* investigate, on the first lead of the report; a lead given by hand is
\* replayed in the same way, and stands for a report without leads.  The replay
\* is a run of its own, on the target as it is by then.
Investigate ==
  /\ phase = "recorded"
  /\ Replayable
  /\ LET lead == IF AllLeads(trace) = {} THEN Given ELSE investigation.lead
     IN /\ lead # None
        /\ IsOfTrace(lead, trace)
        /\ investigation' = [investigation EXCEPT !.lead = lead,
                                                  !.status = "pending"]
  /\ recording' = [target |-> target, steps |-> Steps]
  /\ target' \in Replayed(target)
  /\ phase' = "top"
  /\ here' = Start
  /\ graph' = NewGraph
  /\ trace' = << >>
  /\ actions' = 0
  /\ quarantine' = << >>
  /\ backtracks' = 0
  /\ anyFailed' = FALSE
  /\ termination' = None
  /\ UNCHANGED <<setting, shrink>>

\* The investigation reads the reason of a divergence; that of a denied step has
\* none.
Diverged ==
  \E i \in DOMAIN trace : trace[i].type = "divergence" /\ trace[i].reason # "none"

\* The verdict of runStrictReplay.  The evidence of the replay may be incomplete.
Conclusion(complete) ==
  LET expected     == \E i \in DOMAIN steps : Failing(steps[i])
      actual       == \E i \in DOMAIN Steps : Failing(Steps[i])
      inconclusive == \/ ~complete
                      \/ termination.outcome = "partial"
                      \/ /\ ~Diverged
                         /\ termination.reason # "completed"
                         /\ termination.outcome # "failed"
      diverged     == Diverged \/ (~inconclusive /\ ~expected /\ actual)
  IN IF inconclusive THEN "inconclusive"
     ELSE IF diverged THEN "replay_diverged"
     ELSE IF expected /\ actual THEN "reproduced" ELSE "not_reproduced"

Conclude ==
  /\ phase = "ended"
  /\ steps # << >>
  /\ \E complete \in BOOLEAN :
       investigation' = [investigation EXCEPT !.status = Conclusion(complete)]
  /\ phase' = "closed"
  /\ UNCHANGED <<target, setting, loop, recording, shrink>>

\* Only what was reproduced can be promoted.
Promote ==
  /\ phase = "closed"
  /\ investigation.status = "reproduced"
  /\ ~investigation.promoted
  /\ investigation' = [investigation EXCEPT !.promoted = TRUE]
  /\ UNCHANGED <<phase, target, setting, loop, recording, shrink>>

GuidedNext ==
  \/ OutOfActions \/ StopWhen \/ Observe \/ NothingSafe \/ SelectorStops
  \/ PreflightFails \/ SelectorFails \/ Unresolved \/ Explore \/ Repeat
  \/ StepDiverges \/ OracleFails \/ GoOn \/ Recover
  \/ BeginShrink \/ Try \/ Halve \/ EndShrink
  \/ Scout \/ Investigate \/ Conclude \/ Promote

GuidedSpec == GuidedInit /\ [][GuidedNext]_guidedVars

-----------------------------------------------------------------------------
(* Properties *)

\* The entries of a trace about a move, of an action or of a recovery.
Moves(entries) ==
  {i \in DOMAIN entries : entries[i].type \in {"execution", "recovery"}}

EdgeOfEntry(e) ==
  EdgeOf(e.action[1], e.action[2], e.post,
         IF e.type = "recovery" THEN "backtrack" ELSE ExecutionKind(e.status))

\* Those over one edge, and those with one outcome.
Traversals(entries, edge) == {i \in Moves(entries) : EdgeOfEntry(entries[i]) = edge}

TraversalsWith(entries, edge, status) ==
  {i \in Traversals(entries, edge) : entries[i].status = status}

\* The edges of moves that followed one another, the second from where the first
\* had led.
Followed(entries) ==
  {<<EdgeOfEntry(entries[p[1]]), EdgeOfEntry(entries[p[2]])>> :
     p \in {q \in Moves(entries) \X Moves(entries) :
             /\ q[1] < q[2]
             /\ \A k \in Moves(entries) : k <= q[1] \/ k >= q[2]
             /\ entries[q[1]].post = entries[q[2]].action[1]}}

\* An entry shows a state when it observed it or reports its fingerprint.
Shows(e, state) ==
  \/ e.type = "observation" /\ e.state = state
  \/ e.type = "execution" /\ e.post = state

Sightings(entries, state) == {i \in DOMAIN entries : Shows(entries[i], state)}

\* The candidates that observations of a state have offered.
OfferedBy(entries, state) ==
  UNION {entries[i].offered : i \in {j \in DOMAIN entries :
           entries[j].type = "observation" /\ entries[j].state = state}}

\* Something no earlier entry has shown: a state, a candidate, a transition.
Novel(entries, i) ==
  LET e == entries[i]
      first(state) == \A j \in Sightings(entries, state) : j >= i
  IN \/ /\ e.type = "observation"
        /\ \/ first(e.state)
           \/ \E c \in e.offered : \A j \in 1..i - 1 :
                entries[j].type = "observation" /\ entries[j].state = e.state
                => c \notin entries[j].offered
     \/ /\ e.type \in {"execution", "recovery"}
        /\ \/ e.post # None /\ first(e.post)
           \/ \A j \in Traversals(entries, EdgeOfEntry(e)) : j >= i

\* A run that stops on its novelty plateau has taken the minimum of actions, and
\* none of its last actions showed a state, a candidate or a transition that was
\* new: the one counter four operations of the graph write agrees with the
\* trace (graph.ts:296).
PlateauIsQuiet ==
  \A i \in DOMAIN trace :
    trace[i].type = "stop" =>
      \A c \in trace[i].met :
        c.type = "noveltyPlateau" =>
          /\ trace[i].actions >= c.minActions
          /\ \A j \in 1..i - 1 :
               /\ trace[j].type \in {"observation", "execution", "recovery"}
               /\ trace[j].at > trace[i].actions - c.windowActions
               => ~Novel(trace, j)

\* The graph can be rebuilt from the trace alone: its nodes with their visits
\* and candidates, its transitions with how often each was taken and with which
\* outcomes, and the pairs of transitions that followed one another
\* (graph.ts:154-227).
GraphIsHistory ==
  /\ DOMAIN graph.nodes = {s \in DOMAIN target.offers : Sightings(trace, s) # {}}
  /\ \A s \in DOMAIN graph.nodes :
       /\ graph.nodes[s].visits = Cardinality(Sightings(trace, s))
       /\ graph.nodes[s].known = OfferedBy(trace, s)
  /\ DOMAIN graph.edges = {EdgeOfEntry(trace[i]) : i \in Moves(trace)}
  /\ \A edge \in DOMAIN graph.edges :
       /\ EdgeCount(graph, edge) = Cardinality(Traversals(trace, edge))
       /\ DOMAIN graph.edges[edge].statuses =
            {trace[i].status : i \in Traversals(trace, edge)}
       /\ \A status \in DOMAIN graph.edges[edge].statuses :
            graph.edges[edge].statuses[status] =
              Cardinality(TraversalsWith(trace, edge, status))
  /\ graph.pairs = Followed(trace)
  /\ graph.executed \subseteq graph.offered

\* The states that can be reached from one.
ReachableFrom(s) ==
  LET step(S) == S \cup {target.effects[a].next :
                           a \in {b \in DOMAIN target.effects : b[1] \in S}}
      grow[n \in 0..Cardinality(DOMAIN target.offers)] ==
        IF n = 0 THEN {s} ELSE step(grow[n - 1])
  IN grow[Cardinality(DOMAIN target.offers)]

Guided == {"least-visited-transition", "shortest-to-uncovered",
           "autonomous-uncovered", "risk-weighted-uncovered"}

\* A run that was guided by what is uncovered, on a target in which every
\* action succeeds, none is guarded and all lead back, has tried every action
\* by the time it is out of actions: no weight and no tie keeps it from one
\* (generators.ts:34-52).
EveryActionIsTried ==
  /\ phase = "ended"
  /\ termination.reason = "max_actions"
  /\ steps = << >>
  /\ setting.strategy \in Guided
  /\ \A a \in DOMAIN target.effects :
       /\ target.effects[a].status = "executed"
       /\ Absent(target.contracts[a].enabledWhen)
  /\ \A s \in ReachableFrom(Start) : Start \in ReachableFrom(s)
  => graph.executed =
       {a \in DOMAIN target.effects : a[1] \in ReachableFrom(Start)}

\* An investigation that says reproduced has met a failing step of the recording
\* again, after the same steps with the same outcomes; and on the target of the
\* recording a replay differs from it only when a step was denied
\* (commands/investigation.ts:185-226).
ReproducedIsReal ==
  /\ investigation.status = "reproduced" =>
       \E i \in DOMAIN steps :
         /\ Failing(steps[i])
         /\ i <= actions
         /\ \A j \in 1..i : Steps[j] = steps[j]
  /\ target = recording.target =>
       \A i \in DOMAIN trace :
         trace[i].type = "divergence" => trace[i].reason = "none"

\* A first run that failed has a lead of it, the steps a lead names did fail, and
\* an investigation that says reproduced has met every one of them again, unless
\* its replay was cut short: the verdict on a lead looks at any failing step, and
\* not at those of its lead (commands/investigation.ts:112-120, scouting.ts:49).
LeadIsMet ==
  /\ phase = "recorded" /\ termination.outcome = "failed" => AllLeads(trace) # {}
  /\ phase # "recorded" /\ investigation.lead # None =>
       \A n \in investigation.lead.sources :
         /\ n \in DOMAIN steps
         /\ Failing(steps[n])
         /\ investigation.status = "reproduced" /\ n <= actions =>
              Steps[n] = steps[n]

\* A reduced sequence still fails as the run did, and with any one step less it
\* does not (input.ts:120-138).
ShrunkIsMinimal ==
  phase = "shrink" /\ shrink.chunk = 0 =>
    /\ Reproduces(target, shrink.current, Goal) \/ shrink.current = Sequence
    /\ \A i \in DOMAIN shrink.current :
         LET rest == Without(shrink.current, i, 1)
         IN rest # << >> => ~Reproduces(target, rest, Goal)

\* Whatever a run did, the readers of its evidence accept the graph and the
\* coverage it leaves, which they check against each other by counts and links of
\* their own (catalog-graph.ts:96-187).
EvidenceIsReadable ==
  phase = "ended" => ReadableGraph(graph) /\ ReadableReport(Report(graph), graph)

\* The graph that guides and stops a run is the history in its trace, and what is
\* left of it can be read again.
GraphInv == GraphIsHistory /\ PlateauIsQuiet /\ EvidenceIsReadable

\* What an investigation says of a recorded run, and of a lead drawn from it, its
\* own replay has shown.
InvestigationInv == ReproducedIsReal /\ LeadIsMet

=============================================================================
