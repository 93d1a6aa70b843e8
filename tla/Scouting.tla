------------------------------- MODULE Scouting -------------------------------
(***************************************************************************)
(* What scouting makes of the trace of an adaptive run                     *)
(* (src/adaptive/scouting.ts and commands/scouting.ts): the signals in it, *)
(* their grouping into leads, the ranking, and the lead the report puts    *)
(* first, which is the one an investigation of the report takes up.        *)
(*                                                                         *)
(* A signal is known by its kind, severity, fingerprint and the number of  *)
(* the step it is about.  The entries of an adaptive trace hold no failure *)
(* signature, target changes or uncovered items, so the kinds that are     *)
(* read from those never come from one.                                    *)
(***************************************************************************)
EXTENDS StateGraph, Sequences

CONSTANT LeadCap    \* extensions.scouting.leadCap

ASSUME LeadCapAssumption == LeadCap \in 1..3

\* A lead given by hand: a lead file names no run, and is taken as it is when it
\* refers to any entry of the trace.
Given == [kind |-> "given", fingerprint |-> None, sources |-> {}, priority |-> 0]

\* The number of the step an entry belongs to.
StepOf(trace, i) ==
  Cardinality({j \in 1..i : trace[j].type = "execution"})

\* Where an execution ended, or where it began.
Fingerprint(e) == IF e.post # None THEN e.post ELSE e.pre

Signal(trace, i, kind, severity, fingerprint) ==
  [kind |-> kind, severity |-> severity, fingerprint |-> fingerprint,
   source |-> StepOf(trace, i)]

\* Mutant of Signals: the verdict of an oracle is taken for one on the next step.
SignalsLate(trace) ==
  LET executions(status) ==
        {i \in DOMAIN trace : /\ trace[i].type = "execution"
                              /\ trace[i].status = status}
      failures == {i \in DOMAIN trace : /\ trace[i].type = "oracle"
                                        /\ \/ trace[i].verdict.generic = "fail"
                                           \/ "fail" \in trace[i].verdict.product}
  IN {Signal(trace, i, "timeout", "major", Fingerprint(trace[i])) :
        i \in executions("timeout")}
     \cup {Signal(trace, i, "safety_refusal", "warning", Fingerprint(trace[i])) :
             i \in executions("denied")}
     \cup {[Signal(trace, i, "oracle_failure", "major", None) EXCEPT
              !.source = @ + 1] : i \in failures}

\* signalsFromTrace: an action that timed out or was refused, and the verdict of
\* an oracle that failed; the entry of a verdict has no fingerprint.
Signals(trace) ==
  LET executions(status) ==
        {i \in DOMAIN trace : /\ trace[i].type = "execution"
                              /\ trace[i].status = status}
      failures == {i \in DOMAIN trace : /\ trace[i].type = "oracle"
                                        /\ \/ trace[i].verdict.generic = "fail"
                                           \/ "fail" \in trace[i].verdict.product}
  IN {Signal(trace, i, "timeout", "major", Fingerprint(trace[i])) :
        i \in executions("timeout")}
     \cup {Signal(trace, i, "safety_refusal", "warning", Fingerprint(trace[i])) :
             i \in executions("denied")}
     \cup {Signal(trace, i, "oracle_failure", "major", None) : i \in failures}

PriorityBySeverity ==
  [info |-> 10, warning |-> 40, major |-> 70, critical |-> 100]

Group(signals, signal) ==
  {s \in signals : s.kind = signal.kind /\ s.fingerprint = signal.fingerprint}

LeadOf(group) ==
  LET one == CHOOSE s \in group : TRUE
      priorities == {PriorityBySeverity[s.severity] : s \in group}
  IN [kind |-> one.kind, fingerprint |-> one.fingerprint,
      sources |-> {s.source : s \in group},
      priority |-> CHOOSE p \in priorities : \A q \in priorities : q <= p]

\* Every group of signals alike is a lead.
AllLeads(trace) ==
  LET signals == Signals(trace) IN {LeadOf(Group(signals, s)) : s \in signals}

\* groupLeadsRuleOnly keeps the first of them; leads of one priority are ordered
\* by a hash, so any of them may be kept.
Leads(trace) ==
  LET all == AllLeads(trace)
      kept(S) == \A kept \in S, other \in all \ S : other.priority <= kept.priority
      n == IF Cardinality(all) < LeadCap THEN Cardinality(all) ELSE LeadCap
  IN {S \in SUBSET all : Cardinality(S) = n /\ kept(S)}

Foremost(leads) ==
  {lead \in leads : \A other \in leads : other.priority <= lead.priority}

\* What a model may answer: one of the leads, with a priority of its own.
Answers(leads) == leads \X {0, 100}

\* The leads once it has answered.
Rescored(leads, answer) ==
  (leads \ {answer[1]}) \cup {[answer[1] EXCEPT !.priority = answer[2]]}

\* scoutCommand: the leads a report may put first.  Without a model, and when its
\* answer is refused, the order of the rules stands.
Reported(leads, model) ==
  Foremost(leads)
    \cup (IF model
          THEN UNION {Foremost(Rescored(leads, answer)) : answer \in Answers(leads)}
          ELSE {})

\* assertLeadForReplay: the signals of the lead are in the trace and make up one
\* group; its digest does not cover the priority.
IsOfTrace(lead, trace) ==
  \/ lead = Given
  \/ \E own \in AllLeads(trace) : own = [lead EXCEPT !.priority = own.priority]
=============================================================================
