----------------------------- MODULE MCGuidedRun -----------------------------
(* The targets on which GuidedRun is checked. *)
EXTENDS GuidedRun, MCCombinations

CONSTANTS s1, s2, s3, a, b

Pairs(offers) == {p \in (DOMAIN offers) \X {a, b} : p[2] \in offers[p[1]]}

Effect(status, s, post, alarm) ==
  [status |-> status, next |-> s, post |-> post, alarm |-> alarm]

Done(s) == Effect("executed", s, s, FALSE)

NoContract ==
  [enabledWhen |-> << >>, ensures |-> << >>, invariants |-> << >>]

Target(offers, effects) ==
  [offers |-> offers, effects |-> effects,
   recovers |-> [p \in DOMAIN effects |-> p[1]],
   obligations |-> [s \in DOMAIN offers |->
                      [o |-> IF s = Start THEN "unmet" ELSE "met"]],
   views |-> [s \in DOMAIN offers |->
                [complete |-> TRUE, facts |-> [state |-> s]]],
   contracts |-> [p \in DOMAIN effects |-> NoContract]]

\* Ways to connect three states by five actions that all succeed.
Wide == [s \in {s1, s2, s3} |-> IF s = s3 THEN {a} ELSE {a, b}]

Sound == {Target(Wide, [p \in Pairs(Wide) |-> Done(next[p])]) :
            next \in {f \in [Pairs(Wide) -> {s1, s2, s3}] :
                       /\ f[<<s1, a>>] = s2
                       /\ f[<<s2, a>>] \in {s2, s3}
                       /\ f[<<s3, a>>] = s1}}

\* Two states, and one action that goes wrong in some way.
Small == [s \in {s1, s2} |-> IF s = s1 THEN {a, b} ELSE {a}]

Wrong(p) ==
  {Effect("denied", p[1], p[1], FALSE), Effect("timeout", s2, s2, FALSE),
   Effect("timeout", p[1], None, FALSE), Effect("target_lost", s1, None, FALSE),
   Effect("executed", s1, s1, TRUE)}

Simple == {Target(Small, [p \in Pairs(Small) |-> Done(next[p])]) :
             next \in {f \in [Pairs(Small) -> {s1, s2}] : f[<<s1, a>>] = s2}}

With1(t, p, e) == [t EXCEPT !.effects[p] = e]

Faulty == UNION {{With1(t, p, e) : e \in Wrong(p)} :
                   t \in Simple, p \in Pairs(Small)}

\* Of those, some whose recovery fails or ends elsewhere.
Unrecovered ==
  {[t EXCEPT !.recovers = [p \in DOMAIN t.effects |-> r]] :
     t \in {u \in Faulty : /\ u.effects[<<s1, b>>].status = "timeout"
                          /\ u.effects[<<s2, a>>].next = s1},
     r \in {None, s2}}

\* Of those without a fault, one action with a contract.
Contracts ==
  {[NoContract EXCEPT !.enabledWhen = [state |-> s2]],
   [NoContract EXCEPT !.ensures = [state |-> s2]],
   [NoContract EXCEPT !.ensures = [title |-> s1]],
   [NoContract EXCEPT !.ensures = [state |-> s1], !.invariants = [state |-> s1]]}

Contracted ==
  {[t EXCEPT !.contracts[<<s1, b>>] = c] :
     t \in {u \in Simple : u.effects[<<s1, b>>].next = s1}, c \in Contracts}

MCTargets == Sound \cup Simple \cup Faulty \cup Unrecovered \cup Contracted

\* Only a run on a small target is replayed: on the same target, with one
\* action in order again, or moving on after its fingerprint was taken, with one
\* that is guarded, or with one that is not offered any more.
MCReplayed(t) ==
  IF t \in Sound THEN {}
  ELSE {t, With1(t, <<s1, a>>, Done(s1)), With1(t, <<s1, b>>, Done(s1)),
        With1(t, <<s1, b>>, [Done(s1) EXCEPT !.next = s2]),
        [t EXCEPT !.contracts[<<s1, a>>].enabledWhen = [state |-> s2]],
        [t EXCEPT !.offers[s1] = {a}]}

Plateau == [type |-> "noveltyPlateau", windowActions |-> 2, minActions |-> 3]
Actioned == [type |-> "actionCoverage", atLeast |-> 100]
Late == [type |-> "durationMs"]
Met == [type |-> "obligationCoverage", atLeast |-> 60]

Risky == [c \in {a, b} |-> IF c = a THEN 10 ELSE 0]

MCSettings ==
  {[strategy |-> "random", risk |-> Risky, model |-> FALSE,
    stopWhen |-> [any |-> {Late, Plateau}, all |-> {}]]}
  \cup
  {[strategy |-> x, risk |-> Risky, model |-> x = "weighted-random",
    stopWhen |-> [any |-> {}, all |-> {Actioned, Plateau, Met}]] :
      x \in {"weighted-random", "llm-select"}}
  \cup
  {[strategy |-> x, risk |-> [c \in {a, b} |-> IF c = a THEN 10 ELSE 1],
    model |-> FALSE, stopWhen |-> [any |-> {}, all |-> {Late}]] : x \in Guided}
=============================================================================
