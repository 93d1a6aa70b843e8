------------------------------ MODULE StateGraph ------------------------------
(***************************************************************************)
(* The state graph of an adaptive run (src/adaptive/graph.ts) and the      *)
(* generators that read it (src/adaptive/generators.ts), as operators on   *)
(* the value of the graph.                                                 *)
(*                                                                         *)
(* A graph is a record: the nodes (fingerprints seen) and the edges        *)
(* (transitions observed, with how often), the actions offered and         *)
(* executed, the pairs of consecutive edges, the edge recorded last (a set *)
(* of at most one), the action count of the last novelty, and the          *)
(* revision.  Latencies, digests and references to evidence are left out.  *)
(***************************************************************************)
EXTENDS Integers, FiniteSets

CONSTANT None   \* an absent fingerprint

\* An action of the target is a pair of the fingerprint that offers it and the
\* candidate; an edge adds where it led and of which kind it is.
EdgeOf(from, candidate, to, kind) ==
  [from |-> from, candidate |-> candidate, to |-> to, kind |-> kind]

ExecutionKind(status) == IF status \in {"denied", "timeout"} THEN status
                                                             ELSE "action"

NewGraph ==
  [nodes |-> << >>, edges |-> << >>, offered |-> {}, executed |-> {},
   pairs |-> {}, last |-> {}, novel |-> 0, revision |-> 0, actionCount |-> 0]

With(f, x, v) == [y \in DOMAIN f \cup {x} |-> IF y = x THEN v ELSE f[y]]

\* Larger of the action counts.
Later(i, j) == IF i > j THEN i ELSE j

\* A fingerprint not seen before is a novelty.
NewNode(g, fp, obligations, at) ==
  [g EXCEPT !.nodes = With(@, fp, [first |-> at, last |-> at, visits |-> 1,
                                   known |-> {}, obligations |-> obligations]),
            !.revision = @ + 1,
            !.novel = at]

\* What was known of the obligations, and what is known now.
Merged(old, new) ==
  [o \in DOMAIN old \cup DOMAIN new |-> IF o \in DOMAIN new THEN new[o] ELSE old[o]]

\* A known one is visited; news of an obligation is a novelty, too.
Visit(g, fp, obligations, at) ==
  LET node   == g.nodes[fp]
      merged == Merged(node.obligations, obligations)
      news   == merged # node.obligations
  IN [g EXCEPT !.nodes = With(@, fp, [first |-> node.first, last |-> Later(node.last, at),
                                      visits |-> node.visits + 1, known |-> node.known,
                                      obligations |-> merged]),
               !.revision = IF news THEN @ + 1 ELSE @,
               !.novel = IF news THEN at ELSE @]

RecordState(g, fp, obligations, at) ==
  IF fp \in DOMAIN g.nodes THEN Visit(g, fp, obligations, at)
                           ELSE NewNode(g, fp, obligations, at)

\* The candidates offered by one observation, all of the same fingerprint.
RecordOffered(g, fp, candidates, at) ==
  LET fresh == {c \in candidates : <<fp, c>> \notin g.offered}
      node  == g.nodes[fp]
      news  == fp \in DOMAIN g.nodes /\ ~ candidates \subseteq node.known
  IN [g EXCEPT
        !.offered = @ \cup {<<fp, c>> : c \in candidates},
        !.nodes = IF news
                  THEN With(@, fp, [first |-> node.first, last |-> Later(node.last, at),
                                    visits |-> node.visits,
                                    known |-> node.known \cup candidates,
                                    obligations |-> node.obligations])
                  ELSE @,
        !.revision = @ + Cardinality(fresh),
        !.novel = IF fresh # {} THEN at ELSE @]

\* An edge with one outcome more.
Counted(edges, edge, status) ==
  LET old   == IF edge \in DOMAIN edges THEN edges[edge]
                                        ELSE [count |-> 0, statuses |-> << >>]
      times == IF status \in DOMAIN old.statuses THEN old.statuses[status] ELSE 0
  IN With(edges, edge, [count |-> old.count + 1,
                        statuses |-> With(old.statuses, status, times + 1)])

\* Mutant of Follow: the edge recorded last always counts as followed.
FollowAny(g, edge, status) ==
  [g EXCEPT !.edges = Counted(@, edge, status),
            !.pairs = @ \cup {<<l, edge>> : l \in g.last},
            !.last = {edge},
            !.revision = @ + 1]

\* What recordTransition and recordControlTransition have in common: the edge
\* is counted, and it follows the edge recorded last when that one led here.
Follow(g, edge, status) ==
  [g EXCEPT !.edges = Counted(@, edge, status),
            !.pairs = @ \cup {<<l, edge>> : l \in {e \in g.last : e.to = edge.from}},
            !.last = {edge},
            !.revision = @ + 1]

\* An executed action; a new edge or a new pair is a novelty.
RecordTransition(g, from, candidate, status, to, at) ==
  LET edge == EdgeOf(from, candidate, to, ExecutionKind(status))
      next == Follow(g, edge, status)
  IN [next EXCEPT !.actionCount = Later(@, at),
                  !.executed = @ \cup {<<from, candidate>>},
                  !.novel = IF next.pairs # g.pairs \/ edge \notin DOMAIN g.edges
                            THEN at ELSE @]

\* A recovery; here only a new edge is a novelty.
RecordControl(g, from, candidate, status, to, kind, at) ==
  LET edge == EdgeOf(from, candidate, to, kind)
      next == Follow(g, edge, status)
  IN [next EXCEPT !.novel = IF edge \notin DOMAIN g.edges THEN at ELSE @]

-----------------------------------------------------------------------------
(* Reading the graph *)

Visits(g, fp) == IF fp \in DOMAIN g.nodes THEN g.nodes[fp].visits ELSE 0

Total(f) ==
  LET sum[S \in SUBSET DOMAIN f] ==
        IF S = {} THEN 0
        ELSE LET x == CHOOSE x \in S : TRUE IN f[x] + sum[S \ {x}]
  IN sum[DOMAIN f]

EdgeCount(g, edge) == g.edges[edge].count

TransitionVisits(g, action) ==
  LET own == {e \in DOMAIN g.edges :
                e.from = action[1] /\ e.candidate = action[2]}
  IN Total([e \in own |-> EdgeCount(g, e)])

Uncovered(g, action) == action \notin g.executed

\* Numerator and denominator of each metric.
Coverage(g) ==
  LET edges    == DOMAIN g.edges
      possible == {p \in edges \X edges : p[1].to # None /\ p[2].from = p[1].to}
      back(e)  == \E r \in edges : e.to # None /\ r.from = e.to /\ r.to = e.from
      claims   == UNION {{<<fp, o>> : o \in DOMAIN g.nodes[fp].obligations} :
                           fp \in DOMAIN g.nodes}
      met      == {c \in claims : g.nodes[c[1]].obligations[c[2]] = "met"}
      size     == Cardinality(DOMAIN g.nodes)
  IN [state      |-> <<size, size>>,
      action     |-> <<Cardinality(g.executed), Cardinality(g.offered)>>,
      pair       |-> <<Cardinality(g.pairs \cap possible),
                       Cardinality(possible)>>,
      roundTrip  |-> <<Cardinality({e \in edges : back(e)}),
                       Cardinality(edges)>>,
      obligation |-> <<Cardinality(met), Cardinality(claims)>>]

\* The ratios a condition may ask for; without obligations theirs is full.
Measure(g, type) ==
  LET c == Coverage(g)
      none == c.obligation[2] = 0
  IN CASE type = "stateCoverage"      -> c.state
       [] type = "obligationCoverage" -> IF none THEN <<1, 1>> ELSE c.obligation
       [] OTHER                       -> c.action

\* Thresholds are percentages.  `late` says whether the time is up.
Matches(g, condition, actions, late) ==
  CASE condition.type = "noveltyPlateau" ->
         /\ actions >= condition.minActions
         /\ actions - g.novel >= condition.windowActions
    [] condition.type = "durationMs" -> late
    [] OTHER ->
         LET m == Measure(g, condition.type)
         IN \/ m[2] > 0 /\ m[1] * 100 >= condition.atLeast * m[2]
            \/ condition.atLeast = 0

\* The conditions met, empty when the run goes on.
MetConditions(g, stopWhen, actions, late) ==
  LET met(S) == {c \in S : Matches(g, c, actions, late)}
  IN IF met(stopWhen.any) # {} THEN met(stopWhen.any)
     ELSE IF met(stopWhen.all) = stopWhen.all THEN stopWhen.all
     ELSE {}

-----------------------------------------------------------------------------
(* Generators *)

Best(score) == {a \in DOMAIN score : \A b \in DOMAIN score : score[a] >= score[b]}

Score(g, strategy, risk, action) ==
  LET uncovered == IF Uncovered(g, action) THEN 1 ELSE 0
      taken     == TransitionVisits(g, action)
      visits    == Visits(g, action[1])
  IN CASE strategy = "least-visited-transition" -> -taken
       [] strategy = "shortest-to-uncovered" ->
            uncovered * 10000 - visits * 10 - taken
       [] strategy = "autonomous-uncovered" ->
            uncovered * 1000000 + (IF taken = 0 THEN 100000 ELSE 0)
              + (IF visits <= 1 THEN 10000 ELSE 0)
              + risk[action[2]] * 100 - taken * 1000 - visits * 10
       [] OTHER -> uncovered * risk[action[2]] * 100 - taken

\* Mutant of Selectable: the best action is the one taken most.
SelectableWorst(g, strategy, risk, actions) ==
  CASE strategy \in {"random", "llm-select"} -> actions
    [] strategy = "weighted-random" ->
         LET heavy == {a \in actions : risk[a[2]] > 0}
         IN IF heavy = {} THEN actions ELSE heavy
    [] OTHER -> Best([a \in actions |-> -Score(g, strategy, risk, a)])

\* The actions a strategy may select: the random draw picks any of them.
Selectable(g, strategy, risk, actions) ==
  CASE strategy \in {"random", "llm-select"} -> actions
    [] strategy = "weighted-random" ->
         LET heavy == {a \in actions : risk[a[2]] > 0}
         IN IF heavy = {} THEN actions ELSE heavy
    [] OTHER -> Best([a \in actions |-> Score(g, strategy, risk, a)])
=============================================================================
