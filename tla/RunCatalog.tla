------------------------------- MODULE RunCatalog -------------------------------
(***************************************************************************)
(* The readers of the evidence of an adaptive run (src/runs/               *)
(* catalog-graph.ts): `runs show`, `runs list`, `runs compare` and the     *)
(* reports take a run only if its state graph is whole and its coverage    *)
(* report agrees with the graph, both read independently of the code that  *)
(* wrote them.                                                             *)
(*                                                                         *)
(* A stored graph keeps what StateGraph keeps; a coverage report adds to   *)
(* the metrics how many states, transitions, pairs and round trips the     *)
(* writer counted.  Ratios are those of their numbers.                     *)
(***************************************************************************)
EXTENDS StateGraph

\* coverage.json, as the run writes it (evidence.ts:84, graph.ts:263-286).
Report(g) ==
  LET c == Coverage(g)
  IN [revision |-> g.revision, metrics |-> c,
      states |-> Cardinality(DOMAIN g.nodes), transitions |-> Cardinality(DOMAIN g.edges),
      pairs |-> c.pair[1], roundTrips |-> c.roundTrip[1]]

\* canonicalState.
ReadableNode(node) ==
  /\ node.last >= node.first
  /\ node.visits >= 1
  /\ \A o \in DOMAIN node.obligations : node.obligations[o] \in {"met", "unmet", "unknown"}

ReadableEdge(g, edge) ==
  /\ edge.kind \in {"action", "denied", "timeout", "recovery", "reset", "backtrack"}
  /\ EdgeCount(g, edge) >= 1
  /\ edge.from \in DOMAIN g.nodes
  /\ edge.to \in DOMAIN g.nodes \cup {None}

\* A pair names two edges of the graph, the second where the first has led.
ReadablePair(g, pair) ==
  /\ pair[1] \in DOMAIN g.edges /\ pair[2] \in DOMAIN g.edges
  /\ pair[1].to # None /\ pair[1].to = pair[2].from

\* parseGraph.
ReadableGraph(g) ==
  /\ g.revision >= 0
  /\ \A fp \in DOMAIN g.nodes : ReadableNode(g.nodes[fp])
  /\ \A edge \in DOMAIN g.edges : ReadableEdge(g, edge)
  /\ \A pair \in g.pairs : ReadablePair(g, pair)

\* The edges of a graph that some other edge takes back.
RoundTrips(edges) ==
  {e \in edges : e.to # None /\ \E r \in edges : r.from = e.to /\ r.to = e.from}

\* coverageMetric.
ReadableMetric(m) == m[1] >= 0 /\ m[1] <= m[2]

\* parseCoverage.
ReadableReport(report, g) ==
  /\ report.revision = g.revision
  /\ report.states = Cardinality(DOMAIN g.nodes)
  /\ report.transitions = Cardinality(DOMAIN g.edges)
  /\ report.pairs = Cardinality(g.pairs)
  /\ report.roundTrips = Cardinality(RoundTrips(DOMAIN g.edges))
  /\ \A name \in DOMAIN report.metrics : ReadableMetric(report.metrics[name])
=============================================================================
