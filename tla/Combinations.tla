------------------------------ MODULE Combinations ------------------------------
(***************************************************************************)
(* `combo gen` and `combo verify` (src/adaptive/combinations): a suite of  *)
(* cases, each a value for every factor of a model, that satisfies the     *)
(* constraints and covers every feasible pair of values, and every         *)
(* feasible tuple of the strength asked for within one group of factors.   *)
(* The v2 generator grows the suite factor by factor, the v1 generator     *)
(* takes the best of all cases again and again.                            *)
(*                                                                         *)
(* A factor is its place in the order of the identifiers and its values    *)
(* are numbers; an assignment is a function from factors to values.  The   *)
(* code orders ties by a digest of the seed, so that a generator is here   *)
(* the set of the suites that some order gives.                            *)
(***************************************************************************)
EXTENDS Naturals, Sequences, FiniteSets, FiniteSetsExt, Functions

Factors(m) == DOMAIN m.values

Values(m, f) == 1..m.values[f]

With(row, f, v) == [g \in DOMAIN row \cup {f} |-> IF g = f THEN v ELSE row[g]]

-----------------------------------------------------------------------------
(* Constraints *)

\* What a constraint compares with: a number, or the value of another factor.
Value(c, row) == IF c.ref THEN row[c.value] ELSE c.value

Known(c, row) == c.ref => c.value \in DOMAIN row

\* evaluateConstraint, on an assignment of every factor.
RECURSIVE Holds(_, _)
Holds(c, row) ==
  CASE c.op = "allOf"   -> \A i \in DOMAIN c.items : Holds(c.items[i], row)
    [] c.op = "anyOf"   -> \E i \in DOMAIN c.items : Holds(c.items[i], row)
    [] c.op = "not"     -> ~Holds(c.left, row)
    [] c.op = "implies" -> Holds(c.left, row) => Holds(c.right, row)
    [] c.op = "eq"      -> row[c.factor] = Value(c, row)
    [] c.op = "neq"     -> row[c.factor] # Value(c, row)
    [] c.op = "in"      -> \E i \in DOMAIN c.values :
                             row[c.factor] = Value(c.values[i], row)
    [] c.op = "notIn"   -> \A i \in DOMAIN c.values :
                             row[c.factor] # Value(c.values[i], row)

\* Three values: a constraint on some of the factors may be undecided.
Not(x) == CASE x = "true" -> "false" [] x = "false" -> "true" [] OTHER -> x

Decide(yes, no) == IF yes THEN "true" ELSE IF no THEN "false" ELSE "unknown"

Equal(c, row) ==
  LET decided == c.factor \in DOMAIN row /\ Known(c, row)
  IN Decide(decided /\ row[c.factor] = Value(c, row),
            decided /\ row[c.factor] # Value(c, row))

Among(c, row) ==
  LET decided == c.factor \in DOMAIN row
      known   == {i \in DOMAIN c.values : Known(c.values[i], row)}
      equal   == {i \in known : Value(c.values[i], row) = row[c.factor]}
  IN Decide(decided /\ equal # {},
            decided /\ known = DOMAIN c.values /\ equal = {})

\* evaluateConstraintPartial, on an assignment of some factors.
RECURSIVE Partial(_, _)
Partial(c, row) ==
  LET is(i, x) == Partial(c.items[i], row) = x
      left     == Partial(c.left, row)
      right    == Partial(c.right, row)
  IN CASE c.op = "allOf" -> Decide(\A i \in DOMAIN c.items : is(i, "true"),
                                   \E i \in DOMAIN c.items : is(i, "false"))
       [] c.op = "anyOf" -> Decide(\E i \in DOMAIN c.items : is(i, "true"),
                                   \A i \in DOMAIN c.items : is(i, "false"))
       [] c.op = "not"     -> Not(left)
       [] c.op = "implies" -> Decide(left = "false" \/ right = "true",
                                     left = "true" /\ right = "false")
       [] c.op = "eq"      -> Equal(c, row)
       [] c.op = "neq"     -> Not(Equal(c, row))
       [] c.op = "in"      -> Among(c, row)
       [] c.op = "notIn"   -> Not(Among(c, row))

Satisfies(m, row) == \A c \in m.constraints : Holds(c, row)

\* The first extension of a partial assignment, in the order of factors and
\* values, that satisfies the constraints; empty when there is none.
RECURSIVE Visit(_, _, _)
Visit(m, f, row) ==
  IF \E c \in m.constraints : Partial(c, row) = "false" THEN << >>
  ELSE IF f \notin Factors(m) THEN IF Satisfies(m, row) THEN row ELSE << >>
  ELSE IF f \in DOMAIN row THEN Visit(m, f + 1, row)
  ELSE LET leads == {v \in Values(m, f) : Visit(m, f + 1, With(row, f, v)) # << >>}
       IN IF leads = {} THEN << >> ELSE Visit(m, f + 1, With(row, f, Min(leads)))

Complete(m, row) == Visit(m, 1, row)

Completes(m, row) == Complete(m, row) # << >>

-----------------------------------------------------------------------------
(* Tuples *)

\* The sets of factors to cover together: pairs, and the tuples of a group.
Specs(m, strength, group) ==
  kSubset(2, Factors(m)) \cup IF strength > 2 THEN kSubset(strength, group) ELSE {}

\* v2 takes no tuple of more than two factors unless a group is named.
SpecsV2(m, o) ==
  Specs(m, o.strength, {f \in Factors(m) : o.group # 0 /\ m.group[f] = o.group})

\* v1, and the keys of a case, take all factors for the group then.
SpecsV1(m, o) ==
  Specs(m, o.strength, {f \in Factors(m) : o.group = 0 \/ m.group[f] = o.group})

AllRows(m) ==
  {row \in [Factors(m) -> 1..Max(Range(m.values))] :
     \A f \in Factors(m) : row[f] \in Values(m, f)}

ValidRows(m) == {row \in AllRows(m) : Satisfies(m, row)}

TupleKeys(m, o, row) == {Restrict(row, s) : s \in SpecsV1(m, o)}

RequiredV1(m, o) == UNION {TupleKeys(m, o, row) : row \in ValidRows(m)}

\* requiredTuplesV2: those that can be completed.
RequiredV2(m, o) ==
  {t \in {Restrict(row, s) : row \in AllRows(m), s \in SpecsV2(m, o)} : Completes(m, t)}

Covers(row, tuple) == \A f \in DOMAIN tuple : f \in DOMAIN row /\ row[f] = tuple[f]

\* What is left once a row is there.
Uncover(left, row) == {t \in left : ~Covers(row, t)}

-----------------------------------------------------------------------------
(* The generators.  A growth is the rows so far, the tuples none of them     *)
(* covers, and an end: "done", or the error that ends the generator.         *)

Ended(g, end) == [g EXCEPT !.end = end]

Grown(g, row) ==
  [g EXCEPT !.rows = Append(@, row), !.pending = Uncover(@, row)]

\* The first of the assignments, in the order of their values.
Before(row, other) ==
  \E f \in DOMAIN row : row[f] < other[f] /\ \A g \in 1..f - 1 : row[g] = other[g]

First(S) == CHOOSE row \in S : \A other \in S \ {row} : Before(row, other)

\* The rows that take most off what is pending.
Foremost(pending, S) ==
  LET left(row) == Cardinality(Uncover(pending, row))
  IN {row \in S : \A other \in S : left(row) <= left(other)}

\* v1: the first of the cases that cover most of what is left.
RECURSIVE Greedy(_, _, _)
Greedy(valid, budget, g) ==
  LET next == Grown(g, First(Foremost(g.pending, valid)))
  IN IF g.pending = {} THEN g
     ELSE IF Len(next.rows) > budget THEN Ended(g, "over-budget")
     ELSE Greedy(valid, budget, next)

LegacySuites(m, o) ==
  IF ValidRows(m) = {} THEN {[rows |-> <<>>, pending |-> {}, end |-> "unsatisfiable"]}
  ELSE {Greedy(ValidRows(m), o.budget,
               [rows |-> <<>>, pending |-> RequiredV1(m, o), end |-> "done"])}

\* v2 begins with the first two factors in full, as far as a row completes.
RECURSIVE Seeded(_, _, _)
Seeded(pairs, budget, g) ==
  LET next == Grown(g, First(pairs))
  IN IF pairs = {} THEN g
     ELSE IF Len(next.rows) > budget THEN Ended(g, "over-budget")
     ELSE Seeded(pairs \ {First(pairs)}, budget, next)

\* Every row gets the value of the next factor that covers most.
RECURSIVE Horizontal(_, _, _, _)
Horizontal(m, f, i, g) ==
  IF i > Len(g.rows) THEN {g}
  ELSE LET next == {r \in {With(g.rows[i], f, v) : v \in Values(m, f)} : Completes(m, r)}
       IN IF next = {} THEN {Ended(g, "stuck")}
          ELSE UNION {Horizontal(m, f, i + 1,
                        [g EXCEPT !.rows[i] = row, !.pending = Uncover(@, row)]) :
                        row \in Foremost(g.pending, next)}

\* Then a tuple of the factors so far that is still pending gets its own row.
RECURSIVE Vertical(_, _, _, _)
Vertical(m, f, budget, g) ==
  LET due == {t \in g.pending : \A h \in DOMAIN t : h <= f}
  IN IF due = {} \/ g.end # "done" THEN {g}
     ELSE IF Len(g.rows) >= budget THEN {Ended(g, "over-budget")}
     ELSE UNION {Vertical(m, f, budget, Grown(g, Restrict(Complete(m, t), 1..f))) :
                   t \in due}

RECURSIVE GrowFrom(_, _, _, _)
GrowFrom(m, f, budget, g) ==
  IF f \notin Factors(m) \/ g.end # "done" THEN {g}
  ELSE UNION {UNION {GrowFrom(m, f + 1, budget, v) : v \in Vertical(m, f, budget, h)} :
                h \in Horizontal(m, f, 1, g)}

\* Equal rows are one case, and all that is required must be covered.
Checked(required, g) ==
  LET first == {i \in DOMAIN g.rows : \A j \in 1..i - 1 : g.rows[j] # g.rows[i]}
      cases == [n \in 1..Cardinality(first) |->
                  g.rows[CHOOSE i \in first : Cardinality({j \in first : j <= i}) = n]]
  IN [g EXCEPT !.rows = cases,
               !.end = IF @ = "done" /\ \E t \in required :
                            \A i \in DOMAIN cases : ~Covers(cases[i], t)
                       THEN "uncovered" ELSE @]

IpogSuites(m, o) ==
  LET required == RequiredV2(m, o)
      pairs    == {r \in Values(m, 1) \X Values(m, 2) : Completes(m, r)}
      empty    == [rows |-> <<>>, pending |-> required, end |-> "done"]
  IN IF pairs = {} THEN {Ended(empty, "unsatisfiable")}
     ELSE {Checked(required, g) : g \in GrowFrom(m, 3, o.budget, Seeded(pairs, o.budget, empty))}

Suites(m, o) == IF m.version = 1 THEN LegacySuites(m, o) ELSE IpogSuites(m, o)

\* estimateCombinationCases of v1; that of v2 is the length of a suite.
Estimate(m, o) ==
  Max({1, Min({Cardinality(ValidRows(m)), Cardinality(RequiredV1(m, o))})})

-----------------------------------------------------------------------------
(* The verifier *)

\* verifyCombinationSuite: no case twice, no value unknown, no constraint
\* violated, no tuple that is required uncovered.
Verified(m, o, cases) ==
  LET rows     == Range(cases)
      required == IF m.version = 1 THEN RequiredV1(m, o) ELSE RequiredV2(m, o)
  IN /\ Cardinality(rows) = Len(cases)
     /\ \A row \in rows : /\ \A f \in DOMAIN row : row[f] \in Values(m, f)
                          /\ Satisfies(m, row)
     /\ required \subseteq UNION {TupleKeys(m, o, row) : row \in rows}

-----------------------------------------------------------------------------
(* Claims, for a factor model, what is asked for, and a growth that ended *)

\* A suite that is generated passes the verifier, and covers whatever part of a
\* valid assignment the model and the strength ask for, as one reads it off all
\* assignments instead of completing tuples (generator.ts:113-125, 180-195).
SuiteIsComplete(m, o, g) ==
  g.end = "done" =>
    /\ Verified(m, o, g.rows)
    /\ \A s \in SpecsV2(m, o), row \in ValidRows(m) :
         \E i \in DOMAIN g.rows : Covers(g.rows[i], Restrict(row, s))

\* The generator gives up only over what its caller can mend: constraints that
\* nothing satisfies, or a budget.  No row is ever stuck and nothing required is
\* left uncovered in the end (generator.ts:176, 195).
GivesUpForCause(m, g) ==
  /\ g.end \in {"done", "over-budget", "unsatisfiable"}
  /\ g.end = "unsatisfiable" <=> ValidRows(m) = {}

\* A suite keeps the budget, and v1 also what it estimates (generator.ts:186, 206).
WithinBudget(m, o, g) ==
  g.end = "done" =>
    /\ Len(g.rows) <= o.budget
    /\ m.version = 1 => Len(g.rows) <= Estimate(m, o)
=============================================================================
