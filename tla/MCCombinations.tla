---------------------------- MODULE MCCombinations ----------------------------
(* Factor models and options on which TLC compares the generators of          *)
(* Combinations with its verifier and with the enumeration of all assignments. *)
LOCAL INSTANCE Naturals

Suite == INSTANCE Combinations

LOCAL Eq(f, v) == [op |-> "eq", factor |-> f, ref |-> FALSE, value |-> v]
LOCAL Same(f, g) == [op |-> "eq", factor |-> f, ref |-> TRUE, value |-> g]
LOCAL Differ(f, g) == [op |-> "neq", factor |-> f, ref |-> TRUE, value |-> g]
LOCAL In(f, list) == [op |-> "in", factor |-> f, values |-> list]
LOCAL NotIn(f, list) == [op |-> "notIn", factor |-> f, values |-> list]
LOCAL Number(v) == [ref |-> FALSE, value |-> v]
LOCAL Other(f) == [ref |-> TRUE, value |-> f]
LOCAL Negated(c) == [op |-> "not", left |-> c]
LOCAL Implies(c, d) == [op |-> "implies", left |-> c, right |-> d]
LOCAL All(list) == [op |-> "allOf", items |-> list]
LOCAL Any(list) == [op |-> "anyOf", items |-> list]

\* No constraint; single ones of every kind; some that only work together; and
\* some that nothing satisfies.
ConstraintSets ==
  {{}, {Implies(Eq(1, 1), Eq(3, 2))}, {Negated(All(<<Eq(1, 1), Eq(2, 1)>>))},
   {Any(<<Same(1, 2), Same(2, 3)>>)}, {NotIn(3, <<Number(1), Other(1)>>)},
   {In(2, <<Other(1), Other(3)>>), Negated(Same(1, 3))},
   {Implies(Eq(1, 1), Differ(2, 4)), Implies(Eq(2, 1), Same(3, 4))},
   {Differ(1, 2), Differ(2, 3), Implies(Eq(4, 1), Same(1, 3))},
   {Eq(1, 2), Implies(Eq(1, 2), Eq(4, 1)), NotIn(4, <<Number(1)>>)},
   {Same(1, 2), Differ(1, 2)}}

LOCAL Model(v, c, n) ==
  [values |-> v, group |-> <<1, 1, 2, 1>>, constraints |-> c, version |-> n]

FactorModels ==
  {Model(<<2, 2, 2, 2>>, c, n) : c \in ConstraintSets, n \in {1, 2}}
  \cup {Model(<<3, 2, 2, 2>>, {NotIn(3, <<Number(1), Other(1)>>)}, n) : n \in {1, 2}}

SuiteOptions ==
  {[strength |-> 2, group |-> 0, budget |-> b] : b \in {4, 9}}
  \cup {[strength |-> 3, group |-> g, budget |-> 12] : g \in {0, 1}}

\* Whatever the seed, for every model and option above.
ASSUME SuitesAreSound ==
  \A m \in FactorModels, o \in SuiteOptions : \A g \in Suite!Suites(m, o) :
    /\ Suite!SuiteIsComplete(m, o, g)
    /\ Suite!GivesUpForCause(m, g)
    /\ Suite!WithinBudget(m, o, g)
=============================================================================
