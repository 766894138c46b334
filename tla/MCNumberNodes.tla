---------------------------- MODULE MCNumberNodes ----------------------------
(* Model checking NumberNodes: two sources, and two expressions.           *)
EXTENDS NumberNodes, ExprParser

CONSTANTS s1, s2

MCSources == {s1, s2}
MCExpressions == {<<"a", "+", "b">>, <<"b", "/", "c">>}

Parsed == [expr \in MCExpressions |-> parse(expr)]

PlaceOf == [a |-> 0, b |-> 1, c |-> 2]

(* recompute: the expression is parsed, and evaluated with its variables.  *)
MCMeaning(expr, at) ==
  evaluate(Parsed[expr], [name \in {name \in Variables : PlaceOf[name] \in DOMAIN at} |-> at[PlaceOf[name]]])

(* The bound on the states: of two sources one at a time is random.        *)
OneAtRandom == ~(source[s1].random /\ source[s2].random)

Symmetry == Permutations(MCSources)
=============================================================================
