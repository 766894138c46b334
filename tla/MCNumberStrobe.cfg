SPECIFICATION Spec
CONSTANTS
  s1 = s1
  s2 = s2
  Sources <- MCSources
  Expressions <- MCExpressions
  Meaning <- MCMeaning
  Values = {0, 1}
  MaxInputs = 3
  MaxWires = 2
INVARIANT StrobeLetsThrough
SYMMETRY Symmetry
