CONSTANTS
  Proc = {p1}
  Hash = {h1}
  BadHash = {}
  NLoc = 1
  MaxObjects = 1
  NoHash = none
  Reentrant = FALSE
  Disturbed = {h1}
  p1 = p1
  h1 = h1
SPECIFICATION Spec
INVARIANTS CodeAlwaysOutlives
