CONSTANTS
  Proc = {p1, p2}
  Hash = {h1}
  BadHash = {}
  NLoc = 1
  MaxObjects = 1
  NoHash = none
  Reentrant = FALSE
  Disturbed = {}
  p1 = p1
  p2 = p2
  h1 = h1
SPECIFICATION Spec
PROPERTIES DisableSticks
