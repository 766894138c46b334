CONSTANTS
  Proc = {p1}
  Hash = {h1, h2, h3}
  BadHash = {h3}
  NLoc = 2
  MaxObjects = 2
  NoHash = none
  Reentrant = TRUE
  Disturbed = {h2}
  p1 = p1
  h1 = h1
  h2 = h2
  h3 = h3
SPECIFICATION FairSpec
INVARIANTS CrashIsMarked IniIsCopy RegisteredIsLive CodeOutlivesObjects ObjectsAreReached
PROPERTIES IllIsFinal DisableSticks UnusedIsUnloaded
