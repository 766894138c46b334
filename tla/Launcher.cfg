CONSTANTS MaxHandle = 2 MaxSignals = 1
SPECIFICATION LFairSpec
CHECK_DEADLOCK FALSE
INVARIANTS ChildrenAccounted MirrorExact
PROPERTIES ExitIsOrderly ListSpec QuitEnds
