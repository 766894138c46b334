SPECIFICATION Spec
CONSTANTS
  Limit = 2
  Status = {"ACTIVE", "DONE"}
  MaxWrites = 2
  MaxHistory = 2
  Public = {1}
  Careful = TRUE
  NoFile = NoFile
  NoPath = NoPath
CHECK_DEADLOCK FALSE
INVARIANTS ListIsDisk ActsOnWhatIsShown
PROPERTIES IdsAreUnique FinishedFirst
CONSTRAINT Bound
