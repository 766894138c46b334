SPECIFICATION Spec
CONSTANTS
  Limit = 2
  Status = {"ACTIVE", "DONE"}
  MaxWrites = 2
  MaxHistory = 2
  Public = {1}
  Careful = FALSE
  NoFile = NoFile
  NoPath = NoPath
PROPERTY SavesToItsOwnFile
CHECK_DEADLOCK FALSE
