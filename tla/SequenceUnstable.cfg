SPECIFICATION FairSpec
CONSTANTS
  MaxRows = 3
  Repeats = {1, 2}
  MaxEdits = 0
  FinishThreshold = 0
  SellThreshold = 0
  MaxFree = 2
  StableTicks = 2
  VerifyTicks = 3
  LoadedRows = {2}
  Loaded <- LoadedScripts
PROPERTIES
  VerifyEnds
CHECK_DEADLOCK FALSE
