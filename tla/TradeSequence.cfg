SPECIFICATION FairSpec
CONSTANTS
  MaxRows = 3
  Repeats = {1, 2}
  MaxEdits = 1
  FinishThreshold = 0
  SellThreshold = 0
  MaxFree = 2
  StableTicks = 2
  VerifyTicks = 3
  LoadedRows = {2, 3}
  Loaded <- LoadedScripts
INVARIANTS
  TypeOK
  GroupsWellFormed
  RefsFollowMain
  PassFollowsScript
  PassesBounded
PROPERTIES
  Finishes
CHECK_DEADLOCK FALSE
