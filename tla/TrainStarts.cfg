SPECIFICATION FairSpec
CONSTANTS
  None = None
  Scenes <- VoyageScenes
  DeathLimit = 2
  OwnershipStops = 3
  ItemCap = 2
  OpenLimit = 3
  ItemLimit = 2
  CloseLimit = 1
  Layers = 1
PROPERTY TrainStarts
