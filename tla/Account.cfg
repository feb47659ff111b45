SPECIFICATION FairSpec
CONSTANTS
  None = None
  Scenes <- MCScenes
  DeathLimit = 2
  OwnershipStops = 3
  ItemCap = 2
  OpenLimit = 3
  ItemLimit = 2
  CloseLimit = 1
  Layers = 1
INVARIANTS
  TypeOK
  NoCarryOver
  OneClickInFlight
  TravelHasOwner
  ShopMatchesCursor
PROPERTIES
  NothingAfterTimeout
  ConflictHolds
  OwnershipFirst
  DeathCountedOnce
  AttackFollowsMenu
  ResetAfterTwoStops
  SaleEnds
