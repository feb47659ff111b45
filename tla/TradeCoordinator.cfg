SPECIFICATION FairSpec
CONSTANTS
  acc1 = acc1
  con1 = con1
  con2 = con2
  Accounts = {acc1, con1, con2}
  None = None
  FirstRole <- InitialRole
  Slots = 2
  MaxQueued = 2
  MaxTickets = 3
  MaxUser = 1
INVARIANTS
  TypeOK
  QueueOrder
  ActiveIsQueued
  HoldMatchesQueue
PROPERTIES
  EarliestIsServed
  PairIsStable
  TicketSurvivesDeath
  Served
CHECK_DEADLOCK FALSE
