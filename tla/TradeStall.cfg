SPECIFICATION StallSpec
CONSTANTS
  acc1 = acc1
  con1 = con1
  con2 = con2
  Accounts = {acc1, con1, con2}
  None = None
  FirstRole <- InitialRole
  Slots = 2
  MaxQueued = 1
  MaxTickets = 1
  MaxUser = 1
PROPERTIES
  StoppedChildLeaves
CHECK_DEADLOCK FALSE
