SPECIFICATION Spec
CONSTANTS
  acc1 = acc1
  con1 = con1
  con2 = con2
  Accounts = {acc1, con1, con2}
  None = None
  FirstRole <- InitialRole
  Slots = 2
  MaxQueued = 2
  MaxTickets = 2
  MaxUser = 1
PROPERTIES
  NotOvertaken
CHECK_DEADLOCK FALSE
