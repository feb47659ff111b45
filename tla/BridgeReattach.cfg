SPECIFICATION ReliablePostSpec
CONSTANTS
  MaxCalls = 2
  MaxSessions = 2
  MaxWakes = 2
  MaxLost = 1
  MaxDepth = 2
INVARIANTS
  TimedOutNotOverwritten
CHECK_DEADLOCK FALSE
