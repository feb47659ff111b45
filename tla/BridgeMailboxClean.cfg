SPECIFICATION FairCleanSpec
CONSTANTS
  MaxCalls = 3
  MaxSessions = 2
  MaxWakes = 2
  MaxLost = 1
  MaxDepth = 2
PROPERTIES
  ImplementsPromise
  TimedOutCompletes
CHECK_DEADLOCK FALSE
