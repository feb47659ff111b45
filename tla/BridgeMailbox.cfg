SPECIFICATION Spec
CONSTANTS
  MaxCalls = 3
  MaxSessions = 2
  MaxWakes = 2
  MaxLost = 1
  MaxDepth = 3
INVARIANTS
  TypeOK
  IInv
  NeverOverwrite
  AnswerIsOwn
PROPERTIES
  RunsOnce
CHECK_DEADLOCK FALSE
