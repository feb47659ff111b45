SPECIFICATION FairSpec
CONSTANTS
  Roles = {r1, r2}
  NoRole = NoRole
  MaxPolls = 2
  MaxClicks = 1
  MaxCommands = 3
  MaxSessions = 2
  MaxWakes = 1
  MaxDepth = 2
INVARIANTS
  TypeOK
  AnswerIsOwn
  PollMeansSent
  OneTradePerCalmClick
  PollWithinLimit
PROPERTIES
  NeverWrongTarget
  PollEnds
CHECK_DEADLOCK FALSE
