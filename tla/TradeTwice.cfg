SPECIFICATION ReliablePostSpec
CONSTANTS
  Roles = {r1}
  NoRole = NoRole
  MaxPolls = 2
  MaxClicks = 1
  MaxCommands = 3
  MaxSessions = 1
  MaxWakes = 1
  MaxDepth = 1
INVARIANTS
  OneTradePerClick
CHECK_DEADLOCK FALSE
