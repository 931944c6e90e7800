SPECIFICATION FairSpec
CONSTANTS
  a = a
  b = b
  hill = hill
  river = river
  dry = dry
  wet = wet
  Cities = {a, b}
  Tiles = {hill, river}
  Near <- Around
  Settings = {dry, wet}
  First = wet
  Arranged <- Either
  Best <- Where
  NoResult = NoResult
  NoCity = NoCity
  Size = 1
  Tries = 2
  IdMod = 65536
  MaxEvents = 2
  MaxOrders = 1
CHECK_DEADLOCK FALSE
INVARIANTS TypeOK IdsInStep FreezesEnd GoalKept JudgedOnAnswers
PROPERTIES AgentReturns
