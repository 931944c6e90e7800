SPECIFICATION Spec
CONSTANTS
  a = a
  b = b
  c = c
  p = p
  q = q
  u = u
  v = v
  Cities = {a, b}
  Players = {p, q}
  Units = {u, v}
  Nobody = Nobody
  NoRoute = NoRoute
  NoUnit = NoUnit
  NoCity = NoCity
  Road = Road
  Unbuilt = Unbuilt
  Dead = Dead
  FirstOwner <- OwnerOfB
  Seat <- SeatOfQ
  FirstWorth <- WithB
  Worths <- Values
  Near = {}
  MaxRoutes = 2
  Asked <- BothWays
  Contested = {}
  MaxEvents = 0
CHECK_DEADLOCK FALSE
INVARIANTS NewRouteThere
