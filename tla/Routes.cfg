SPECIFICATION Spec
CONSTANTS
  a = a
  b = b
  c = c
  p = p
  q = q
  u = u
  v = v
  Cities = {a, b, c}
  Players = {p, q}
  Units = {u, v}
  Nobody = Nobody
  NoRoute = NoRoute
  NoUnit = NoUnit
  NoCity = NoCity
  Road = Road
  Unbuilt = Unbuilt
  Dead = Dead
  FirstOwner <- OwnerOfB
  Seat <- SeatOfQ
  FirstWorth <- WithB
  Worths <- Values
  Near = {}
  MaxRoutes = 1
  Asked <- WithinToo
  Contested = {b}
  MaxEvents = 1
SYMMETRY Symmetry
CHECK_DEADLOCK FALSE
INVARIANTS TypeOK ServiceSound EstablishedSound
PROPERTIES EstablishedGivesWay PlansKept
