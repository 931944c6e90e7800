SPECIFICATION FairSpec
CONSTANTS
  a = a
  b = b
  c = c
  x = x
  y = y
  z = z
  red = red
  blue = blue
  Conns = {a, b, c}
  Players = {x, y}
  Nobody = Nobody
  Server = Server
  Team <- RedTeam
  Admins = {c}
  Displace = TRUE
  Motions = {"mute", "switch"}
  MaxNo = 1
INVARIANTS DecidedForGood
PROPERTIES NobodyDecidesAlone VotesEnd
