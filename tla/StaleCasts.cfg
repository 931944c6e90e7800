SPECIFICATION Spec
CONSTANTS
  a = a
  b = b
  c = c
  x = x
  y = y
  z = z
  red = red
  blue = blue
  Conns = {a, b}
  Players = {x, y}
  Nobody = Nobody
  Server = Server
  Team <- OwnTeams
  Admins = {}
  Displace = TRUE
  Motions = {"poll"}
  MaxNo = 1
INVARIANT DetachedHoldNoVotes
