SPECIFICATION Spec
CONSTANTS
  a = a
  b = b
  c = c
  x = x
  y = y
  z = z
  red = red
  blue = blue
  Conns = {a, b}
  Players = {x, y}
  Nobody = Nobody
  Server = Server
  Team <- OwnTeams
  Admins = {}
  Displace = TRUE
  Motions = {"mute", "unmute", "cut", "pause", "unpause"}
  MaxNo = 2
SYMMETRY Symmetry
INVARIANTS TypeOK VotesSound OnePauseVote
PROPERTIES NumbersNameMotions
