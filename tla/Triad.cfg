SPECIFICATION Spec
CONSTANTS
  a = a
  b = b
  c = c
  z = z
  blue = blue
  rome = rome
  veii = veii
  alphabet = alphabet
  Players = {a, b, c}
  Cities = {}
  Techs = {}
  NoValue = NoValue
  GoldTrading = TRUE
  TechTrading = TRUE
  CityTrading = TRUE
  Team <- NoTeams
  NoTeam = NoTeam
  NoOne = NoOne
  MaxAllies = 0
  DiplomacySetting = 0
  ContactTurns = 1
  CeasefireTurns = 2
  StartGold <- NoStartGold
  StartTechs <- NoStartTechs
  Founder <- NoFounder
  Capitals = {}
  Offers <- AllPacts
  Envoys = {}
  Mortals = {a,b,c}
  Switchers = {}
  MaxMeetings = 1
  MaxClauses = 2
  MaxDebt = 0
  Breakers = {a, b, c}
SYMMETRY PlayerSymmetry
INVARIANT NoLoveLoveHate
