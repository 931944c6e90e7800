SPECIFICATION Spec
CONSTANTS
  a = a
  b = b
  c = c
  z = z
  blue = blue
  rome = rome
  veii = veii
  alphabet = alphabet
  Players = {a, b, c}
  Cities = {}
  Techs = {}
  NoValue = NoValue
  GoldTrading = TRUE
  TechTrading = TRUE
  CityTrading = TRUE
  Team <- NoTeams
  NoTeam = NoTeam
  NoOne = NoOne
  MaxAllies = 1
  DiplomacySetting = 1
  ContactTurns = 1
  CeasefireTurns = 2
  StartGold <- NoStartGold
  StartTechs <- NoStartTechs
  Founder <- NoFounder
  Capitals = {}
  Offers <- AlliancesAndVision
  Envoys = {}
  Mortals = {}
  Switchers = {a}
  MaxMeetings = 2
  MaxClauses = 1
  MaxDebt = 0
  Breakers = {a}
SYMMETRY SymmetryOfBC
INVARIANTS AlliesBound SaturatedIsolation MeetingStillAllowed
