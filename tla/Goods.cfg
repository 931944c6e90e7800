SPECIFICATION Spec
CONSTANTS
  a = a
  b = b
  c = c
  z = z
  blue = blue
  rome = rome
  veii = veii
  alphabet = alphabet
  Players = {a, b, c}
  Cities = {rome, veii}
  Techs = {alphabet}
  NoValue = NoValue
  GoldTrading = TRUE
  TechTrading = TRUE
  CityTrading = TRUE
  Team <- TeamOfBC
  NoTeam = NoTeam
  NoOne = NoOne
  MaxAllies = 0
  DiplomacySetting = 0
  ContactTurns = 0
  CeasefireTurns = 2
  StartGold <- TradeGold
  StartTechs <- TradeTechs
  Founder <- FoundedByA
  Capitals = {rome}
  Offers <- Trade
  Envoys <- MerchantsOfA
  Mortals = {b, c}
  Switchers = {}
  MaxMeetings = 2
  MaxClauses = 2
  MaxDebt = 0
  Breakers = {}
SYMMETRY SymmetryOfBC
INVARIANTS TypeOK MeetingsSound TermsUnambiguous DeadLeaveNothing
PROPERTIES PromisesKept SumsCovered
