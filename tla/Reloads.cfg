SPECIFICATION Spec
CONSTANTS
  a = a
  b = b
  c = c
  d = d
  Players = {a, b, c, d}
  Seat <- InOrder
  Pacts = {"no contact", "war", "peace", "alliance", "team"}
  MaxRounds = 2
  MaxDead = 1
CHECK_DEADLOCK FALSE
INVARIANTS TypeOK LoadedRowsAgree OnlyAlliancesReduced ReducedForReason TriadsCentredLast SettledAtOnce
