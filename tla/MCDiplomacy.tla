---------------------------- MODULE MCDiplomacy ----------------------------
(* Instances of Diplomacy for TLC. *)
EXTENDS Diplomacy, TLC

CONSTANTS a, b, c, z,     \* players
          blue,           \* a team
          rome, veii,     \* cities
          alphabet        \* an advance

Nobody == {}
NoTeams == [p \in Players |-> NoTeam]
NoStartGold == [p \in Players |-> 0]
NoStartTechs == [p \in Players |-> {}]
NoFounder == [v \in Cities |-> CHOOSE p \in Players : TRUE]

Pacts(types, givers) == [type : types, from : givers, value : {NoValue}]

\* Proposals in the name of either party
AllPacts == Pacts(PactClauses, Players)
Alliances == Pacts({"alliance"}, Players)
PactsOfB == Pacts(PactClauses, {b})
AlliancesOfB == Pacts({"alliance"}, {b})
AlliancesAndVision == Pacts({"alliance"}, {b, c}) \cup Pacts({"vision"}, {a})
TeamOfBC == [p \in Players |-> IF p = a THEN NoTeam ELSE blue]
TeamOfAC == [p \in Players |-> IF p \in {a, c} THEN blue ELSE NoTeam]

PlayerSymmetry == Permutations(Players)

\* a can promise the same gold, city and advance to b and to c, or a negative sum;
\* its capital rome is asked for, and refused.
Trade ==
    {[type |-> "gold", from |-> a, value |-> -1],
     [type |-> "gold", from |-> a, value |-> 1],
     [type |-> "city", from |-> a, value |-> veii],
     [type |-> "city", from |-> a, value |-> rome],
     [type |-> "advance", from |-> a, value |-> alphabet]}
TradeGold == [p \in Players |-> IF p = a THEN 1 ELSE 0]
TradeTechs == [p \in Players |-> IF p = a THEN {alphabet} ELSE {}]
FoundedByA == [v \in Cities |-> a]
MerchantsOfA == {<<a, b>>, <<a, c>>}
SymmetryOfBC == Permutations({b, c})
=============================================================================
