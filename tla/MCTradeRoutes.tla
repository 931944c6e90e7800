---------------------------- MODULE MCTradeRoutes ----------------------------
(* Instances of TradeRoutes for TLC. *)
EXTENDS TradeRoutes, TLC

CONSTANTS a, b, c,  \* cities
          p, q,     \* players
          u, v      \* caravans

\* b belongs to the other player, who is loaded second.
OwnerOfB == [x \in Cities |-> IF x = b THEN q ELSE p]
SeatOfQ == [x \in Players |-> IF x = q THEN 1 ELSE 0]

\* b is the better partner of both other cities; later the trade from a to b is worth
\* most, and that from b to a least.
WithB == [r \in Routes |-> IF b \notin Ends(r) THEN 1 ELSE IF a \in Ends(r) THEN 2 ELSE 3]
FromA == [r \in Routes |-> IF r = <<a, b>> THEN 3 ELSE IF r = <<b, a>> THEN 1 ELSE 2]
Values == {WithB, FromA}

\* The clients ask for routes between a and b, in both directions.
BothWays == {<<a, b>>, <<b, a>>}

\* The first player asks for one abroad and one within his nation; the other one trades
\* on the spot, and has the routes that a savegame turns his way.
WithinToo == {<<a, b>>, <<a, c>>}

Symmetry == Permutations(Units)
=============================================================================
