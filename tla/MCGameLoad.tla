----------------------------- MODULE MCGameLoad -----------------------------
(* Instances of GameLoad for TLC. *)
EXTENDS GameLoad

CONSTANTS a, b, c, d   \* players

InOrder == [p \in Players |-> CASE p = a -> 0 [] p = b -> 1 [] p = c -> 2 [] p = d -> 3]
=============================================================================
