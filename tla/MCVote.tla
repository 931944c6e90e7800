------------------------------- MODULE MCVote -------------------------------
(* Instances of Vote for TLC. *)
EXTENDS Vote, TLC

CONSTANTS a, b, c,   \* connections
          x, y, z,   \* players
          red, blue  \* teams

OwnTeams == [p \in Players |-> p]
RedTeam == [p \in Players |-> IF p \in {x, y} THEN red ELSE blue]

Symmetry == Permutations(Conns) \cup Permutations(Players)
=============================================================================
