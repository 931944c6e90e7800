------------------------------ MODULE MCAgents ------------------------------
(* Instances of Agents for TLC. *)
EXTENDS Agents

CONSTANTS a, b,          \* cities
          hill, river,   \* tiles
          dry, wet       \* settings

\* The neighbours share the hill, and b has nothing else.
Around == [c \in Cities |-> IF c = a THEN {hill, river} ELSE {hill}]

\* In the wet season the hill feeds most.  In the dry one nothing but the river does.
Where ==
    [s \in Settings |-> [T \in SUBSET Tiles |->
       CASE s = wet -> IF hill \in T THEN {hill} ELSE T \cap {river}
         [] s = dry -> IF river \in T THEN {river} ELSE NoResult]]

Either == {{}, {hill}}
=============================================================================
