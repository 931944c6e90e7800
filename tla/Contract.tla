------------------------------ MODULE Contract ------------------------------
(***************************************************************************)
(* What the server's diplomacy promises to any two players, without a word *)
(* on how: no list of treaties, no rows of states, no turns, no checks.    *)
(* Diplomacy implements it (Diplomacy!KeepsContract).                      *)
(*                                                                         *)
(* Two players have at most one deal on the table, and are bound by at     *)
(* most one pact.  What a third player does may end either, never make or  *)
(* change one.                                                             *)
(***************************************************************************)
CONSTANTS
    Pairs,   \* the sets of two players
    Terms,   \* what may be written into a deal, each with a type
    Bonds    \* the types of the terms that bind the two: the pacts

VARIABLES
    deals,   \* the deals on the table of each pair
    bonds    \* the pacts in force between the two

vars == <<deals, bonds>>

Deal == [terms : SUBSET Terms, agreed : SUBSET UNION Pairs]

Blank == [terms |-> {}, agreed |-> {}]

-----------------------------------------------------------------------------
(* The table of a pair *)

Rest(P) == deals'[P] = deals[P]

Open(P) == deals[P] = {} /\ deals'[P] = {Blank}

\* Whatever is changed has to be agreed to again.
Amend(P) == deals[P] # {} /\ \E d \in deals'[P] :
    d \in Deal /\ d.agreed = {} /\ deals'[P] = {d}

\* One of them agrees; the other one's word would conclude the deal.
Agree(P) == \E d \in deals[P] : \E p \in P :
    d.agreed = {} /\ deals'[P] = {[terms |-> d.terms, agreed |-> {p}]}

Close(P) == deals'[P] = {}

-----------------------------------------------------------------------------
(* The bond of a pair *)

\* It holds, or is broken; of an alliance a peace may be left.
Loosen(P) ==
    \/ bonds'[P] \subseteq bonds[P]
    \/ bonds[P] = {"alliance"} /\ bonds'[P] = {"peace"}

\* A deal that one had agreed to is concluded, and one of its terms is the bond.
Bind(P) == \E d \in deals[P] :
    /\ d.agreed # {}
    /\ \E b \in Bonds : bonds'[P] = {b} /\ \E term \in d.terms : term.type = b

-----------------------------------------------------------------------------

Init ==
    /\ deals = [P \in Pairs |-> {}]
    /\ bonds = [P \in Pairs |-> {}]

\* An alliance that is complete ends the deals of its parties with all others:
\* several pairs may take a step at once.
Next ==
    /\ DOMAIN deals' = Pairs /\ DOMAIN bonds' = Pairs
    /\ \A P \in Pairs :
         \/ Loosen(P) /\ (Rest(P) \/ Open(P) \/ Amend(P) \/ Agree(P) \/ Close(P))
         \/ Bind(P) /\ Close(P)

Spec == Init /\ [][Next]_vars
=============================================================================
