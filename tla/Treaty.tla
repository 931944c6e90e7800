------------------------------- MODULE Treaty -------------------------------
(***************************************************************************)
(* The clause list of one diplomatic meeting (common/diptreaty.cc).        *)
(*                                                                         *)
(* A treaty is the record of its two parties, the parties whose "accept"   *)
(* flag is up, and its clauses.  The clause list is a set: no handler      *)
(* looks at the order of the clauses, and add_clause never keeps two equal *)
(* ones.  Which party opened the meeting (plr0) only decides how the       *)
(* packets are addressed and is left out.                                  *)
(***************************************************************************)
EXTENDS Integers, FiniteSets

CONSTANTS
    Players,      \* the player slots in use
    Cities,       \* the cities a clause may name
    Techs,        \* the advances a clause may name
    NoValue,      \* the value of a clause that names nothing
    GoldTrading, TechTrading, CityTrading  \* the three trading settings

\* The pact clauses bear the names of the diplomatic states they bring about.
PactClauses == {"ceasefire", "peace", "alliance"}

\* A sum of gold is the signed integer that the packet was read into: add_clause
\* does not look at its sign, so a treaty may name a negative sum, which is paid by
\* the party that receives it.  (That sums overflow is not modelled.)
Clause ==
    [type : {"gold"}, from : Players, value : Int]
      \cup [type : {"city"}, from : Players, value : Cities]
      \cup [type : {"advance"}, from : Players, value : Techs]
      \cup [type : PactClauses \cup {"vision", "embassy"},
            from : Players, value : {NoValue}]

Pairs == {s \in SUBSET Players : \E p, q \in Players : p # q /\ s = {p, q}}

Meeting == [parties : Pairs, accepted : SUBSET Players, clauses : SUBSET Clause]

\* treaty_new
NewTreaty(p, q) == [parties |-> {p, q}, accepted |-> {}, clauses |-> {}]

\* add_clause answers FALSE: the kind is switched off by a setting, the pact
\* is the one already in force, or the clause is on the table.
Refused(m, c, state) ==
    \/ c.type = "gold" /\ ~GoldTrading
    \/ c.type = "advance" /\ ~TechTrading
    \/ c.type = "city" /\ ~CityTrading
    \/ c.type \in PactClauses /\ c.type = state
    \/ c \in m.clauses

\* Mutant: a second sum of gold is a clause of its own.
SupersedesPact(c, old) == c.type \in PactClauses /\ old.type \in PactClauses

\* A treaty has one pact clause and one gold clause of each giver: a second
\* one takes the place of the first.
Supersedes(c, old) ==
    \/ c.type \in PactClauses /\ old.type \in PactClauses
    \/ c.type = "gold" /\ old.type = "gold" /\ c.from = old.from

\* What is left of the superseded clause: only its type (a pact) or its value
\* (gold) changes, so a pact stays in the name of whoever proposed it first.
Amended(c, old) ==
    IF c.type = "gold" THEN [old EXCEPT !.value = c.value]
                       ELSE [old EXCEPT !.type = c.type]

\* Mutant: only an appended clause takes the acceptances down.
AmendInSilence(m, c) ==
    [m EXCEPT
       !.accepted = IF \E old \in m.clauses : Supersedes(c, old) THEN @ ELSE {},
       !.clauses = {IF Supersedes(c, old) THEN Amended(c, old) ELSE old : old \in @}
                     \cup {new \in {c} : \A old \in @ : ~Supersedes(c, old)}]

\* add_clause of a clause that is not refused
AddClause(m, c) ==
    [m EXCEPT
       !.accepted = {},
       !.clauses = {IF Supersedes(c, old) THEN Amended(c, old) ELSE old : old \in @}
                     \cup {new \in {c} : \A old \in @ : ~Supersedes(c, old)}]

\* remove_clause of a clause that is on the table
RemoveClause(m, c) == [m EXCEPT !.accepted = {}, !.clauses = @ \ {c}]

Pact(m) == {c \in m.clauses : c.type \in PactClauses}

Signs(m, type) == \E c \in m.clauses : c.type = type

\* Gold that g gives under the treaty (one gold clause of each giver at most)
GoldFrom(m, g) ==
    IF \E c \in m.clauses : c.type = "gold" /\ c.from = g
      THEN (CHOOSE c \in m.clauses : c.type = "gold" /\ c.from = g).value
      ELSE 0
=============================================================================
