------------------------------ MODULE GameLoad ------------------------------
(***************************************************************************)
(* The table of pacts through a savegame (server/game_save.cc and          *)
(* server/game_load.cc).  Every player saves his row and whether he lives; *)
(* a new server loads the players one after the other, and after each row  *)
(* it reduces the alliances of that player which it takes for illegal to   *)
(* peace, in both rows, while the rows of later players are still those of *)
(* an empty game.  Nothing else happens until all are loaded.              *)
(*                                                                         *)
(* Of the pacts only those that the repair tells apart are named.          *)
(***************************************************************************)
EXTENDS Integers, FiniteSets

CONSTANTS
    Players,
    Seat,      \* player_no, the order of loading
    Pacts,     \* the pacts of a savegame
    MaxRounds, \* bounds of an instance: how often the game is loaded,
    MaxDead    \* and how many players are dead in the first savegame

ASSUME SeatAssumption ==
    /\ Seat \in [Players -> Int]
    /\ \A p, q \in Players : Seat[p] = Seat[q] => p = q
ASSUME PactsAssumption ==
    {"no contact", "war", "peace", "alliance"} \subseteq Pacts
ASSUME RoundsAssumption == MaxRounds \in Nat /\ MaxDead \in Nat

VARIABLES
    saved,   \* the rows in the savegame
    living,  \* the players that live according to the savegame
    rows,    \* diplstates[].type
    alive,   \* is_alive
    loaded,  \* the players that are loaded
    round    \* the number of savegames so far

vars == <<saved, living, rows, alive, loaded, round>>

AlliedPacts == {"alliance", "team"}

\* The tables that a game saves: both rows of a pair agree, and nobody ever
\* meets himself.
Pairs == {S \in {{p, q} : p, q \in Players} : \A p \in Players : S # {p}}
Table(f) == [p \in Players |-> [q \in Players |-> IF p = q THEN "no contact" ELSE f[{p, q}]]]
Tables == {Table(f) : f \in [Pairs -> Pacts]}

\* pplayers_allied, for two players
Allied(d, p, q) == d[p][q] \in AlliedPacts

\* ~pplayer_can_ally(p, q): p is at war with a living ally of q.
AtWarWithAlly(d, al, p, q) ==
    \E r \in Players \ {p, q} : Allied(d, q, r) /\ d[p][r] = "war" /\ r \in al

\* Mutant: the repair looks at other pacts as well.
IllegalOfAny(d, al, p) == {q \in Players \ {p} : {p, q} \subseteq al /\ AtWarWithAlly(d, al, p, q)}

\* Mutant: it looks at the dead as well.
IllegalOfDead(d, al, p) ==
    {q \in Players \ {p} : Allied(d, p, q) /\ AtWarWithAlly(d, al \cup Players, p, q)}

\* The alliances of p that are reduced once his row is read.  (None of them
\* depends on the others: the entries it looks at are not changed.)
Illegal(d, al, p) ==
    {q \in Players \ {p} : {p, q} \subseteq al /\ Allied(d, p, q) /\ AtWarWithAlly(d, al, p, q)}

\* Mutant: an illegal alliance becomes a war.
ReducedToWar(d, p, S) ==
    [x \in Players |-> [y \in Players |->
        IF (x = p /\ y \in S) \/ (x \in S /\ y = p) THEN "war" ELSE d[x][y]]]

\* Mutant: only the row of the loaded player is changed.
ReducedOneRow(d, p, S) == [d EXCEPT ![p] = [q \in Players |-> IF q \in S THEN "peace" ELSE @[q]]]

\* Both entries of p and each of S become peace.
Reduced(d, p, S) ==
    [x \in Players |-> [y \in Players |->
        IF (x = p /\ y \in S) \/ (x \in S /\ y = p) THEN "peace" ELSE d[x][y]]]

\* The players whose sections are read before that of p
Before(p) == {q \in Players : Seat[q] < Seat[p]}

\* Mutant: the row is read but not repaired.
NothingRepaired(d, al, p) == d

\* The table once p is loaded and repaired
Repaired(d, al, p) == Reduced(d, p, Illegal(d, al, p))

\* Mutant: whether the player lives is not read.
LoadLiving(p) ==
    /\ p \notin loaded /\ Before(p) \subseteq loaded
    /\ loaded' = loaded \cup {p}
    /\ rows' = Repaired([rows EXCEPT ![p] = saved[p]], alive, p)
    /\ UNCHANGED <<saved, living, alive, round>>

\* player_load
Load(p) ==
    /\ p \notin loaded /\ Before(p) \subseteq loaded
    /\ loaded' = loaded \cup {p}
    /\ alive' = IF p \in living THEN alive ELSE alive \ {p}
    /\ rows' = Repaired([rows EXCEPT ![p] = saved[p]], alive', p)
    /\ UNCHANGED <<saved, living, round>>

\* A new server has a table of players that never met and live.
Empty == [p \in Players |-> [q \in Players |-> "no contact"]]

\* The game is saved and a new server begins to load it.
SaveAndRestart ==
    /\ loaded = Players /\ round < MaxRounds
    /\ round' = round + 1
    /\ saved' = rows /\ living' = alive
    /\ rows' = Empty /\ alive' = Players /\ loaded' = {}

Init ==
    /\ saved \in Tables
    /\ living \in {S \in SUBSET Players : Cardinality(Players \ S) <= MaxDead}
    /\ rows = Empty /\ alive = Players /\ loaded = {}
    /\ round = 1

Next == (\E p \in Players : Load(p)) \/ SaveAndRestart

Spec == Init /\ [][Next]_vars

-----------------------------------------------------------------------------
(* What should hold *)

\* The variables have their types; a player is known to be dead once loaded.
TypeOK ==
    /\ saved \in [Players -> [Players -> Pacts]]
    /\ living \subseteq Players
    /\ rows \in [Players -> [Players -> Pacts]]
    /\ loaded \subseteq Players
    /\ alive = Players \ (loaded \ living)
    /\ round \in Nat

\* Two players that are loaded agree on their pact, although each row is read
\* on its own and the repair writes into rows read before.
LoadedRowsAgree == \A p, q \in loaded : rows[p][q] = rows[q][p]

\* Of what was saved the repair changes alliances only, and only to peace.
OnlyAlliancesReduced ==
    \A p, q \in loaded :
        rows[p][q] = saved[p][q] \/ (Allied(saved, p, q) /\ rows[p][q] = "peace")

\* r lives and is at war with one of two allies and allied with the other.
Hated(d, p, q, r) == r \notin {p, q} /\ Allied(d, q, r) /\ d[p][r] = "war"

\* An alliance is reduced for a reason: the player loaded second of its two is
\* at war with an ally of the first, who lives, or whose death is not known yet.
ReducedForReason ==
    \A p, q \in loaded : (Allied(saved, p, q) /\ rows[p][q] = "peace" /\ Seat[q] < Seat[p]) =>
        \E r \in Players : Hated(saved, p, q, r) /\ (r \in living \/ Seat[p] < Seat[r])

\* When the loading is done, whoever is still allied with two living players at war
\* was loaded after both of them: the repair ("Sanity check alliances, prevent
\* allied-with-ally-of-enemy", game_load.cc:1452) misses no triad but those whose
\* centre comes last.
TriadsCentredLast ==
    \A c, p, q \in loaded :
        /\ {c, p, q} \subseteq living /\ c # p
        /\ Allied(rows, c, p) /\ Hated(rows, p, c, q)
        => Seat[p] < Seat[c] /\ Seat[q] < Seat[c]

\* What was loaded once is loaded again as it is.
SettledAtOnce == round > 1 => \A p, q \in loaded : rows[p][q] = saved[p][q]
=============================================================================
