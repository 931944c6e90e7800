----------------------------- MODULE Diplomacy -----------------------------
(***************************************************************************)
(* The server's diplomacy: meetings and their clauses, the two-sided       *)
(* acceptance of a treaty and its execution, the breaking of pacts and its *)
(* fall-out, first contact, the turn change, players dying and passing     *)
(* under AI control (server/diplhand.cc, server/plrhand.cc,                *)
(* server/srv_main.cc, common/player.cc).                                  *)
(*                                                                         *)
(* The server is one thread: a handler runs to its end before the next     *)
(* packet is read, so a handler is an action.  What interleaves is the     *)
(* order of the requests of all the players between two of these steps.    *)
(***************************************************************************)
EXTENDS Treaty

CONSTANTS
    Team,             \* [Players -> teams]; NoTeam stands for TEAM_NONE
    NoTeam,
    NoOne,            \* the owner of a city that was destroyed
    MaxAllies,        \* setting maxallies, 0 = unlimited
    DiplomacySetting, \* setting diplomacy, 0..4
    ContactTurns,     \* setting contactturns
    CeasefireTurns,   \* 16 in the code
    StartGold,        \* [Players -> Nat]
    StartTechs,       \* [Players -> SUBSET Techs]
    Founder,          \* [Cities -> Players]: original, and first, owner
    Capitals,         \* the cities that hold a palace
    \* Bounds of an instance: what its players try out
    Offers,           \* the clauses they put forward
    Envoys,           \* the embassies their units may establish
    Mortals,          \* who may be destroyed
    Switchers,        \* who may pass to the AI or back
    Breakers,         \* who breaks pacts and shared vision
    MaxMeetings,      \* meetings open at the same time
    MaxClauses,       \* clauses of one meeting
    MaxDebt           \* a negative sum is put forward only where no one owes more

ASSUME PlayersAssumption == IsFiniteSet(Players) /\ NoOne \notin Players
ASSUME TurnsAssumption == ContactTurns \in Nat /\ CeasefireTurns \in Nat \ {0}
ASSUME SettingsAssumption == MaxAllies \in Nat /\ DiplomacySetting \in 0..4
ASSUME StartAssumption == /\ StartGold \in [Players -> Nat]
                          /\ StartTechs \in [Players -> SUBSET Techs]
                          /\ Founder \in [Cities -> Players]
ASSUME OffersAssumption == Offers \subseteq Clause

VARIABLES
    ds,         \* diplstates[].type, one row of each player
    turnsLeft,  \* diplstates[].turns_left, the turns a cease-fire still has
    contact,    \* diplstates[].contact_turns_left
    embassy,    \* the players each player has an embassy with
    vision,     \* gives_shared_vision
    alive,      \* is_alive
    ai,         \* ai.control
    gold, techs, owner,
    meetings    \* the list "treaties"

states == <<ds, turnsLeft>>
goods == <<gold, techs, owner>>
vars == <<ds, turnsLeft, contact, embassy, vision, alive, ai, gold, techs, owner, meetings>>

DiplState ==
    {"no_contact", "war", "neutral", "ceasefire", "peace", "alliance", "team"}

-----------------------------------------------------------------------------
(* Queries of common/player.cc and common/diptreaty.cc; d stands for ds *)

SameTeam(p, q) == Team[p] # NoTeam /\ Team[p] = Team[q]

\* pplayers_allied
Allied(d, p, q) == p = q \/ d[p][q] \in {"alliance", "team"}

Allies(d, p) == {q \in Players \ {p} : alive[q] /\ Allied(d, p, q)}

\* player_allies_count >= maxallies, where there is a limit
Saturated(d, p) == MaxAllies > 0 /\ Cardinality(Allies(d, p)) >= MaxAllies

\* pplayer_can_ally: p is at war with no living ally of q
CanAlly(p, q) ==
    \A r \in Players \ {p, q} : ~(Allied(ds, q, r) /\ ds[p][r] = "war" /\ alive[r])

DiplomacyPossible(p, q) ==
    /\ DiplomacySetting # 4
    /\ Allied(ds, p, q) \/ ~(Saturated(ds, p) \/ Saturated(ds, q))
    /\ \/ DiplomacySetting = 0
       \/ DiplomacySetting = 1 /\ ~ai[p] /\ ~ai[q]
       \/ DiplomacySetting = 2 /\ ai[p] /\ ai[q]
       \/ DiplomacySetting = 3 /\ SameTeam(p, q)

\* could_meet_with_player, for a requester who is connected or an AI
CouldMeet(p, q) ==
    /\ alive[p] /\ alive[q] /\ p # q
    /\ DiplomacyPossible(p, q)
    /\ \/ q \in embassy[p] \/ p \in embassy[q]
       \/ contact[p][q] > 0 \/ contact[q][p] > 0

Between(p, q) == {m \in meetings : m.parties = {p, q}}

Other(m, g) == CHOOSE q \in m.parties : q # g

\* Mutant: one row of the pair is forgotten.
SetOneRow(table, p, q, value) == [table EXCEPT ![p][q] = value]

\* Both rows of a pair are written together.
SetPair(table, p, q, value) ==
    [x \in Players |-> [y \in Players |->
        IF (x = p /\ y = q) \/ (x = q /\ y = p) THEN value ELSE table[x][y]]]

-----------------------------------------------------------------------------
(* Meetings and clauses *)

\* Mutant: find_treaty is not asked whether the two are already talking.
InitMeetingAgain(p, q) ==
    /\ CouldMeet(p, q)
    /\ Cardinality(meetings) < MaxMeetings
    /\ meetings' = meetings \cup {NewTreaty(p, q)}
    /\ UNCHANGED <<states, contact, embassy, vision, alive, ai, goods>>

InitMeeting(p, q) ==
    /\ Between(p, q) = {} /\ CouldMeet(p, q)
    /\ Cardinality(meetings) < MaxMeetings
    /\ meetings' = meetings \cup {NewTreaty(p, q)}
    /\ UNCHANGED <<states, contact, embassy, vision, alive, ai, goods>>

CancelMeeting(p, q) ==
    /\ alive[p] /\ Between(p, q) # {}
    /\ meetings' = meetings \ Between(p, q)
    /\ UNCHANGED <<states, contact, embassy, vision, alive, ai, goods>>

\* Either party may add any clause, in its own name or in the other's.
CreateClause(p, q) == \E m \in Between(p, q), c \in Offers :
    /\ alive[p] /\ c.from \in m.parties
    /\ ~Refused(m, c, ds[p][q])
    /\ c.type = "gold" /\ c.value < 0 => \A x \in m.parties : gold[x] >= -MaxDebt
    /\ Cardinality(AddClause(m, c).clauses) <= MaxClauses
    /\ meetings' = (meetings \ {m}) \cup {AddClause(m, c)}
    /\ UNCHANGED <<states, contact, embassy, vision, alive, ai, goods>>

RemoveClauseReq(p, q) == \E m \in Between(p, q) : \E c \in m.clauses :
    /\ alive[p]
    /\ meetings' = (meetings \ {m}) \cup {RemoveClause(m, c)}
    /\ UNCHANGED <<states, contact, embassy, vision, alive, ai, goods>>

-----------------------------------------------------------------------------
(* Accepting: handle_diplomacy_accept_treaty_req *)

\* "Check that player who accepts can keep what (s)he promises": the clauses
\* of p, who accepts, towards q
CanKeep(p, q, c) ==
    CASE c.type = "embassy"  -> p \notin embassy[q]
      [] c.type = "advance"  -> c.value \in techs[p]
      [] c.type = "city"     -> owner[c.value] = p /\ c.value \notin Capitals
      [] c.type = "alliance" -> /\ ~Saturated(ds, p) /\ ~Saturated(ds, q)
                                /\ CanAlly(p, q) /\ CanAlly(q, p)
      [] c.type = "gold"     -> gold[p] >= c.value
      [] OTHER               -> TRUE

\* Mutants: the second look forgets the treasury, or the cities.
StillKeepsButGold(q, p, c) ==
    CASE c.type = "city"     -> owner[c.value] = q /\ c.value \notin Capitals
      [] c.type = "alliance" -> ~Saturated(ds, q) /\ CanAlly(q, p)
      [] OTHER               -> TRUE

StillKeepsButCities(q, p, c) ==
    CASE c.type = "alliance" -> ~Saturated(ds, q) /\ CanAlly(q, p)
      [] c.type = "gold"     -> gold[q] >= c.value
      [] OTHER               -> TRUE

\* "Check that one who accepted treaty earlier still have everything (s)he
\* promised to give": the clauses of q when p accepts last.  An alliance is
\* looked at from the side of q only.
StillKeeps(q, p, c) ==
    CASE c.type = "city"     -> owner[c.value] = q /\ c.value \notin Capitals
      [] c.type = "alliance" -> ~Saturated(ds, q) /\ CanAlly(q, p)
      [] c.type = "gold"     -> gold[q] >= c.value
      [] OTHER               -> TRUE

AllKept(m, p, q) == \A c \in m.clauses : c.from = p => CanKeep(p, q, c)
AllStillKept(m, q, p) == \A c \in m.clauses : c.from = q => StillKeeps(q, p, c)

\* Mutant: one acceptance is enough.
OneIsEnough(m, q) == TRUE

\* The other flag, when p's own is going up
OtherAccepted(m, q) == q \in m.accepted

\* p takes its acceptance back.
Withdraw(p, q) == \E m \in Between(p, q) :
    /\ alive[p] /\ p \in m.accepted
    /\ meetings' = (meetings \ {m}) \cup {[m EXCEPT !.accepted = @ \ {p}]}
    /\ UNCHANGED <<states, contact, embassy, vision, alive, ai, goods>>

\* p is the first to accept.
AcceptFirst(p, q) == \E m \in Between(p, q) :
    /\ alive[p] /\ p \notin m.accepted /\ ~OtherAccepted(m, q)
    /\ AllKept(m, p, q)
    /\ meetings' = (meetings \ {m}) \cup {[m EXCEPT !.accepted = @ \cup {p}]}
    /\ UNCHANGED <<states, contact, embassy, vision, alive, ai, goods>>

\* p accepts, but q can no longer give what it promised: "Treaty canceled!"
AcceptTooLate(p, q) == \E m \in Between(p, q) :
    /\ alive[p] /\ p \notin m.accepted /\ OtherAccepted(m, q)
    /\ AllKept(m, p, q) /\ ~AllStillKept(m, q, p)
    /\ meetings' = meetings \ {m}
    /\ UNCHANGED <<states, contact, embassy, vision, alive, ai, goods>>

\* The states after the pact clause of m, if it has one
AfterPact(m, p, q) ==
    IF Pact(m) = {} THEN ds ELSE SetPair(ds, p, q, (CHOOSE c \in Pact(m) : TRUE).type)

\* cancel_diplomacy of every player of S cuts the pair x, y: they are not
\* allied and one of them is in S.
Cut(d, S, x, y) == \/ x \in S /\ ~Allied(d, x, y)
                   \/ y \in S /\ ~Allied(d, y, x)

CutStates(d, S) ==
    [x \in Players |-> [y \in Players |->
        IF Cut(d, S, x, y) /\ d[x][y] \notin {"no_contact", "war"}
          THEN "war" ELSE d[x][y]]]

\* Mutant: only the vision that the saturated player gives is taken back.
CutOwnVision(d, S, v) == [x \in Players |-> {y \in v[x] : ~(x \in S /\ Cut(d, S, x, y))}]

CutVision(d, S, v) == [x \in Players |-> {y \in v[x] : ~Cut(d, S, x, y)}]

CutMeetings(d, S) == {m \in meetings : \E x, y \in m.parties : Cut(d, S, x, y)}

\* Mutant: nobody looks at the limit after the fact.
NobodyFilled(m, d) == {}

\* The parties whose alliances reach the limit with this treaty
Filled(m, d) == {x \in m.parties : Signs(m, "alliance") /\ Saturated(d, x)}

\* The parties that give value under a clause of the type
Givers(m, type, value) ==
    {g \in m.parties : \E c \in m.clauses :
        c.type = type /\ c.from = g /\ c.value = value}

\* The clauses are executed, the alliances that are now complete end all other
\* diplomacy (cancel_diplomacy), and the treaty is gone.
Execute(m, p, q) ==
    LET d == AfterPact(m, p, q)
        full == Filled(m, d)
        shown == [x \in Players |-> vision[x] \cup
                    {y \in m.parties \ {x} : x \in Givers(m, "vision", NoValue)}]
    IN
    /\ ds' = CutStates(d, full)
    /\ turnsLeft' = IF Signs(m, "ceasefire")
                      THEN SetPair(turnsLeft, p, q, CeasefireTurns) ELSE turnsLeft
    /\ vision' = CutVision(d, full, shown)
    /\ embassy' = [x \in Players |-> embassy[x] \cup
                     {g \in Givers(m, "embassy", NoValue) : x \in m.parties \ {g}}]
    /\ gold' = [x \in Players |->
                  IF x \in m.parties
                    THEN gold[x] - GoldFrom(m, x) + GoldFrom(m, Other(m, x))
                    ELSE gold[x]]
    /\ techs' = [x \in Players |-> techs[x] \cup
                   {tech \in Techs : \E g \in Givers(m, "advance", tech) :
                                       x \in m.parties \ {g}}]
    /\ owner' = [v \in Cities |->
                   IF owner[v] # NoOne /\ Givers(m, "city", v) # {}
                     THEN Other(m, CHOOSE g \in Givers(m, "city", v) : TRUE)
                     ELSE owner[v]]
    /\ meetings' = meetings \ ({m} \cup CutMeetings(d, full))
    /\ UNCHANGED <<contact, alive, ai>>

\* p accepts last, and both can give what they promised.
Conclude(p, q) == \E m \in Between(p, q) :
    /\ alive[p] /\ p \notin m.accepted /\ OtherAccepted(m, q)
    /\ AllKept(m, p, q) /\ AllStillKept(m, q, p)
    /\ Execute(m, p, q)

AcceptTreaty(p, q) ==
    Withdraw(p, q) \/ AcceptFirst(p, q) \/ AcceptTooLate(p, q) \/ Conclude(p, q)

-----------------------------------------------------------------------------
(* Breaking pacts: handle_diplomacy_cancel_pact *)

StopVision(p, q) ==
    /\ p \in Breakers /\ alive[p] /\ p # q /\ ~SameTeam(p, q)
    /\ q \in vision[p]
    /\ vision' = [vision EXCEPT ![p] = @ \ {q}]
    /\ UNCHANGED <<states, contact, embassy, alive, ai, goods, meetings>>

\* One step down; a broken pact of any kind is on its way to war.
Lower(s) == CASE s \in {"no_contact", "neutral"} -> "war"
              [] s \in {"ceasefire", "peace"}    -> "neutral"
              [] s = "alliance"                  -> "peace"

\* Mutant: the fall-out is forgotten.
NobodyTorn(d, p, q) == {}

\* The fall-out of a war that p declares on q: every living common ally breaks
\* with the aggressor p, or with q if it is p's team mate.
Torn(d, p, q) ==
    {r \in Players \ {p, q} : alive[r] /\ Allied(d, q, r) /\ Allied(d, p, r)}

\* Mutant: the aggressor always bears the blame, team mates included.
AggressorBlamed(d, p, q) == {{p, r} : r \in Torn(d, p, q)}

Broken(d, p, q) ==
    {{p, r} : r \in {s \in Torn(d, p, q) : ~SameTeam(p, s)}}
      \cup {{r, q} : r \in {s \in Torn(d, p, q) : SameTeam(p, s) /\ ~SameTeam(s, q)}}

FallOut(d, p, q) ==
    [x \in Players |-> [y \in Players |->
        IF {x, y} \in Broken(d, p, q) /\ d[x][y] = "alliance" THEN "peace" ELSE d[x][y]]]

FallOutTurns(d, t, p, q) ==
    [x \in Players |-> [y \in Players |->
        IF {x, y} \in Broken(d, p, q) /\ d[x][y] = "alliance" THEN CeasefireTurns ELSE t[x][y]]]

\* allTheWay is the clause CLAUSE_LAST, straight to war.  The code says that only
\* the AI uses it; nothing in the handler keeps a client from sending it.
CancelPact(p, q, allTheWay) ==
    LET new == IF allTheWay THEN "war" ELSE Lower(ds[p][q])
        d == SetPair(ds, p, q, new)
        t == SetPair(turnsLeft, p, q, CeasefireTurns)
    IN
    /\ p \in Breakers /\ alive[p] /\ p # q /\ ~SameTeam(p, q)
    /\ ds[p][q] \notin {"war", "team"}
    /\ ds' = IF new = "war" THEN FallOut(d, p, q) ELSE d
    /\ turnsLeft' = IF new = "war" THEN FallOutTurns(d, t, p, q) ELSE t
    /\ UNCHANGED <<contact, embassy, vision, alive, ai, goods, meetings>>

-----------------------------------------------------------------------------
(* What happens around the meetings *)

MakeContact(p, q) ==
    /\ p # q /\ alive[p] /\ alive[q]
    /\ contact' = SetPair(contact, p, q, ContactTurns)
    /\ ds' = IF ds[p][q] = "no_contact"
               THEN SetPair(ds, p, q, IF DiplomacyPossible(p, q) THEN "neutral" ELSE "war")
               ELSE ds
    /\ UNCHANGED <<turnsLeft, embassy, vision, alive, ai, goods, meetings>>

EstablishEmbassy(p, q) ==
    /\ alive[p] /\ <<p, q>> \in Envoys
    /\ embassy' = [embassy EXCEPT ![p] = @ \cup {q}]
    /\ UNCHANGED <<states, contact, vision, alive, ai, goods, meetings>>

\* Mutant: cease-fires are not counted down.
TurnsFrozen == turnsLeft

TurnsAged ==
    [x \in Players |-> [y \in Players |->
        IF ds[x][y] = "ceasefire" THEN turnsLeft[x][y] - 1 ELSE turnsLeft[x][y]]]

\* Mutant: contact runs out below nothing.
ContactOverdrawn == [x \in Players |-> [y \in Players |-> contact[x][y] - 1]]

ContactAged ==
    [x \in Players |-> [y \in Players |-> IF contact[x][y] > 0 THEN contact[x][y] - 1 ELSE 0]]

\* update_diplomatics, once a turn: every row is aged on its own.
TurnChange ==
    /\ contact' = ContactAged
    /\ turnsLeft' = TurnsAged
    /\ ds' = [x \in Players |-> [y \in Players |->
                IF ds[x][y] = "ceasefire" /\ TurnsAged[x][y] = 0 THEN "neutral"
                                                                 ELSE ds[x][y]]]
    /\ UNCHANGED <<embassy, vision, alive, ai, goods, meetings>>

\* Mutant: only what the player has accepted is canceled.
OpenWithoutPromise(p) == {m \in meetings : p \notin m.accepted}

\* cancel_all_meetings
OpenWithout(p) == {m \in meetings : p \notin m.parties}

\* toggle_ai_player_direct, set_away: every meeting of the player is canceled.
ToggleAI(p) ==
    /\ p \in Switchers
    /\ ai' = [ai EXCEPT ![p] = ~@]
    /\ meetings' = OpenWithout(p)
    /\ UNCHANGED <<states, contact, embassy, vision, alive, goods>>

\* Cities go back to a founder who is still around; the rest is destroyed.
KillPlayer(p) ==
    /\ p \in Mortals /\ alive[p]
    /\ alive' = [alive EXCEPT ![p] = FALSE]
    /\ vision' = [vision EXCEPT ![p] = {}]
    /\ meetings' = OpenWithout(p)
    /\ owner' = [v \in Cities |->
                   IF owner[v] # p THEN owner[v]
                   ELSE IF Founder[v] # p /\ alive[Founder[v]] THEN Founder[v]
                   ELSE NoOne]
    /\ UNCHANGED <<states, contact, embassy, ai, gold, techs>>

-----------------------------------------------------------------------------

\* A new game: teams are allied and share vision and embassies.
Mates(p) == {q \in Players \ {p} : SameTeam(p, q)}

Init ==
    /\ ds = [p \in Players |-> [q \in Players |->
               IF q \in Mates(p) THEN "team" ELSE "no_contact"]]
    /\ turnsLeft = [p \in Players |-> [q \in Players |-> 0]]
    /\ contact = [p \in Players |-> [q \in Players |-> 0]]
    /\ embassy = [p \in Players |-> Mates(p)]
    /\ vision = [p \in Players |-> Mates(p)]
    /\ alive = [p \in Players |-> TRUE]
    /\ ai = [p \in Players |-> FALSE]
    /\ gold = StartGold
    /\ techs = StartTechs
    /\ owner = Founder
    /\ meetings = {}

Next ==
    \/ \E p, q \in Players :
         \/ InitMeeting(p, q) \/ CancelMeeting(p, q)
         \/ CreateClause(p, q) \/ RemoveClauseReq(p, q)
         \/ AcceptTreaty(p, q)
         \/ StopVision(p, q)
         \/ CancelPact(p, q, FALSE) \/ CancelPact(p, q, TRUE)
         \/ MakeContact(p, q) \/ EstablishEmbassy(p, q)
    \/ \E p \in Players : ToggleAI(p) \/ KillPlayer(p)
    \/ TurnChange

Spec == Init /\ [][Next]_vars

\* The server ends turn after turn, whatever the players do.
FairSpec == Spec /\ WF_vars(TurnChange)

-----------------------------------------------------------------------------
(* Properties *)

\* The variables have their types.
TypeOK ==
    /\ ds \in [Players -> [Players -> DiplState]]
    /\ turnsLeft \in [Players -> [Players -> Int]]
    /\ contact \in [Players -> [Players -> Nat]]
    /\ embassy \in [Players -> SUBSET Players]
    /\ vision \in [Players -> SUBSET Players]
    /\ alive \in [Players -> BOOLEAN]
    /\ ai \in [Players -> BOOLEAN]
    /\ gold \in [Players -> Int]
    /\ techs \in [Players -> SUBSET Techs]
    /\ owner \in [Cities -> Players \cup {NoOne}]
    /\ meetings \subseteq Meeting

\* The two rows of a pair, written by different statements and aged one after
\* the other, always agree, and a cease-fire in force has turns to run on both
\* sides (the asserts of sanitycheck.cc:387-397).
RowsAgree ==
    \A p, q \in Players :
        /\ ds[p][q] = ds[q][p]
        /\ ds[p][q] = "ceasefire" => /\ turnsLeft[p][q] = turnsLeft[q][p]
                                     /\ turnsLeft[p][q] \in 1..CeasefireTurns

\* find_treaty can only ever find one treaty of two players; a treaty that both
\* have accepted is gone, and every clause is in the name of a party.
MeetingsSound ==
    /\ \A m, n \in meetings : m.parties = n.parties => m = n
    /\ \A m \in meetings :
         /\ m.accepted \subseteq m.parties /\ m.accepted # m.parties
         /\ \A c \in m.clauses : c.from \in m.parties

\* A destroyed player leaves nothing behind: he owns no city, gives no vision,
\* and no treaty keeps his promises open - his meetings are canceled, and no
\* later request brings him back to a table (kill_player; sanitycheck.cc:419).
DeadLeaveNothing ==
    \A p \in Players : ~alive[p] =>
        /\ \A v \in Cities : owner[v] # p
        /\ vision[p] = {}
        /\ \A m \in meetings : p \notin m.parties

\* One pact and one sum of gold of each giver, whatever is added, amended and
\* removed in between (add_clause replaces, it does not append).
TermsUnambiguous ==
    \A m \in meetings : \A c, e \in m.clauses :
        \/ c.type \in PactClauses /\ e.type \in PactClauses
        \/ c.type = "gold" /\ e.type = "gold" /\ c.from = e.from
        => c = e

\* Nobody is bound by terms he has not seen: when the clauses of an open
\* meeting change, both acceptances are down.
FreshAcceptance ==
    [][\A m \in meetings, n \in meetings' :
         m.parties = n.parties /\ m.clauses # n.clauses => n.accepted = {}]_vars

\* A pact comes into force only as a clause of a treaty that one party had
\* accepted and the other party's acceptance now concludes; the one exception
\* is the peace that is left of a broken alliance.
PactByConsent ==
    [][\A p, q \in Players :
         /\ ds'[p][q] \in PactClauses
         /\ ds'[p][q] # ds[p][q]
         /\ ~(ds[p][q] = "alliance" /\ ds'[p][q] = "peace")
         => \E m \in meetings \ meetings' :
              /\ m.parties = {p, q} /\ m.accepted # {}
              /\ Signs(m, ds'[p][q])]_vars

\* A war never starts between two living players while a third one stays
\* allied with both: "in-alliance wars, which are not permitted"
\* (plrhand.cc:1353, the fall-out of a declaration of war).
NoInAllianceWar ==
    [][\A p, q \in Players :
         p # q /\ ds[p][q] # "war" /\ ds'[p][q] = "war" =>
           ~\E r \in Players \ {p, q} :
              alive'[r] /\ Allied(ds', p, r) /\ Allied(ds', q, r)]_vars

\* No living player is allied with two players who are at war with each other:
\* the "dread 'love-love-hate' triad" (player.cc:43-51).
NoLoveLoveHate ==
    \A p, q, r \in Players :
        p # q /\ alive[p] /\ alive[q] /\ alive[r]
          /\ r \notin {p, q} /\ Allied(ds, p, r) /\ Allied(ds, q, r)
        => ds[p][q] # "war"

\* What c promises has reached the other party of m.
Delivered(m, c) ==
    LET x == Other(m, c.from) IN
    CASE c.type = "advance" -> c.value \in techs'[x]
      [] c.type = "city"    -> owner'[c.value] = x
      [] c.type = "embassy" -> c.from \in embassy'[x]
      [] c.type = "vision"  -> x \in vision'[c.from]
      [] c.type = "gold"    -> gold'[c.from] < gold[c.from] \/ GoldFrom(m, x) >= c.value
      [] OTHER              -> ds'[x][c.from] = c.type

\* Goods change hands only by a treaty that was accepted before by one side:
\* every clause of it is then delivered, no gold is lost or made on the way,
\* and no city goes that its giver does not own or that is a capital.
PromisesKept ==
    [][gold' # gold \/ techs' # techs \/ (owner' # owner /\ alive' = alive) =>
         \E m \in meetings \ meetings' :
           /\ m.accepted # {}
           /\ \A c \in m.clauses : Delivered(m, c)
           /\ \A x \in m.parties :
                gold'[x] + GoldFrom(m, x) = gold[x] + GoldFrom(m, Other(m, x))
           /\ \A x \in Players \ m.parties : gold'[x] = gold[x]
           /\ \A v \in Cities : owner'[v] # owner[v] =>
                /\ v \notin Capitals
                /\ \E c \in m.clauses :
                     c.type = "city" /\ c.value = v /\ c.from = owner[v]]_vars

\* What a party promises it can pay when the treaty is executed, although the treaty
\* was accepted by the other earlier and its treasury may be promised elsewhere too:
\* if a treasury is drawn below zero, it is by the other party's negative sum, which
\* no handler looks at (the treasury is read again at diplhand.cc:338).
SumsCovered ==
    [][\A x \in Players :
         gold'[x] < gold[x] /\ gold'[x] < 0 =>
           \E m \in meetings \ meetings' :
             x \in m.parties /\ GoldFrom(m, Other(m, x)) < 0]_vars

\* maxallies is a bound on the alliances of a player, though the last check
\* before an alliance is concluded counts one side only.  (Team mates are
\* allies from the start: a team may be larger than the limit.)
AlliesBound ==
    MaxAllies > 0 => \A p \in Players :
        \/ Cardinality(Allies(ds, p)) <= MaxAllies
        \/ Allies(ds, p) \subseteq Mates(p)

\* A living player who reached maxallies has no diplomacy with those who are not
\* of his team: neither a pact nor shared vision in either direction nor an open
\* meeting (cancel_diplomacy, and the checks of diplomacy_possible after it).
SaturatedIsolation ==
    \A p, q \in Players :
        /\ alive[p] /\ alive[q] /\ Saturated(ds, p)
        /\ ~Allied(ds, p, q) /\ ~SameTeam(p, q)
        => /\ ds[p][q] \in {"no_contact", "war"}
           /\ q \notin vision[p] /\ p \notin vision[q]
           /\ Between(p, q) = {}

\* could_meet_with_player is asked when a meeting opens and never again.  Still,
\* whatever happens to lives, AI flags and alliances, the two parties of an open
\* meeting are alive, diplomacy is possible between them, and they know each other:
\* by an embassy, or by a contact that was made.  One thing could_meet_with_player asks
\* is not here, since the code does not keep it: the contact need not be recent.
\* It may run out at a turn change under a meeting that stays open.
MeetingStillAllowed ==
    \A m \in meetings : \A p, q \in m.parties : p # q =>
        /\ alive[p] /\ alive[q] /\ DiplomacyPossible(p, q)
        /\ q \in embassy[p] \/ p \in embassy[q] \/ ds[p][q] # "no_contact"

\* The treaties of two players, and the pacts their two rows stand for
TableOf(P) == {[terms |-> m.clauses, agreed |-> m.accepted] : m \in {n \in meetings : n.parties = P}}
BondOf(P) == {s \in PactClauses : \E p, q \in P : p # q /\ ds[p][q] = s}

Promise == INSTANCE Contract WITH
    Terms <- Clause,
    Bonds <- PactClauses,
    deals <- [P \in Pairs |-> TableOf(P)],
    bonds <- [P \in Pairs |-> BondOf(P)]

\* The list of treaties and the table of states, under all the handlers that
\* write them, implement what two players may rely on: one deal, terms that are
\* agreed to as they stand, and no pact but out of a deal that both agreed to.
KeepsContract == Promise!Spec

\* A cease-fire ends: it runs out, or war or a better pact replaces it, and no
\* treaty can renew it in time.
CeasefireEnds ==
    \A p, q \in Players : ds[p][q] = "ceasefire" ~> ds[p][q] # "ceasefire"
=============================================================================
