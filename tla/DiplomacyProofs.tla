-------------------------- MODULE DiplomacyProofs --------------------------
(* Theorems about Diplomacy, for every value of its constants. *)
EXTENDS Diplomacy, TLAPS

(***************************************************************************)
(* The clause list.                                                        *)
(***************************************************************************)

\* A clause that is added, and the one it amends, keeps the treaty a treaty.
LEMMA AddClauseType ==
    ASSUME NEW m \in Meeting, NEW c \in Clause
    PROVE  AddClause(m, c) \in Meeting
<1>1. ASSUME NEW old \in m.clauses, Supersedes(c, old)
      PROVE  Amended(c, old) \in Clause
  <2>1. old \in Clause
    BY DEF Meeting
  <2>2. CASE c.type = "gold"
    BY <1>1, <2>1, <2>2 DEF Supersedes, Amended, Clause, PactClauses
  <2>3. CASE c.type # "gold"
    BY <1>1, <2>1, <2>3 DEF Supersedes, Amended, Clause, PactClauses
  <2> QED BY <2>2, <2>3
<1>2. {IF Supersedes(c, old) THEN Amended(c, old) ELSE old : old \in m.clauses}
        \subseteq Clause
  BY <1>1 DEF Meeting
<1>3. {new \in {c} : \A old \in m.clauses : ~Supersedes(c, old)} \subseteq Clause
  OBVIOUS
<1> QED
  BY <1>2, <1>3 DEF AddClause, Meeting

LEMMA RemoveClauseType ==
    ASSUME NEW m \in Meeting, NEW c
    PROVE  RemoveClause(m, c) \in Meeting
  BY DEF RemoveClause, Meeting

LEMMA NewTreatyType ==
    ASSUME NEW p \in Players, NEW q \in Players, p # q
    PROVE  NewTreaty(p, q) \in Meeting
  BY DEF NewTreaty, Meeting, Pairs

\* The sum on the table is an integer, and nothing or one that the giver holds if he
\* can give every sum he promises.
LEMMA GoldFromBound ==
    ASSUME NEW m \in Meeting, NEW g
    PROVE  /\ GoldFrom(m, g) \in Int
           /\ \A n \in Int :
                (\A c \in m.clauses : c.type = "gold" /\ c.from = g => n >= c.value)
                  => n >= GoldFrom(m, g) \/ GoldFrom(m, g) = 0
<1>1. CASE \E c \in m.clauses : c.type = "gold" /\ c.from = g
  <2> DEFINE e == CHOOSE c \in m.clauses : c.type = "gold" /\ c.from = g
  <2>1. e \in m.clauses /\ e.type = "gold" /\ e.from = g
    BY <1>1
  <2>2. e \in Clause
    BY <2>1 DEF Meeting
  <2>3. e.value \in Int
    BY <2>1, <2>2 DEF Clause, PactClauses
  <2>4. GoldFrom(m, g) = e.value
    BY <1>1 DEF GoldFrom
  <2> HIDE DEF e
  <2> QED BY <2>1, <2>3, <2>4
<1>2. CASE ~\E c \in m.clauses : c.type = "gold" /\ c.from = g
  BY <1>2 DEF GoldFrom
<1> QED BY <1>1, <1>2

(***************************************************************************)
(* The pieces of the actions.                                              *)
(***************************************************************************)

LEMMA BetweenMeeting ==
    ASSUME TypeOK, NEW p, NEW q, NEW m \in Between(p, q)
    PROVE  /\ m \in meetings /\ m \in Meeting /\ m.parties = {p, q}
           /\ p \in Players /\ q \in Players /\ p # q
<1>1. m \in meetings /\ m \in Meeting /\ m.parties = {p, q}
  BY DEF TypeOK, Between
<1>2. PICK x, y \in Players : x # y /\ {p, q} = {x, y}
  BY <1>1 DEF Meeting, Pairs
<1> QED BY <1>1, <1>2

LEMMA OtherParty ==
    ASSUME NEW m, NEW p, NEW q, p # q, m.parties = {p, q}
    PROVE  Other(m, p) = q /\ Other(m, q) = p
  BY DEF Other

LEMMA SetPairType ==
    ASSUME NEW S, NEW table \in [Players -> [Players -> S]],
           NEW p \in Players, NEW q \in Players, NEW value \in S
    PROVE  SetPair(table, p, q, value) \in [Players -> [Players -> S]]
  BY DEF SetPair

\* What SetPair writes, where p and q differ
LEMMA SetPairValue ==
    ASSUME NEW S, NEW table \in [Players -> [Players -> S]],
           NEW p \in Players, NEW q \in Players, p # q, NEW value,
           NEW x \in Players, NEW y \in Players
    PROVE  SetPair(table, p, q, value)[x][y] =
             IF (x = p /\ y = q) \/ (x = q /\ y = p) THEN value ELSE table[x][y]
  BY DEF SetPair

LEMMA AfterPactType ==
    ASSUME TypeOK, NEW p \in Players, NEW q \in Players, NEW m \in Meeting
    PROVE  AfterPact(m, p, q) \in [Players -> [Players -> DiplState]]
<1>1. CASE Pact(m) = {}
  BY <1>1 DEF AfterPact, TypeOK
<1>2. CASE Pact(m) # {}
  <2> DEFINE e == CHOOSE c \in Pact(m) : TRUE
  <2>1. e \in Pact(m)
    BY <1>2
  <2>2. e.type \in DiplState
    BY <2>1 DEF Pact, PactClauses, DiplState
  <2>3. AfterPact(m, p, q) = SetPair(ds, p, q, e.type)
    BY <1>2 DEF AfterPact
  <2>4. ds \in [Players -> [Players -> DiplState]]
    BY DEF TypeOK
  <2> HIDE DEF e
  <2> QED BY <2>2, <2>3, <2>4 DEF SetPair
<1> QED BY <1>1, <1>2

LEMMA CutStatesType ==
    ASSUME NEW d \in [Players -> [Players -> DiplState]], NEW S
    PROVE  CutStates(d, S) \in [Players -> [Players -> DiplState]]
  BY DEF CutStates, DiplState

LEMMA FallOutType ==
    ASSUME NEW d \in [Players -> [Players -> DiplState]], NEW p, NEW q
    PROVE  FallOut(d, p, q) \in [Players -> [Players -> DiplState]]
  BY DEF FallOut, DiplState

LEMMA LowerType ==
    ASSUME NEW s \in DiplState, s \notin {"war", "team"}
    PROVE  Lower(s) \in {"war", "neutral", "peace"}
  BY DEF Lower, DiplState

(***************************************************************************)
(* Type correctness.                                                       *)
(***************************************************************************)

\* Swapping one meeting for its next form, the shape of most requests
LEMMA MeetingsStepType ==
    ASSUME TypeOK, NEW gone, NEW n \in Meeting,
           meetings' = (meetings \ gone) \cup {n},
           UNCHANGED <<states, contact, embassy, vision, alive, ai, goods>>
    PROVE  TypeOK'
  BY DEF TypeOK, states, goods

LEMMA MeetingsDropType ==
    ASSUME TypeOK, meetings' \subseteq meetings,
           UNCHANGED <<states, contact, embassy, vision, alive, ai, goods>>
    PROVE  TypeOK'
  BY DEF TypeOK, states, goods

LEMMA ConcludeType ==
    ASSUME TypeOK, NEW p \in Players, NEW q \in Players, Conclude(p, q)
    PROVE  TypeOK'
<1>1. PICK m \in Between(p, q) :
        AllKept(m, p, q) /\ AllStillKept(m, q, p) /\ Execute(m, p, q)
  BY DEF Conclude
<1>2. /\ m \in Meeting /\ m.parties = {p, q} /\ p # q
      /\ Other(m, p) = q /\ Other(m, q) = p
  BY BetweenMeeting, OtherParty
<1> DEFINE d == AfterPact(m, p, q)
           full == Filled(m, d)
           shown == [x \in Players |-> vision[x] \cup
                       {y \in m.parties \ {x} : x \in Givers(m, "vision", NoValue)}]
<1>3. /\ ds' = CutStates(d, full)
      /\ vision' = CutVision(d, full, shown)
      /\ meetings' \subseteq meetings
      /\ UNCHANGED <<contact, alive, ai>>
  BY <1>1 DEF Execute
<1>4. d \in [Players -> [Players -> DiplState]]
  BY <1>2, AfterPactType
<1> HIDE DEF d, full
<1>5. ds' \in [Players -> [Players -> DiplState]]
  BY <1>3, <1>4, CutStatesType
<1>6. turnsLeft' \in [Players -> [Players -> Int]]
  BY <1>1, TurnsAssumption DEF Execute, SetPair, TypeOK
<1>7. shown \in [Players -> SUBSET Players]
  BY <1>2 DEF TypeOK
<1>8. vision' \in [Players -> SUBSET Players]
  <2> HIDE DEF shown
  <2> QED BY <1>3, <1>7 DEF CutVision
<1>9. embassy' \in [Players -> SUBSET Players]
  BY <1>1, <1>2 DEF Execute, Givers, TypeOK
<1>10. gold' \in [Players -> Int]
  <2>1. GoldFrom(m, p) \in Int /\ GoldFrom(m, q) \in Int
    BY <1>2, GoldFromBound
  <2>2. gold' = [x \in Players |->
                   IF x \in {p, q} THEN gold[x] - GoldFrom(m, x) + GoldFrom(m, Other(m, x))
                                   ELSE gold[x]]
    BY <1>1, <1>2 DEF Execute
  <2>3. ASSUME NEW x \in Players PROVE gold'[x] \in Int
    BY <1>2, <2>1, <2>2 DEF TypeOK
  <2> QED BY <2>2, <2>3
<1>11. techs' \in [Players -> SUBSET Techs]
  BY <1>1 DEF Execute, TypeOK
<1>12. owner' \in [Cities -> Players \cup {NoOne}]
  <2>1. ASSUME NEW v \in Cities, Givers(m, "city", v) # {}
        PROVE  Other(m, CHOOSE g \in Givers(m, "city", v) : TRUE) \in Players
    <3>1. (CHOOSE g \in Givers(m, "city", v) : TRUE) \in {p, q}
      BY <2>1, <1>2 DEF Givers
    <3> QED BY <3>1, <1>2
  <2> QED BY <1>1, <2>1 DEF Execute, TypeOK
<1> QED
  BY <1>3, <1>5, <1>6, <1>8, <1>9, <1>10, <1>11, <1>12 DEF TypeOK

LEMMA CancelPactType ==
    ASSUME TypeOK, NEW p \in Players, NEW q \in Players, NEW allTheWay,
           CancelPact(p, q, allTheWay)
    PROVE  TypeOK'
<1> DEFINE new == IF allTheWay THEN "war" ELSE Lower(ds[p][q])
           d == SetPair(ds, p, q, new)
           t == SetPair(turnsLeft, p, q, CeasefireTurns)
<1>1. new \in DiplState
  <2>1. ds[p][q] \in DiplState /\ ds[p][q] \notin {"war", "team"}
    BY DEF CancelPact, TypeOK
  <2>2. Lower(ds[p][q]) \in {"war", "neutral", "peace"}
    BY <2>1, LowerType
  <2> QED BY <2>2 DEF DiplState
<1>2. d \in [Players -> [Players -> DiplState]]
  <2> HIDE DEF new
  <2> QED BY <1>1, SetPairType DEF TypeOK, SetPair
<1>3. t \in [Players -> [Players -> Int]]
  BY TurnsAssumption DEF TypeOK, SetPair
<1>4. /\ ds' = IF new = "war" THEN FallOut(d, p, q) ELSE d
      /\ turnsLeft' = IF new = "war" THEN FallOutTurns(d, t, p, q) ELSE t
      /\ UNCHANGED <<contact, embassy, vision, alive, ai, goods, meetings>>
  BY DEF CancelPact
<1> HIDE DEF new, d, t
<1>5. ds' \in [Players -> [Players -> DiplState]]
  BY <1>2, <1>4, FallOutType
<1>6. turnsLeft' \in [Players -> [Players -> Int]]
  BY <1>3, <1>4, TurnsAssumption DEF FallOutTurns
<1> QED
  BY <1>4, <1>5, <1>6 DEF TypeOK, goods

LEMMA SurroundingsType ==
    ASSUME TypeOK, NEW p \in Players, NEW q \in Players,
           \/ StopVision(p, q) \/ MakeContact(p, q) \/ EstablishEmbassy(p, q)
           \/ TurnChange \/ ToggleAI(p) \/ KillPlayer(p)
    PROVE  TypeOK'
<1>1. CASE StopVision(p, q)
  BY <1>1 DEF StopVision, TypeOK, states, goods
<1>2. CASE MakeContact(p, q)
  BY <1>2, TurnsAssumption DEF MakeContact, SetPair, TypeOK, goods, DiplState
<1>3. CASE EstablishEmbassy(p, q)
  BY <1>3 DEF EstablishEmbassy, TypeOK, states, goods
<1>4. CASE TurnChange
  BY <1>4 DEF TurnChange, TurnsAged, ContactAged, TypeOK, goods, DiplState
<1>5. CASE ToggleAI(p)
  BY <1>5 DEF ToggleAI, OpenWithout, TypeOK, states, goods
<1>6. CASE KillPlayer(p)
  BY <1>6, StartAssumption DEF KillPlayer, OpenWithout, TypeOK, states
<1> QED BY <1>1, <1>2, <1>3, <1>4, <1>5, <1>6

\* The requests that only change the list of treaties
LEMMA RequestsType ==
    ASSUME TypeOK, NEW p \in Players, NEW q \in Players,
           \/ InitMeeting(p, q) \/ CancelMeeting(p, q)
           \/ CreateClause(p, q) \/ RemoveClauseReq(p, q)
           \/ Withdraw(p, q) \/ AcceptFirst(p, q) \/ AcceptTooLate(p, q)
    PROVE  TypeOK'
<1>1. CASE InitMeeting(p, q)
  <2>1. NewTreaty(p, q) \in Meeting
    BY <1>1, NewTreatyType DEF InitMeeting, CouldMeet
  <2> QED BY <1>1, <2>1 DEF InitMeeting, TypeOK, states, goods
<1>2. CASE CancelMeeting(p, q)
  BY <1>2, MeetingsDropType DEF CancelMeeting
<1>3. CASE CreateClause(p, q)
  <2>1. PICK m \in Between(p, q), c \in Offers :
          /\ meetings' = (meetings \ {m}) \cup {AddClause(m, c)}
          /\ UNCHANGED <<states, contact, embassy, vision, alive, ai, goods>>
    BY <1>3 DEF CreateClause
  <2>2. AddClause(m, c) \in Meeting
    BY BetweenMeeting, AddClauseType, OffersAssumption
  <2> QED BY <2>1, <2>2, MeetingsStepType
<1>4. CASE RemoveClauseReq(p, q)
  <2>1. PICK m \in Between(p, q) : \E c \in m.clauses :
          /\ meetings' = (meetings \ {m}) \cup {RemoveClause(m, c)}
          /\ UNCHANGED <<states, contact, embassy, vision, alive, ai, goods>>
    BY <1>4 DEF RemoveClauseReq
  <2>2. \A c : RemoveClause(m, c) \in Meeting
    BY BetweenMeeting, RemoveClauseType
  <2> QED BY <2>1, <2>2, MeetingsStepType
<1>5. CASE Withdraw(p, q)
  <2>1. PICK m \in Between(p, q) :
          /\ meetings' = (meetings \ {m}) \cup {[m EXCEPT !.accepted = @ \ {p}]}
          /\ UNCHANGED <<states, contact, embassy, vision, alive, ai, goods>>
    BY <1>5 DEF Withdraw
  <2>2. [m EXCEPT !.accepted = @ \ {p}] \in Meeting
    BY BetweenMeeting DEF Meeting
  <2> QED BY <2>1, <2>2, MeetingsStepType
<1>6. CASE AcceptFirst(p, q)
  <2>1. PICK m \in Between(p, q) :
          /\ meetings' = (meetings \ {m}) \cup {[m EXCEPT !.accepted = @ \cup {p}]}
          /\ UNCHANGED <<states, contact, embassy, vision, alive, ai, goods>>
    BY <1>6 DEF AcceptFirst
  <2>2. [m EXCEPT !.accepted = @ \cup {p}] \in Meeting
    BY BetweenMeeting DEF Meeting
  <2> QED BY <2>1, <2>2, MeetingsStepType
<1>7. CASE AcceptTooLate(p, q)
  BY <1>7, MeetingsDropType DEF AcceptTooLate
<1> QED BY <1>1, <1>2, <1>3, <1>4, <1>5, <1>6, <1>7

LEMMA InitType == Init => TypeOK
  BY StartAssumption DEF Init, TypeOK, Mates, DiplState

LEMMA NextType == TypeOK /\ [Next]_vars => TypeOK'
<1> SUFFICES ASSUME TypeOK, [Next]_vars PROVE TypeOK'
  OBVIOUS
<1>1. ASSUME NEW p \in Players, NEW q \in Players, AcceptTreaty(p, q) PROVE TypeOK'
  BY <1>1, RequestsType, ConcludeType DEF AcceptTreaty
<1>2. CASE UNCHANGED vars
  BY <1>2 DEF vars, TypeOK
<1>3. ASSUME NEW p \in Players, ToggleAI(p) \/ KillPlayer(p) PROVE TypeOK'
  BY <1>3, SurroundingsType
<1>4. CASE TurnChange
  <2>1. CASE Players = {}
    BY <1>4, <2>1 DEF TurnChange, TurnsAged, ContactAged, TypeOK, goods
  <2>2. CASE Players # {}
    BY <1>4, <2>2, SurroundingsType
  <2> QED BY <2>1, <2>2
<1> QED
  BY <1>1, <1>2, <1>3, <1>4, RequestsType, CancelPactType, SurroundingsType DEF Next

\* Every state is well typed, whatever is offered, accepted, broken and lost.
THEOREM TypeCorrect == Spec => []TypeOK
<1>1. Init => TypeOK
  BY InitType
<1>2. TypeOK /\ [Next]_vars => TypeOK'
  BY NextType
<1> QED BY <1>1, <1>2, PTL DEF Spec

(***************************************************************************)
(* The treasuries.                                                         *)
(***************************************************************************)

\* The parties of a treaty that is executed hold what they pay: the last to accept
\* was looked at a moment ago, the first is looked at again.
LEMMA ConcludeCovered ==
    ASSUME TypeOK, NEW p \in Players, NEW q \in Players, Conclude(p, q),
           NEW x \in Players, gold'[x] < gold[x], gold'[x] < 0
    PROVE  \E m \in meetings \ meetings' : x \in m.parties /\ GoldFrom(m, Other(m, x)) < 0
<1>1. PICK m \in Between(p, q) :
        AllKept(m, p, q) /\ AllStillKept(m, q, p) /\ Execute(m, p, q)
  BY DEF Conclude
<1>2. /\ m \in Meeting /\ m \in meetings /\ m.parties = {p, q} /\ p # q
      /\ Other(m, p) = q /\ Other(m, q) = p
  BY BetweenMeeting, OtherParty
<1>3. m \notin meetings'
  BY <1>1 DEF Execute
<1>4. gold' = [y \in Players |->
                 IF y \in {p, q} THEN gold[y] - GoldFrom(m, y) + GoldFrom(m, Other(m, y))
                                 ELSE gold[y]]
  BY <1>1, <1>2 DEF Execute
<1>5. /\ GoldFrom(m, p) \in Int /\ GoldFrom(m, q) \in Int
      /\ gold[p] \in Int /\ gold[q] \in Int /\ gold[x] \in Int
  BY <1>2, GoldFromBound DEF TypeOK
<1>6. gold[p] >= GoldFrom(m, p) \/ GoldFrom(m, p) = 0
  <2>1. \A c \in m.clauses : c.type = "gold" /\ c.from = p => gold[p] >= c.value
    BY <1>1 DEF AllKept, CanKeep
  <2> QED BY <1>2, <1>5, <2>1, GoldFromBound
<1>7. gold[q] >= GoldFrom(m, q) \/ GoldFrom(m, q) = 0
  <2>1. \A c \in m.clauses : c.type = "gold" /\ c.from = q => gold[q] >= c.value
    BY <1>1 DEF AllStillKept, StillKeeps
  <2> QED BY <1>2, <1>5, <2>1, GoldFromBound
<1>8. CASE x = p
  <2>1. gold'[p] = gold[p] - GoldFrom(m, p) + GoldFrom(m, q)
    BY <1>2, <1>4
  <2>2. GoldFrom(m, q) < 0
    BY <1>5, <1>6, <1>8, <2>1
  <2> QED BY <1>2, <1>3, <1>8, <2>2
<1>9. CASE x = q
  <2>1. gold'[q] = gold[q] - GoldFrom(m, q) + GoldFrom(m, p)
    BY <1>2, <1>4
  <2>2. GoldFrom(m, p) < 0
    BY <1>5, <1>7, <1>9, <2>1
  <2> QED BY <1>2, <1>3, <1>9, <2>2
<1>10. CASE x \notin {p, q}
  BY <1>4, <1>5, <1>10
<1> QED BY <1>8, <1>9, <1>10

LEMMA OnlyTreatiesMoveGold ==
    ASSUME [Next]_vars, gold' # gold
    PROVE  \E p, q \in Players : Conclude(p, q)
<1>1. ASSUME NEW p \in Players, NEW q \in Players,
             \/ InitMeeting(p, q) \/ CancelMeeting(p, q)
             \/ CreateClause(p, q) \/ RemoveClauseReq(p, q)
             \/ Withdraw(p, q) \/ AcceptFirst(p, q) \/ AcceptTooLate(p, q)
      PROVE  gold' = gold
  BY <1>1 DEF InitMeeting, CancelMeeting, CreateClause, RemoveClauseReq, Withdraw,
              AcceptFirst, AcceptTooLate, goods
<1>2. ASSUME NEW p, NEW q, \/ StopVision(p, q) \/ CancelPact(p, q, FALSE)
                           \/ CancelPact(p, q, TRUE) \/ MakeContact(p, q)
                           \/ EstablishEmbassy(p, q) \/ ToggleAI(p) \/ KillPlayer(p)
                           \/ TurnChange
      PROVE  gold' = gold
  BY <1>2 DEF StopVision, CancelPact, MakeContact, EstablishEmbassy, ToggleAI, KillPlayer,
              TurnChange, goods
<1> QED BY <1>1, <1>2 DEF Next, AcceptTreaty, vars

\* Only treaties move gold, and no treasury is drawn below zero by what its own player
\* promised, however many treaties promise the same gold; by a negative sum of the
\* other party, which no handler looks at, it may be.
THEOREM SumsAreCovered == Spec => SumsCovered
<1>1. ASSUME TypeOK, [Next]_vars, NEW x \in Players, gold'[x] < gold[x], gold'[x] < 0
      PROVE  \E m \in meetings \ meetings' : x \in m.parties /\ GoldFrom(m, Other(m, x)) < 0
  <2>1. gold' # gold /\ gold[x] \in Int
    BY <1>1 DEF TypeOK
  <2>2. PICK p \in Players, q \in Players : Conclude(p, q)
    BY <1>1, <2>1, OnlyTreatiesMoveGold
  <2> QED BY <1>1, <2>2, ConcludeCovered
<1>2. TypeOK /\ [Next]_vars =>
        [\A x \in Players :
           gold'[x] < gold[x] /\ gold'[x] < 0 =>
             \E m \in meetings \ meetings' :
               x \in m.parties /\ GoldFrom(m, Other(m, x)) < 0]_vars
  BY <1>1
<1> QED BY <1>2, TypeCorrect, PTL DEF Spec, SumsCovered

(***************************************************************************)
(* The two rows of a pair.                                                 *)
(***************************************************************************)

\* Whoever writes a state other than "ceasefire" on both rows, or leaves the
\* pair alone, keeps the rows in agreement.
RowsOf(d, t) ==
    \A x, y \in Players :
        /\ d[x][y] = d[y][x]
        /\ d[x][y] = "ceasefire" => t[x][y] = t[y][x] /\ t[x][y] \in 1..CeasefireTurns

LEMMA RowsSetPair ==
    ASSUME NEW d, NEW t, RowsOf(d, t), NEW p \in Players, NEW q \in Players, NEW value,
           value # "ceasefire"
    PROVE  \A u : (\A x, y \in Players : u[x][y] # t[x][y]
                     => (x = p /\ y = q) \/ (x = q /\ y = p))
                  => RowsOf(SetPair(d, p, q, value), u)
<1> SUFFICES ASSUME NEW u,
                    \A x, y \in Players : u[x][y] # t[x][y]
                      => (x = p /\ y = q) \/ (x = q /\ y = p),
                    NEW x \in Players, NEW y \in Players
             PROVE  LET e == SetPair(d, p, q, value) IN
                    /\ e[x][y] = e[y][x]
                    /\ e[x][y] = "ceasefire" => u[x][y] = u[y][x] /\ u[x][y] \in 1..CeasefireTurns
  BY DEF RowsOf
<1>1. CASE (x = p /\ y = q) \/ (x = q /\ y = p)
  BY <1>1 DEF SetPair, RowsOf
<1>2. CASE ~((x = p /\ y = q) \/ (x = q /\ y = p))
  BY <1>2 DEF SetPair, RowsOf
<1> QED BY <1>1, <1>2

LEMMA RowsCut ==
    ASSUME NEW d, NEW t, RowsOf(d, t), NEW S
    PROVE  RowsOf(CutStates(d, S), t)
<1> SUFFICES ASSUME NEW x \in Players, NEW y \in Players
             PROVE  LET e == CutStates(d, S) IN
                    /\ e[x][y] = e[y][x]
                    /\ e[x][y] = "ceasefire" => t[x][y] = t[y][x] /\ t[x][y] \in 1..CeasefireTurns
  BY DEF RowsOf
<1>1. d[x][y] = d[y][x] /\ (Cut(d, S, x, y) <=> Cut(d, S, y, x))
  BY DEF RowsOf, Cut
<1>2. /\ CutStates(d, S)[x][y] =
           IF Cut(d, S, x, y) /\ d[x][y] \notin {"no_contact", "war"} THEN "war" ELSE d[x][y]
      /\ CutStates(d, S)[y][x] =
           IF Cut(d, S, y, x) /\ d[y][x] \notin {"no_contact", "war"} THEN "war" ELSE d[y][x]
  BY DEF CutStates
<1> QED BY <1>1, <1>2 DEF RowsOf

LEMMA RowsFallOut ==
    ASSUME NEW d, NEW t, RowsOf(d, t), NEW p, NEW q
    PROVE  RowsOf(FallOut(d, p, q), FallOutTurns(d, t, p, q))
<1> SUFFICES ASSUME NEW x \in Players, NEW y \in Players
             PROVE  LET e == FallOut(d, p, q)
                        u == FallOutTurns(d, t, p, q) IN
                    /\ e[x][y] = e[y][x]
                    /\ e[x][y] = "ceasefire" => u[x][y] = u[y][x] /\ u[x][y] \in 1..CeasefireTurns
  BY DEF RowsOf
<1> DEFINE broken == {x, y} \in Broken(d, p, q)
<1>1. {y, x} = {x, y}
  OBVIOUS
<1>2. /\ FallOut(d, p, q)[x][y] = IF broken /\ d[x][y] = "alliance" THEN "peace" ELSE d[x][y]
      /\ FallOut(d, p, q)[y][x] = IF broken /\ d[y][x] = "alliance" THEN "peace" ELSE d[y][x]
      /\ FallOutTurns(d, t, p, q)[x][y] =
           IF broken /\ d[x][y] = "alliance" THEN CeasefireTurns ELSE t[x][y]
      /\ FallOutTurns(d, t, p, q)[y][x] =
           IF broken /\ d[y][x] = "alliance" THEN CeasefireTurns ELSE t[y][x]
  BY <1>1 DEF FallOut, FallOutTurns
<1> HIDE DEF broken
<1> QED BY <1>2 DEF RowsOf

\* After the pact of a treaty: the turns are set whenever it is a cease-fire.
LEMMA RowsPact ==
    ASSUME RowsOf(ds, turnsLeft), NEW p \in Players, NEW q \in Players, p # q, NEW m
    PROVE  RowsOf(AfterPact(m, p, q),
                  IF Signs(m, "ceasefire")
                    THEN SetPair(turnsLeft, p, q, CeasefireTurns) ELSE turnsLeft)
<1> DEFINE u == IF Signs(m, "ceasefire")
                  THEN SetPair(turnsLeft, p, q, CeasefireTurns) ELSE turnsLeft
           e == CHOOSE c \in Pact(m) : TRUE
<1>0. \A x, y \in Players :
        u[x][y] = IF Signs(m, "ceasefire") /\ ((x = p /\ y = q) \/ (x = q /\ y = p))
                    THEN CeasefireTurns ELSE turnsLeft[x][y]
  BY DEF SetPair
<1>1. CASE Pact(m) = {}
  <2>1. ~Signs(m, "ceasefire")
    BY <1>1 DEF Pact, Signs, PactClauses
  <2> QED BY <1>1, <2>1 DEF AfterPact
<1>2. CASE Pact(m) # {}
  <2>1. e \in m.clauses /\ AfterPact(m, p, q) = SetPair(ds, p, q, e.type)
    BY <1>2 DEF Pact, AfterPact
  <2> HIDE DEF u, e
  <2>2. CASE e.type = "ceasefire"
    <3>1. Signs(m, "ceasefire")
      BY <2>1, <2>2 DEF Signs
    <3>2. SUFFICES ASSUME NEW x \in Players, NEW y \in Players
                   PROVE  LET d == SetPair(ds, p, q, "ceasefire") IN
                          /\ d[x][y] = d[y][x]
                          /\ d[x][y] = "ceasefire"
                               => u[x][y] = u[y][x] /\ u[x][y] \in 1..CeasefireTurns
      BY <2>1, <2>2 DEF RowsOf, u
    <3>3. CASE (x = p /\ y = q) \/ (x = q /\ y = p)
      BY <3>1, <3>3, <1>0, TurnsAssumption DEF SetPair
    <3>4. CASE ~((x = p /\ y = q) \/ (x = q /\ y = p))
      BY <3>4, <1>0 DEF SetPair, RowsOf
    <3> QED BY <3>3, <3>4
  <2>3. CASE e.type # "ceasefire"
    <3>1. RowsOf(SetPair(ds, p, q, e.type), u)
      BY <2>3, <1>0, RowsSetPair
    <3> QED BY <2>1, <3>1 DEF u
  <2> QED BY <2>2, <2>3
<1> QED BY <1>1, <1>2

LEMMA RowsNext ==
    ASSUME TypeOK, RowsAgree, [Next]_vars
    PROVE  RowsAgree'
<1>0. RowsOf(ds, turnsLeft) /\ (RowsAgree' <=> RowsOf(ds', turnsLeft'))
  BY DEF RowsAgree, RowsOf
<1>1. CASE UNCHANGED states
  BY <1>0, <1>1 DEF states
<1>2. ASSUME NEW p \in Players, NEW q \in Players, Conclude(p, q)
      PROVE  RowsAgree'
  <2>1. PICK m \in Between(p, q) : Execute(m, p, q)
    BY <1>2 DEF Conclude
  <2>2. p # q
    BY BetweenMeeting
  <2> DEFINE d == AfterPact(m, p, q)
             u == IF Signs(m, "ceasefire")
                    THEN SetPair(turnsLeft, p, q, CeasefireTurns) ELSE turnsLeft
  <2>3. ds' = CutStates(d, Filled(m, d)) /\ turnsLeft' = u
    BY <2>1 DEF Execute
  <2>4. RowsOf(d, u)
    BY <1>0, <2>2, RowsPact
  <2> HIDE DEF d, u
  <2> QED BY <1>0, <2>3, <2>4, RowsCut
<1>3. ASSUME NEW p \in Players, NEW q \in Players, NEW allTheWay \in BOOLEAN,
             CancelPact(p, q, allTheWay)
      PROVE  RowsAgree'
  <2> DEFINE new == IF allTheWay THEN "war" ELSE Lower(ds[p][q])
             d == SetPair(ds, p, q, new)
             t == SetPair(turnsLeft, p, q, CeasefireTurns)
  <2>1. /\ ds' = IF new = "war" THEN FallOut(d, p, q) ELSE d
        /\ turnsLeft' = IF new = "war" THEN FallOutTurns(d, t, p, q) ELSE t
        /\ ds[p][q] \in DiplState /\ ds[p][q] \notin {"war", "team"}
    BY <1>3 DEF CancelPact, TypeOK
  <2>2. new # "ceasefire"
    <3>1. Lower(ds[p][q]) \in {"war", "neutral", "peace"}
      BY <2>1, LowerType
    <3> QED BY <3>1
  <2>3. \A x, y \in Players : t[x][y] # turnsLeft[x][y]
           => (x = p /\ y = q) \/ (x = q /\ y = p)
    BY DEF SetPair
  <2> HIDE DEF new, t
  <2>4. RowsOf(d, t)
    BY <1>0, <2>2, <2>3, RowsSetPair
  <2> HIDE DEF d
  <2> QED BY <1>0, <2>1, <2>4, RowsFallOut
<1>4. ASSUME NEW p \in Players, NEW q \in Players, MakeContact(p, q)
      PROVE  RowsAgree'
  <2>1. turnsLeft' = turnsLeft
    BY <1>4 DEF MakeContact
  <2>2. CASE ds' = ds
    BY <1>0, <2>1, <2>2
  <2>3. CASE ds' # ds
    <3> DEFINE value == IF DiplomacyPossible(p, q) THEN "neutral" ELSE "war"
    <3>1. ds' = SetPair(ds, p, q, value)
      BY <1>4, <2>3 DEF MakeContact
    <3>2. value # "ceasefire"
      OBVIOUS
    <3> HIDE DEF value
    <3> QED BY <1>0, <2>1, <3>1, <3>2, RowsSetPair
  <2> QED BY <2>2, <2>3
<1>5. CASE TurnChange
  <2>1. \A x, y \in Players :
          /\ turnsLeft'[x][y] = TurnsAged[x][y]
          /\ TurnsAged[x][y] = IF ds[x][y] = "ceasefire" THEN turnsLeft[x][y] - 1
                                                         ELSE turnsLeft[x][y]
          /\ ds'[x][y] = IF ds[x][y] = "ceasefire" /\ TurnsAged[x][y] = 0
                           THEN "neutral" ELSE ds[x][y]
    BY <1>5 DEF TurnChange, TurnsAged
  <2>2. SUFFICES ASSUME NEW x \in Players, NEW y \in Players
                 PROVE  /\ ds'[x][y] = ds'[y][x]
                        /\ ds'[x][y] = "ceasefire" =>
                             /\ turnsLeft'[x][y] = turnsLeft'[y][x]
                             /\ turnsLeft'[x][y] \in 1..CeasefireTurns
    BY <1>0 DEF RowsOf
  <2> QED BY <1>0, <2>1, TurnsAssumption DEF RowsOf
<1>6. ASSUME NEW p \in Players, NEW q \in Players,
             \/ InitMeeting(p, q) \/ CancelMeeting(p, q)
             \/ CreateClause(p, q) \/ RemoveClauseReq(p, q)
             \/ Withdraw(p, q) \/ AcceptFirst(p, q) \/ AcceptTooLate(p, q)
             \/ StopVision(p, q) \/ EstablishEmbassy(p, q)
             \/ ToggleAI(p) \/ KillPlayer(p)
      PROVE  UNCHANGED states
  BY <1>6 DEF InitMeeting, CancelMeeting, CreateClause, RemoveClauseReq, Withdraw,
              AcceptFirst, AcceptTooLate, StopVision, EstablishEmbassy, ToggleAI, KillPlayer
<1>7. UNCHANGED vars => UNCHANGED states
  BY DEF vars, states
<1> QED
  BY <1>1, <1>2, <1>3, <1>4, <1>5, <1>6, <1>7 DEF Next, AcceptTreaty

\* Two players never disagree on where they stand, and a cease-fire in force
\* has turns to run on both sides (sanitycheck.cc:387-397).
THEOREM RowsAlwaysAgree == Spec => []RowsAgree
<1>1. Init => RowsAgree
  BY DEF Init, RowsAgree, Mates, SameTeam
<1>2. TypeOK /\ RowsAgree /\ [Next]_vars => RowsAgree'
  BY RowsNext
<1> QED BY <1>1, <1>2, TypeCorrect, PTL DEF Spec

(***************************************************************************)
(* The list of treaties.                                                   *)
(***************************************************************************)

MeetingsInv == MeetingsSound /\ DeadLeaveNothing

\* A request replaces at most one treaty by its next form, which has the same
\* parties; or it opens one for two living players who had none; or it drops
\* some.  Nothing else happens to the list.
Replaces(m, n) ==
    /\ m \in meetings
    /\ n.parties = m.parties /\ n.accepted \subseteq n.parties /\ n.accepted # n.parties
    /\ \A c \in n.clauses : c.from \in n.parties
    /\ n.clauses # m.clauses => n.accepted = {}
    /\ n.clauses \subseteq m.clauses \/ \E c \in Clause : n = AddClause(m, c)
    /\ n.accepted = {} \/ (m.accepted = {} /\ \E p \in m.parties : n.accepted = {p})
    /\ meetings' = (meetings \ {m}) \cup {n}

Opens(p, q) ==
    /\ Between(p, q) = {} /\ alive[p] /\ alive[q]
    /\ meetings' = meetings \cup {NewTreaty(p, q)}

LEMMA AddClauseFacts ==
    ASSUME NEW m \in Meeting, NEW c \in Clause, c.from \in m.parties,
           \A e \in m.clauses : e.from \in m.parties
    PROVE  /\ AddClause(m, c).parties = m.parties
           /\ AddClause(m, c).accepted = {}
           /\ \A e \in AddClause(m, c).clauses : e.from \in m.parties
<1>1. ASSUME NEW old \in m.clauses PROVE Amended(c, old).from = old.from
  <2>1. old \in Clause
    BY DEF Meeting
  <2> QED BY <2>1 DEF Amended, Clause
<1>2. AddClause(m, c).clauses =
        {IF Supersedes(c, old) THEN Amended(c, old) ELSE old : old \in m.clauses}
          \cup {new \in {c} : \A old \in m.clauses : ~Supersedes(c, old)}
  BY DEF AddClause, Meeting
<1>3. AddClause(m, c).parties = m.parties /\ AddClause(m, c).accepted = {}
  BY DEF AddClause, Meeting
<1> QED BY <1>1, <1>2, <1>3

LEMMA RequestsList ==
    ASSUME TypeOK, MeetingsInv, NEW p \in Players, NEW q \in Players,
           \/ InitMeeting(p, q) \/ CancelMeeting(p, q)
           \/ CreateClause(p, q) \/ RemoveClauseReq(p, q)
           \/ Withdraw(p, q) \/ AcceptFirst(p, q) \/ AcceptTooLate(p, q)
    PROVE  /\ \/ meetings' \subseteq meetings
              \/ \E m, n \in Meeting : Replaces(m, n)
              \/ p # q /\ Opens(p, q)
           /\ UNCHANGED <<states, contact, embassy, vision, alive, ai, goods>>
<1>1. CASE InitMeeting(p, q)
  BY <1>1 DEF InitMeeting, CouldMeet, Opens
<1>2. CASE CancelMeeting(p, q)
  BY <1>2 DEF CancelMeeting
<1>3. CASE CreateClause(p, q)
  <2>1. PICK m \in Between(p, q), c \in Offers :
          /\ c.from \in m.parties
          /\ meetings' = (meetings \ {m}) \cup {AddClause(m, c)}
          /\ UNCHANGED <<states, contact, embassy, vision, alive, ai, goods>>
    BY <1>3 DEF CreateClause
  <2>2. m \in Meeting /\ m \in meetings /\ c \in Clause /\ m.parties # {}
    BY BetweenMeeting, OffersAssumption
  <2>3. AddClause(m, c) \in Meeting
    BY <2>2, AddClauseType
  <2>4. Replaces(m, AddClause(m, c))
    <3>1. \A e \in m.clauses : e.from \in m.parties
      BY <2>2 DEF MeetingsInv, MeetingsSound
    <3> QED BY <2>1, <2>2, <3>1, AddClauseFacts DEF Replaces
  <2> QED BY <2>1, <2>2, <2>3, <2>4
<1>4. CASE RemoveClauseReq(p, q)
  <2>1. PICK m \in Between(p, q) : \E c \in m.clauses :
          /\ meetings' = (meetings \ {m}) \cup {RemoveClause(m, c)}
          /\ UNCHANGED <<states, contact, embassy, vision, alive, ai, goods>>
    BY <1>4 DEF RemoveClauseReq
  <2>2. PICK c \in m.clauses : meetings' = (meetings \ {m}) \cup {RemoveClause(m, c)}
    BY <2>1
  <2>3. m \in Meeting /\ m \in meetings /\ m.parties # {} /\ RemoveClause(m, c) \in Meeting
    BY BetweenMeeting, RemoveClauseType
  <2>4. /\ RemoveClause(m, c).parties = m.parties /\ RemoveClause(m, c).accepted = {}
        /\ RemoveClause(m, c).clauses \subseteq m.clauses
    BY <2>3 DEF RemoveClause, Meeting
  <2>5. Replaces(m, RemoveClause(m, c))
    BY <2>2, <2>3, <2>4 DEF Replaces, MeetingsInv, MeetingsSound
  <2> QED BY <2>1, <2>3, <2>5
<1>5. CASE Withdraw(p, q)
  <2>1. PICK m \in Between(p, q) :
          /\ p \in m.accepted
          /\ meetings' = (meetings \ {m}) \cup {[m EXCEPT !.accepted = @ \ {p}]}
          /\ UNCHANGED <<states, contact, embassy, vision, alive, ai, goods>>
    BY <1>5 DEF Withdraw
  <2> DEFINE n == [m EXCEPT !.accepted = @ \ {p}]
  <2>2. m \in Meeting /\ m \in meetings /\ m.parties = {p, q}
    BY BetweenMeeting
  <2>3. n \in Meeting /\ n.parties = m.parties /\ n.clauses = m.clauses
        /\ n.accepted = m.accepted \ {p}
    BY <2>2 DEF Meeting
  <2>4. /\ m.accepted \subseteq m.parties /\ m.accepted \ {p} = {}
        /\ \A c \in m.clauses : c.from \in m.parties
    <3>1. /\ m.accepted \subseteq {p, q} /\ m.accepted # {p, q}
          /\ \A c \in m.clauses : c.from \in m.parties
      BY <2>2 DEF MeetingsInv, MeetingsSound
    <3>2. q \notin m.accepted
      BY <2>1, <3>1
    <3> QED BY <2>2, <3>1, <3>2
  <2>5. meetings' = (meetings \ {m}) \cup {n}
    BY <2>1
  <2> HIDE DEF n
  <2>6. Replaces(m, n)
    BY <2>2, <2>3, <2>4, <2>5 DEF Replaces
  <2> QED BY <2>1, <2>2, <2>3, <2>6
<1>6. CASE AcceptFirst(p, q)
  <2>1. PICK m \in Between(p, q) :
          /\ p \notin m.accepted /\ ~OtherAccepted(m, q)
          /\ meetings' = (meetings \ {m}) \cup {[m EXCEPT !.accepted = @ \cup {p}]}
          /\ UNCHANGED <<states, contact, embassy, vision, alive, ai, goods>>
    BY <1>6 DEF AcceptFirst
  <2> DEFINE n == [m EXCEPT !.accepted = @ \cup {p}]
  <2>2. m \in Meeting /\ m \in meetings /\ m.parties = {p, q} /\ p # q
    BY BetweenMeeting
  <2>3. n \in Meeting /\ n.parties = m.parties /\ n.clauses = m.clauses
        /\ n.accepted = m.accepted \cup {p}
    BY <2>2 DEF Meeting
  <2>4. /\ m.accepted = {} /\ n.accepted = {p} /\ p \in m.parties
        /\ \A c \in m.clauses : c.from \in m.parties
    BY <2>1, <2>2, <2>3 DEF MeetingsInv, MeetingsSound, OtherAccepted
  <2>5. meetings' = (meetings \ {m}) \cup {n}
    BY <2>1
  <2> HIDE DEF n
  <2>6. Replaces(m, n)
    BY <2>2, <2>3, <2>4, <2>5 DEF Replaces
  <2> QED BY <2>1, <2>2, <2>3, <2>6
<1>7. CASE AcceptTooLate(p, q)
  BY <1>7 DEF AcceptTooLate
<1> QED BY <1>1, <1>2, <1>3, <1>4, <1>5, <1>6, <1>7

LEMMA ListStep ==
    ASSUME TypeOK, MeetingsInv, UNCHANGED <<alive, vision, owner>>,
           \/ meetings' \subseteq meetings
           \/ \E m, n \in Meeting : Replaces(m, n)
           \/ \E p, q \in Players : p # q /\ Opens(p, q)
    PROVE  MeetingsInv'
<1>1. CASE meetings' \subseteq meetings
  BY <1>1 DEF MeetingsInv, MeetingsSound, DeadLeaveNothing
<1>2. CASE \E m, n \in Meeting : Replaces(m, n)
  <2>1. PICK m, n \in Meeting : Replaces(m, n)
    BY <1>2
  <2>2. ASSUME NEW k \in meetings' PROVE k = n \/ (k \in meetings /\ k.parties # n.parties)
    BY <2>1 DEF Replaces, MeetingsInv, MeetingsSound
  <2>3. ASSUME NEW k \in meetings'
        PROVE  /\ k.accepted \subseteq k.parties /\ k.accepted # k.parties
               /\ \A c \in k.clauses : c.from \in k.parties
               /\ \A p \in Players : ~alive[p] => p \notin k.parties
    BY <2>1, <2>2 DEF Replaces, MeetingsInv, MeetingsSound, DeadLeaveNothing
  <2>4. ASSUME NEW j \in meetings', NEW k \in meetings', j.parties = k.parties PROVE j = k
    <3>1. j = n \/ (j \in meetings /\ j.parties # n.parties)
      BY <2>2
    <3>2. k = n \/ (k \in meetings /\ k.parties # n.parties)
      BY <2>2
    <3> QED BY <2>4, <3>1, <3>2 DEF MeetingsInv, MeetingsSound
  <2>5. MeetingsSound'
    BY <2>3, <2>4 DEF MeetingsSound
  <2>6. DeadLeaveNothing'
    BY <2>3 DEF MeetingsInv, DeadLeaveNothing
  <2> QED BY <2>5, <2>6 DEF MeetingsInv
<1>3. CASE \E p, q \in Players : p # q /\ Opens(p, q)
  <2>1. PICK p, q \in Players : p # q /\ Opens(p, q)
    BY <1>3
  <2> DEFINE n == NewTreaty(p, q)
  <2>2. n.parties = {p, q} /\ n.accepted = {} /\ n.clauses = {}
    BY DEF NewTreaty
  <2>3. meetings' = meetings \cup {n} /\ alive[p] /\ alive[q]
        /\ \A k \in meetings : k.parties # {p, q}
    BY <2>1 DEF Opens, Between
  <2> HIDE DEF n
  <2>4. MeetingsSound'
    BY <2>2, <2>3 DEF MeetingsInv, MeetingsSound
  <2>5. DeadLeaveNothing'
    BY <2>2, <2>3 DEF MeetingsInv, DeadLeaveNothing
  <2> QED BY <2>4, <2>5 DEF MeetingsInv
<1> QED BY <1>1, <1>2, <1>3

\* The executed treaty hands cities to a party, and parties are alive.
LEMMA ConcludeList ==
    ASSUME TypeOK, MeetingsInv, NEW p \in Players, NEW q \in Players, Conclude(p, q)
    PROVE  MeetingsInv' /\ meetings' \subseteq meetings
<1>1. PICK m \in Between(p, q) : Execute(m, p, q)
  BY DEF Conclude
<1>2. /\ m \in Meeting /\ m \in meetings /\ m.parties = {p, q} /\ p # q
      /\ Other(m, p) = q /\ Other(m, q) = p /\ alive[p] /\ alive[q]
  <2>1. m \in Meeting /\ m \in meetings /\ m.parties = {p, q} /\ p # q
    BY BetweenMeeting
  <2>2. alive[p] /\ alive[q]
    BY <2>1 DEF MeetingsInv, DeadLeaveNothing
  <2>3. Other(m, p) = q /\ Other(m, q) = p
    BY <2>1, OtherParty
  <2> QED BY <2>1, <2>2, <2>3
<1>3. meetings' \subseteq meetings /\ alive' = alive
  BY <1>1 DEF Execute
<1>4. ASSUME NEW x \in Players, ~alive[x] PROVE vision'[x] = {}
  <2>1. vision[x] = {} /\ x \notin Givers(m, "vision", NoValue)
    BY <1>2, <1>4 DEF MeetingsInv, DeadLeaveNothing, Givers
  <2> DEFINE shown == [z \in Players |-> vision[z] \cup
                         {y \in m.parties \ {z} : z \in Givers(m, "vision", NoValue)}]
  <2>2. shown[x] = {}
    BY <2>1
  <2>3. \E d, S : vision' = CutVision(d, S, shown)
    BY <1>1 DEF Execute
  <2> HIDE DEF shown
  <2> QED BY <2>2, <2>3 DEF CutVision
<1>5. ASSUME NEW x \in Players, ~alive[x], NEW v \in Cities PROVE owner'[v] # x
  <2>1. CASE owner[v] # NoOne /\ Givers(m, "city", v) # {}
    <3>1. (CHOOSE g \in Givers(m, "city", v) : TRUE) \in {p, q}
      BY <2>1, <1>2 DEF Givers
    <3>2. owner'[v] = Other(m, CHOOSE g \in Givers(m, "city", v) : TRUE)
      BY <1>1, <2>1 DEF Execute
    <3> QED BY <3>1, <3>2, <1>2, <1>5
  <2>2. CASE ~(owner[v] # NoOne /\ Givers(m, "city", v) # {})
    BY <1>1, <1>5, <2>2 DEF Execute, MeetingsInv, DeadLeaveNothing
  <2> QED BY <2>1, <2>2
<1>6. MeetingsSound'
  BY <1>3 DEF MeetingsInv, MeetingsSound
<1>7. DeadLeaveNothing'
  BY <1>3, <1>4, <1>5 DEF MeetingsInv, DeadLeaveNothing
<1> QED BY <1>3, <1>6, <1>7 DEF MeetingsInv

LEMMA SurroundingsList ==
    ASSUME TypeOK, MeetingsInv, NEW p \in Players, NEW q \in Players,
           \/ StopVision(p, q) \/ MakeContact(p, q) \/ EstablishEmbassy(p, q)
           \/ TurnChange \/ ToggleAI(p) \/ KillPlayer(p)
           \/ \E allTheWay \in BOOLEAN : CancelPact(p, q, allTheWay)
    PROVE  MeetingsInv' /\ meetings' \subseteq meetings
<1>1. CASE \/ MakeContact(p, q) \/ EstablishEmbassy(p, q) \/ TurnChange
           \/ \E allTheWay \in BOOLEAN : CancelPact(p, q, allTheWay)
  <2>1. UNCHANGED <<vision, alive, goods, meetings>>
    BY <1>1 DEF MakeContact, EstablishEmbassy, TurnChange, CancelPact
  <2> QED BY <2>1, ListStep DEF goods
<1>2. CASE StopVision(p, q)
  <2>1. /\ vision' = [vision EXCEPT ![p] = @ \ {q}]
        /\ UNCHANGED <<alive, owner, meetings>>
    BY <1>2 DEF StopVision, goods
  <2>2. MeetingsSound'
    BY <2>1 DEF MeetingsInv, MeetingsSound
  <2>3. DeadLeaveNothing'
    BY <2>1 DEF MeetingsInv, DeadLeaveNothing, TypeOK
  <2> QED BY <2>1, <2>2, <2>3 DEF MeetingsInv
<1>3. CASE ToggleAI(p)
  <2>1. meetings' \subseteq meetings /\ UNCHANGED <<alive, vision, owner>>
    BY <1>3 DEF ToggleAI, OpenWithout, goods
  <2> QED BY <2>1, ListStep
<1>4. CASE KillPlayer(p)
  <2>1. /\ meetings' = {m \in meetings : p \notin m.parties}
        /\ alive' = [alive EXCEPT ![p] = FALSE] /\ vision' = [vision EXCEPT ![p] = {}]
        /\ \A v \in Cities : owner'[v] = IF owner[v] # p THEN owner[v]
                                         ELSE IF Founder[v] # p /\ alive[Founder[v]]
                                           THEN Founder[v] ELSE NoOne
    BY <1>4 DEF KillPlayer, OpenWithout
  <2>2. MeetingsSound'
    BY <2>1 DEF MeetingsInv, MeetingsSound
  <2>3. ASSUME NEW x \in Players, ~alive'[x]
        PROVE  /\ \A v \in Cities : owner'[v] # x
               /\ vision'[x] = {}
               /\ \A m \in meetings' : x \notin m.parties
    <3>1. CASE x = p
      <4>1. vision'[p] = {} /\ \A m \in meetings' : p \notin m.parties
        BY <2>1 DEF TypeOK
      <4>2. ASSUME NEW v \in Cities PROVE owner'[v] # p
        BY <2>1, PlayersAssumption
      <4> QED BY <3>1, <4>1, <4>2
    <3>2. CASE x # p
      <4>1. vision'[x] = vision[x] /\ alive'[x] = alive[x]
        BY <2>1, <3>2 DEF TypeOK
      <4>2. ~alive[x]
        BY <2>3, <4>1
      <4>3. /\ vision[x] = {} /\ \A v \in Cities : owner[v] # x
            /\ \A m \in meetings : x \notin m.parties
        BY <4>2 DEF MeetingsInv, DeadLeaveNothing
      <4>4. ASSUME NEW v \in Cities PROVE owner'[v] # x
        <5>1. CASE owner[v] = p /\ Founder[v] # p /\ alive[Founder[v]]
          BY <2>1, <5>1, <4>2
        <5>2. CASE ~(owner[v] = p /\ Founder[v] # p /\ alive[Founder[v]])
          BY <2>1, <5>2, <4>3, PlayersAssumption
        <5> QED BY <5>1, <5>2
      <4> QED BY <2>1, <4>1, <4>3, <4>4
    <3> QED BY <3>1, <3>2
  <2>4. DeadLeaveNothing'
    BY <2>3 DEF DeadLeaveNothing
  <2> QED BY <2>1, <2>2, <2>4 DEF MeetingsInv
<1> QED BY <1>1, <1>2, <1>3, <1>4

LEMMA MeetingsNext ==
    ASSUME TypeOK, MeetingsInv, [Next]_vars
    PROVE  /\ MeetingsInv'
           /\ \/ meetings' \subseteq meetings
              \/ \E m, n \in Meeting : Replaces(m, n)
              \/ \E p, q \in Players : Opens(p, q)
<1>1. ASSUME NEW p \in Players, NEW q \in Players,
             \/ InitMeeting(p, q) \/ CancelMeeting(p, q)
             \/ CreateClause(p, q) \/ RemoveClauseReq(p, q)
             \/ Withdraw(p, q) \/ AcceptFirst(p, q) \/ AcceptTooLate(p, q)
      PROVE  /\ MeetingsInv'
             /\ \/ meetings' \subseteq meetings
                \/ \E m, n \in Meeting : Replaces(m, n)
                \/ \E x, y \in Players : Opens(x, y)
  <2>1. /\ \/ meetings' \subseteq meetings
           \/ \E m, n \in Meeting : Replaces(m, n)
           \/ p # q /\ Opens(p, q)
        /\ UNCHANGED <<alive, vision, owner>>
    BY <1>1, RequestsList DEF goods
  <2>2. MeetingsInv'
    BY <2>1, ListStep
  <2> QED BY <2>1, <2>2
<1>2. ASSUME NEW p \in Players, NEW q \in Players, Conclude(p, q)
      PROVE  MeetingsInv' /\ meetings' \subseteq meetings
  BY <1>2, ConcludeList
<1>3. ASSUME NEW p \in Players, NEW q \in Players,
             \/ StopVision(p, q) \/ MakeContact(p, q) \/ EstablishEmbassy(p, q)
             \/ CancelPact(p, q, FALSE) \/ CancelPact(p, q, TRUE)
      PROVE  MeetingsInv' /\ meetings' \subseteq meetings
  BY <1>3, SurroundingsList
<1>4. ASSUME NEW p \in Players, ToggleAI(p) \/ KillPlayer(p)
      PROVE  MeetingsInv' /\ meetings' \subseteq meetings
  BY <1>4, SurroundingsList
<1>5. CASE UNCHANGED vars
  <2>1. UNCHANGED <<alive, vision, owner, meetings>>
    BY <1>5 DEF vars
  <2> QED BY <2>1, ListStep
<1>6. ASSUME TurnChange PROVE MeetingsInv' /\ meetings' \subseteq meetings
  <2>1. UNCHANGED <<alive, vision, owner, meetings>>
    BY <1>6 DEF TurnChange, goods
  <2> QED BY <2>1, ListStep
<1> QED
  BY <1>1, <1>2, <1>3, <1>4, <1>5, <1>6 DEF Next, AcceptTreaty

LEMMA MeetingsAlways == Spec => []MeetingsInv
<1>1. Init => MeetingsInv
  BY DEF Init, MeetingsInv, MeetingsSound, DeadLeaveNothing
<1>2. TypeOK /\ MeetingsInv /\ [Next]_vars => MeetingsInv'
  BY MeetingsNext
<1> QED BY <1>1, <1>2, TypeCorrect, PTL DEF Spec

\* Two players never have two treaties, a treaty both have accepted is gone,
\* and every clause is in the name of a party (find_treaty, add_clause, the
\* accept handler of diplhand.cc).
THEOREM MeetingsAlwaysSound == Spec => []MeetingsSound
<1>1. MeetingsInv => MeetingsSound
  BY DEF MeetingsInv
<1> QED BY <1>1, MeetingsAlways, PTL

\* A destroyed player owns no city, gives no vision and sits at no table
\* (kill_player and the requests that come after it).
THEOREM DeadAlwaysLeaveNothing == Spec => []DeadLeaveNothing
<1>1. MeetingsInv => DeadLeaveNothing
  BY DEF MeetingsInv
<1> QED BY <1>1, MeetingsAlways, PTL

\* Whatever two players do in whatever order, nobody stays bound by terms that
\* were changed after he accepted (add_clause and remove_clause take both
\* flags down, and a list has one treaty of two players).
THEOREM AcceptanceIsFresh == Spec => FreshAcceptance
<1> DEFINE Fresh == \A m \in meetings, n \in meetings' :
                      m.parties = n.parties /\ m.clauses # n.clauses => n.accepted = {}
<1>1. ASSUME TypeOK, MeetingsInv, [Next]_vars PROVE Fresh
  <2>1. CASE meetings' \subseteq meetings
    BY <1>1, <2>1 DEF MeetingsInv, MeetingsSound
  <2>2. CASE \E m, n \in Meeting : Replaces(m, n)
    <3>1. PICK k, l \in Meeting : Replaces(k, l)
      BY <2>2
    <3>2. ASSUME NEW m \in meetings, NEW n \in meetings', m.parties = n.parties,
                 m.clauses # n.clauses
          PROVE  n.accepted = {}
      <4>1. n = l
        BY <1>1, <3>1, <3>2 DEF Replaces, MeetingsInv, MeetingsSound
      <4>2. m = k
        BY <1>1, <3>1, <3>2, <4>1 DEF Replaces, MeetingsInv, MeetingsSound
      <4> QED BY <3>1, <3>2, <4>1, <4>2 DEF Replaces
    <3> QED BY <3>2
  <2>3. CASE \E p, q \in Players : Opens(p, q)
    <3>1. PICK p, q \in Players : Opens(p, q)
      BY <2>3
    <3>2. ASSUME NEW m \in meetings, NEW n \in meetings', m.parties = n.parties
          PROVE  m.clauses = n.clauses
      <4>1. CASE n \in meetings
        BY <1>1, <3>2, <4>1 DEF MeetingsInv, MeetingsSound
      <4>2. CASE n = NewTreaty(p, q)
        BY <3>1, <3>2, <4>2 DEF Opens, Between, NewTreaty
      <4> QED BY <3>1, <4>1, <4>2 DEF Opens
    <3> QED BY <3>2
  <2> QED BY <1>1, <2>1, <2>2, <2>3, MeetingsNext
<1>2. TypeOK /\ MeetingsInv /\ [Next]_vars => [Fresh]_vars
  BY <1>1
<1> QED BY <1>2, TypeCorrect, MeetingsAlways, PTL DEF Spec, FreshAcceptance

(***************************************************************************)
(* The terms of a treaty.                                                  *)
(***************************************************************************)

\* Two clauses of which a treaty may have one only
Rivals(c, e) ==
    \/ c.type \in PactClauses /\ e.type \in PactClauses
    \/ c.type = "gold" /\ e.type = "gold" /\ c.from = e.from

Unambiguous(m) == \A c, e \in m.clauses : Rivals(c, e) => c = e

\* A clause that is amended is a rival of the same clauses as before.
LEMMA AmendedRivals ==
    ASSUME NEW c \in Clause, NEW old \in Clause, Supersedes(c, old), NEW e
    PROVE  /\ Rivals(Amended(c, old), e) <=> Rivals(old, e)
           /\ Rivals(e, Amended(c, old)) <=> Rivals(e, old)
<1>1. CASE c.type = "gold"
  <2>1. old.type = "gold" /\ Amended(c, old).type = "gold" /\ Amended(c, old).from = old.from
    BY <1>1 DEF Supersedes, Amended, Clause, PactClauses
  <2> QED BY <2>1 DEF Rivals, PactClauses
<1>2. CASE c.type # "gold"
  <2>1. /\ old.type \in PactClauses /\ Amended(c, old).type \in PactClauses
    BY <1>2 DEF Supersedes, Amended, Clause, PactClauses
  <2> QED BY <2>1 DEF Rivals, PactClauses
<1> QED BY <1>1, <1>2

LEMMA AddClauseUnambiguous ==
    ASSUME NEW m \in Meeting, NEW c \in Clause, Unambiguous(m)
    PROVE  Unambiguous(AddClause(m, c))
<1> DEFINE Becomes(old) == IF Supersedes(c, old) THEN Amended(c, old) ELSE old
<1>1. AddClause(m, c).clauses =
        {Becomes(old) : old \in m.clauses}
          \cup {new \in {c} : \A old \in m.clauses : ~Supersedes(c, old)}
  BY DEF AddClause, Meeting
<1>2. ASSUME NEW old \in m.clauses, NEW e
      PROVE  /\ Rivals(Becomes(old), e) <=> Rivals(old, e)
             /\ Rivals(e, Becomes(old)) <=> Rivals(e, old)
  <2>1. old \in Clause
    BY DEF Meeting
  <2> QED BY <2>1, AmendedRivals
<1>3. ASSUME NEW old \in m.clauses, \A x \in m.clauses : ~Supersedes(c, x)
      PROVE  ~Rivals(Becomes(old), c) /\ ~Rivals(c, Becomes(old))
  <2>1. ~Supersedes(c, old)
    BY <1>3
  <2> QED BY <2>1 DEF Rivals, Supersedes
<1> HIDE DEF Next
<1>4. ASSUME NEW x \in AddClause(m, c).clauses, NEW y \in AddClause(m, c).clauses, Rivals(x, y)
      PROVE  x = y
  <2>1. CASE \E o, u \in m.clauses : x = Becomes(o) /\ y = Becomes(u)
    <3>1. PICK o, u \in m.clauses : x = Becomes(o) /\ y = Becomes(u)
      BY <2>1
    <3>2. Rivals(o, u)
      BY <1>2, <1>4, <3>1
    <3> QED BY <3>1, <3>2 DEF Unambiguous
  <2>2. CASE x = c /\ y = c
    BY <2>2
  <2>3. \/ \E o, u \in m.clauses : x = Becomes(o) /\ y = Becomes(u)
        \/ x = c /\ y = c
        \/ /\ \A o \in m.clauses : ~Supersedes(c, o)
           /\ \E o \in m.clauses : (x = Becomes(o) /\ y = c) \/ (x = c /\ y = Becomes(o))
    BY <1>1
  <2> QED BY <1>3, <1>4, <2>1, <2>2, <2>3
<1> QED BY <1>4 DEF Unambiguous

\* A treaty has one pact and one sum of gold of each giver at most, whatever is
\* added, amended and removed (add_clause).
THEOREM TermsAlwaysUnambiguous == Spec => []TermsUnambiguous
<1>1. TermsUnambiguous <=> \A m \in meetings : Unambiguous(m)
  BY DEF TermsUnambiguous, Unambiguous, Rivals
<1>2. Init => TermsUnambiguous
  BY DEF Init, TermsUnambiguous
<1>3. ASSUME TypeOK, MeetingsInv, TermsUnambiguous, [Next]_vars PROVE TermsUnambiguous'
  <2>1. CASE meetings' \subseteq meetings
    BY <1>3, <2>1 DEF TermsUnambiguous
  <2>2. CASE \E m, n \in Meeting : Replaces(m, n)
    <3>1. PICK m, n \in Meeting : Replaces(m, n)
      BY <2>2
    <3>2. Unambiguous(m)
      BY <1>1, <1>3, <3>1 DEF Replaces
    <3>3. Unambiguous(n)
      <4>1. CASE n.clauses \subseteq m.clauses
        BY <3>2, <4>1 DEF Unambiguous
      <4>2. CASE \E c \in Clause : n = AddClause(m, c)
        BY <3>2, <4>2, AddClauseUnambiguous
      <4> QED BY <3>1, <4>1, <4>2 DEF Replaces
    <3>4. \A k \in meetings' : k = n \/ k \in meetings
      BY <3>1 DEF Replaces
    <3> QED BY <1>3, <3>3, <3>4 DEF TermsUnambiguous, Unambiguous, Rivals
  <2>3. CASE \E p, q \in Players : Opens(p, q)
    BY <1>3, <2>3 DEF Opens, NewTreaty, TermsUnambiguous
  <2> QED BY <1>3, <2>1, <2>2, <2>3, MeetingsNext
<1> QED BY <1>2, <1>3, TypeCorrect, MeetingsAlways, PTL DEF Spec

(***************************************************************************)
(* The fall-out of a declaration of war.                                   *)
(***************************************************************************)

\* "team" is a state of team mates only.
TeamsAreMates ==
    \A p, q \in Players : ds[p][q] = "team" => SameTeam(p, q)

LEMMA ConcludeTeams ==
    ASSUME TypeOK, NEW p \in Players, NEW q \in Players, Conclude(p, q),
           NEW x \in Players, NEW y \in Players, ds'[x][y] \in {"team", "war"}
    PROVE  \/ ds'[x][y] = ds[x][y]
           \/ MaxAllies > 0 /\ ds'[x][y] = "war"
<1>1. PICK m \in Between(p, q) : Execute(m, p, q)
  BY DEF Conclude
<1> DEFINE d == AfterPact(m, p, q)
           e == CHOOSE c \in Pact(m) : TRUE
<1>2. ds' = CutStates(d, Filled(m, d))
  BY <1>1 DEF Execute
<1>3. \/ d[x][y] = ds[x][y]
      \/ d[x][y] \in PactClauses
  <2>1. CASE Pact(m) = {}
    BY <2>1 DEF AfterPact
  <2>2. CASE Pact(m) # {}
    <3>1. e \in Pact(m) /\ d = SetPair(ds, p, q, e.type)
      BY <2>2 DEF AfterPact
    <3>2. e.type \in PactClauses
      BY <3>1 DEF Pact
    <3> HIDE DEF e
    <3> QED BY <3>1, <3>2 DEF SetPair
  <2> QED BY <2>1, <2>2
<1> HIDE DEF d
<1>4. \/ ds'[x][y] = d[x][y]
      \/ ds'[x][y] = "war" /\ Filled(m, d) # {}
  BY <1>2 DEF CutStates, Cut
<1>5. Filled(m, d) # {} => MaxAllies > 0
  BY DEF Filled, Saturated
<1> QED BY <1>3, <1>4, <1>5 DEF PactClauses

\* The states that CancelPact writes
LEMMA CancelStates ==
    ASSUME TypeOK, NEW p \in Players, NEW q \in Players, NEW allTheWay \in BOOLEAN,
           CancelPact(p, q, allTheWay)
    PROVE  \E new \in {"war", "neutral", "peace"} :
             LET d == SetPair(ds, p, q, new) IN
             ds' = IF new = "war" THEN FallOut(d, p, q) ELSE d
<1> DEFINE new == IF allTheWay THEN "war" ELSE Lower(ds[p][q])
<1>1. /\ ds' = IF new = "war" THEN FallOut(SetPair(ds, p, q, new), p, q)
               ELSE SetPair(ds, p, q, new)
      /\ ds[p][q] \in DiplState /\ ds[p][q] \notin {"war", "team"}
  BY DEF CancelPact, TypeOK
<1>2. new \in {"war", "neutral", "peace"}
  <2>1. Lower(ds[p][q]) \in {"war", "neutral", "peace"}
    BY <1>1, LowerType
  <2> QED BY <2>1
<1> HIDE DEF new
<1> QED BY <1>1, <1>2

\* A step that neither cancels a pact nor concludes one makes no team, and makes
\* a war only of a first contact without diplomacy.
LEMMA OtherStates ==
    ASSUME TypeOK, [Next]_vars,
           \A p, q \in Players : ~Conclude(p, q),
           \A p, q \in Players, allTheWay \in BOOLEAN : ~CancelPact(p, q, allTheWay),
           NEW x \in Players, NEW y \in Players, ds'[x][y] \in {"team", "war"}
    PROVE  \/ ds'[x][y] = ds[x][y]
           \/ ds'[x][y] = "war" /\ \E p, q \in Players : ~DiplomacyPossible(p, q)
<1>1. ASSUME NEW p \in Players, NEW q \in Players, MakeContact(p, q)
      PROVE  \/ ds'[x][y] \in {ds[x][y], "neutral"}
             \/ ds'[x][y] = "war" /\ ~DiplomacyPossible(p, q)
  BY <1>1 DEF MakeContact, SetPair
<1>2. TurnChange => ds'[x][y] \in {ds[x][y], "neutral"}
  BY DEF TurnChange
<1>3. ASSUME NEW p \in Players, NEW q \in Players,
             \/ InitMeeting(p, q) \/ CancelMeeting(p, q)
             \/ CreateClause(p, q) \/ RemoveClauseReq(p, q)
             \/ Withdraw(p, q) \/ AcceptFirst(p, q) \/ AcceptTooLate(p, q)
             \/ StopVision(p, q) \/ EstablishEmbassy(p, q)
             \/ ToggleAI(p) \/ KillPlayer(p)
      PROVE  UNCHANGED ds
  BY <1>3 DEF InitMeeting, CancelMeeting, CreateClause, RemoveClauseReq, Withdraw,
              AcceptFirst, AcceptTooLate, StopVision, EstablishEmbassy, ToggleAI, KillPlayer,
              states
<1>4. UNCHANGED vars => UNCHANGED ds
  BY DEF vars
<1> QED
  BY <1>1, <1>2, <1>3, <1>4 DEF Next, AcceptTreaty

LEMMA TeamsNext ==
    ASSUME TypeOK, TeamsAreMates, [Next]_vars PROVE TeamsAreMates'
<1> SUFFICES ASSUME NEW x \in Players, NEW y \in Players, ds'[x][y] = "team"
             PROVE  SameTeam(x, y)
  BY DEF TeamsAreMates, SameTeam
<1>1. ASSUME NEW p \in Players, NEW q \in Players, Conclude(p, q) PROVE ds[x][y] = "team"
  BY <1>1, ConcludeTeams
<1>2. ASSUME NEW p \in Players, NEW q \in Players, NEW allTheWay \in BOOLEAN,
             CancelPact(p, q, allTheWay)
      PROVE  ds[x][y] = "team"
  <2>1. PICK new \in {"war", "neutral", "peace"} :
          ds' = IF new = "war" THEN FallOut(SetPair(ds, p, q, new), p, q)
                ELSE SetPair(ds, p, q, new)
    BY <1>2, CancelStates
  <2>2. SetPair(ds, p, q, new)[x][y] \in {new, ds[x][y]}
    BY DEF SetPair
  <2>3. ds'[x][y] \in {SetPair(ds, p, q, new)[x][y], "peace"}
    BY <2>1 DEF FallOut
  <2> QED BY <2>1, <2>2, <2>3
<1>3. ds[x][y] = "team"
  BY <1>1, <1>2, OtherStates
<1> QED BY <1>3 DEF TeamsAreMates

\* Where the number of alliances is not limited and everybody may negotiate, a
\* declaration of war never leaves a third player allied with both sides, whoever
\* is in whose team (handle_diplomacy_cancel_pact; with maxallies, the last treaty
\* of a player makes him declare wars in which nobody looks at common allies).
THEOREM NoAllianceTorn ==
    ASSUME MaxAllies = 0, DiplomacySetting = 0
    PROVE  Spec => NoInAllianceWar
<1> DEFINE NoneTorn == \A p, q \in Players :
             p # q /\ ds[p][q] # "war" /\ ds'[p][q] = "war" =>
               ~\E r \in Players \ {p, q} :
                  alive'[r] /\ Allied(ds', p, r) /\ Allied(ds', q, r)
<1>1. Init => TeamsAreMates
  BY DEF Init, TeamsAreMates, Mates, SameTeam
<1>2. ASSUME TypeOK, RowsAgree, TeamsAreMates, [Next]_vars PROVE NoneTorn
  <2> SUFFICES ASSUME NEW x \in Players, NEW y \in Players, x # y,
                      ds[x][y] # "war", ds'[x][y] = "war",
                      NEW r \in Players \ {x, y}, alive'[r],
                      Allied(ds', x, r), Allied(ds', y, r)
               PROVE  FALSE
    OBVIOUS
  <2>1. \A p, q \in Players : DiplomacyPossible(p, q) /\ ~Conclude(p, q)
    BY <1>2, ConcludeTeams DEF DiplomacyPossible, Saturated
  <2>2. PICK p \in Players, q \in Players, allTheWay \in BOOLEAN : CancelPact(p, q, allTheWay)
    BY <1>2, <2>1, OtherStates
  <2>3. PICK new \in {"war", "neutral", "peace"} :
          ds' = IF new = "war" THEN FallOut(SetPair(ds, p, q, new), p, q)
                ELSE SetPair(ds, p, q, new)
    BY <1>2, <2>2, CancelStates
  <2> DEFINE d == SetPair(ds, p, q, new)
  <2>4. \A u, v \in Players :
          d[u][v] = IF (u = p /\ v = q) \/ (u = q /\ v = p) THEN new ELSE ds[u][v]
    BY DEF SetPair
  <2>5. d[x][y] = "war"
    <3> HIDE DEF d
    <3> QED BY <2>3 DEF FallOut, d
  <2>6. new = "war" /\ ((x = p /\ y = q) \/ (x = q /\ y = p))
    BY <2>4, <2>5
  <2>7. ds' = FallOut(d, p, q) /\ p # q /\ r \notin {p, q} /\ alive[r] /\ ~SameTeam(p, q)
        /\ Allied(ds', p, r) /\ Allied(ds', q, r)
    BY <2>2, <2>3, <2>6 DEF CancelPact
  <2>8. d[p][r] = ds[p][r] /\ d[q][r] = ds[q][r]
    BY <2>4, <2>7
  <2> HIDE DEF d
  <2>9. \A u \in {p, q} :
          ds'[u][r] = IF {u, r} \in Broken(d, p, q) /\ d[u][r] = "alliance"
                        THEN "peace" ELSE d[u][r]
    BY <2>7 DEF FallOut
  <2>10. Allied(d, p, r) /\ Allied(d, q, r)
    BY <2>7, <2>9 DEF Allied
  <2>11. r \in Torn(d, p, q)
    BY <2>7, <2>10 DEF Torn
  <2>12. CASE ~SameTeam(p, r)
    <3>1. {p, r} \in Broken(d, p, q)
      BY <2>11, <2>12 DEF Broken
    <3>2. d[p][r] = "team"
      BY <2>7, <2>9, <3>1 DEF Allied
    <3> QED BY <1>2, <2>8, <2>12, <3>2 DEF TeamsAreMates
  <2>13. CASE SameTeam(p, r)
    <3>1. ~SameTeam(r, q) /\ ~SameTeam(q, r)
      BY <2>7, <2>13 DEF SameTeam
    <3>2. {r, q} \in Broken(d, p, q) /\ {r, q} = {q, r}
      BY <2>11, <2>13, <3>1 DEF Broken
    <3>3. d[q][r] = "team"
      BY <2>7, <2>9, <3>2 DEF Allied
    <3> QED BY <1>2, <2>8, <3>1, <3>3 DEF TeamsAreMates
  <2> QED BY <2>12, <2>13
<1>3. TypeOK /\ TeamsAreMates /\ [Next]_vars => TeamsAreMates'
  BY TeamsNext
<1>4. TypeOK /\ RowsAgree /\ TeamsAreMates /\ [Next]_vars => [NoneTorn]_vars
  BY <1>2
<1> QED
  BY <1>1, <1>3, <1>4, TypeCorrect, RowsAlwaysAgree, PTL DEF Spec, NoInAllianceWar
=============================================================================
