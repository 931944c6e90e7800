---------------------------- MODULE LimitProofs ----------------------------
(***************************************************************************)
(* The limit on alliances, maxallies: it is a bound, it isolates, and      *)
(* diplomacy stays possible between the parties of an open meeting, for    *)
(* any number of players, any teams and any setting.                       *)
(*                                                                         *)
(* The three properties need each other.  An alliance is concluded without *)
(* a look at the number of allies of both sides; that both are below the   *)
(* limit follows from the meeting being permitted.  A meeting stays        *)
(* permitted because whoever reaches the limit loses his other meetings.   *)
(* And who was isolated at the limit stays so because only losing an ally  *)
(* who is no team mate, which leads below the limit, makes anybody a       *)
(* stranger to him again.                                                  *)
(***************************************************************************)
EXTENDS DiplomacyProofs, FiniteSetTheorems

(***************************************************************************)
(* Allies and their number.                                                *)
(***************************************************************************)

LEMMA AlliesFinite ==
    ASSUME NEW d, NEW p
    PROVE  IsFiniteSet(Allies(d, p)) /\ Cardinality(Allies(d, p)) \in Nat
<1>1. Allies(d, p) \in SUBSET Players
  BY DEF Allies
<1>2. IsFiniteSet(Allies(d, p))
  BY <1>1, PlayersAssumption, FS_Subset
<1> QED BY <1>2, FS_CardinalityType

\* Fewer allies are not more allies.
LEMMA FewerAllies ==
    ASSUME NEW S, IsFiniteSet(S), NEW T, T \subseteq S
    PROVE  /\ Cardinality(T) \in Nat /\ Cardinality(S) \in Nat
           /\ Cardinality(T) <= Cardinality(S)
           /\ \A x \in S : x \notin T => Cardinality(T) < Cardinality(S)
<1>1. IsFiniteSet(T) /\ Cardinality(T) <= Cardinality(S)
  BY FS_Subset
<1>2. Cardinality(T) \in Nat /\ Cardinality(S) \in Nat
  BY <1>1, FS_CardinalityType
<1>3. Cardinality(S) = Cardinality(T) => S = T
  BY FS_Subset
<1>4. ASSUME NEW x \in S, x \notin T PROVE Cardinality(T) < Cardinality(S)
  <2>1. Cardinality(S) # Cardinality(T)
    BY <1>3, <1>4
  <2> QED BY <1>1, <1>2, <2>1
<1> QED BY <1>1, <1>2, <1>4

\* The state after a step, as far as alliances are concerned
LosesAllies(x) == Allies(ds, x)' \subseteq Allies(ds, x)

\* Who loses allies does not reach the limit by it, ...
LEMMA StaysBelow ==
    ASSUME NEW x, LosesAllies(x), Saturated(ds, x)'
    PROVE  Saturated(ds, x)
<1>1. /\ Cardinality(Allies(ds, x))' \in Nat /\ Cardinality(Allies(ds, x)) \in Nat
      /\ Cardinality(Allies(ds, x))' <= Cardinality(Allies(ds, x))
  BY AlliesFinite, FewerAllies DEF LosesAllies
<1> QED BY <1>1, SettingsAssumption DEF Saturated

\* ... and one who is no team mate leaves him below it.
LEMMA FallsBelow ==
    ASSUME AlliesBound, NEW x \in Players, LosesAllies(x),
           NEW y \in Allies(ds, x), y \notin Allies(ds, x)', ~SameTeam(x, y)
    PROVE  ~Saturated(ds, x)'
<1>1. /\ Cardinality(Allies(ds, x))' \in Nat /\ Cardinality(Allies(ds, x)) \in Nat
      /\ Cardinality(Allies(ds, x))' < Cardinality(Allies(ds, x))
  BY AlliesFinite, FewerAllies DEF LosesAllies
<1>2. ~(Allies(ds, x) \subseteq Mates(x))
  BY DEF Mates
<1>3. MaxAllies > 0 => Cardinality(Allies(ds, x)) <= MaxAllies
  BY <1>2 DEF AlliesBound
<1> QED BY <1>1, <1>3, SettingsAssumption DEF Saturated

(***************************************************************************)
(* Steps that make no alliance.                                            *)
(***************************************************************************)

\* diplomacy_possible holds between the parties of every open meeting.
TalksPossible ==
    \A m \in meetings : \A p, q \in m.parties : p # q => DiplomacyPossible(p, q)

LimitInv == AlliesBound /\ SaturatedIsolation /\ TalksPossible

\* x and y have nothing to do with each other.
Apart(x, y) ==
    /\ ds[x][y] \in {"no_contact", "war"}
    /\ y \notin vision[x] /\ x \notin vision[y]

\* Nobody gains an ally, and who is apart from a player at the limit stays apart.
Loosens ==
    /\ \A x \in Players : LosesAllies(x) /\ (alive'[x] => alive[x])
    /\ \A x, y \in Players :
         /\ alive'[x] /\ alive'[y] /\ Saturated(ds, x) /\ ~Allied(ds, x, y) /\ Apart(x, y)
         => Apart(x, y)'

\* A meeting of p and q was open already, and neither passed to or from the AI; if
\* they are team mates who were allied, they still are.
Continues(p, q) ==
    /\ Between(p, q) # {}
    /\ ai'[p] = ai[p] /\ ai'[q] = ai[q]
    /\ SameTeam(p, q) /\ Allied(ds, p, q) => Allied(ds', p, q)

\* Every meeting that is open after the step continues, or could be opened.
MeetingsContinue ==
    \A m \in meetings' : \A p, q \in m.parties : p # q =>
        \/ DiplomacyPossible(p, q)'
        \/ Continues(p, q)

LEMMA AlliedBothWays ==
    ASSUME RowsAgree, RowsAgree', NEW p \in Players, NEW q \in Players
    PROVE  /\ Allied(ds, p, q) <=> Allied(ds, q, p)
           /\ Allied(ds, p, q)' <=> Allied(ds, q, p)'
  BY DEF RowsAgree, Allied

\* What the members of an open meeting have in common
LEMMA PartiesOf ==
    ASSUME TypeOK, MeetingsInv, NEW m \in meetings, NEW p \in m.parties, NEW q \in m.parties,
           p # q
    PROVE  p \in Players /\ q \in Players /\ alive[p] /\ alive[q] /\ m.parties = {p, q}
<1>1. m \in Meeting
  BY DEF TypeOK
<1>2. PICK x, y \in Players : x # y /\ m.parties = {x, y}
  BY <1>1 DEF Meeting, Pairs
<1> QED BY <1>2 DEF MeetingsInv, DeadLeaveNothing

LEMMA LoosenedPermitted ==
    ASSUME TypeOK, RowsAgree, RowsAgree', MeetingsInv, LimitInv, Loosens,
           MeetingsContinue
    PROVE  TalksPossible'
<1> SUFFICES ASSUME NEW m \in meetings', NEW p \in m.parties, NEW q \in m.parties, p # q,
                    Continues(p, q)
             PROVE  DiplomacyPossible(p, q)'
  BY DEF TalksPossible, MeetingsContinue
<1>1. PICK k \in meetings : k.parties = {p, q}
  BY DEF Continues, Between
<1>2. p \in Players /\ q \in Players /\ alive[p] /\ alive[q]
  BY <1>1, PartiesOf
<1>3. DiplomacyPossible(p, q)
  BY <1>1 DEF LimitInv, TalksPossible
<1>4. LosesAllies(p) /\ LosesAllies(q)
  BY <1>2 DEF Loosens
<1>5. Allied(ds, p, q)' \/ (~Saturated(ds, p)' /\ ~Saturated(ds, q)')
  <2>1. CASE ~Allied(ds, p, q)
    <3>1. ~Saturated(ds, p) /\ ~Saturated(ds, q)
      BY <1>3, <2>1 DEF DiplomacyPossible
    <3> QED BY <1>4, <3>1, StaysBelow
  <2>2. CASE Allied(ds, p, q) /\ ~Allied(ds, p, q)'
    <3>1. ~SameTeam(p, q) /\ ~SameTeam(q, p)
      BY <2>2 DEF Continues, Allied, SameTeam
    <3>2. q \in Allies(ds, p) /\ p \in Allies(ds, q)
      BY <1>2, <2>2, AlliedBothWays DEF Allies
    <3>3. q \notin Allies(ds, p)' /\ p \notin Allies(ds, q)'
      BY <1>2, <2>2, AlliedBothWays DEF Allies
    <3>4. ~Saturated(ds, p)'
      BY <1>2, <1>4, <3>1, <3>2, <3>3, FallsBelow DEF LimitInv
    <3>5. ~Saturated(ds, q)'
      BY <1>2, <1>4, <3>1, <3>2, <3>3, FallsBelow DEF LimitInv
    <3> QED BY <3>4, <3>5
  <2> QED BY <2>1, <2>2
<1> QED BY <1>3, <1>5 DEF Continues, DiplomacyPossible

\* A meeting that is permitted is not one of a player at the limit with a stranger.
LEMMA NoMeetingAtLimit ==
    ASSUME TalksPossible, NEW x, NEW y, Saturated(ds, x), ~Allied(ds, x, y)
    PROVE  Between(x, y) = {}
<1> SUFFICES ASSUME NEW m \in meetings, m.parties = {x, y} PROVE FALSE
  BY DEF Between
<1>1. x # y
  BY DEF Allied
<1>2. DiplomacyPossible(x, y)
  BY <1>1 DEF TalksPossible
<1> QED BY <1>2 DEF DiplomacyPossible

LEMMA LoosenedBound ==
    ASSUME AlliesBound, Loosens
    PROVE  AlliesBound'
<1> SUFFICES ASSUME MaxAllies > 0, NEW x \in Players
             PROVE  \/ Cardinality(Allies(ds, x))' <= MaxAllies
                    \/ Allies(ds, x)' \subseteq Mates(x)
  BY DEF AlliesBound, Mates, SameTeam
<1>1. Allies(ds, x)' \subseteq Allies(ds, x)
  BY DEF Loosens, LosesAllies
<1>2. /\ Cardinality(Allies(ds, x))' \in Nat /\ Cardinality(Allies(ds, x)) \in Nat
      /\ Cardinality(Allies(ds, x))' <= Cardinality(Allies(ds, x))
  BY <1>1, AlliesFinite, FewerAllies
<1> QED BY <1>1, <1>2, SettingsAssumption DEF AlliesBound

LEMMA LoosenedIsolation ==
    ASSUME RowsAgree, RowsAgree', LimitInv, Loosens, TalksPossible'
    PROVE  SaturatedIsolation'
<1> SUFFICES ASSUME NEW x \in Players, NEW y \in Players, alive'[x], alive'[y],
                    Saturated(ds, x)', ~Allied(ds, x, y)', ~SameTeam(x, y)
             PROVE  Apart(x, y)' /\ Between(x, y)' = {}
  BY DEF SaturatedIsolation, Apart, SameTeam
<1>1. LosesAllies(x) /\ alive[x] /\ alive[y]
  BY DEF Loosens
<1>2. Saturated(ds, x)
  BY <1>1, StaysBelow
<1>3. ~Allied(ds, x, y)
  <2> SUFFICES ASSUME Allied(ds, x, y) PROVE FALSE
    OBVIOUS
  <2>1. y \in Allies(ds, x) /\ y \notin Allies(ds, x)'
    BY <1>1 DEF Allies, Allied
  <2> QED BY <1>1, <2>1, FallsBelow DEF LimitInv
<1>4. Apart(x, y)
  BY <1>1, <1>2, <1>3 DEF LimitInv, SaturatedIsolation, Apart
<1>5. Apart(x, y)'
  BY <1>2, <1>3, <1>4 DEF Loosens
<1>6. Between(x, y)' = {}
  <2> SUFFICES ASSUME NEW m \in meetings', m.parties = {x, y} PROVE FALSE
    BY DEF Between
  <2>1. x # y
    BY DEF Allied
  <2>2. DiplomacyPossible(x, y)'
    BY <2>1 DEF TalksPossible
  <2> QED BY <2>2 DEF DiplomacyPossible
<1> QED BY <1>5, <1>6

LEMMA Loosened ==
    ASSUME TypeOK, RowsAgree, RowsAgree', MeetingsInv, LimitInv, Loosens,
           MeetingsContinue
    PROVE  LimitInv'
<1>1. TalksPossible'
  BY LoosenedPermitted
<1>2. AlliesBound'
  BY LoosenedBound DEF LimitInv
<1>3. SaturatedIsolation'
  BY <1>1, LoosenedIsolation
<1> QED BY <1>1, <1>2, <1>3 DEF LimitInv

(***************************************************************************)
(* The actions that make no alliance.                                      *)
(***************************************************************************)

\* A step that leaves the states, the vision and the lives of the players alone
LEMMA SameTable ==
    ASSUME UNCHANGED <<ds, vision, alive>>
    PROVE  Loosens
  BY DEF Loosens, LosesAllies, Allies, Allied, Apart

\* A step that leaves them alone and the AI flags too, and only drops meetings or
\* opens one that is possible
LEMMA RequestsLoosen ==
    ASSUME TypeOK, RowsAgree, MeetingsInv, NEW p \in Players, NEW q \in Players,
           \/ InitMeeting(p, q) \/ CancelMeeting(p, q)
           \/ CreateClause(p, q) \/ RemoveClauseReq(p, q)
           \/ Withdraw(p, q) \/ AcceptFirst(p, q) \/ AcceptTooLate(p, q)
    PROVE  Loosens /\ MeetingsContinue
<1>1. /\ \/ meetings' \subseteq meetings
         \/ \E m, n \in Meeting : Replaces(m, n)
         \/ InitMeeting(p, q)
      /\ UNCHANGED <<states, contact, embassy, vision, alive, ai, goods>>
  <2>1. CASE InitMeeting(p, q)
    BY <2>1 DEF InitMeeting
  <2>2. CASE ~InitMeeting(p, q)
    <3>1. \/ meetings' \subseteq meetings
          \/ \E m, n \in Meeting : Replaces(m, n)
          \/ Opens(p, q)
      BY RequestsList
    <3>2. Between(p, q) # {}
      BY <2>2 DEF CancelMeeting, CreateClause, RemoveClauseReq, Withdraw, AcceptFirst,
                  AcceptTooLate
    <3>3. UNCHANGED <<states, contact, embassy, vision, alive, ai, goods>>
      BY RequestsList
    <3> QED BY <3>1, <3>2, <3>3 DEF Opens
  <2> QED BY <2>1, <2>2
<1>2. UNCHANGED <<ds, vision, alive, ai>>
  BY <1>1 DEF states
<1>3. Loosens
  BY <1>2, SameTable
<1>4. ASSUME NEW m \in meetings', NEW k \in meetings, k.parties = m.parties,
             NEW x \in m.parties, NEW y \in m.parties, x # y
      PROVE  Continues(x, y)
  <2>1. k.parties = {x, y}
    BY <1>4, PartiesOf
  <2> QED BY <1>2, <2>1 DEF Continues, Between, Allied
<1>5. CASE meetings' \subseteq meetings
  BY <1>3, <1>4, <1>5 DEF MeetingsContinue
<1>6. CASE \E m, n \in Meeting : Replaces(m, n)
  <2>1. \A n \in meetings' : \E m \in meetings : m.parties = n.parties
    BY <1>6 DEF Replaces
  <2> QED BY <1>3, <1>4, <2>1 DEF MeetingsContinue
<1>7. CASE InitMeeting(p, q)
  <2>1. meetings' = meetings \cup {NewTreaty(p, q)} /\ DiplomacyPossible(p, q)
    BY <1>7 DEF InitMeeting, CouldMeet
  <2>2. DiplomacyPossible(p, q)' /\ DiplomacyPossible(q, p)'
    BY <1>2, <2>1 DEF DiplomacyPossible, Saturated, Allies, Allied, SameTeam, RowsAgree
  <2> QED BY <1>3, <1>4, <2>1, <2>2 DEF MeetingsContinue, NewTreaty
<1> QED BY <1>1, <1>5, <1>6, <1>7

\* Where no two players become allied, none comes to life, and no vision is given
LEMMA TableLoosens ==
    ASSUME \A x, y \in Players : Allied(ds', x, y) => Allied(ds, x, y),
           \A x \in Players : (alive'[x] => alive[x]) /\ vision'[x] \subseteq vision[x],
           \A x, y \in Players :
             Saturated(ds, x) /\ ~Allied(ds, x, y) /\ ds[x][y] \in {"no_contact", "war"}
             => ds'[x][y] \in {"no_contact", "war"}
    PROVE  Loosens
<1>1. \A x \in Players : LosesAllies(x)
  BY DEF LosesAllies, Allies
<1>2. ASSUME NEW x \in Players, NEW y \in Players, Saturated(ds, x), ~Allied(ds, x, y),
             Apart(x, y)
      PROVE  Apart(x, y)'
  BY <1>2 DEF Apart
<1> QED BY <1>1, <1>2 DEF Loosens

\* Where meetings only go and what allies team mates and the AI flags of those who
\* stay at a table are left alone
LEMMA TableContinues ==
    ASSUME TypeOK, MeetingsInv, meetings' \subseteq meetings,
           \A m \in meetings' : \A p \in m.parties : ai'[p] = ai[p],
           \A x, y \in Players : SameTeam(x, y) /\ Allied(ds, x, y) => Allied(ds', x, y)
    PROVE  MeetingsContinue
<1> SUFFICES ASSUME NEW m \in meetings', NEW p \in m.parties, NEW q \in m.parties, p # q
             PROVE  Continues(p, q)
  BY DEF MeetingsContinue
<1>1. p \in Players /\ q \in Players /\ m.parties = {p, q}
  BY PartiesOf
<1> QED BY <1>1 DEF Continues, Between

LEMMA ContactLoosens ==
    ASSUME TypeOK, RowsAgree, MeetingsInv, NEW p \in Players, NEW q \in Players,
           MakeContact(p, q)
    PROVE  Loosens /\ MeetingsContinue
<1>1. /\ p # q /\ UNCHANGED <<vision, alive, ai, meetings>>
      /\ ds' = IF ds[p][q] = "no_contact"
                 THEN SetPair(ds, p, q, IF DiplomacyPossible(p, q) THEN "neutral" ELSE "war")
                 ELSE ds
  BY DEF MakeContact
<1>2. CASE ds' = ds
  BY <1>1, <1>2, SameTable, TableContinues
<1>3. CASE ds[p][q] = "no_contact"
  <2> DEFINE new == IF DiplomacyPossible(p, q) THEN "neutral" ELSE "war"
  <2>1. \A x, y \in Players :
          ds'[x][y] = IF (x = p /\ y = q) \/ (x = q /\ y = p) THEN new ELSE ds[x][y]
    BY <1>1, <1>3 DEF SetPair
  <2>2. ds[q][p] = "no_contact" /\ new \in {"neutral", "war"}
    BY <1>3 DEF RowsAgree
  <2>3. new # "war" => ~Saturated(ds, p) /\ ~Saturated(ds, q)
    BY <1>1, <1>3 DEF DiplomacyPossible, Allied
  <2> HIDE DEF new
  <2>4. \A x, y \in Players : Allied(ds', x, y) <=> Allied(ds, x, y)
    BY <1>1, <1>3, <2>1, <2>2 DEF Allied
  <2>5. Loosens
    BY <1>1, <2>1, <2>2, <2>3, <2>4, TableLoosens
  <2>6. MeetingsContinue
    BY <1>1, <2>4, TableContinues
  <2> QED BY <2>5, <2>6
<1> QED BY <1>1, <1>2, <1>3

LEMMA CancelLoosens ==
    ASSUME TypeOK, RowsAgree, MeetingsInv, NEW p \in Players, NEW q \in Players,
           NEW allTheWay \in BOOLEAN, CancelPact(p, q, allTheWay)
    PROVE  Loosens /\ MeetingsContinue
<1> DEFINE new == IF allTheWay THEN "war" ELSE Lower(ds[p][q])
           d == SetPair(ds, p, q, new)
<1>1. /\ ds' = IF new = "war" THEN FallOut(d, p, q) ELSE d
      /\ UNCHANGED <<vision, alive, ai, meetings>>
      /\ p # q /\ ~SameTeam(p, q) /\ ds[p][q] \in DiplState /\ ds[p][q] \notin {"war", "team"}
  BY DEF CancelPact, TypeOK
<1>2. new \in {"war", "neutral", "peace"}
  BY <1>1, LowerType
<1>3. \A x, y \in Players :
        d[x][y] = IF (x = p /\ y = q) \/ (x = q /\ y = p) THEN new ELSE ds[x][y]
  BY DEF SetPair
<1>4. ASSUME NEW x \in Players, NEW y \in Players
      PROVE  \/ ds'[x][y] = d[x][y]
             \/ d[x][y] = "alliance" /\ ds'[x][y] = "peace" /\ {x, y} \in Broken(d, p, q)
  <2> HIDE DEF d, new
  <2> QED BY <1>1 DEF FallOut
<1>5. ds[p][q] = "no_contact" => new = "war"
  BY DEF Lower
<1> HIDE DEF d, new
<1>6. ASSUME NEW x \in Players, NEW y \in Players
      PROVE  \/ ds'[x][y] = ds[x][y]
             \/ ds'[x][y] = "peace" /\ ds[x][y] = "alliance"
             \/ /\ ds'[x][y] \in {"war", "neutral", "peace"} /\ ds[x][y] = ds[p][q]
                /\ ds[p][q] = "no_contact" => ds'[x][y] = "war"
  <2>1. d[x][y] = ds[x][y] \/ (d[x][y] = new /\ ds[x][y] = ds[p][q])
    BY <1>3 DEF RowsAgree
  <2> QED BY <1>2, <1>4, <1>5, <2>1
<1>7. ASSUME NEW x \in Players, NEW y \in Players
      PROVE  /\ Allied(ds', x, y) => Allied(ds, x, y)
             /\ ds[x][y] \in {"no_contact", "war"} => ds'[x][y] \in {"no_contact", "war"}
  BY <1>1, <1>6 DEF Allied
<1>8. Loosens
  BY <1>1, <1>6, <1>7, TableLoosens
<1>9. ASSUME NEW x \in Players, NEW y \in Players, SameTeam(x, y), Allied(ds, x, y)
      PROVE  Allied(ds', x, y)
  <2>1. d[x][y] = ds[x][y]
    BY <1>1, <1>3, <1>9 DEF SameTeam
  <2>2. {x, y} \notin Broken(d, p, q)
    BY <1>1, <1>9 DEF Broken, SameTeam, Torn
  <2> QED BY <1>4, <1>9, <2>1, <2>2 DEF Allied
<1>10. MeetingsContinue
  BY <1>1, <1>9, TableContinues
<1> QED BY <1>8, <1>10

\* The rest of the steps around the meetings
LEMMA SurroundingsLoosen ==
    ASSUME TypeOK, MeetingsInv, NEW p \in Players, NEW q \in Players,
           \/ StopVision(p, q) \/ EstablishEmbassy(p, q)
           \/ TurnChange \/ ToggleAI(p) \/ KillPlayer(p)
    PROVE  Loosens /\ MeetingsContinue
<1>1. /\ \A x \in Players : (alive'[x] => alive[x]) /\ vision'[x] \subseteq vision[x]
      /\ meetings' \subseteq meetings
      /\ \A x, y \in Players :
           ds'[x][y] = ds[x][y] \/ (ds[x][y] = "ceasefire" /\ ds'[x][y] = "neutral")
      /\ \A m \in meetings' : \A x \in m.parties : x \in Players => ai'[x] = ai[x]
  <2>1. CASE StopVision(p, q)
    BY <2>1 DEF StopVision, states, TypeOK
  <2>2. CASE EstablishEmbassy(p, q)
    BY <2>2 DEF EstablishEmbassy, states
  <2>3. CASE TurnChange
    BY <2>3 DEF TurnChange
  <2>4. CASE ToggleAI(p)
    BY <2>4 DEF ToggleAI, OpenWithout, states, TypeOK
  <2>5. CASE KillPlayer(p)
    BY <2>5 DEF KillPlayer, OpenWithout, states, TypeOK
  <2> QED BY <2>1, <2>2, <2>3, <2>4, <2>5
<1>2. ASSUME NEW x \in Players, NEW y \in Players
      PROVE  /\ Allied(ds', x, y) <=> Allied(ds, x, y)
             /\ ds[x][y] \in {"no_contact", "war"} => ds'[x][y] \in {"no_contact", "war"}
  BY <1>1 DEF Allied
<1>3. Loosens
  BY <1>1, <1>2, TableLoosens
<1>4. \A m \in meetings' : \A x \in m.parties : ai'[x] = ai[x]
  BY <1>1 DEF TypeOK, Meeting, Pairs
<1>5. MeetingsContinue
  BY <1>1, <1>2, <1>4, TableContinues
<1> QED BY <1>3, <1>5

(***************************************************************************)
(* The treaty that is executed.                                            *)
(***************************************************************************)

\* What the execution of m does to the limit: no pair but p and q gains an ally
\* or a partner, and only a clause of alliance allies these two; who is at the
\* limit by such a clause is left with his allies alone.
Executes(m, p, q) ==
    /\ m \in meetings /\ m.parties = {p, q}
    /\ p \in Players /\ q \in Players /\ p # q /\ alive[p] /\ alive[q]
    /\ meetings' \subseteq meetings \ {m}
    /\ UNCHANGED <<alive, ai>>
    /\ \A x, y \in Players : {x, y} # {p, q} =>
         /\ Allied(ds', x, y) <=> Allied(ds, x, y)
         /\ ds'[x][y] \in {ds[x][y], "war"}
         /\ y \in vision'[x] => y \in vision[x]
    /\ Signs(m, "alliance") \/ (Allied(ds', p, q) => Allied(ds, p, q))
    /\ Signs(m, "alliance") =>
         \A x \in {p, q}, y \in Players :
           Saturated(ds', x) /\ ~Allied(ds', x, y) => Apart(x, y)' /\ Between(x, y)' = {}

\* The states that the pact clause of m, if it has one, leaves behind: s between
\* p and q, the old ones elsewhere
Leaves(m, p, q, s) ==
    /\ (s \in PactClauses /\ Signs(m, s)) \/ s = ds[p][q]
    /\ \A x, y \in Players :
         AfterPact(m, p, q)[x][y] = IF {x, y} = {p, q} THEN s ELSE ds[x][y]

LEMMA AfterPactValue ==
    ASSUME RowsAgree, NEW p \in Players, NEW q \in Players, NEW m
    PROVE  \E s : Leaves(m, p, q, s)
<1>0. \A x, y \in Players : {x, y} = {p, q} <=> (x = p /\ y = q) \/ (x = q /\ y = p)
  OBVIOUS
<1>1. CASE Pact(m) = {}
  <2>1. AfterPact(m, p, q) = ds
    BY <1>1 DEF AfterPact
  <2>2. ds[p][q] = ds[q][p]
    BY DEF RowsAgree
  <2>3. \A x, y \in Players :
          AfterPact(m, p, q)[x][y] = IF {x, y} = {p, q} THEN ds[p][q] ELSE ds[x][y]
    BY <1>0, <2>1, <2>2
  <2>4. Leaves(m, p, q, ds[p][q])
    BY <2>3 DEF Leaves
  <2> QED BY <2>4
<1>2. CASE Pact(m) # {}
  <2> DEFINE s == (CHOOSE c \in Pact(m) : TRUE).type
  <2>1. s \in PactClauses /\ Signs(m, s)
    BY <1>2 DEF Pact, Signs
  <2>2. AfterPact(m, p, q) = SetPair(ds, p, q, s)
    BY <1>2 DEF AfterPact
  <2> HIDE DEF s
  <2>3. ASSUME NEW x \in Players, NEW y \in Players
        PROVE  AfterPact(m, p, q)[x][y] = IF {x, y} = {p, q} THEN s ELSE ds[x][y]
    <3>1. SetPair(ds, p, q, s)[x][y] =
            IF (x = p /\ y = q) \/ (x = q /\ y = p) THEN s ELSE ds[x][y]
      BY DEF SetPair
    <3> QED BY <1>0, <2>2, <3>1
  <2>4. Leaves(m, p, q, s)
    BY <2>1, <2>3 DEF Leaves
  <2> QED BY <2>4
<1> QED BY <1>1, <1>2

LEMMA ConcludeExecutes ==
    ASSUME TypeOK, RowsAgree, MeetingsInv, NEW p \in Players, NEW q \in Players,
           Conclude(p, q)
    PROVE  \E m \in meetings : Executes(m, p, q)
<1>1. PICK m \in Between(p, q) : Execute(m, p, q)
  BY DEF Conclude
<1>2. /\ m \in meetings /\ m.parties = {p, q} /\ p # q /\ alive[p] /\ alive[q]
  BY BetweenMeeting, PartiesOf
<1>0. PICK s : Leaves(m, p, q, s)
  BY AfterPactValue
<1> DEFINE d == AfterPact(m, p, q)
           full == Filled(m, d)
           shown == [x \in Players |-> vision[x] \cup
                       {y \in m.parties \ {x} : x \in Givers(m, "vision", NoValue)}]
<1>3. /\ ds' = CutStates(d, full)
      /\ vision' = CutVision(d, full, shown)
      /\ meetings' = meetings \ ({m} \cup CutMeetings(d, full))
      /\ UNCHANGED <<alive, ai>>
  BY <1>1 DEF Execute
<1>4. \A x, y \in Players : {x, y} # {p, q} => (y \in shown[x] => y \in vision[x])
  BY <1>2 DEF Givers
<1>5. /\ (s \in PactClauses /\ Signs(m, s)) \/ s = ds[p][q]
      /\ \A x, y \in Players : d[x][y] = IF {x, y} = {p, q} THEN s ELSE ds[x][y]
  BY <1>0 DEF Leaves
<1>6. \A x : x \in full <=> x \in {p, q} /\ Signs(m, "alliance") /\ Saturated(d, x)
  BY <1>2 DEF Filled
<1> HIDE DEF d, full, shown
<1>7. ASSUME NEW x \in Players, NEW y \in Players
      PROVE  /\ Allied(d, x, y) <=> Allied(d, y, x)
             /\ Cut(d, full, x, y) <=> Cut(d, full, y, x)
             /\ Cut(d, full, x, y) => ~Allied(d, x, y)
  <2>1. d[x][y] = d[y][x]
    BY <1>5 DEF RowsAgree
  <2> QED BY <2>1 DEF Allied, Cut
<1>8. ASSUME NEW x \in Players, NEW y \in Players
      PROVE  /\ ds'[x][y] = IF Cut(d, full, x, y) /\ d[x][y] \notin {"no_contact", "war"}
                               THEN "war" ELSE d[x][y]
             /\ y \in vision'[x] <=> y \in shown[x] /\ ~Cut(d, full, x, y)
  <2>1. shown[x] \subseteq Players
    BY <1>2 DEF shown, TypeOK
  <2> QED BY <1>3, <2>1 DEF CutStates, CutVision
<1>9. ASSUME NEW x \in Players, NEW y \in Players
      PROVE  Allied(ds', x, y) <=> Allied(d, x, y)
  BY <1>7, <1>8 DEF Allied
<1>10. ASSUME NEW x \in Players, NEW y \in Players, {x, y} # {p, q}
       PROVE  /\ Allied(ds', x, y) <=> Allied(ds, x, y)
              /\ ds'[x][y] \in {ds[x][y], "war"}
              /\ y \in vision'[x] => y \in vision[x]
  <2>1. d[x][y] = ds[x][y]
    BY <1>5, <1>10
  <2> QED BY <1>4, <1>8, <1>9, <1>10, <2>1 DEF Allied
<1>11. Signs(m, "alliance") \/ (Allied(ds', p, q) => Allied(ds, p, q))
  <2>1. d[p][q] = s
    BY <1>5
  <2> QED BY <1>5, <1>9, <2>1 DEF Allied, PactClauses
<1>12. ASSUME Signs(m, "alliance"), NEW x \in {p, q}, NEW y \in Players,
              Saturated(ds', x), ~Allied(ds', x, y)
       PROVE  Apart(x, y)' /\ Between(x, y)' = {}
  <2>1. Allies(ds', x) = Allies(d, x)
    BY <1>9 DEF Allies
  <2>2. x \in full
    BY <1>6, <1>12, <2>1 DEF Saturated
  <2>3. Cut(d, full, x, y) /\ Cut(d, full, y, x)
    BY <1>9, <1>12, <2>2 DEF Cut
  <2>4. Apart(x, y)'
    BY <1>8, <2>3 DEF Apart
  <2>5. Between(x, y)' = {}
    BY <1>3, <2>3 DEF Between, CutMeetings
  <2> QED BY <2>4, <2>5
<1> QED
  BY <1>2, <1>3, <1>10, <1>11, <1>12 DEF Executes

\* A treaty that makes no alliance
LEMMA ExecuteLoosens ==
    ASSUME TypeOK, MeetingsInv, LimitInv, NEW m, NEW p, NEW q, Executes(m, p, q),
           Allied(ds', p, q) => Allied(ds, p, q), RowsAgree, RowsAgree'
    PROVE  Loosens /\ MeetingsContinue
<1>1. /\ m \in meetings /\ m.parties = {p, q}
      /\ p \in Players /\ q \in Players /\ p # q
      /\ meetings' \subseteq meetings \ {m} /\ UNCHANGED <<alive, ai>>
  BY DEF Executes
<1>2. \A x, y \in Players : {x, y} # {p, q} =>
        /\ Allied(ds', x, y) <=> Allied(ds, x, y)
        /\ ds'[x][y] \in {ds[x][y], "war"}
        /\ y \in vision'[x] => y \in vision[x]
  BY DEF Executes
<1>3. \A x, y \in Players : Allied(ds', x, y) => Allied(ds, x, y)
  <2>1. Allied(ds', q, p) => Allied(ds, q, p)
    BY <1>1, AlliedBothWays
  <2> QED BY <1>2, <2>1
<1>4. \A x \in Players : LosesAllies(x)
  BY <1>1, <1>3 DEF LosesAllies, Allies
<1>5. ASSUME NEW x \in Players, NEW y \in Players, Saturated(ds, x), ~Allied(ds, x, y),
             Apart(x, y)
      PROVE  Apart(x, y)'
  <2>1. {x, y} # {p, q}
    <3>1. Between(x, y) = {}
      BY <1>5, NoMeetingAtLimit DEF LimitInv
    <3> QED BY <1>1, <3>1 DEF Between
  <2>2. {y, x} # {p, q}
    BY <2>1
  <2> QED BY <1>2, <1>5, <2>1, <2>2 DEF Apart
<1>6. Loosens
  BY <1>1, <1>4, <1>5 DEF Loosens
<1>7. ASSUME NEW n \in meetings', NEW x \in n.parties, NEW y \in n.parties, x # y
      PROVE  Continues(x, y)
  <2>1. n \in meetings /\ n # m
    BY <1>1
  <2>2. x \in Players /\ y \in Players /\ n.parties = {x, y}
    BY <1>7, <2>1, PartiesOf
  <2>3. {x, y} # {p, q}
    BY <1>1, <2>1, <2>2 DEF MeetingsInv, MeetingsSound
  <2> QED BY <1>1, <1>2, <2>1, <2>2, <2>3 DEF Continues, Between
<1> QED BY <1>6, <1>7 DEF MeetingsContinue

\* A treaty that makes an alliance: two who were below the limit gain one ally each.
LEMMA ExecuteAllies ==
    ASSUME TypeOK, MeetingsInv, LimitInv, NEW m, NEW p, NEW q, Executes(m, p, q),
           Allied(ds', p, q), ~Allied(ds, p, q), RowsAgree, RowsAgree'
    PROVE  LimitInv'
<1>1. /\ m \in meetings /\ m.parties = {p, q}
      /\ p \in Players /\ q \in Players /\ p # q /\ alive[p] /\ alive[q]
      /\ meetings' \subseteq meetings \ {m} /\ UNCHANGED <<alive, ai>>
      /\ Signs(m, "alliance")
  BY DEF Executes
<1>2. \A x, y \in Players : {x, y} # {p, q} =>
        /\ Allied(ds', x, y) <=> Allied(ds, x, y)
        /\ ds'[x][y] \in {ds[x][y], "war"}
        /\ y \in vision'[x] => y \in vision[x]
  BY DEF Executes
<1>3. ASSUME NEW x \in {p, q}, NEW y \in Players, Saturated(ds', x), ~Allied(ds', x, y)
      PROVE  Apart(x, y)' /\ Between(x, y)' = {}
  BY <1>1, <1>3 DEF Executes
<1>4. ~Saturated(ds, p) /\ ~Saturated(ds, q)
  <2>1. DiplomacyPossible(p, q)
    BY <1>1 DEF LimitInv, TalksPossible
  <2> QED BY <2>1 DEF DiplomacyPossible
<1>5. ASSUME NEW x \in Players, x \notin {p, q}
      PROVE  Allies(ds, x)' = Allies(ds, x) /\ (Saturated(ds, x)' <=> Saturated(ds, x))
  <2>1. \A y \in Players : {x, y} # {p, q}
    BY <1>5
  <2>2. Allies(ds, x)' = Allies(ds, x)
    BY <1>1, <1>2, <2>1 DEF Allies
  <2> QED BY <2>2 DEF Saturated
<1>6. ASSUME NEW x \in {p, q}
      PROVE  MaxAllies > 0 => Cardinality(Allies(ds, x))' <= MaxAllies
  <2>1. PICK y \in {p, q} : y # x
    BY <1>1
  <2>2. Allies(ds, x)' \subseteq Allies(ds, x) \cup {y}
    <3> SUFFICES ASSUME NEW z \in Players, z # x, z # y, alive[z], Allied(ds', x, z)
                 PROVE  Allied(ds, x, z)
      BY <1>1 DEF Allies
    <3>1. {x, z} # {p, q}
      BY <2>1
    <3> QED BY <1>1, <1>2, <3>1
  <2>3. IsFiniteSet(Allies(ds, x)) /\ Cardinality(Allies(ds, x)) \in Nat
    BY AlliesFinite
  <2>4. /\ IsFiniteSet(Allies(ds, x) \cup {y})
        /\ Cardinality(Allies(ds, x) \cup {y}) <= Cardinality(Allies(ds, x)) + 1
    BY <2>3, FS_AddElement
  <2>5. /\ Cardinality(Allies(ds, x))' <= Cardinality(Allies(ds, x) \cup {y})
        /\ Cardinality(Allies(ds, x))' \in Nat
        /\ Cardinality(Allies(ds, x) \cup {y}) \in Nat
    BY <2>2, <2>4, FewerAllies
  <2>6. MaxAllies > 0 => Cardinality(Allies(ds, x)) < MaxAllies
    BY <1>4, <2>3, SettingsAssumption DEF Saturated
  <2> QED BY <2>3, <2>4, <2>5, <2>6, SettingsAssumption
<1>7. AlliesBound'
  <2> SUFFICES ASSUME MaxAllies > 0, NEW x \in Players
               PROVE  \/ Cardinality(Allies(ds, x))' <= MaxAllies
                      \/ Allies(ds, x)' \subseteq Mates(x)
    BY DEF AlliesBound, Mates, SameTeam
  <2>1. CASE x \in {p, q}
    BY <1>6, <2>1
  <2>2. CASE x \notin {p, q}
    BY <1>5, <2>2 DEF LimitInv, AlliesBound
  <2> QED BY <2>1, <2>2
<1>8. SaturatedIsolation'
  <2> SUFFICES ASSUME NEW x \in Players, NEW y \in Players, alive[x], alive[y],
                      Saturated(ds, x)', ~Allied(ds', x, y), ~SameTeam(x, y)
               PROVE  Apart(x, y)' /\ Between(x, y)' = {}
    BY <1>1 DEF SaturatedIsolation, Apart, SameTeam, Allied
  <2>1. CASE x \in {p, q}
    <3>1. Saturated(ds', x)
      BY <1>1 DEF Saturated, Allies, Allied
    <3> QED BY <1>3, <2>1, <3>1
  <2>2. CASE x \notin {p, q}
    <3>1. {x, y} # {p, q} /\ {y, x} # {p, q}
      BY <2>2
    <3>2. Saturated(ds, x) /\ ~Allied(ds, x, y)
      BY <1>2, <1>5, <2>2, <3>1
    <3>3. Apart(x, y) /\ Between(x, y) = {}
      BY <3>2 DEF LimitInv, SaturatedIsolation, Apart
    <3>4. Apart(x, y)'
      BY <1>2, <3>1, <3>3 DEF Apart
    <3> QED BY <1>1, <3>3, <3>4 DEF Between
  <2> QED BY <2>1, <2>2
<1>9. TalksPossible'
  <2> SUFFICES ASSUME NEW n \in meetings', NEW x \in n.parties, NEW y \in n.parties, x # y
               PROVE  DiplomacyPossible(x, y)'
    BY DEF TalksPossible
  <2>1. n \in meetings /\ DiplomacyPossible(x, y) /\ DiplomacyPossible(y, x)
    BY <1>1 DEF LimitInv, TalksPossible
  <2>2. x \in Players /\ y \in Players /\ n.parties = {x, y} /\ n.parties = {y, x}
    BY <2>1, PartiesOf
  <2>3. Between(x, y)' # {} /\ Between(y, x)' # {}
    BY <2>2 DEF Between
  <2>4. ASSUME NEW u \in Players, NEW v \in Players, u # v, Between(u, v)' # {},
               DiplomacyPossible(u, v), ~Allied(ds', u, v), Saturated(ds', u)
        PROVE  FALSE
    <3>1. u \notin {p, q}
      BY <1>3, <2>4
    <3>2. {u, v} # {p, q}
      BY <3>1
    <3>3. Saturated(ds, u)
      <4>1. Saturated(ds, u)'
        BY <1>1, <2>4 DEF Saturated, Allies, Allied
      <4> QED BY <1>5, <3>1, <4>1
    <3>4. ~Allied(ds, u, v)
      BY <1>2, <2>4, <3>2
    <3> QED BY <2>4, <3>3, <3>4 DEF DiplomacyPossible
  <2>5. Allied(ds', x, y) \/ (~Saturated(ds', x) /\ ~Saturated(ds', y))
    <3>1. Allied(ds', x, y) <=> Allied(ds', y, x)
      BY <2>2 DEF RowsAgree, Allied
    <3> QED BY <2>1, <2>2, <2>3, <2>4, <3>1
  <2>6. Allied(ds, x, y)' \/ (~Saturated(ds, x)' /\ ~Saturated(ds, y)')
    BY <1>1, <2>5 DEF Saturated, Allies, Allied
  <2> QED BY <1>1, <2>1, <2>6 DEF DiplomacyPossible, SameTeam
<1> QED BY <1>7, <1>8, <1>9 DEF LimitInv

(***************************************************************************)
(* The theorems.                                                           *)
(***************************************************************************)

LEMMA LimitInit == Init => LimitInv
<1> SUFFICES ASSUME Init PROVE LimitInv
  OBVIOUS
<1>1. /\ ds = [p \in Players |-> [q \in Players |->
                IF q \in Mates(p) THEN "team" ELSE "no_contact"]]
      /\ vision = [p \in Players |-> Mates(p)] /\ meetings = {}
  BY DEF Init
<1>2. \A p, q \in Players : q \in Mates(p) <=> p # q /\ SameTeam(p, q)
  BY DEF Mates
<1>3. \A p \in Players : Allies(ds, p) \subseteq Mates(p)
  BY <1>1, <1>2 DEF Allies, Allied
<1>4. AlliesBound
  BY <1>3 DEF AlliesBound
<1>5. SaturatedIsolation
  BY <1>1, <1>2 DEF SaturatedIsolation, SameTeam, Between
<1>6. TalksPossible
  BY <1>1 DEF TalksPossible
<1> QED BY <1>4, <1>5, <1>6 DEF LimitInv

LEMMA LimitNext ==
    ASSUME TypeOK, RowsAgree, MeetingsInv, LimitInv, [Next]_vars
    PROVE  LimitInv'
<1>0. RowsAgree'
  BY RowsNext
<1>1. ASSUME NEW p \in Players, NEW q \in Players, Conclude(p, q)
      PROVE  LimitInv'
  <2>1. PICK m \in meetings : Executes(m, p, q)
    BY <1>1, ConcludeExecutes
  <2>2. CASE Allied(ds', p, q) => Allied(ds, p, q)
    BY <1>0, <2>1, <2>2, ExecuteLoosens, Loosened
  <2>3. CASE Allied(ds', p, q) /\ ~Allied(ds, p, q)
    BY <1>0, <2>1, <2>3, ExecuteAllies
  <2> QED BY <2>2, <2>3
<1>2. ASSUME NEW p \in Players, NEW q \in Players,
             \/ InitMeeting(p, q) \/ CancelMeeting(p, q)
             \/ CreateClause(p, q) \/ RemoveClauseReq(p, q)
             \/ Withdraw(p, q) \/ AcceptFirst(p, q) \/ AcceptTooLate(p, q)
      PROVE  LimitInv'
  BY <1>0, <1>2, RequestsLoosen, Loosened
<1>3. ASSUME NEW p \in Players, NEW q \in Players, NEW allTheWay \in BOOLEAN,
             CancelPact(p, q, allTheWay)
      PROVE  LimitInv'
  BY <1>0, <1>3, CancelLoosens, Loosened
<1>4. ASSUME NEW p \in Players, NEW q \in Players, MakeContact(p, q)
      PROVE  LimitInv'
  BY <1>0, <1>4, ContactLoosens, Loosened
<1>5. ASSUME NEW p \in Players, NEW q \in Players,
             \/ StopVision(p, q) \/ EstablishEmbassy(p, q)
             \/ TurnChange \/ ToggleAI(p) \/ KillPlayer(p)
      PROVE  LimitInv'
  BY <1>0, <1>5, SurroundingsLoosen, Loosened
<1>6. CASE UNCHANGED vars
  BY <1>6 DEF vars, LimitInv, AlliesBound, SaturatedIsolation, TalksPossible, Saturated,
              Allies, Allied, Mates, SameTeam, Between, DiplomacyPossible
<1>7. CASE TurnChange /\ Players = {}
  <2>1. meetings' = meetings
    BY <1>7 DEF TurnChange
  <2>2. TalksPossible'
    BY <1>7, <2>1 DEF TalksPossible, TypeOK, Meeting, Pairs
  <2> QED BY <1>7, <2>2 DEF LimitInv, AlliesBound, SaturatedIsolation
<1> QED
  BY <1>1, <1>2, <1>3, <1>4, <1>5, <1>6, <1>7 DEF Next, AcceptTreaty

LEMMA LimitAlways == Spec => []LimitInv
<1>1. Init => LimitInv
  BY LimitInit
<1>2. TypeOK /\ RowsAgree /\ MeetingsInv /\ LimitInv /\ [Next]_vars => LimitInv'
  BY LimitNext
<1> QED BY <1>1, <1>2, TypeCorrect, RowsAlwaysAgree, MeetingsAlways, PTL DEF Spec

\* maxallies bounds the alliances that players make, although the last look
\* before an alliance is concluded is at one side only (diplhand.cc).
THEOREM AlliesAlwaysBounded == Spec => []AlliesBound
<1>1. LimitInv => AlliesBound
  BY DEF LimitInv
<1> QED BY <1>1, LimitAlways, PTL

\* Who reached the limit has nothing to do with those who are neither his allies
\* nor his team mates, whatever becomes of his alliances (cancel_diplomacy).
THEOREM LimitIsolates == Spec => []SaturatedIsolation
<1>1. LimitInv => SaturatedIsolation
  BY DEF LimitInv
<1> QED BY <1>1, LimitAlways, PTL

(***************************************************************************)
(* Acquaintance.                                                           *)
(***************************************************************************)

Known(p, q) == q \in embassy[p] \/ p \in embassy[q] \/ ds[p][q] # "no_contact"

\* Who met, or talks, knows each other.
AcquaintanceInv ==
    /\ \A p, q \in Players : contact[p][q] > 0 => ds[p][q] # "no_contact"
    /\ \A m \in meetings : \A p, q \in m.parties : p # q => Known(p, q)

\* No step makes strangers of two who met, and contact is only made by meeting.
Acquaints ==
    /\ \A p, q \in Players :
         /\ ds[p][q] # "no_contact" => ds'[p][q] # "no_contact"
         /\ contact'[p][q] > 0 => contact[p][q] > 0 \/ ds'[p][q] # "no_contact"
    /\ \A p \in Players : embassy[p] \subseteq embassy'[p]

\* Every meeting was open before the step, or two who know each other open it.
MeetingsKnown ==
    \A m \in meetings' :
        \/ \E k \in meetings : k.parties = m.parties
        \/ \A p, q \in m.parties : p # q => Known(p, q)

LEMMA AcquaintanceStep ==
    ASSUME TypeOK, MeetingsInv, AcquaintanceInv, Acquaints, MeetingsKnown,
           TypeOK', MeetingsInv'
    PROVE  AcquaintanceInv'
<1>1. ASSUME NEW p \in Players, NEW q \in Players, contact'[p][q] > 0
      PROVE  ds'[p][q] # "no_contact"
  BY <1>1 DEF AcquaintanceInv, Acquaints
<1>2. ASSUME NEW m \in meetings', NEW p \in m.parties, NEW q \in m.parties, p # q
      PROVE  Known(p, q)'
  <2>1. p \in Players /\ q \in Players
    <3>1. m \in Meeting
      BY DEF TypeOK
    <3> QED BY <3>1 DEF Meeting, Pairs
  <2>2. Known(p, q)
    BY <1>2 DEF AcquaintanceInv, MeetingsKnown
  <2> QED BY <2>1, <2>2 DEF Known, Acquaints
<1> QED BY <1>1, <1>2 DEF AcquaintanceInv

LEMMA RequestsAcquaint ==
    ASSUME TypeOK, RowsAgree, MeetingsInv, AcquaintanceInv, NEW p \in Players, NEW q \in Players,
           \/ InitMeeting(p, q) \/ CancelMeeting(p, q)
           \/ CreateClause(p, q) \/ RemoveClauseReq(p, q)
           \/ Withdraw(p, q) \/ AcceptFirst(p, q) \/ AcceptTooLate(p, q)
    PROVE  Acquaints /\ MeetingsKnown
<1>1. UNCHANGED <<states, contact, embassy, vision, alive, ai, goods>>
  BY RequestsList
<1>2. Acquaints
  BY <1>1 DEF Acquaints, states
<1>3. CASE InitMeeting(p, q)
  <2>1. meetings' = meetings \cup {NewTreaty(p, q)} /\ CouldMeet(p, q)
    BY <1>3 DEF InitMeeting
  <2>2. Known(p, q) /\ Known(q, p)
    BY <2>1 DEF CouldMeet, AcquaintanceInv, Known, RowsAgree
  <2> QED BY <1>2, <2>1, <2>2 DEF MeetingsKnown, NewTreaty
<1>4. CASE ~InitMeeting(p, q)
  <2>1. \/ meetings' \subseteq meetings
        \/ \E m, n \in Meeting : Replaces(m, n)
        \/ Opens(p, q)
    BY RequestsList
  <2>2. Between(p, q) # {}
    BY <1>4 DEF CancelMeeting, CreateClause, RemoveClauseReq, Withdraw, AcceptFirst,
                AcceptTooLate
  <2>3. \A n \in meetings' : \E k \in meetings : k.parties = n.parties
    BY <2>1, <2>2 DEF Replaces, Opens
  <2> QED BY <1>2, <2>3 DEF MeetingsKnown
<1> QED BY <1>3, <1>4

LEMMA ConcludeAcquaints ==
    ASSUME TypeOK, NEW p \in Players, NEW q \in Players, Conclude(p, q)
    PROVE  Acquaints /\ MeetingsKnown
<1>1. PICK m \in Between(p, q) : Execute(m, p, q)
  BY DEF Conclude
<1>2. m \in Meeting /\ p # q
  BY BetweenMeeting
<1> DEFINE d == AfterPact(m, p, q)
<1>3. /\ ds' = CutStates(d, Filled(m, d)) /\ contact' = contact
      /\ meetings' \subseteq meetings
      /\ embassy' = [x \in Players |-> embassy[x] \cup
                       {g \in Givers(m, "embassy", NoValue) : x \in m.parties \ {g}}]
  BY <1>1 DEF Execute
<1>4. \A x, y \in Players : ds[x][y] # "no_contact" => d[x][y] # "no_contact"
  <2>1. CASE Pact(m) = {}
    BY <2>1 DEF AfterPact
  <2>2. CASE Pact(m) # {}
    <3> DEFINE e == CHOOSE c \in Pact(m) : TRUE
    <3>1. e \in Pact(m)
      BY <2>2
    <3>2. e.type # "no_contact"
      BY <3>1 DEF Pact, PactClauses
    <3>3. d = SetPair(ds, p, q, e.type)
      BY <2>2 DEF AfterPact
    <3> HIDE DEF e, d
    <3> QED BY <3>2, <3>3 DEF SetPair
  <2> QED BY <2>1, <2>2
<1> HIDE DEF d
<1>5. \A x, y \in Players : ds[x][y] # "no_contact" => ds'[x][y] # "no_contact"
  BY <1>3, <1>4 DEF CutStates
<1>6. \A x \in Players : embassy[x] \subseteq embassy'[x]
  BY <1>3
<1> QED BY <1>3, <1>5, <1>6 DEF Acquaints, MeetingsKnown

LEMMA SurroundingsAcquaint ==
    ASSUME TypeOK, RowsAgree, NEW p \in Players, NEW q \in Players,
           \/ StopVision(p, q) \/ CancelPact(p, q, FALSE) \/ CancelPact(p, q, TRUE)
           \/ MakeContact(p, q) \/ EstablishEmbassy(p, q)
           \/ ToggleAI(p) \/ KillPlayer(p) \/ TurnChange
    PROVE  Acquaints /\ MeetingsKnown
<1>1. meetings' \subseteq meetings
  BY DEF StopVision, CancelPact, MakeContact, EstablishEmbassy, ToggleAI, KillPlayer,
         TurnChange, OpenWithout
<1>2. MeetingsKnown
  BY <1>1 DEF MeetingsKnown
<1>3. ASSUME NEW allTheWay \in BOOLEAN, CancelPact(p, q, allTheWay)
      PROVE  Acquaints
  <2> DEFINE new == IF allTheWay THEN "war" ELSE Lower(ds[p][q])
             d == SetPair(ds, p, q, new)
  <2>1. /\ ds' = IF new = "war" THEN FallOut(d, p, q) ELSE d
        /\ UNCHANGED <<contact, embassy>>
        /\ ds[p][q] \in DiplState /\ ds[p][q] \notin {"war", "team"}
    BY <1>3 DEF CancelPact, TypeOK
  <2>2. new # "no_contact"
    BY <2>1, LowerType
  <2>3. \A x, y \in Players : ds[x][y] # "no_contact" => d[x][y] # "no_contact"
    <3> HIDE DEF new
    <3> QED BY <2>2 DEF SetPair
  <2> HIDE DEF new, d
  <2>4. \A x, y \in Players : ds[x][y] # "no_contact" => ds'[x][y] # "no_contact"
    BY <2>1, <2>3 DEF FallOut
  <2> QED BY <2>1, <2>4 DEF Acquaints
<1>4. CASE MakeContact(p, q)
  <2> DEFINE new == IF DiplomacyPossible(p, q) THEN "neutral" ELSE "war"
  <2>1. /\ contact' = SetPair(contact, p, q, ContactTurns)
        /\ ds' = IF ds[p][q] = "no_contact" THEN SetPair(ds, p, q, new) ELSE ds
        /\ embassy' = embassy /\ p # q
    BY <1>4 DEF MakeContact
  <2>2. new # "no_contact"
    OBVIOUS
  <2> HIDE DEF new
  <2>3. \A x, y \in Players :
          contact'[x][y] = contact[x][y] \/ {x, y} = {p, q}
    BY <2>1 DEF SetPair
  <2>4. \A x, y \in Players : ds[x][y] # "no_contact" => ds'[x][y] # "no_contact"
    BY <2>1, <2>2 DEF SetPair
  <2>5. ds'[p][q] # "no_contact" /\ ds'[q][p] # "no_contact"
    BY <2>1, <2>2 DEF SetPair, RowsAgree
  <2>6. \A x, y \in Players : {x, y} = {p, q} => (x = p /\ y = q) \/ (x = q /\ y = p)
    OBVIOUS
  <2> QED BY <1>2, <2>1, <2>3, <2>4, <2>5, <2>6 DEF Acquaints
<1>5. CASE TurnChange
  <2>1. \A x, y \in Players :
          /\ ds'[x][y] \in {ds[x][y], "neutral"}
          /\ contact'[x][y] > 0 => contact[x][y] > 0
    BY <1>5 DEF TurnChange, ContactAged
  <2> QED BY <1>2, <1>5, <2>1 DEF Acquaints, TurnChange
<1>6. CASE StopVision(p, q) \/ EstablishEmbassy(p, q) \/ ToggleAI(p) \/ KillPlayer(p)
  <2>1. UNCHANGED <<ds, contact>>
    BY <1>6 DEF StopVision, EstablishEmbassy, ToggleAI, KillPlayer, states
  <2>2. \A x \in Players : embassy[x] \subseteq embassy'[x]
    BY <1>6 DEF StopVision, EstablishEmbassy, ToggleAI, KillPlayer, TypeOK
  <2> QED BY <1>2, <2>1, <2>2 DEF Acquaints
<1> QED BY <1>2, <1>3, <1>4, <1>5, <1>6

LEMMA AcquaintanceNext ==
    ASSUME TypeOK, RowsAgree, MeetingsInv, AcquaintanceInv, [Next]_vars, TypeOK', MeetingsInv'
    PROVE  AcquaintanceInv'
<1>1. CASE UNCHANGED vars
  BY <1>1 DEF vars, states, AcquaintanceInv, Known
<1>2. CASE Players = {}
  BY <1>2 DEF AcquaintanceInv, TypeOK, Meeting, Pairs
<1>3. CASE Next /\ Players # {}
  <2>1. Acquaints /\ MeetingsKnown
    BY <1>3, RequestsAcquaint, ConcludeAcquaints, SurroundingsAcquaint DEF Next, AcceptTreaty
  <2> QED BY <2>1, AcquaintanceStep
<1> QED BY <1>1, <1>2, <1>3

LEMMA AcquaintanceAlways == Spec => []AcquaintanceInv
<1>1. Init => AcquaintanceInv
  BY DEF Init, AcquaintanceInv
<1>2. /\ TypeOK /\ RowsAgree /\ MeetingsInv /\ AcquaintanceInv /\ [Next]_vars
      /\ TypeOK' /\ MeetingsInv'
      => AcquaintanceInv'
  BY AcquaintanceNext
<1> QED BY <1>1, <1>2, TypeCorrect, RowsAlwaysAgree, MeetingsAlways, PTL DEF Spec

\* The parties of an open meeting are alive, diplomacy is possible between them and
\* they know each other, although could_meet_with_player is only asked when the meeting
\* opens: whoever makes diplomacy_possible fail cancels the meeting, and acquaintance is
\* for ever.  That their contact is recent, which it asks too, is not claimed: it is
\* not so once contact runs out.
THEOREM MeetingsStayAllowed == Spec => []MeetingStillAllowed
<1>1. TypeOK /\ MeetingsInv /\ LimitInv /\ AcquaintanceInv => MeetingStillAllowed
  <2> SUFFICES ASSUME TypeOK, MeetingsInv, LimitInv, AcquaintanceInv,
                      NEW m \in meetings, NEW p \in m.parties, NEW q \in m.parties, p # q
               PROVE  alive[p] /\ alive[q] /\ DiplomacyPossible(p, q) /\ Known(p, q)
    BY DEF MeetingStillAllowed, Known
  <2> QED BY PartiesOf DEF LimitInv, TalksPossible, AcquaintanceInv
<1> QED BY <1>1, TypeCorrect, MeetingsAlways, LimitAlways, AcquaintanceAlways, PTL
=============================================================================
