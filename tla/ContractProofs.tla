--------------------------- MODULE ContractProofs ---------------------------
(***************************************************************************)
(* Diplomacy implements Contract, for any number of players, clauses, open *)
(* meetings, limits and settings.                                          *)
(***************************************************************************)
EXTENDS DiplomacyProofs

(***************************************************************************)
(* Pacts.                                                                  *)
(***************************************************************************)

\* The treaty that binds p and q in this step
Concluded(p, q) == \E m \in meetings \ meetings' :
    /\ m.parties = {p, q} /\ m.accepted # {}
    /\ Signs(m, ds'[p][q])

\* The row of p for q is left alone, loosened, or signed.
Explained(p, q) ==
    \/ ds'[p][q] \notin PactClauses
    \/ ds'[p][q] = ds[p][q]
    \/ ds[p][q] = "alliance" /\ ds'[p][q] = "peace"
    \/ Concluded(p, q) /\ meetings' \subseteq meetings

LEMMA ConcludeExplained ==
    ASSUME TypeOK, NEW p \in Players, NEW q \in Players, Conclude(p, q),
           NEW x \in Players, NEW y \in Players
    PROVE  Explained(x, y)
<1>1. PICK m \in Between(p, q) : OtherAccepted(m, q) /\ Execute(m, p, q)
  BY DEF Conclude
<1>2. m \in meetings /\ m.parties = {p, q} /\ p # q /\ m.accepted # {}
  BY <1>1, BetweenMeeting DEF OtherAccepted
<1> DEFINE d == AfterPact(m, p, q)
           e == CHOOSE c \in Pact(m) : TRUE
<1>3. /\ ds' = CutStates(d, Filled(m, d))
      /\ meetings' = meetings \ ({m} \cup CutMeetings(d, Filled(m, d)))
  BY <1>1 DEF Execute
<1>4. m \in meetings \ meetings' /\ meetings' \subseteq meetings
  BY <1>2, <1>3
<1>5. ds'[x][y] \in {"war", d[x][y]}
  <2> HIDE DEF d
  <2> QED BY <1>3 DEF CutStates
<1>6. CASE Pact(m) = {}
  <2>1. d = ds
    BY <1>6 DEF AfterPact
  <2> QED BY <1>5, <2>1 DEF Explained, PactClauses
<1>7. CASE Pact(m) # {}
  <2>1. e \in Pact(m) /\ d = SetPair(ds, p, q, e.type)
    BY <1>7 DEF AfterPact
  <2> HIDE DEF e
  <2>2. CASE (x = p /\ y = q) \/ (x = q /\ y = p)
    <3>1. d[x][y] = e.type /\ {x, y} = m.parties
      BY <1>2, <2>1, <2>2 DEF SetPair
    <3>2. Signs(m, e.type)
      BY <2>1 DEF Pact, Signs
    <3>3. CASE ds'[x][y] = e.type
      BY <1>2, <1>4, <3>1, <3>2, <3>3 DEF Explained, Concluded
    <3>4. CASE ds'[x][y] = "war"
      BY <3>4 DEF Explained, PactClauses
    <3> QED BY <1>5, <3>1, <3>3, <3>4
  <2>3. CASE ~((x = p /\ y = q) \/ (x = q /\ y = p))
    <3>1. d[x][y] = ds[x][y]
      BY <2>1, <2>3 DEF SetPair
    <3> HIDE DEF d
    <3> QED BY <1>5, <3>1 DEF Explained, PactClauses
  <2> QED BY <2>2, <2>3
<1> QED BY <1>6, <1>7

LEMMA CancelExplained ==
    ASSUME TypeOK, RowsAgree, NEW p \in Players, NEW q \in Players,
           NEW allTheWay \in BOOLEAN, CancelPact(p, q, allTheWay),
           NEW x \in Players, NEW y \in Players
    PROVE  Explained(x, y)
<1> DEFINE new == IF allTheWay THEN "war" ELSE Lower(ds[p][q])
           d == SetPair(ds, p, q, new)
<1>1. /\ ds' = IF new = "war" THEN FallOut(d, p, q) ELSE d
      /\ ds[p][q] \in DiplState /\ ds[p][q] \notin {"war", "team"} /\ p # q
  BY DEF CancelPact, TypeOK
<1>2. \/ new \in {"war", "neutral"}
      \/ new = "peace" /\ ds[p][q] = "alliance"
  BY <1>1 DEF Lower, DiplState
<1>3. d[x][y] = IF (x = p /\ y = q) \/ (x = q /\ y = p) THEN new ELSE ds[x][y]
  BY DEF SetPair
<1>4. ds'[x][y] = d[x][y] \/ (new = "war" /\ d[x][y] = "alliance" /\ ds'[x][y] = "peace")
  <2> HIDE DEF d, new
  <2>1. CASE new = "war"
    BY <1>1, <2>1 DEF FallOut
  <2>2. CASE new # "war"
    BY <1>1, <2>2
  <2> QED BY <2>1, <2>2
<1> HIDE DEF d, new
<1>5. CASE ~((x = p /\ y = q) \/ (x = q /\ y = p))
  BY <1>3, <1>4, <1>5 DEF Explained
<1>6. CASE x = p /\ y = q
  BY <1>2, <1>3, <1>4, <1>6 DEF Explained, PactClauses
<1>7. CASE x = q /\ y = p
  <2>1. ds[x][y] = ds[p][q]
    BY <1>7 DEF RowsAgree
  <2> QED BY <1>2, <1>3, <1>4, <1>7, <2>1 DEF Explained, PactClauses
<1> QED BY <1>5, <1>6, <1>7

LEMMA AlwaysExplained ==
    ASSUME TypeOK, RowsAgree, [Next]_vars, NEW x \in Players, NEW y \in Players
    PROVE  Explained(x, y)
<1>1. ASSUME NEW p \in Players, NEW q \in Players, MakeContact(p, q)
      PROVE  Explained(x, y)
  <2>1. ds'[x][y] \in {ds[x][y], "neutral", "war"}
    BY <1>1 DEF MakeContact, SetPair
  <2> QED BY <2>1 DEF Explained, PactClauses
<1>2. CASE TurnChange
  <2>1. ds'[x][y] \in {ds[x][y], "neutral"}
    BY <1>2 DEF TurnChange
  <2> QED BY <2>1 DEF Explained, PactClauses
<1>3. CASE UNCHANGED states
  BY <1>3 DEF Explained, states
<1>4. ASSUME NEW p \in Players, NEW q \in Players,
             \/ InitMeeting(p, q) \/ CancelMeeting(p, q)
             \/ CreateClause(p, q) \/ RemoveClauseReq(p, q)
             \/ Withdraw(p, q) \/ AcceptFirst(p, q) \/ AcceptTooLate(p, q)
             \/ StopVision(p, q) \/ EstablishEmbassy(p, q)
             \/ ToggleAI(p) \/ KillPlayer(p)
      PROVE  UNCHANGED states
  BY <1>4 DEF InitMeeting, CancelMeeting, CreateClause, RemoveClauseReq, Withdraw,
              AcceptFirst, AcceptTooLate, StopVision, EstablishEmbassy, ToggleAI, KillPlayer
<1>5. UNCHANGED vars => UNCHANGED states
  BY DEF vars, states
<1>6. ASSUME NEW p \in Players, NEW q \in Players, Conclude(p, q)
      PROVE  Explained(x, y)
  BY <1>6, ConcludeExplained
<1>7. ASSUME NEW p \in Players, NEW q \in Players, NEW allTheWay \in BOOLEAN,
             CancelPact(p, q, allTheWay)
      PROVE  Explained(x, y)
  BY <1>7, CancelExplained
<1> QED
  BY <1>1, <1>2, <1>3, <1>4, <1>5, <1>6, <1>7 DEF Next, AcceptTreaty

\* Whatever is signed, broken, cut off, aged or met: a pact comes into force
\* between two players only as a clause of a treaty that one had accepted and the
\* other concludes, or as the peace that is left of their alliance.
THEOREM PactsOnlyByConsent == Spec => PactByConsent
<1> DEFINE Consent == \A p, q \in Players :
                        /\ ds'[p][q] \in PactClauses
                        /\ ds'[p][q] # ds[p][q]
                        /\ ~(ds[p][q] = "alliance" /\ ds'[p][q] = "peace")
                        => Concluded(p, q)
<1>1. TypeOK /\ RowsAgree /\ [Next]_vars => [Consent]_vars
  BY AlwaysExplained DEF Explained
<1> QED BY <1>1, TypeCorrect, RowsAlwaysAgree, PTL DEF Spec, PactByConsent, Concluded

(***************************************************************************)
(* The refinement.                                                         *)
(***************************************************************************)

\* A pair has one treaty, or none.
LEMMA OneDeal ==
    ASSUME MeetingsSound, NEW m \in meetings
    PROVE  TableOf(m.parties) = {[terms |-> m.clauses, agreed |-> m.accepted]}
  BY DEF MeetingsSound, TableOf

LEMMA NoDeal ==
    ASSUME NEW P, \A m \in meetings : m.parties # P
    PROVE  TableOf(P) = {}
  BY DEF TableOf

\* One treaty gives way to its next form.
LEMMA ReplacedTable ==
    ASSUME MeetingsInv, NEW m \in Meeting, NEW n \in Meeting, Replaces(m, n)
    PROVE  /\ TableOf(m.parties)' = {[terms |-> n.clauses, agreed |-> n.accepted]}
           /\ \A P : P # m.parties => TableOf(P)' = TableOf(P)
<1>1. /\ m \in meetings /\ n.parties = m.parties
      /\ meetings' = (meetings \ {m}) \cup {n}
      /\ \A k \in meetings : k.parties = m.parties => k = m
  BY DEF Replaces, MeetingsInv, MeetingsSound
<1>2. {k \in meetings' : k.parties = m.parties} = {n}
  BY <1>1
<1>3. ASSUME NEW P, P # m.parties
      PROVE  {k \in meetings' : k.parties = P} = {k \in meetings : k.parties = P}
  BY <1>1, <1>3
<1> QED BY <1>2, <1>3 DEF TableOf

\* What a step does to the table of a pair
LEMMA TableStep ==
    ASSUME TypeOK, MeetingsInv, [Next]_vars, NEW P \in Pairs
    PROVE  \/ Promise!Rest(P) \/ Promise!Open(P) \/ Promise!Amend(P)
           \/ Promise!Agree(P) \/ Promise!Close(P)
<1>0. \/ meetings' \subseteq meetings
      \/ \E m, n \in Meeting : Replaces(m, n)
      \/ \E p, q \in Players : Opens(p, q)
  BY MeetingsNext
<1>1. CASE meetings' \subseteq meetings
  <2>1. CASE \A m \in meetings' : m.parties # P
    <3>1. TableOf(P)' = {}
      BY <2>1 DEF TableOf
    <3> QED BY <3>1 DEF Promise!Close
  <2>2. CASE \E m \in meetings' : m.parties = P
    <3>1. {k \in meetings' : k.parties = P} = {k \in meetings : k.parties = P}
      BY <1>1, <2>2 DEF MeetingsInv, MeetingsSound
    <3>2. TableOf(P)' = TableOf(P)
      BY <3>1 DEF TableOf
    <3> QED BY <3>2 DEF Promise!Rest
  <2> QED BY <2>1, <2>2
<1>2. CASE \E m, n \in Meeting : Replaces(m, n)
  <2>1. PICK m, n \in Meeting : Replaces(m, n)
    BY <1>2
  <2>2. CASE P # m.parties
    <3>1. TableOf(P)' = TableOf(P)
      BY <2>1, <2>2, ReplacedTable
    <3> QED BY <3>1 DEF Promise!Rest
  <2>3. CASE P = m.parties
    <3> DEFINE d == [terms |-> m.clauses, agreed |-> m.accepted]
               e == [terms |-> n.clauses, agreed |-> n.accepted]
    <3>1. TableOf(P) = {d} /\ TableOf(P)' = {e}
      BY <2>1, <2>3, ReplacedTable, OneDeal DEF Replaces, MeetingsInv
    <3>2. d.agreed = m.accepted /\ d.terms = m.clauses /\ e.agreed = n.accepted
      OBVIOUS
    <3>3. e \in Promise!Deal
      <4>1. n.clauses \in SUBSET Clause /\ n.parties \in Pairs
        BY DEF Meeting
      <4>2. n.accepted \in SUBSET UNION Pairs
        BY <2>1, <4>1 DEF Replaces
      <4> QED BY <4>1, <4>2 DEF Promise!Deal
    <3>4. CASE n.accepted = {}
      <4> HIDE DEF d, e
      <4> QED BY <3>1, <3>2, <3>3, <3>4 DEF Promise!Amend
    <3>5. CASE n.accepted # {}
      <4>1. PICK p \in P : n.accepted = {p} /\ m.accepted = {}
        BY <2>1, <2>3, <3>5 DEF Replaces
      <4>2. e = [terms |-> d.terms, agreed |-> {p}]
        BY <2>1, <3>5, <4>1 DEF Replaces
      <4> HIDE DEF d, e
      <4> QED BY <3>1, <3>2, <4>1, <4>2 DEF Promise!Agree
    <3> QED BY <3>4, <3>5
  <2> QED BY <2>2, <2>3
<1>3. CASE \E p, q \in Players : Opens(p, q)
  <2>1. PICK p, q \in Players : Opens(p, q)
    BY <1>3
  <2> DEFINE n == NewTreaty(p, q)
  <2>2. /\ meetings' = meetings \cup {n}
        /\ n = [parties |-> {p, q}, accepted |-> {}, clauses |-> {}]
        /\ \A k \in meetings : k.parties # {p, q}
    BY <2>1 DEF Opens, Between, NewTreaty
  <2> HIDE DEF n
  <2>3. CASE P = {p, q}
    <3>1. {k \in meetings' : k.parties = P} = {n}
      BY <2>2, <2>3
    <3>2. TableOf(P)' = {[terms |-> n.clauses, agreed |-> n.accepted]}
      BY <3>1 DEF TableOf
    <3>3. TableOf(P) = {}
      BY <2>2, <2>3, NoDeal
    <3>4. n.clauses = {} /\ n.accepted = {}
      BY <2>2
    <3> QED BY <3>2, <3>3, <3>4 DEF Promise!Open, Promise!Blank
  <2>4. CASE P # {p, q}
    <3>1. {k \in meetings' : k.parties = P} = {k \in meetings : k.parties = P}
      BY <2>2, <2>4
    <3>2. TableOf(P)' = TableOf(P)
      BY <3>1 DEF TableOf
    <3> QED BY <3>2 DEF Promise!Rest
  <2> QED BY <2>3, <2>4
<1> QED BY <1>0, <1>1, <1>2, <1>3

\* What a step does to the bond of a pair
LEMMA BondStep ==
    ASSUME TypeOK, RowsAgree, RowsAgree', MeetingsInv, [Next]_vars, NEW P \in Pairs
    PROVE  Promise!Loosen(P) \/ (Promise!Bind(P) /\ Promise!Close(P))
<1>1. PICK p, q \in Players : p # q /\ P = {p, q}
  BY DEF Pairs
<1>2. /\ BondOf(P) = {s \in PactClauses : s = ds[p][q]}
      /\ BondOf(P)' = {s \in PactClauses : s = ds'[p][q]}
  BY <1>1 DEF BondOf, RowsAgree
<1>3. Explained(p, q)
  BY AlwaysExplained
<1>4. CASE ds'[p][q] \notin PactClauses \/ ds'[p][q] = ds[p][q]
  <2>1. BondOf(P)' \subseteq BondOf(P)
    BY <1>2, <1>4
  <2> QED BY <2>1 DEF Promise!Loosen
<1>5. CASE ds[p][q] = "alliance" /\ ds'[p][q] = "peace"
  <2>1. BondOf(P) = {"alliance"} /\ BondOf(P)' = {"peace"}
    BY <1>2, <1>5 DEF PactClauses
  <2> QED BY <2>1 DEF Promise!Loosen
<1>6. CASE ds'[p][q] \in PactClauses /\ Concluded(p, q)
           /\ meetings' \subseteq meetings
  <2>1. PICK m \in meetings \ meetings' :
          m.parties = P /\ m.accepted # {} /\ Signs(m, ds'[p][q])
    BY <1>1, <1>6 DEF Concluded
  <2>2. PICK c \in m.clauses : c.type = ds'[p][q]
    BY <2>1 DEF Signs
  <2> DEFINE d == [terms |-> m.clauses, agreed |-> m.accepted]
  <2>3. TableOf(P) = {d}
    BY <2>1, OneDeal DEF MeetingsInv
  <2>4. d.agreed # {} /\ c \in d.terms
    BY <2>1
  <2>5. BondOf(P)' = {ds'[p][q]}
    BY <1>2, <1>6
  <2>6. Promise!Bind(P)
    <3> HIDE DEF d
    <3> QED BY <1>6, <2>2, <2>3, <2>4, <2>5 DEF Promise!Bind
  <2>7. \A k \in meetings' : k.parties # P
    BY <1>6, <2>1 DEF MeetingsInv, MeetingsSound
  <2>8. TableOf(P)' = {}
    BY <2>7 DEF TableOf
  <2> QED BY <2>6, <2>8 DEF Promise!Close
<1> QED BY <1>3, <1>4, <1>5, <1>6 DEF Explained

\* The server keeps the contract: every state maps to a state of Contract and
\* every step to a step of it or to none, so whatever follows from the contract
\* holds of the server.
THEOREM ContractKept == Spec => KeepsContract
<1>1. Init => Promise!Init
  <2> SUFFICES ASSUME Init PROVE Promise!Init
    OBVIOUS
  <2>1. ASSUME NEW P \in Pairs PROVE TableOf(P) = {}
    BY NoDeal DEF Init
  <2>2. ASSUME NEW P \in Pairs PROVE BondOf(P) = {}
    <3>1. \A p, q \in Players : ds[p][q] \notin PactClauses
      BY DEF Init, PactClauses
    <3>2. P \subseteq Players
      BY DEF Pairs
    <3> QED BY <3>1, <3>2 DEF BondOf
  <2> QED BY <2>1, <2>2 DEF Promise!Init
<1>2. ASSUME TypeOK, RowsAgree, RowsAgree', MeetingsInv, [Next]_vars
      PROVE  Promise!Next
  <2>1. ASSUME NEW P \in Pairs
        PROVE  \/ Promise!Loosen(P) /\ (\/ Promise!Rest(P) \/ Promise!Open(P) \/ Promise!Amend(P)
                                        \/ Promise!Agree(P) \/ Promise!Close(P))
               \/ Promise!Bind(P) /\ Promise!Close(P)
    BY <1>2, <2>1, TableStep, BondStep
  <2> QED BY <2>1 DEF Promise!Next
<1>3. TypeOK /\ RowsAgree /\ RowsAgree' /\ MeetingsInv /\ [Next]_vars
        => [Promise!Next]_(Promise!vars)
  BY <1>2
<1> QED
  BY <1>1, <1>3, TypeCorrect, RowsAlwaysAgree, MeetingsAlways, PTL
     DEF Spec, KeepsContract, Promise!Spec
=============================================================================
