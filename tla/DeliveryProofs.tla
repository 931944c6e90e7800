--------------------------- MODULE DeliveryProofs ---------------------------
(***************************************************************************)
(* What a treaty promises changes hands, and nothing else does: the action *)
(* property PromisesKept, for every number of players, cities, advances    *)
(* and clauses.                                                            *)
(*                                                                         *)
(* It rests on two invariants.  The terms are unambiguous, so the gold and *)
(* the pact that are executed are those of the clause that promises them,  *)
(* and an alliance that cuts off other diplomacy does not cut what the     *)
(* same treaty gives.  And the parties are two different players, so what  *)
(* one gives the other gets.                                               *)
(***************************************************************************)
EXTENDS DiplomacyProofs

\* m is the treaty of p and q that is executed; both can give what they promise.
Kept(m, p, q) ==
    /\ m \in meetings /\ m \in Meeting /\ m.parties = {p, q} /\ m.accepted # {}
    /\ p \in Players /\ q \in Players /\ p # q
    /\ Other(m, p) = q /\ Other(m, q) = p
    /\ Unambiguous(m) /\ \A c \in m.clauses : c.from \in {p, q}
    /\ \A c \in m.clauses : c.type = "city" =>
         owner[c.value] = c.from /\ c.value \notin Capitals

LEMMA ConcludeKept ==
    ASSUME TypeOK, MeetingsInv, TermsUnambiguous, NEW p \in Players, NEW q \in Players,
           Conclude(p, q)
    PROVE  \E m : Kept(m, p, q) /\ Execute(m, p, q)
<1>1. PICK m \in Between(p, q) :
        /\ OtherAccepted(m, q) /\ AllKept(m, p, q) /\ AllStillKept(m, q, p)
        /\ Execute(m, p, q)
  BY DEF Conclude
<1>2. /\ m \in meetings /\ m \in Meeting /\ m.parties = {p, q} /\ p # q
      /\ Other(m, p) = q /\ Other(m, q) = p
  BY BetweenMeeting, OtherParty
<1>3. m.accepted # {}
  BY <1>1 DEF OtherAccepted
<1>4. \A c \in m.clauses : c.from \in {p, q}
  BY <1>2 DEF MeetingsInv, MeetingsSound
<1>5. Unambiguous(m)
  BY <1>2 DEF TermsUnambiguous, Unambiguous, Rivals
<1>6. ASSUME NEW c \in m.clauses, c.type = "city"
      PROVE  owner[c.value] = c.from /\ c.value \notin Capitals
  <2>1. CASE c.from = p
    BY <1>1, <1>6, <2>1 DEF AllKept, CanKeep
  <2>2. CASE c.from = q
    BY <1>1, <1>6, <2>2 DEF AllStillKept, StillKeeps
  <2> QED BY <1>4, <2>1, <2>2
<1> QED BY <1>1, <1>2, <1>3, <1>4, <1>5, <1>6 DEF Kept

\* The one sum a party gives is the sum of its clause.
LEMMA GoldOfClause ==
    ASSUME NEW m \in Meeting, Unambiguous(m), NEW c \in m.clauses, c.type = "gold"
    PROVE  GoldFrom(m, c.from) = c.value /\ c.value \in Int
<1> DEFINE e == CHOOSE e \in m.clauses : e.type = "gold" /\ e.from = c.from
<1>1. e \in m.clauses /\ e.type = "gold" /\ e.from = c.from
  OBVIOUS
<1>2. e = c
  BY <1>1 DEF Unambiguous, Rivals
<1>3. c \in Clause
  BY DEF Meeting
<1>4. c.value \in Int
  BY <1>3 DEF Clause, PactClauses
<1> QED BY <1>2, <1>4 DEF GoldFrom

LEMMA ExecuteGold ==
    ASSUME TypeOK, NEW m, NEW p, NEW q, Kept(m, p, q), Execute(m, p, q)
    PROVE  /\ \A x \in m.parties :
                gold'[x] + GoldFrom(m, x) = gold[x] + GoldFrom(m, Other(m, x))
           /\ \A x \in Players \ m.parties : gold'[x] = gold[x]
           /\ \A c \in m.clauses : c.type = "gold" => Delivered(m, c)
<1>1. /\ m \in Meeting /\ m.parties = {p, q} /\ p \in Players /\ q \in Players /\ p # q
      /\ Other(m, p) = q /\ Other(m, q) = p
      /\ Unambiguous(m) /\ \A c \in m.clauses : c.from \in {p, q}
  BY DEF Kept
<1>2. gold' = [x \in Players |->
                 IF x \in m.parties THEN gold[x] - GoldFrom(m, x) + GoldFrom(m, Other(m, x))
                                    ELSE gold[x]]
  BY DEF Execute
<1>3. GoldFrom(m, p) \in Int /\ GoldFrom(m, q) \in Int /\ gold[p] \in Int /\ gold[q] \in Int
  BY <1>1, GoldFromBound DEF TypeOK
<1>4. /\ gold'[p] = gold[p] - GoldFrom(m, p) + GoldFrom(m, q)
      /\ gold'[q] = gold[q] - GoldFrom(m, q) + GoldFrom(m, p)
  BY <1>1, <1>2
<1>5. \A x \in m.parties : gold'[x] + GoldFrom(m, x) = gold[x] + GoldFrom(m, Other(m, x))
  BY <1>1, <1>3, <1>4
<1>6. \A x \in Players \ m.parties : gold'[x] = gold[x]
  BY <1>2
<1>7. ASSUME NEW c \in m.clauses, c.type = "gold" PROVE Delivered(m, c)
  <2>1. GoldFrom(m, c.from) = c.value /\ c.value \in Int
    BY <1>1, <1>7, GoldOfClause
  <2>2. \/ gold'[c.from] < gold[c.from]
        \/ GoldFrom(m, Other(m, c.from)) >= c.value
    <3>1. CASE c.from = p
      BY <1>1, <1>3, <1>4, <2>1, <3>1
    <3>2. CASE c.from = q
      BY <1>1, <1>3, <1>4, <2>1, <3>2
    <3> QED BY <1>1, <3>1, <3>2
  <2> QED BY <1>7, <2>2 DEF Delivered
<1> QED BY <1>5, <1>6, <1>7

\* A city that is given was its giver's, and there is but one.
LEMMA ExecuteCities ==
    ASSUME TypeOK, NEW m, NEW p, NEW q, Kept(m, p, q), Execute(m, p, q)
    PROVE  /\ \A c \in m.clauses : c.type = "city" => Delivered(m, c)
           /\ \A v \in Cities : owner'[v] # owner[v] =>
                /\ v \notin Capitals
                /\ \E c \in m.clauses : c.type = "city" /\ c.value = v /\ c.from = owner[v]
<1>1. /\ m \in Meeting /\ m.parties = {p, q} /\ p \in Players /\ q \in Players
      /\ \A c \in m.clauses : c.from \in {p, q}
      /\ \A c \in m.clauses : c.type = "city" =>
           owner[c.value] = c.from /\ c.value \notin Capitals
  BY DEF Kept
<1>2. owner' = [v \in Cities |->
                  IF owner[v] # NoOne /\ Givers(m, "city", v) # {}
                    THEN Other(m, CHOOSE g \in Givers(m, "city", v) : TRUE)
                    ELSE owner[v]]
  BY DEF Execute
<1>3. \A v, g : g \in Givers(m, "city", v) =>
        \E c \in m.clauses : c.type = "city" /\ c.value = v /\ c.from = g
  BY DEF Givers
<1>4. \A v, g : g \in Givers(m, "city", v) => owner[v] = g /\ v \notin Capitals
  BY <1>1, <1>3
<1>5. ASSUME NEW c \in m.clauses, c.type = "city" PROVE Delivered(m, c)
  <2>1. c.value \in Cities
    <3>1. c \in Clause
      BY <1>1 DEF Meeting
    <3> QED BY <1>5, <3>1 DEF Clause, PactClauses
  <2>2. c.from \in Givers(m, "city", c.value) /\ owner[c.value] = c.from
    BY <1>1, <1>5 DEF Givers
  <2>3. c.from # NoOne
    BY <1>1, PlayersAssumption
  <2> DEFINE g == CHOOSE g \in Givers(m, "city", c.value) : TRUE
  <2>4. g \in Givers(m, "city", c.value)
    BY <2>2
  <2>5. g = c.from
    BY <1>4, <2>2, <2>4
  <2>6. owner'[c.value] = Other(m, g)
    BY <1>2, <2>1, <2>2, <2>3
  <2> QED BY <1>5, <2>5, <2>6 DEF Delivered
<1>6. ASSUME NEW v \in Cities, owner'[v] # owner[v]
      PROVE  /\ v \notin Capitals
             /\ \E c \in m.clauses : c.type = "city" /\ c.value = v /\ c.from = owner[v]
  <2>1. PICK g : g \in Givers(m, "city", v)
    BY <1>2, <1>6
  <2> QED BY <1>3, <1>4, <2>1
<1> QED BY <1>5, <1>6

\* The states and the vision between the two parties are those of the treaty:
\* if it makes the alliance that is one too many for others, they are allies.
LEMMA ExecutePact ==
    ASSUME TypeOK, NEW m, NEW p, NEW q, Kept(m, p, q), Execute(m, p, q),
           NEW c \in m.clauses, c.type \in PactClauses \cup {"vision"}
    PROVE  Delivered(m, c)
<1>1. /\ m \in Meeting /\ m.parties = {p, q} /\ p \in Players /\ q \in Players /\ p # q
      /\ Other(m, p) = q /\ Other(m, q) = p
      /\ Unambiguous(m) /\ c.from \in {p, q}
  BY DEF Kept
<1> DEFINE d == AfterPact(m, p, q)
           full == Filled(m, d)
           shown == [x \in Players |-> vision[x] \cup
                       {y \in m.parties \ {x} : x \in Givers(m, "vision", NoValue)}]
           x == Other(m, c.from)
<1>2. ds' = CutStates(d, full) /\ vision' = CutVision(d, full, shown)
  BY DEF Execute
<1>3. x \in Players /\ c.from \in Players /\ x # c.from /\ x \in m.parties /\ c.from \in m.parties
  BY <1>1
<1>4. ASSUME NEW e \in Pact(m) PROVE d[x][c.from] = e.type /\ d[c.from][x] = e.type
  <2> DEFINE chosen == CHOOSE t \in Pact(m) : TRUE
  <2>1. chosen \in Pact(m)
    BY <1>4
  <2>2. chosen = e
    BY <1>1, <1>4, <2>1 DEF Pact, Unambiguous, Rivals
  <2>3. d = SetPair(ds, p, q, e.type)
    BY <1>4, <2>2 DEF AfterPact
  <2>4. (x = p /\ c.from = q) \/ (x = q /\ c.from = p)
    BY <1>1
  <2> HIDE DEF d, x
  <2> QED BY <1>3, <2>3, <2>4 DEF SetPair
<1>5. ~Cut(d, full, x, c.from) /\ ~Cut(d, full, c.from, x)
  <2> SUFFICES ASSUME full # {} PROVE Allied(d, x, c.from) /\ Allied(d, c.from, x)
    BY DEF Cut
  <2>1. PICK e \in m.clauses : e.type = "alliance"
    BY DEF Filled, Signs
  <2>2. e \in Pact(m)
    BY <2>1 DEF Pact, PactClauses
  <2> HIDE DEF d, x
  <2> QED BY <1>4, <2>1, <2>2 DEF Allied
<1> HIDE DEF d, full
<1>6. CASE c.type \in PactClauses
  <2>1. c \in Pact(m)
    BY <1>6 DEF Pact
  <2>2. ds'[x][c.from] = d[x][c.from]
    BY <1>2, <1>3, <1>5 DEF CutStates
  <2>3. ds'[x][c.from] = c.type
    BY <1>4, <2>1, <2>2
  <2> QED BY <1>6, <2>3 DEF Delivered, PactClauses
<1>7. CASE c.type = "vision"
  <2>1. c.from \in Givers(m, "vision", NoValue)
    <3>1. c.value = NoValue
      <4>1. c \in Clause
        BY <1>1 DEF Meeting
      <4> QED BY <1>7, <4>1 DEF Clause, PactClauses
    <3> QED BY <1>3, <1>7, <3>1 DEF Givers
  <2>2. x \in shown[c.from]
    BY <1>3, <2>1
  <2> HIDE DEF shown, x
  <2>3. x \in vision'[c.from]
    BY <1>2, <1>3, <1>5, <2>2 DEF CutVision
  <2> QED BY <1>7, <2>3 DEF Delivered, x
<1> QED BY <1>6, <1>7

LEMMA ExecuteOthers ==
    ASSUME NEW m, NEW p, NEW q, Kept(m, p, q), Execute(m, p, q),
           NEW c \in m.clauses, c.type \in {"advance", "embassy"}
    PROVE  Delivered(m, c)
<1>1. /\ m \in Meeting /\ m.parties = {p, q} /\ p \in Players /\ q \in Players /\ p # q
      /\ Other(m, p) = q /\ Other(m, q) = p /\ c.from \in {p, q}
  BY DEF Kept
<1>2. c \in Clause
  BY <1>1 DEF Meeting
<1>3. Other(m, c.from) \in m.parties \ {c.from} /\ Other(m, c.from) \in Players
  BY <1>1
<1>4. CASE c.type = "advance"
  <2>1. c.value \in Techs
    BY <1>2, <1>4 DEF Clause, PactClauses
  <2>2. c.from \in Givers(m, "advance", c.value)
    BY <1>1, <1>4 DEF Givers
  <2>3. c.value \in techs'[Other(m, c.from)]
    BY <1>3, <2>1, <2>2 DEF Execute
  <2> QED BY <1>4, <2>3 DEF Delivered
<1>5. CASE c.type = "embassy"
  <2>1. c.value = NoValue
    BY <1>2, <1>5 DEF Clause, PactClauses
  <2>2. c.from \in Givers(m, "embassy", NoValue)
    BY <1>1, <1>5, <2>1 DEF Givers
  <2>3. c.from \in embassy'[Other(m, c.from)]
    BY <1>3, <2>2 DEF Execute
  <2> QED BY <1>5, <2>3 DEF Delivered
<1> QED BY <1>4, <1>5

\* Goods change hands only by a treaty that was accepted before by one side;
\* every clause of it is then delivered, no gold is lost or made on the way, and
\* no city goes that its giver does not own or that is a capital, however often
\* the same things were promised (the accept handler of diplhand.cc).
THEOREM PromisesAlwaysKept == Spec => PromisesKept
<1> DEFINE Kept1 ==
      gold' # gold \/ techs' # techs \/ (owner' # owner /\ alive' = alive) =>
         \E m \in meetings \ meetings' :
           /\ m.accepted # {}
           /\ \A c \in m.clauses : Delivered(m, c)
           /\ \A x \in m.parties :
                gold'[x] + GoldFrom(m, x) = gold[x] + GoldFrom(m, Other(m, x))
           /\ \A x \in Players \ m.parties : gold'[x] = gold[x]
           /\ \A v \in Cities : owner'[v] # owner[v] =>
                /\ v \notin Capitals
                /\ \E c \in m.clauses :
                     c.type = "city" /\ c.value = v /\ c.from = owner[v]
<1>1. ASSUME TypeOK, MeetingsInv, TermsUnambiguous, [Next]_vars PROVE Kept1
  <2>1. ASSUME NEW p \in Players, NEW q \in Players, Conclude(p, q) PROVE Kept1
    <3>1. PICK m : Kept(m, p, q) /\ Execute(m, p, q)
      BY <1>1, <2>1, ConcludeKept
    <3>2. m \in meetings \ meetings' /\ m \in Meeting /\ m.accepted # {}
      BY <3>1 DEF Kept, Execute
    <3>3. ASSUME NEW c \in m.clauses PROVE Delivered(m, c)
      <4>1. c.type \in PactClauses \cup {"vision", "advance", "embassy", "gold", "city"}
        <5>1. c \in Clause
          BY <3>2 DEF Meeting
        <5> QED BY <5>1 DEF Clause
      <4> QED BY <1>1, <3>1, <4>1, ExecuteGold, ExecuteCities, ExecutePact, ExecuteOthers
    <3> QED BY <1>1, <3>1, <3>2, <3>3, ExecuteGold, ExecuteCities
  <2>2. CASE UNCHANGED goods
    BY <2>2 DEF goods
  <2>3. ASSUME NEW p \in Players, KillPlayer(p) PROVE Kept1
    BY <1>1, <2>3 DEF KillPlayer, TypeOK
  <2>4. ASSUME NEW p \in Players, NEW q \in Players,
               \/ InitMeeting(p, q) \/ CancelMeeting(p, q)
               \/ CreateClause(p, q) \/ RemoveClauseReq(p, q)
               \/ Withdraw(p, q) \/ AcceptFirst(p, q) \/ AcceptTooLate(p, q)
        PROVE  UNCHANGED goods
    BY <1>1, <2>4, RequestsList
  <2>5. ASSUME NEW p \in Players, NEW q \in Players,
               \/ StopVision(p, q) \/ CancelPact(p, q, FALSE) \/ CancelPact(p, q, TRUE)
               \/ MakeContact(p, q) \/ EstablishEmbassy(p, q) \/ ToggleAI(p)
        PROVE  UNCHANGED goods
    BY <2>5 DEF StopVision, CancelPact, MakeContact, EstablishEmbassy, ToggleAI
  <2>6. TurnChange \/ UNCHANGED vars => UNCHANGED goods
    BY DEF TurnChange, vars, goods
  <2> HIDE DEF Kept1
  <2> QED BY <1>1, <2>1, <2>2, <2>3, <2>4, <2>5, <2>6 DEF Next, AcceptTreaty
<1>2. TypeOK /\ MeetingsInv /\ TermsUnambiguous /\ [Next]_vars => [Kept1]_vars
  BY <1>1
<1> QED
  BY <1>2, TypeCorrect, MeetingsAlways, TermsAlwaysUnambiguous, PTL DEF Spec, PromisesKept
=============================================================================
