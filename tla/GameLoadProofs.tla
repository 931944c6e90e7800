--------------------------- MODULE GameLoadProofs ---------------------------
(***************************************************************************)
(* What the repair of the loaded pacts does and what it misses, for every  *)
(* number of players, every order of loading and every table.              *)
(***************************************************************************)
EXTENDS GameLoad, TLAPS

\* Savegames are symmetric, and the players loaded are the first ones.
SavedSound ==
    /\ \A p, q \in Players : saved[p][q] = saved[q][p]
    /\ \A p \in Players : saved[p][p] = "no contact"

InOrder == \A p \in loaded : Before(p) \subseteq loaded

\* A row that was not read is that of an empty game, and an entry of a row that
\* was read stands as it was saved until its column is loaded too.
RowsAsRead == \A p, q \in Players :
    /\ p \notin loaded => rows[p][q] = "no contact"
    /\ p \in loaded /\ q \notin loaded => rows[p][q] = saved[p][q]

\* OnlyAlliancesReduced, and only between the living
OnlyLivingReduced == \A p, q \in loaded :
    \/ rows[p][q] = saved[p][q]
    \/ Allied(saved, p, q) /\ rows[p][q] = "peace" /\ {p, q} \subseteq living

\* No alliance of p with a player before him would be taken for illegal when p is
\* loaded.
Repairs(d, p, q) ==
    ~\E r \in Players : Hated(d, p, q, r) /\ (r \in living \/ Seat[p] < Seat[r])

RowsRepaired == \A p, q \in loaded :
    {p, q} \subseteq living /\ Seat[q] < Seat[p] /\ Allied(rows, p, q) => Repairs(rows, p, q)

SavedRepaired == round > 1 => \A p, q \in Players :
    {p, q} \subseteq living /\ Seat[q] < Seat[p] /\ Allied(saved, p, q) => Repairs(saved, p, q)

Inv ==
    /\ TypeOK /\ SavedSound /\ InOrder /\ RowsAsRead
    /\ LoadedRowsAgree /\ OnlyLivingReduced /\ ReducedForReason
    /\ RowsRepaired /\ SavedRepaired

(***************************************************************************)
(* The start, and a new round.                                             *)
(***************************************************************************)

LEMMA TableSound ==
    ASSUME NEW f \in [Pairs -> Pacts]
    PROVE  /\ Table(f) \in [Players -> [Players -> Pacts]]
           /\ \A p, q \in Players : Table(f)[p][q] = Table(f)[q][p]
           /\ \A p \in Players : Table(f)[p][p] = "no contact"
<1>1. ASSUME NEW p \in Players, NEW q \in Players, p # q
      PROVE  {p, q} \in Pairs /\ {p, q} = {q, p}
  BY <1>1 DEF Pairs
<1>2. ASSUME NEW p \in Players, NEW q \in Players
      PROVE  /\ Table(f)[p][q] = IF p = q THEN "no contact" ELSE f[{p, q}]
             /\ Table(f)[p][q] \in Pacts
  BY <1>1, <1>2, PactsAssumption DEF Table
<1>3. ASSUME NEW p \in Players, NEW q \in Players
      PROVE  Table(f)[p][q] = Table(f)[q][p]
  <2>1. CASE p = q
    BY <2>1
  <2>2. CASE p # q
    <3>1. Table(f)[p][q] = f[{p, q}] /\ Table(f)[q][p] = f[{q, p}]
      BY <1>2, <2>2
    <3>2. {p, q} = {q, p}
      OBVIOUS
    <3> QED BY <3>1, <3>2, Zenon
  <2> QED BY <2>1, <2>2
<1> QED BY <1>2, <1>3 DEF Table

LEMMA InitInv == Init => Inv
<1> SUFFICES ASSUME Init PROVE Inv
  OBVIOUS
<1>1. PICK f \in [Pairs -> Pacts] : saved = Table(f)
  BY DEF Init, Tables
<1>2. saved \in [Players -> [Players -> Pacts]] /\ SavedSound
  BY <1>1, TableSound DEF SavedSound
<1>3. TypeOK
  BY <1>2, PactsAssumption DEF Init, TypeOK, Empty
<1>4. RowsAsRead
  BY DEF Init, RowsAsRead, Empty
<1>5. round = 1 /\ loaded = {}
  BY DEF Init
<1>6. SavedRepaired
  BY <1>5 DEF SavedRepaired
<1> QED
  BY <1>2, <1>3, <1>4, <1>5, <1>6 DEF Inv, InOrder, LoadedRowsAgree, OnlyLivingReduced,
     ReducedForReason, RowsRepaired

LEMMA RestartInv == Inv /\ SaveAndRestart => Inv'
<1> SUFFICES ASSUME Inv, SaveAndRestart PROVE Inv'
  OBVIOUS
<1>1. /\ loaded = Players /\ loaded' = {} /\ saved' = rows /\ living' = living
      /\ rows' = Empty /\ alive' = Players /\ round' = round + 1
  BY DEF SaveAndRestart, Inv, TypeOK
<1>2. TypeOK'
  <2>1. rows \in [Players -> [Players -> Pacts]] /\ living \subseteq Players /\ round \in Nat
    BY DEF Inv, TypeOK
  <2>2. Empty \in [Players -> [Players -> Pacts]]
    BY PactsAssumption DEF Empty
  <2>3. Players = Players \ ({} \ living)
    OBVIOUS
  <2> QED BY <1>1, <2>1, <2>2, <2>3 DEF TypeOK
<1>3. SavedSound'
  <2>1. ASSUME NEW p \in Players PROVE rows[p][p] = "no contact"
    <3>1. saved[p][p] = "no contact" /\ (rows[p][p] = saved[p][p] \/ Allied(saved, p, p))
      BY <1>1 DEF Inv, SavedSound, OnlyLivingReduced
    <3> QED BY <3>1 DEF Allied, AlliedPacts
  <2> QED BY <1>1, <2>1 DEF Inv, SavedSound, LoadedRowsAgree
<1>4. RowsAsRead'
  BY <1>1 DEF RowsAsRead, Empty
<1>5. SavedRepaired'
  BY <1>1 DEF Inv, RowsRepaired, SavedRepaired, Repairs, Hated, Allied
<1> QED
  BY <1>1, <1>2, <1>3, <1>4, <1>5 DEF Inv, InOrder, LoadedRowsAgree, OnlyLivingReduced,
     ReducedForReason, RowsRepaired

(***************************************************************************)
(* A player is loaded.                                                     *)
(***************************************************************************)

\* The table while the row of n is read and before it is repaired, and the
\* players the repair takes for alive
Read(n) == [rows EXCEPT ![n] = saved[n]]
Alive(n) == Players \ ((loaded \cup {n}) \ living)

\* The step of the loaded player in terms of the state before it
LEMMA LoadStep ==
    ASSUME Inv, NEW n \in Players, Load(n)
    PROVE  /\ n \notin loaded /\ loaded' = loaded \cup {n} /\ alive' = Alive(n)
           /\ UNCHANGED <<saved, living, round>>
           /\ rows' = Repaired(Read(n), Alive(n), n)
           /\ \A p \in loaded : Seat[p] < Seat[n]
           /\ \A p \in Players : p \notin loaded' => Seat[n] < Seat[p]
<1>1. /\ n \notin loaded /\ loaded' = loaded \cup {n} /\ Before(n) \subseteq loaded
      /\ UNCHANGED <<saved, living, round>>
      /\ alive' = IF n \in living THEN alive ELSE alive \ {n}
      /\ rows' = Repaired(Read(n), alive', n)
  BY DEF Load, Read
<1>2. alive' = Alive(n)
  BY <1>1 DEF Inv, TypeOK, Alive
<1>3. ASSUME NEW p \in loaded PROVE Seat[p] < Seat[n]
  <2>1. p \in Players /\ n \notin Before(p) /\ p # n
    BY <1>1 DEF Inv, InOrder, TypeOK
  <2> QED BY <2>1, SeatAssumption DEF Before
<1>4. ASSUME NEW p \in Players, p \notin loaded' PROVE Seat[n] < Seat[p]
  <2>1. p \notin Before(n) /\ p # n
    BY <1>1, <1>4
  <2> QED BY <2>1, SeatAssumption DEF Before
<1> QED BY <1>1, <1>2, <1>3, <1>4

\* Who is taken for alive: the living, and whoever comes later.
LEMMA AliveIs ==
    ASSUME Inv, NEW n \in Players, Load(n), NEW r \in Players
    PROVE  r \in Alive(n) <=> (r \in living \/ Seat[n] < Seat[r])
<1>1. r \in Alive(n) <=> (r \in living \/ r \notin loaded')
  BY LoadStep DEF Alive
<1>2. r \notin loaded' <=> Seat[n] < Seat[r]
  BY LoadStep, SeatAssumption DEF Inv, TypeOK
<1> QED BY <1>1, <1>2

\* What is read when n is loaded: his row as it was saved, and the same in the
\* columns of those before him.
LEMMA ReadIs ==
    ASSUME Inv, NEW n \in Players, n \notin loaded, NEW p \in Players
    PROVE  /\ Read(n)[n][p] = saved[n][p]
           /\ p # n => Read(n)[p] = rows[p]
           /\ p \in loaded => rows[p][n] = saved[p][n]
  BY DEF Inv, TypeOK, Read, RowsAsRead

\* The repair looks at players who are loaded.
LEMMA IllegalLoaded ==
    ASSUME Inv, NEW n \in Players, Load(n), NEW q \in Illegal(Read(n), Alive(n), n)
    PROVE  /\ q \in loaded /\ q # n /\ {n, q} \subseteq living
           /\ Allied(saved, n, q)
           /\ \E r \in Players : Hated(saved, n, q, r) /\ (r \in living \/ Seat[n] < Seat[r])
<1>1. /\ q \in Players \ {n} /\ {n, q} \subseteq Alive(n) /\ Allied(Read(n), n, q)
      /\ AtWarWithAlly(Read(n), Alive(n), n, q)
  BY DEF Illegal
<1>2. PICK r \in Players \ {n, q} :
        Allied(Read(n), q, r) /\ Read(n)[n][r] = "war" /\ r \in Alive(n)
  BY <1>1 DEF AtWarWithAlly
<1>3. n \notin loaded
  BY LoadStep
<1>4. Read(n)[q] = rows[q] /\ Read(n)[n][q] = saved[n][q] /\ Read(n)[n][r] = saved[n][r]
  BY <1>1, <1>2, <1>3, ReadIs
<1>5. Allied(rows, q, r)
  BY <1>2, <1>4 DEF Allied
<1>6. q \in loaded
  BY <1>1, <1>5 DEF Inv, RowsAsRead, Allied, AlliedPacts
<1>7. rows[q][r] = saved[q][r]
  BY <1>1, <1>2, <1>5, <1>6 DEF Inv, OnlyLivingReduced, RowsAsRead, Allied, AlliedPacts
<1>8. {n, q} \subseteq living
  BY <1>1, <1>6 DEF Alive
<1>9. Hated(saved, n, q, r) /\ (r \in living \/ Seat[n] < Seat[r])
  BY <1>1, <1>2, <1>4, <1>5, <1>7, AliveIs DEF Hated, Allied
<1> QED BY <1>1, <1>2, <1>4, <1>6, <1>8, <1>9 DEF Allied

\* The entries after the step, S being the alliances that are reduced
LEMMA RowsNext ==
    ASSUME Inv, NEW n \in Players, Load(n), NEW p \in Players, NEW q \in Players
    PROVE  LET S == Illegal(Read(n), Alive(n), n) IN
           /\ p # n /\ q # n => rows'[p][q] = rows[p][q]
           /\ p \notin loaded' => rows'[p][q] = rows[p][q]
           /\ rows'[n][q] = IF q \in S THEN "peace" ELSE saved[n][q]
           /\ p \in loaded => rows'[p][n] = IF p \in S THEN "peace" ELSE saved[p][n]
<1> DEFINE S == Illegal(Read(n), Alive(n), n)
<1>1. /\ n \notin loaded /\ loaded' = loaded \cup {n}
      /\ rows' = Repaired(Read(n), Alive(n), n)
  BY LoadStep
<1>2. S \subseteq loaded
  BY IllegalLoaded
<1>3. \A x, y \in Players :
        rows'[x][y] = IF (x = n /\ y \in S) \/ (x \in S /\ y = n) THEN "peace"
                      ELSE Read(n)[x][y]
  BY <1>1 DEF Repaired, Reduced
<1> HIDE DEF S
<1>4. /\ Read(n)[n][q] = saved[n][q]
      /\ p # n => Read(n)[p] = rows[p]
      /\ p \in loaded => rows[p][n] = saved[p][n]
  BY <1>1, ReadIs
<1>5. p # n /\ q # n => rows'[p][q] = rows[p][q]
  BY <1>3, <1>4
<1>6. p \notin loaded' => rows'[p][q] = rows[p][q]
  BY <1>1, <1>2, <1>3, <1>4
<1>7. rows'[n][q] = IF q \in S THEN "peace" ELSE saved[n][q]
  BY <1>1, <1>2, <1>3, <1>4
<1>8. p \in loaded => rows'[p][n] = IF p \in S THEN "peace" ELSE saved[p][n]
  BY <1>1, <1>3, <1>4
<1> QED BY <1>5, <1>6, <1>7, <1>8 DEF S

LEMMA LoadType == ASSUME Inv, NEW n \in Players, Load(n) PROVE TypeOK'
<1>1. rows' = Repaired(Read(n), Alive(n), n) /\ alive' = Alive(n)
      /\ loaded' = loaded \cup {n} /\ UNCHANGED <<saved, living, round>>
  BY LoadStep
<1>2. Read(n) \in [Players -> [Players -> Pacts]]
  BY DEF Inv, TypeOK, Read
<1>3. rows' \in [Players -> [Players -> Pacts]]
  <2> HIDE DEF Read
  <2> QED BY <1>1, <1>2, PactsAssumption DEF Repaired, Reduced
<1> QED BY <1>1, <1>3 DEF Inv, TypeOK, Alive

LEMMA LoadRows ==
    ASSUME Inv, NEW n \in Players, Load(n)
    PROVE  SavedSound' /\ InOrder' /\ RowsAsRead' /\ LoadedRowsAgree' /\ OnlyLivingReduced'
<1> DEFINE S == Illegal(Read(n), Alive(n), n)
<1>0. /\ n \notin loaded /\ loaded' = loaded \cup {n}
      /\ UNCHANGED <<saved, living, round>>
  BY LoadStep
<1>1. \A p, q \in Players :
        /\ p # n /\ q # n => rows'[p][q] = rows[p][q]
        /\ p \notin loaded' => rows'[p][q] = rows[p][q]
        /\ rows'[n][q] = IF q \in S THEN "peace" ELSE saved[n][q]
        /\ p \in loaded => rows'[p][n] = IF p \in S THEN "peace" ELSE saved[p][n]
  BY RowsNext
<1>2. \A q \in S : q \in loaded /\ q # n /\ {n, q} \subseteq living /\ Allied(saved, n, q)
  BY IllegalLoaded
<1>3. loaded \subseteq Players /\ \A p, q \in Players : saved[p][q] = saved[q][p]
  BY DEF Inv, TypeOK, SavedSound
<1> HIDE DEF S
<1>4. SavedSound'
  BY <1>0 DEF Inv, SavedSound
<1>5. InOrder'
  <2>1. Before(n) \subseteq loaded
    BY DEF Load
  <2> QED BY <1>0, <2>1 DEF Inv, InOrder, Before
<1>6. RowsAsRead'
  <2>1. ASSUME NEW p \in Players, NEW q \in Players
        PROVE  /\ p \notin loaded' => rows'[p][q] = "no contact"
               /\ p \in loaded' /\ q \notin loaded' => rows'[p][q] = saved[p][q]
    <3>1. CASE p \notin loaded'
      <4>1. p \notin loaded /\ rows'[p][q] = rows[p][q]
        BY <1>0, <1>1, <3>1
      <4>2. rows[p][q] = "no contact"
        BY <4>1 DEF Inv, RowsAsRead
      <4> QED BY <3>1, <4>1, <4>2
    <3>2. CASE p = n
      BY <1>0, <1>1, <1>2, <3>2
    <3>3. CASE p \in loaded
      <4>1. ASSUME q \notin loaded' PROVE rows'[p][q] = saved[p][q]
        <5>1. p # n /\ q # n /\ q \notin loaded
          BY <1>0, <3>3, <4>1
        <5>2. rows'[p][q] = rows[p][q] /\ rows[p][q] = saved[p][q]
          BY <1>1, <3>3, <5>1 DEF Inv, RowsAsRead
        <5> QED BY <5>2
      <4> QED BY <1>0, <3>3, <4>1
    <3> QED BY <1>0, <3>1, <3>2, <3>3
  <2> QED BY <1>0, <2>1 DEF RowsAsRead
<1>7. LoadedRowsAgree'
  <2>1. ASSUME NEW p \in loaded', NEW q \in loaded' PROVE rows'[p][q] = rows'[q][p]
    <3>1. CASE p = n \/ q = n
      BY <1>0, <1>1, <1>3, <3>1
    <3>2. CASE p # n /\ q # n
      BY <1>0, <1>1, <1>3, <3>2 DEF Inv, LoadedRowsAgree
    <3> QED BY <3>1, <3>2
  <2> QED BY <2>1 DEF LoadedRowsAgree
<1>8. OnlyLivingReduced'
  <2>1. ASSUME NEW p \in loaded', NEW q \in loaded'
        PROVE  \/ rows'[p][q] = saved[p][q]
               \/ Allied(saved, p, q) /\ rows'[p][q] = "peace" /\ {p, q} \subseteq living
    <3>1. CASE p = n
      BY <1>0, <1>1, <1>2, <1>3, <3>1
    <3>2. CASE p # n /\ q = n
      BY <1>0, <1>1, <1>2, <1>3, <3>2 DEF Allied
    <3>3. CASE p # n /\ q # n
      BY <1>0, <1>1, <1>3, <3>3 DEF Inv, OnlyLivingReduced
    <3> QED BY <3>1, <3>2, <3>3
  <2> QED BY <1>0, <2>1 DEF OnlyLivingReduced, Allied
<1> QED BY <1>4, <1>5, <1>6, <1>7, <1>8

LEMMA LoadReason == ASSUME Inv, NEW n \in Players, Load(n) PROVE ReducedForReason'
<1> DEFINE S == Illegal(Read(n), Alive(n), n)
<1>0. /\ n \notin loaded /\ loaded' = loaded \cup {n}
      /\ UNCHANGED <<saved, living, round>> /\ loaded \subseteq Players
      /\ \A p \in loaded : Seat[p] < Seat[n]
  BY LoadStep DEF Inv, TypeOK
<1>1. ASSUME NEW p \in loaded', NEW q \in loaded',
             Allied(saved, p, q), rows'[p][q] = "peace", Seat[q] < Seat[p]
      PROVE  \E r \in Players : Hated(saved, p, q, r) /\ (r \in living \/ Seat[p] < Seat[r])
  <2>1. p # q /\ p \in Players /\ q \in Players /\ Seat[p] \in Int /\ Seat[q] \in Int
    BY <1>0, <1>1, SeatAssumption
  <2>2. CASE p = n
    <3>1. rows'[n][q] = IF q \in S THEN "peace" ELSE saved[n][q]
      BY <2>1, RowsNext
    <3>2. q \in S
      BY <1>1, <2>2, <3>1 DEF Allied, AlliedPacts
    <3> QED BY <2>2, <3>2, IllegalLoaded
  <2>3. CASE p # n
    <3>1. q # n
      <4>1. SUFFICES ASSUME q = n PROVE FALSE
        OBVIOUS
      <4>2. Seat[p] < Seat[n]
        BY <1>0, <2>3
      <4> QED BY <1>1, <2>1, <4>1, <4>2
    <3>2. rows'[p][q] = rows[p][q]
      BY <2>1, <2>3, <3>1, RowsNext
    <3> QED BY <1>0, <1>1, <2>3, <3>1, <3>2 DEF Inv, ReducedForReason
  <2> QED BY <2>2, <2>3
<1> QED BY <1>0, <1>1 DEF ReducedForReason, Hated, Allied

\* Who was loaded before n stays repaired, and n now is: whom the repair passed
\* over has no enemy of n, alive or yet to come, among his allies.
LEMMA LoadRepaired ==
    ASSUME Inv, NEW n \in Players, Load(n) PROVE RowsRepaired' /\ SavedRepaired'
<1> DEFINE S == Illegal(Read(n), Alive(n), n)
<1>0. /\ n \notin loaded /\ loaded' = loaded \cup {n}
      /\ UNCHANGED <<saved, living, round>> /\ loaded \subseteq Players
      /\ \A p \in loaded : Seat[p] < Seat[n]
  BY LoadStep DEF Inv, TypeOK
<1>1. ASSUME NEW p \in loaded', NEW q \in loaded',
             {p, q} \subseteq living, Seat[q] < Seat[p], Allied(rows', p, q),
             NEW r \in Players, Hated(rows', p, q, r), r \in living \/ Seat[p] < Seat[r]
      PROVE  FALSE
  <2>1. p # q /\ p \in Players /\ q \in Players /\ Seat[p] \in Int /\ Seat[q] \in Int
        /\ r \notin {p, q} /\ Allied(rows', q, r) /\ rows'[p][r] = "war"
    BY <1>0, <1>1, SeatAssumption DEF Hated
  <2>2. q # n
    <3>1. SUFFICES ASSUME q = n PROVE FALSE
      OBVIOUS
    <3>2. Seat[p] < Seat[n]
      BY <1>0, <2>1, <3>1
    <3> QED BY <1>1, <2>1, <3>1, <3>2
  <2>3. q \in loaded
    BY <1>0, <2>2
  <2>4. CASE p = n
    <3>1. /\ rows'[n][q] = IF q \in S THEN "peace" ELSE saved[n][q]
          /\ rows'[n][r] = IF r \in S THEN "peace" ELSE saved[n][r]
          /\ rows'[q][r] = rows[q][r]
      BY <2>1, <2>2, <2>4, RowsNext
    <3>2. Allied(Read(n), n, q) /\ Allied(Read(n), q, r) /\ Read(n)[n][r] = "war"
      <4>1. Read(n)[n][q] = saved[n][q] /\ Read(n)[n][r] = saved[n][r] /\ Read(n)[q] = rows[q]
        BY <1>0, <2>1, <2>2, ReadIs
      <4> QED BY <1>1, <2>1, <2>4, <3>1, <4>1 DEF Allied, AlliedPacts
    <3>3. {n, q, r} \subseteq Alive(n)
      <4>1. n \in living /\ q \in living
        BY <1>1, <2>4
      <4> QED BY <1>1, <2>1, <2>4, <4>1, AliveIs
    <3>4. q \in S
      BY <2>1, <2>4, <3>2, <3>3 DEF Illegal, AtWarWithAlly
    <3>5. rows'[p][q] = "peace"
      BY <2>4, <3>1, <3>4
    <3> QED BY <1>1, <3>5 DEF Allied, AlliedPacts
  <2>5. CASE p # n
    <3>1. p \in loaded /\ rows'[p][q] = rows[p][q]
      BY <1>0, <2>1, <2>2, <2>5, RowsNext
    <3>2. rows[q][r] = rows'[q][r] /\ rows[p][r] = rows'[p][r]
      <4>1. CASE r # n
        BY <2>1, <2>2, <2>5, <4>1, RowsNext
      <4>2. CASE r = n
        <5>1. /\ rows'[p][n] = IF p \in S THEN "peace" ELSE saved[p][n]
              /\ rows'[q][n] = IF q \in S THEN "peace" ELSE saved[q][n]
          BY <2>1, <2>3, <3>1, RowsNext
        <5>2. rows[p][n] = saved[p][n] /\ rows[q][n] = saved[q][n]
          BY <1>0, <2>3, <3>1 DEF Inv, RowsAsRead
        <5> HIDE DEF S
        <5> QED BY <2>1, <4>2, <5>1, <5>2 DEF Allied, AlliedPacts
      <4> QED BY <4>1, <4>2
    <3>3. Allied(rows, p, q) /\ Hated(rows, p, q, r)
      BY <1>1, <2>1, <3>1, <3>2 DEF Allied, Hated
    <3> QED BY <1>1, <2>3, <3>1, <3>3 DEF Inv, RowsRepaired, Repairs
  <2> QED BY <2>4, <2>5
<1>2. RowsRepaired'
  BY <1>0, <1>1 DEF RowsRepaired, Repairs, Hated, Allied
<1>3. SavedRepaired'
  BY <1>0 DEF Inv, SavedRepaired, Repairs, Hated, Allied
<1> QED BY <1>2, <1>3

LEMMA NextInv == Inv /\ [Next]_vars => Inv'
<1> SUFFICES ASSUME Inv, [Next]_vars PROVE Inv'
  OBVIOUS
<1>1. ASSUME NEW n \in Players, Load(n) PROVE Inv'
  BY <1>1, LoadType, LoadRows, LoadReason, LoadRepaired DEF Inv
<1>2. CASE SaveAndRestart
  BY <1>2, RestartInv
<1>3. CASE UNCHANGED vars
  <2>1. UNCHANGED <<saved, living, rows, alive, loaded, round>>
    BY <1>3 DEF vars
  <2>2. TypeOK' /\ SavedSound' /\ InOrder' /\ RowsAsRead'
    BY <2>1 DEF Inv, TypeOK, SavedSound, InOrder, RowsAsRead
  <2>3. LoadedRowsAgree' /\ OnlyLivingReduced' /\ ReducedForReason'
    BY <2>1 DEF Inv, LoadedRowsAgree, OnlyLivingReduced, ReducedForReason, Hated, Allied
  <2>4. RowsRepaired'
    BY <2>1 DEF Inv, RowsRepaired, Repairs, Hated, Allied
  <2>5. SavedRepaired'
    BY <2>1 DEF Inv, SavedRepaired, Repairs, Hated, Allied
  <2> QED BY <2>2, <2>3, <2>4, <2>5 DEF Inv
<1> QED BY <1>1, <1>2, <1>3 DEF Next

LEMMA InvAlways == Spec => []Inv
  BY InitInv, NextInv, PTL DEF Spec

\* Loading writes well-typed tables, and knows the dead among the loaded.
THEOREM TypeCorrect == Spec => []TypeOK
<1>1. Inv => TypeOK
  BY DEF Inv
<1> QED BY <1>1, InvAlways, PTL

\* Two loaded players agree on their pact (the second loop of player_load).
THEOREM RowsAlwaysAgree == Spec => []LoadedRowsAgree
<1>1. Inv => LoadedRowsAgree
  BY DEF Inv
<1> QED BY <1>1, InvAlways, PTL

\* The repair of player_load touches nothing but alliances.
THEOREM RepairIsModest == Spec => []OnlyAlliancesReduced
<1>1. Inv => OnlyAlliancesReduced
  BY DEF Inv, OnlyLivingReduced, OnlyAlliancesReduced
<1> QED BY <1>1, InvAlways, PTL

\* No alliance is reduced unless the player of the two that is loaded later is at
\* war with an ally of the other.
THEOREM RepairHasReason == Spec => []ReducedForReason
<1>1. Inv => ReducedForReason
  BY DEF Inv
<1> QED BY <1>1, InvAlways, PTL

\* Whatever triad the repair leaves, its centre is loaded after both enemies.
THEOREM TriadsLeft == Spec => []TriadsCentredLast
<1>1. ASSUME Inv PROVE TriadsCentredLast
  <2>1. ASSUME NEW c \in loaded, NEW p \in loaded, NEW q \in loaded,
               {c, p, q} \subseteq living, c # p, Allied(rows, c, p), Hated(rows, p, c, q)
        PROVE  Seat[p] < Seat[c]
    <3>1. Allied(rows, p, c) /\ c \in Players /\ p \in Players /\ q \in Players
      BY <1>1, <2>1 DEF Inv, TypeOK, LoadedRowsAgree, Allied
    <3>2. ~(Seat[c] < Seat[p])
      BY <1>1, <2>1, <3>1 DEF Inv, RowsRepaired, Repairs
    <3> QED BY <2>1, <3>1, <3>2, SeatAssumption
  <2>2. ASSUME NEW c \in loaded, NEW p \in loaded, NEW q \in loaded,
               c # p, Allied(rows, c, p), Hated(rows, p, c, q)
        PROVE  c # q /\ Allied(rows, c, q) /\ Hated(rows, q, c, p)
    BY <1>1, <2>2 DEF Inv, LoadedRowsAgree, Hated
  <2> QED BY <2>1, <2>2 DEF TriadsCentredLast
<1> QED BY <1>1, InvAlways, PTL

\* One round of saving and loading is enough: the next one changes nothing.
THEOREM SettledForGood == Spec => []SettledAtOnce
<1>1. ASSUME Inv PROVE SettledAtOnce
  <2>1. ASSUME round > 1, NEW p \in loaded, NEW q \in loaded, Seat[q] < Seat[p]
        PROVE  rows[p][q] = saved[p][q]
    <3>1. SUFFICES ASSUME Allied(saved, p, q), rows[p][q] = "peace", {p, q} \subseteq living
                   PROVE  FALSE
      BY <1>1 DEF Inv, OnlyLivingReduced
    <3>2. \E r \in Players : Hated(saved, p, q, r) /\ (r \in living \/ Seat[p] < Seat[r])
      BY <1>1, <2>1, <3>1 DEF Inv, ReducedForReason
    <3>3. p \in Players /\ q \in Players
      BY <1>1 DEF Inv, TypeOK
    <3> QED BY <1>1, <2>1, <3>1, <3>2, <3>3 DEF Inv, SavedRepaired, Repairs
  <2>2. ASSUME round > 1, NEW p \in loaded, NEW q \in loaded
        PROVE  rows[p][q] = saved[p][q]
    <3>0. p \in Players /\ q \in Players
      BY <1>1 DEF Inv, TypeOK
    <3>1. CASE Seat[q] < Seat[p]
      BY <2>1, <2>2, <3>1
    <3>2. CASE Seat[p] < Seat[q]
      BY <1>1, <2>1, <2>2, <3>0, <3>2 DEF Inv, LoadedRowsAgree, SavedSound
    <3>3. CASE p = q
      BY <1>1, <3>0, <3>3 DEF Inv, OnlyLivingReduced, SavedSound, Allied, AlliedPacts
    <3> QED BY <3>0, <3>1, <3>2, <3>3, SeatAssumption
  <2> QED BY <2>2 DEF SettledAtOnce
<1> QED BY <1>1, InvAlways, PTL
=============================================================================
