-------------------------- MODULE TradeRoutesProofs --------------------------
(***************************************************************************)
(* Trade routes, for every number of cities, players and caravans.         *)
(*                                                                         *)
(* A handler is a chain of helpers on states.  What every state has, after *)
(* a fault too, are types and sound trades (section 2); what holds of the  *)
(* pointers between routes and caravans holds until a fault, and, in the   *)
(* middle of a handler, but for a caravan whose route is about to change   *)
(* and a city whose owner has just changed (section 3).  Each helper keeps *)
(* both, and the handlers are put together from the helpers.               *)
(***************************************************************************)
EXTENDS TradeRoutes, TLAPS, FiniteSetTheorems

(***************************************************************************)
(* 1. Routes.                                                              *)
(***************************************************************************)

LEMMA BackFacts ==
    ASSUME NEW r \in Routes
    PROVE  /\ Back(r) \in Routes /\ Back(r) # r /\ Back(Back(r)) = r
           /\ Back(r)[1] = r[2] /\ Back(r)[2] = r[1] /\ Ends(Back(r)) = Ends(r)
           /\ r[1] \in Cities /\ r[2] \in Cities /\ r[1] # r[2] /\ r = <<r[1], r[2]>>
  BY DEF Routes, Back, Ends

LEMMA PairFacts ==
    ASSUME NEW c \in Cities, NEW d \in Cities, c # d
    PROVE  /\ <<c, d>> \in Routes /\ <<d, c>> \in Routes /\ Back(<<c, d>>) = <<d, c>>
           /\ Back(<<d, c>>) = <<c, d>> /\ <<c, d>> # <<d, c>> /\ Ends(<<c, d>>) = {c, d}
           /\ Ends(<<d, c>>) = {c, d}
  BY DEF Routes, Back, Ends

LEMMA RoutesFinite == IsFiniteSet(Routes)
<1>1. IsFiniteSet(Cities \X Cities)
  BY RouteConstants, FS_Product
<1>2. Routes \in SUBSET (Cities \X Cities)
  BY DEF Routes
<1> QED BY <1>1, <1>2, FS_Subset

LEMMA TradesFinite ==
    ASSUME NEW s, NEW c
    PROVE  IsFiniteSet(TradesOf(s, c)) /\ Cardinality(TradesOf(s, c)) \in Nat
<1>1. TradesOf(s, c) \in SUBSET Routes
  BY DEF TradesOf
<1> QED BY <1>1, RoutesFinite, FS_Subset, FS_CardinalityType

LEMMA NoRouteIsNone == NoRoute \notin Routes /\ NoUnit \notin Units
  BY RouteConstants DEF Routes

Statuses == {Absent, Made, Planned, InRoute, PlannedInRoute, Established}

LEMMA StatusesAre == Statuses = Absent .. Established
  BY DEF Statuses, Absent, Made, Planned, InRoute, PlannedInRoute, Established

LEMMA StatusesDiffer ==
    /\ Absent \notin {Made, Planned, InRoute, PlannedInRoute, Established}
    /\ Made \notin {Planned, InRoute, PlannedInRoute, Established}
    /\ Planned \notin {InRoute, PlannedInRoute, Established}
    /\ InRoute \notin {PlannedInRoute, Established} /\ PlannedInRoute # Established
  BY DEF Absent, Made, Planned, InRoute, PlannedInRoute, Established

LEMMA WithCaravanIs ==
    ASSUME NEW status \in Statuses, status \notin {Absent, Established}
    PROVE  WithCaravan(status) \in {InRoute, PlannedInRoute}
  BY DEF Statuses, WithCaravan, Absent, Made, Planned, InRoute, PlannedInRoute, Established

(***************************************************************************)
(* 2. Types and trades.                                                    *)
(***************************************************************************)

Places == Cities \cup {Road, Unbuilt, Dead}

State == [route : [Routes -> Statuses], carrier : [Routes -> Units \cup {NoUnit}],
          behind : SUBSET Routes, serves : [Units -> Routes \cup {NoRoute}],
          home : [Units -> Cities \cup {NoCity}], at : [Units -> Places],
          owner : [Cities -> Players \cup {Nobody}], fault : {"none", "null", "freed"}]

\* Of the routes of a pair one is the younger and one is established at most; no city
\* has more than its share of trade.
Trades(s) ==
    /\ \A x \in s.behind : Back(x) \notin s.behind
    /\ \A x \in Routes : s.route[x] = Established => s.route[Back(x)] # Established
    /\ \A c \in Cities : Cardinality(TradesOf(s, c)) <= MaxRoutes

LEMMA FewerTrades ==
    ASSUME NEW s, NEW r, NEW c, \A x \in Routes : r.route[x] = Established => s.route[x] = Established
    PROVE  TradesOf(r, c) \subseteq TradesOf(s, c)
           /\ Cardinality(TradesOf(r, c)) <= Cardinality(TradesOf(s, c))
<1>1. TradesOf(r, c) \in SUBSET TradesOf(s, c)
  BY DEF TradesOf
<1> QED BY <1>1, TradesFinite, FS_Subset

\* Trade is only lost, and what is younger stays so.
LEMMA TradesKept ==
    ASSUME NEW s, Trades(s), NEW r, r.behind \subseteq s.behind,
           \A x \in Routes : r.route[x] = Established => s.route[x] = Established
    PROVE  Trades(r)
<1>1. ASSUME NEW c \in Cities PROVE Cardinality(TradesOf(r, c)) <= MaxRoutes
  <2>1. Cardinality(TradesOf(r, c)) <= Cardinality(TradesOf(s, c))
    BY FewerTrades
  <2>2. Cardinality(TradesOf(s, c)) <= MaxRoutes
    BY DEF Trades
  <2>3. Cardinality(TradesOf(r, c)) \in Nat /\ Cardinality(TradesOf(s, c)) \in Nat
    BY TradesFinite
  <2> QED BY <2>1, <2>2, <2>3, RouteConstants
<1>2. \A x \in Routes : r.route[x] = Established => r.route[Back(x)] # Established
  <2>1. \A x \in Routes : Back(x) \in Routes
    BY BackFacts
  <2> QED BY <2>1 DEF Trades
<1> QED BY <1>1, <1>2 DEF Trades

(***************************************************************************)
(* 3. Service.                                                             *)
(***************************************************************************)

\* A caravan with a route is alive and is the caravan of that route.
Pointers(s) ==
    \A u \in Units : s.serves[u] # NoRoute =>
      /\ Alive(s, u) /\ s.carrier[s.serves[u]] = u
      /\ s.route[s.serves[u]] \in {InRoute, PlannedInRoute}

\* A route with a caravan is marked so, and the caravan serves it, unless it is dead
\* or one of W.
Marked(s, W) ==
    \A r \in Routes : s.carrier[r] # NoUnit =>
      /\ s.route[r] \in {InRoute, PlannedInRoute}
      /\ s.carrier[r] \in W \/ s.at[s.carrier[r]] = Dead \/ s.serves[s.carrier[r]] = r

Housed(s) == \A u \in Units : Alive(s, u) => s.home[u] \in Cities

\* A route begins in a city of its caravan's player, unless that city, or the home of
\* the caravan, is of C.
Loyal(s, C) ==
    \A u \in Units :
      s.serves[u] # NoRoute /\ s.serves[u][1] \notin C /\ s.home[u] \notin C
      => s.owner[s.serves[u][1]] = UnitOwner(s, u)

\* Within a nation, but for the cities of C, a pair of cities has one route; cities with
\* a plan can trade.
Apart(s, C) ==
    \A r \in Routes : Ends(r) \cap C = {} /\ Present(s, r) =>
      /\ SameOwner(s, r) => ~Present(s, Back(r))
      /\ s.route[r] # Established => CanTrade(s, r[1], r[2])

\* Of two routes of a pair one is known to be the younger.
Ordered(s) ==
    \A r \in Routes : Present(s, r) /\ Present(s, Back(r)) => r \in s.behind \/ Back(r) \in s.behind

Service(s, W, C) ==
    Pointers(s) /\ Marked(s, W) /\ Housed(s) /\ Loyal(s, C) /\ Apart(s, C) /\ Ordered(s)

Sound(s, W, C) ==
    s \in State /\ Trades(s) /\ (s.fault = "none" => Service(s, W, C))

LEMMA StateFields ==
    ASSUME NEW s \in State
    PROVE  /\ s.route \in [Routes -> Statuses] /\ s.carrier \in [Routes -> Units \cup {NoUnit}]
           /\ s.behind \in SUBSET Routes /\ s.serves \in [Units -> Routes \cup {NoRoute}]
           /\ s.home \in [Units -> Cities \cup {NoCity}] /\ s.at \in [Units -> Places]
           /\ s.owner \in [Cities -> Players \cup {Nobody}]
           /\ s.fault \in {"none", "null", "freed"}
  BY DEF State

\* What a helper of routes leaves alone
Still(s, r) == r.at = s.at /\ r.home = s.home /\ r.owner = s.owner

\* The younger of two routes that are both there stays the younger.
YoungerKept(s, r) ==
    \A x \in s.behind : Present(r, x) /\ Present(r, Back(x)) => x \in r.behind

\* Service after a step that moves nobody and adds no route: routes may go, or
\* lose their caravans.
LEMMA ServiceKept ==
    ASSUME NEW s \in State, NEW r \in State, NEW W, NEW C, Service(s, W, C), Still(s, r),
           YoungerKept(s, r),
           \A x \in Routes :
             /\ r.carrier[x] \in {s.carrier[x], NoUnit}
             /\ r.route[x] # Absent => s.route[x] # Absent
             /\ r.route[x] \notin {Absent, Established} => s.route[x] # Established
             /\ r.carrier[x] # NoUnit => r.route[x] = s.route[x],
           \A u \in Units :
             \/ r.serves[u] = NoRoute
             \/ r.serves[u] = s.serves[u] /\ r.carrier[s.serves[u]] = s.carrier[s.serves[u]],
           \A x \in Routes :
             LET u == r.carrier[x] IN
             u \notin W /\ u # NoUnit /\ s.at[u] # Dead /\ s.serves[u] = x => r.serves[u] = x
    PROVE  Service(r, W, C)
<1>1. /\ s.carrier \in [Routes -> Units \cup {NoUnit}]
      /\ s.serves \in [Units -> Routes \cup {NoRoute}]
      /\ r.carrier \in [Routes -> Units \cup {NoUnit}]
      /\ r.serves \in [Units -> Routes \cup {NoRoute}]
  BY StateFields
<1>2. /\ r.at = s.at /\ r.home = s.home /\ r.owner = s.owner
      /\ \A u \in Units : Alive(r, u) <=> Alive(s, u)
      /\ \A u \in Units : UnitOwner(r, u) = UnitOwner(s, u)
      /\ \A x \in Routes : SameOwner(r, x) <=> SameOwner(s, x)
      /\ \A c, d \in Cities : CanTrade(r, c, d) <=> CanTrade(s, c, d)
  BY DEF Still, Alive, UnitOwner, SameOwner, CanTrade
<1>3. /\ Pointers(s) /\ Marked(s, W) /\ Housed(s) /\ Loyal(s, C) /\ Apart(s, C) /\ Ordered(s)
  BY DEF Service
<1>4. Pointers(r)
  <2>1. ASSUME NEW u \in Units, r.serves[u] # NoRoute
        PROVE  /\ Alive(r, u) /\ r.carrier[r.serves[u]] = u
               /\ r.route[r.serves[u]] \in {InRoute, PlannedInRoute}
    <3>1. r.serves[u] = s.serves[u] /\ r.carrier[s.serves[u]] = s.carrier[s.serves[u]]
      BY <2>1
    <3>2. /\ Alive(s, u) /\ s.carrier[s.serves[u]] = u
          /\ s.route[s.serves[u]] \in {InRoute, PlannedInRoute}
      BY <1>3, <2>1, <3>1 DEF Pointers
    <3>3. s.serves[u] \in Routes /\ u # NoUnit
      BY <1>1, <2>1, <3>1, NoRouteIsNone
    <3> QED BY <1>2, <3>1, <3>2, <3>3
  <2> QED BY <2>1 DEF Pointers
<1>5. Marked(r, W)
  BY <1>2, <1>3 DEF Marked
<1>6. Housed(r)
  BY <1>2, <1>3 DEF Housed
<1>7. Loyal(r, C)
  BY <1>2, <1>3 DEF Loyal
<1>8. Apart(r, C)
  <2>1. ASSUME NEW x \in Routes, Ends(x) \cap C = {}, Present(r, x)
        PROVE  /\ SameOwner(r, x) => ~Present(r, Back(x))
               /\ r.route[x] # Established => CanTrade(r, x[1], x[2])
    <3>1. Present(s, x) /\ Back(x) \in Routes /\ x[1] \in Cities /\ x[2] \in Cities
      BY <2>1, BackFacts DEF Present
    <3>2. /\ SameOwner(s, x) => ~Present(s, Back(x))
          /\ s.route[x] # Established => CanTrade(s, x[1], x[2])
      BY <1>3, <2>1, <3>1 DEF Apart
    <3>3. SameOwner(r, x) => ~Present(r, Back(x))
      BY <1>2, <3>1, <3>2 DEF Present
    <3>4. r.route[x] # Established => s.route[x] # Established
      BY <2>1 DEF Present
    <3> QED BY <1>2, <3>1, <3>2, <3>3, <3>4
  <2> QED BY <2>1 DEF Apart
<1>9. Ordered(r)
  <2>1. \A x \in Routes : Back(x) \in Routes /\ Back(Back(x)) = x
    BY BackFacts
  <2> QED BY <1>3, <2>1 DEF Ordered, YoungerKept, Present
<1> QED BY <1>4, <1>5, <1>6, <1>7, <1>8, <1>9 DEF Service

(***************************************************************************)
(* 4. Removing routes.                                                     *)
(***************************************************************************)

\* r is s without the routes of R.
IsRemoved(s, r, R) ==
    /\ r \in State /\ Still(s, r)
    /\ r.behind \subseteq s.behind /\ YoungerKept(s, r)
    /\ \A x \in Routes : r.route[x] = IF x \in R THEN Absent ELSE s.route[x]
    /\ \A x \in Routes : r.carrier[x] = IF x \in R THEN NoUnit ELSE s.carrier[x]
    /\ \A u \in Units : r.serves[u] = IF \E x \in R : s.carrier[x] = u THEN NoRoute
                                      ELSE s.serves[u]
    /\ r.fault = "none" => s.fault = "none"

LEMMA RemovedIs ==
    ASSUME NEW s \in State, NEW R \in SUBSET Routes
    PROVE  IsRemoved(s, Removed(s, R), R)
<1> DEFINE idle == {s.carrier[r] : r \in R} \ {NoUnit}
           rt == [r \in Routes |-> IF r \in R THEN Absent ELSE s.route[r]]
           ca == [r \in Routes |-> IF r \in R THEN NoUnit ELSE s.carrier[r]]
           be == {r \in s.behind : r \notin R /\ Back(r) \notin R}
           sv == [u \in Units |-> IF u \in idle THEN NoRoute ELSE s.serves[u]]
           fa == IF \E u \in idle : s.at[u] = Dead THEN "freed" ELSE s.fault
           r == Removed(s, R)
<1>1. r = [s EXCEPT !.route = rt, !.carrier = ca, !.behind = be, !.serves = sv, !.fault = fa]
  BY DEF Removed
<1>2. /\ rt \in [Routes -> Statuses] /\ ca \in [Routes -> Units \cup {NoUnit}]
      /\ be \in SUBSET Routes /\ sv \in [Units -> Routes \cup {NoRoute}]
      /\ fa \in {"none", "null", "freed"}
  BY StateFields DEF Statuses
<1>3. fa = "none" => s.fault = "none"
  OBVIOUS
<1>4. be \subseteq s.behind /\ \A x \in s.behind : x \notin R /\ Back(x) \notin R => x \in be
  OBVIOUS
<1>5. \A u \in Units : sv[u] = IF \E x \in R : s.carrier[x] = u THEN NoRoute ELSE s.serves[u]
  <2>1. \A u \in Units : u \in idle <=> \E x \in R : s.carrier[x] = u
    BY NoRouteIsNone
  <2> QED BY <2>1
<1>6. /\ \A x \in Routes : rt[x] = IF x \in R THEN Absent ELSE s.route[x]
      /\ \A x \in Routes : ca[x] = IF x \in R THEN NoUnit ELSE s.carrier[x]
  OBVIOUS
<1> HIDE DEF rt, ca, be, sv, fa, r
<1>7. /\ r \in State /\ r.route = rt /\ r.carrier = ca /\ r.behind = be /\ r.serves = sv
      /\ r.fault = fa /\ Still(s, r)
  BY <1>1, <1>2 DEF State, Still
<1>8. YoungerKept(s, r)
  BY <1>4, <1>6, <1>7, StateFields, BackFacts DEF YoungerKept, Present
<1> QED BY <1>3, <1>4, <1>5, <1>6, <1>7, <1>8 DEF IsRemoved, r

\* server_remove_trade_route
LEMMA RemovedKeeps ==
    ASSUME NEW s, NEW W, NEW C, Sound(s, W, C), NEW R \in SUBSET Routes
    PROVE  Sound(Removed(s, R), W, C)
<1> DEFINE r == Removed(s, R)
<1>1. s \in State /\ Trades(s) /\ (s.fault = "none" => Service(s, W, C))
  BY DEF Sound
<1>2. IsRemoved(s, r, R)
  BY <1>1, RemovedIs
<1> HIDE DEF r
<1>3. Trades(r)
  <2>1. \A x \in Routes : r.route[x] = Established => s.route[x] = Established
    BY <1>2, StatusesDiffer DEF IsRemoved
  <2> QED BY <1>1, <1>2, <2>1, TradesKept DEF IsRemoved
<1>4. ASSUME r.fault = "none" PROVE Service(r, W, C)
  <2>1. Service(s, W, C) /\ Pointers(s) /\ r \in State /\ Still(s, r) /\ YoungerKept(s, r)
    BY <1>1, <1>2, <1>4 DEF IsRemoved, Service
  <2>2. \A x \in Routes :
          /\ r.carrier[x] \in {s.carrier[x], NoUnit}
          /\ r.route[x] # Absent => s.route[x] # Absent
          /\ r.route[x] \notin {Absent, Established} => s.route[x] # Established
          /\ r.carrier[x] # NoUnit => r.route[x] = s.route[x]
    BY <1>2 DEF IsRemoved
  <2>3. ASSUME NEW u \in Units, r.serves[u] # NoRoute
        PROVE  r.serves[u] = s.serves[u] /\ r.carrier[s.serves[u]] = s.carrier[s.serves[u]]
    <3>1. r.serves[u] = s.serves[u] /\ ~(\E x \in R : s.carrier[x] = u)
      BY <1>2, <2>3 DEF IsRemoved
    <3>2. s.serves[u] \in Routes /\ s.carrier[s.serves[u]] = u
      BY <1>1, <2>1, <2>3, <3>1, StateFields DEF Pointers
    <3> QED BY <1>2, <3>1, <3>2 DEF IsRemoved
  <2>4. ASSUME NEW x \in Routes, NEW u, u = r.carrier[x], u \notin W, u # NoUnit,
               s.at[u] # Dead, s.serves[u] = x
        PROVE  r.serves[u] = x
    <3>1. x \notin R /\ u \in Units
      BY <1>1, <1>2, <2>4, StateFields DEF IsRemoved
    <3>2. \A y \in R : s.carrier[y] # u
      BY <2>1, <2>4, <3>1 DEF Service, Marked
    <3> QED BY <1>2, <2>4, <3>1, <3>2 DEF IsRemoved
  <2> QED BY <1>1, <2>1, <2>2, <2>3, <2>4, ServiceKept
<1> QED BY <1>1, <1>2, <1>3, <1>4 DEF Sound, IsRemoved, r

(***************************************************************************)
(* 5. Caravans that leave their routes.                                    *)
(***************************************************************************)

LeftBy(s, U) == {s.serves[u] : u \in U} \ {NoRoute}

LEMMA LeftByRoutes ==
    ASSUME NEW s \in State, NEW U \in SUBSET Units
    PROVE  LeftBy(s, U) \in SUBSET Routes
  BY StateFields DEF LeftBy

\* The plans among the routes of U lose their caravans.
PlansLeft(s, U) ==
    LET kept == {r \in LeftBy(s, U) : s.route[r] = PlannedInRoute}
    IN  [s EXCEPT
           !.route = [r \in Routes |-> IF r \in kept THEN Planned ELSE @[r]],
           !.carrier = [r \in Routes |-> IF r \in kept THEN NoUnit ELSE @[r]],
           !.serves = [u \in Units |-> IF u \in U /\ @[u] \in kept THEN NoRoute ELSE @[u]],
           !.fault = IF \E r \in LeftBy(s, U) : ~Present(s, r) THEN "freed" ELSE @]

RoutesLost(s, U) == {r \in LeftBy(s, U) : s.route[r] = InRoute}

LEMMA ReleasedIn ==
    ASSUME NEW s, NEW U
    PROVE  Released(s, U) = Removed(PlansLeft(s, U), RoutesLost(s, U))
  BY DEF Released, PlansLeft, RoutesLost, LeftBy

HasPlansLeft(s, t, U) ==
    /\ t \in State /\ Still(s, t) /\ t.behind = s.behind
    /\ \A x \in Routes :
         t.route[x] = IF x \in LeftBy(s, U) /\ s.route[x] = PlannedInRoute THEN Planned
                      ELSE s.route[x]
    /\ \A x \in Routes :
         t.carrier[x] = IF x \in LeftBy(s, U) /\ s.route[x] = PlannedInRoute THEN NoUnit
                        ELSE s.carrier[x]
    /\ \A u \in Units :
         t.serves[u] = IF u \in U /\ s.serves[u] \in LeftBy(s, U)
                            /\ s.route[s.serves[u]] = PlannedInRoute
                         THEN NoRoute ELSE s.serves[u]
    /\ t.fault = "none" => s.fault = "none"

LEMMA PlansLeftIs ==
    ASSUME NEW s \in State, NEW U \in SUBSET Units
    PROVE  HasPlansLeft(s, PlansLeft(s, U), U)
<1> DEFINE kept == {r \in LeftBy(s, U) : s.route[r] = PlannedInRoute}
           rt == [r \in Routes |-> IF r \in kept THEN Planned ELSE s.route[r]]
           ca == [r \in Routes |-> IF r \in kept THEN NoUnit ELSE s.carrier[r]]
           sv == [u \in Units |-> IF u \in U /\ s.serves[u] \in kept THEN NoRoute
                                  ELSE s.serves[u]]
           fa == IF \E r \in LeftBy(s, U) : ~Present(s, r) THEN "freed" ELSE s.fault
           t == PlansLeft(s, U)
<1>1. t = [s EXCEPT !.route = rt, !.carrier = ca, !.serves = sv, !.fault = fa]
  BY DEF PlansLeft
<1>2. /\ rt \in [Routes -> Statuses] /\ ca \in [Routes -> Units \cup {NoUnit}]
      /\ sv \in [Units -> Routes \cup {NoRoute}] /\ fa \in {"none", "null", "freed"}
  BY StateFields DEF Statuses
<1>3. fa = "none" => s.fault = "none"
  OBVIOUS
<1>4. /\ \A x \in Routes :
           rt[x] = IF x \in LeftBy(s, U) /\ s.route[x] = PlannedInRoute THEN Planned
                   ELSE s.route[x]
      /\ \A x \in Routes :
           ca[x] = IF x \in LeftBy(s, U) /\ s.route[x] = PlannedInRoute THEN NoUnit
                   ELSE s.carrier[x]
      /\ \A u \in Units :
           sv[u] = IF u \in U /\ s.serves[u] \in LeftBy(s, U)
                        /\ s.route[s.serves[u]] = PlannedInRoute
                     THEN NoRoute ELSE s.serves[u]
  OBVIOUS
<1> HIDE DEF rt, ca, sv, fa, t
<1>5. /\ t \in State /\ t.route = rt /\ t.carrier = ca /\ t.behind = s.behind /\ t.serves = sv
      /\ t.fault = fa /\ Still(s, t)
  BY <1>1, <1>2 DEF State, Still
<1> QED BY <1>3, <1>4, <1>5 DEF HasPlansLeft, t

\* Whatever the pointers are, established routes and plans stay, and no route is
\* established.
Releases(s, r) ==
    /\ r \in State /\ Still(s, r) /\ r.behind \subseteq s.behind
    /\ \A x \in Routes : /\ r.route[x] = Established <=> s.route[x] = Established
                         /\ IsPlan(s.route[x]) => IsPlan(r.route[x])
    /\ r.fault = "none" => s.fault = "none"

LEMMA ReleasedAnyway ==
    ASSUME NEW s \in State, NEW U \in SUBSET Units
    PROVE  Releases(s, Released(s, U))
<1> DEFINE t == PlansLeft(s, U)
           L == RoutesLost(s, U)
           r == Removed(t, L)
<1>1. HasPlansLeft(s, t, U) /\ L \in SUBSET Routes /\ LeftBy(s, U) \in SUBSET Routes
  BY PlansLeftIs, LeftByRoutes DEF RoutesLost
<1>2. \A x \in L : x \in Routes /\ s.route[x] = InRoute
  BY <1>1 DEF RoutesLost
<1> HIDE DEF t, L
<1>3. IsRemoved(t, r, L)
  BY <1>1, RemovedIs DEF HasPlansLeft
<1> HIDE DEF r
<1>4. \A x \in Routes : r.route[x] = Established <=> s.route[x] = Established
  BY <1>1, <1>2, <1>3, StatusesDiffer DEF HasPlansLeft, IsRemoved
<1>5. Still(s, r) /\ r.behind \subseteq s.behind
  BY <1>1, <1>3 DEF HasPlansLeft, IsRemoved, Still
<1>6. \A x \in Routes : IsPlan(s.route[x]) => IsPlan(r.route[x])
  BY <1>1, <1>2, <1>3, StatusesDiffer DEF HasPlansLeft, IsRemoved, IsPlan
<1>7. Releases(s, r)
  BY <1>1, <1>3, <1>4, <1>5, <1>6 DEF Releases, HasPlansLeft, IsRemoved
<1> QED BY <1>7, ReleasedIn DEF r, t, L

\* With sound pointers: plans stay, the other routes of U go, and U serves none.
IsReleased(s, r, U) ==
    /\ r \in State /\ Still(s, r) /\ r.behind \subseteq s.behind /\ YoungerKept(s, r)
    /\ \A x \in Routes :
         r.route[x] = IF x \notin LeftBy(s, U) THEN s.route[x]
                      ELSE IF s.route[x] = PlannedInRoute THEN Planned ELSE Absent
    /\ \A x \in Routes : r.carrier[x] = IF x \in LeftBy(s, U) THEN NoUnit ELSE s.carrier[x]
    /\ \A u \in Units : r.serves[u] = IF u \in U THEN NoRoute ELSE s.serves[u]
    /\ r.fault = "none" => s.fault = "none"

LEMMA ReleasedIs ==
    ASSUME NEW s \in State, NEW U \in SUBSET Units, Pointers(s)
    PROVE  IsReleased(s, Released(s, U), U)
<1> DEFINE t == PlansLeft(s, U)
           L == RoutesLost(s, U)
           r == Removed(t, L)
<1>1. HasPlansLeft(s, t, U) /\ L \in SUBSET Routes /\ LeftBy(s, U) \in SUBSET Routes
  BY PlansLeftIs, LeftByRoutes DEF RoutesLost
<1>2. \A x \in Routes : x \in L <=> x \in LeftBy(s, U) /\ s.route[x] = InRoute
  BY DEF RoutesLost
<1> HIDE DEF t, L
<1>3. IsRemoved(t, r, L)
  BY <1>1, RemovedIs DEF HasPlansLeft
<1> HIDE DEF r
<1>4. \A x \in LeftBy(s, U) :
        /\ x \in Routes /\ s.route[x] \in {InRoute, PlannedInRoute}
        /\ s.carrier[x] \in U /\ s.serves[s.carrier[x]] = x
  BY <1>1 DEF LeftBy, Pointers
<1>5. /\ \A x \in Routes :
           r.route[x] = IF x \notin LeftBy(s, U) THEN s.route[x]
                        ELSE IF s.route[x] = PlannedInRoute THEN Planned ELSE Absent
      /\ \A x \in Routes : r.carrier[x] = IF x \in LeftBy(s, U) THEN NoUnit ELSE s.carrier[x]
  BY <1>1, <1>2, <1>3, <1>4, StatusesDiffer DEF HasPlansLeft, IsRemoved
<1>6. ASSUME NEW u \in U PROVE r.serves[u] = NoRoute
  <2>1. CASE s.serves[u] = NoRoute
    BY <1>1, <1>3, <2>1 DEF HasPlansLeft, IsRemoved
  <2>2. CASE s.serves[u] # NoRoute
    <3>1. s.serves[u] \in LeftBy(s, U) /\ s.carrier[s.serves[u]] = u
      BY <2>2 DEF LeftBy, Pointers
    <3>2. CASE s.route[s.serves[u]] = PlannedInRoute
      BY <1>1, <1>3, <3>1, <3>2 DEF HasPlansLeft, IsRemoved
    <3>3. CASE s.route[s.serves[u]] = InRoute
      <4>1. s.serves[u] \in L /\ t.carrier[s.serves[u]] = u
        BY <1>1, <1>2, <1>4, <3>1, <3>3, StatusesDiffer DEF HasPlansLeft
      <4> QED BY <1>3, <4>1 DEF IsRemoved
    <3> QED BY <1>4, <3>1, <3>2, <3>3
  <2> QED BY <2>1, <2>2
<1>7. ASSUME NEW u \in Units \ U PROVE r.serves[u] = s.serves[u]
  <2>1. t.serves[u] = s.serves[u]
    BY <1>1 DEF HasPlansLeft
  <2>2. \A x \in L : t.carrier[x] # u
    BY <1>1, <1>2, <1>4, StatusesDiffer DEF HasPlansLeft
  <2> QED BY <1>3, <2>1, <2>2 DEF IsRemoved
<1>8. /\ r \in State /\ Still(s, r) /\ r.behind \subseteq s.behind /\ YoungerKept(s, r)
      /\ r.fault = "none" => s.fault = "none"
  BY <1>1, <1>3 DEF HasPlansLeft, IsRemoved, Still, YoungerKept
<1>9. IsReleased(s, r, U)
  BY <1>5, <1>6, <1>7, <1>8 DEF IsReleased
<1> QED BY <1>9, ReleasedIn DEF r, t, L

LEMMA ReleasesTrades ==
    ASSUME NEW s, NEW r, Trades(s), Releases(s, r)
    PROVE  Trades(r)
  BY TradesKept DEF Releases

\* Service, after the caravans U have left their routes
LEMMA ReleasedService ==
    ASSUME NEW s \in State, NEW r, NEW U \in SUBSET Units, IsReleased(s, r, U),
           NEW W, NEW C, Service(s, W, C)
    PROVE  Service(r, W, C)
<1>1. r \in State /\ Still(s, r) /\ Pointers(s) /\ YoungerKept(s, r)
  BY DEF IsReleased, Service
<1>2. \A x \in LeftBy(s, U) :
        s.route[x] \in {InRoute, PlannedInRoute} /\ s.carrier[x] \in U
  BY <1>1 DEF LeftBy, Pointers
<1>3. \A x \in Routes :
        /\ r.carrier[x] \in {s.carrier[x], NoUnit}
        /\ r.route[x] # Absent => s.route[x] # Absent
        /\ r.route[x] \notin {Absent, Established} => s.route[x] # Established
        /\ r.carrier[x] # NoUnit => r.route[x] = s.route[x]
  BY <1>2, StatusesDiffer DEF IsReleased
<1>4. ASSUME NEW u \in Units, r.serves[u] # NoRoute
      PROVE  r.serves[u] = s.serves[u] /\ r.carrier[s.serves[u]] = s.carrier[s.serves[u]]
  <2>1. u \notin U /\ r.serves[u] = s.serves[u]
    BY <1>4 DEF IsReleased
  <2>2. s.serves[u] \in Routes /\ s.carrier[s.serves[u]] = u
    BY <1>1, <1>4, <2>1, StateFields DEF Pointers
  <2>3. s.serves[u] \notin LeftBy(s, U)
    BY <1>2, <2>1, <2>2
  <2> QED BY <2>1, <2>2, <2>3 DEF IsReleased
<1>5. ASSUME NEW x \in Routes, NEW u, u = r.carrier[x], u # NoUnit, s.serves[u] = x
      PROVE  r.serves[u] = x
  <2>1. x \notin LeftBy(s, U) /\ u \in Units
    BY <1>5, StateFields DEF IsReleased
  <2>2. u \notin U
    BY <1>5, <2>1, NoRouteIsNone DEF LeftBy
  <2> QED BY <1>5, <2>1, <2>2 DEF IsReleased
<1> QED BY <1>1, <1>3, <1>4, <1>5, ServiceKept

\* trade_free_unit
LEMMA ReleasedKeeps ==
    ASSUME NEW s, NEW W, NEW C, Sound(s, W, C), NEW U \in SUBSET Units
    PROVE  Sound(Released(s, U), W, C)
<1> DEFINE r == Released(s, U)
<1>1. s \in State /\ Trades(s) /\ (s.fault = "none" => Service(s, W, C))
  BY DEF Sound
<1>2. Releases(s, r)
  BY <1>1, ReleasedAnyway
<1>3. s.fault = "none" => IsReleased(s, r, U)
  BY <1>1, ReleasedIs DEF Service
<1> HIDE DEF r
<1>4. Trades(r)
  BY <1>1, <1>2, ReleasesTrades
<1>5. r.fault = "none" => Service(r, W, C)
  BY <1>1, <1>2, <1>3, ReleasedService DEF Releases
<1> QED BY <1>2, <1>4, <1>5 DEF Sound, Releases, r

\* wipe_unit: the caravans of U are dead.
IsWiped(t, r, U) ==
    /\ r \in State /\ r.home = t.home /\ r.owner = t.owner /\ r.behind = t.behind
    /\ r.route = t.route /\ r.carrier = t.carrier /\ r.serves = t.serves /\ r.fault = t.fault
    /\ \A u \in Units : r.at[u] = IF u \in U THEN Dead ELSE t.at[u]

LEMMA WipedIs ==
    ASSUME NEW s, NEW U, Released(s, U) \in State
    PROVE  IsWiped(Released(s, U), Wiped(s, U), U)
<1> DEFINE t == Released(s, U)
           a == [u \in Units |-> IF u \in U THEN Dead ELSE t.at[u]]
           r == Wiped(s, U)
<1>1. r = [t EXCEPT !.at = a]
  BY DEF Wiped
<1>2. a \in [Units -> Places]
  BY StateFields DEF Places
<1>3. \A u \in Units : a[u] = IF u \in U THEN Dead ELSE t.at[u]
  OBVIOUS
<1> HIDE DEF t, a, r
<1>4. t \in State
  BY DEF t
<1>5. /\ r \in State /\ r.home = t.home /\ r.owner = t.owner /\ r.behind = t.behind
      /\ r.route = t.route /\ r.carrier = t.carrier /\ r.serves = t.serves
      /\ r.fault = t.fault /\ r.at = a
  BY <1>1, <1>2, <1>4 DEF State
<1> QED BY <1>3, <1>5 DEF IsWiped, r, t

LEMMA ThreeDiffer ==
    ASSUME NEW x, NEW y, NEW z, Cardinality({x, y, z}) = 3
    PROVE  x # y
<1>1. ASSUME x = y PROVE FALSE
  <2>1. {x, y, z} = {y} \cup {z}
    BY <1>1
  <2>2. IsFiniteSet({y}) /\ Cardinality({y}) = 1
    BY FS_Singleton
  <2>3. Cardinality({y} \cup {z}) = IF z \in {y} THEN 1 ELSE 1 + 1
    BY <2>2, FS_AddElement
  <2> QED BY <2>1, <2>3
<1> QED BY <1>1

LEMMA PlacesDiffer ==
    Dead \notin Cities \cup {Road} /\ Unbuilt \notin Cities \cup {Road} /\ Unbuilt # Dead
<1>1. Cities \cap {Road, Unbuilt, Dead} = {} /\ Cardinality({Road, Unbuilt, Dead}) = 3
  BY RouteConstants
<1>2. /\ {Road, Unbuilt, Dead} = {Road, Dead, Unbuilt}
      /\ {Road, Unbuilt, Dead} = {Unbuilt, Dead, Road}
  OBVIOUS
<1>3. Road # Unbuilt /\ Road # Dead /\ Unbuilt # Dead
  BY <1>1, <1>2, ThreeDiffer
<1> QED BY <1>1, <1>3

LEMMA WipedKeeps ==
    ASSUME NEW s, NEW W, NEW C, Sound(s, W, C), NEW U \in SUBSET Units
    PROVE  Sound(Wiped(s, U), W \ U, C)
<1> DEFINE t == Released(s, U)
           r == Wiped(s, U)
<1>1. Sound(t, W, C) /\ t \in State /\ Trades(t) /\ (t.fault = "none" => Service(t, W, C))
  BY ReleasedKeeps DEF Sound
<1>2. IsWiped(t, r, U)
  BY <1>1, WipedIs
<1>3. t.fault = "none" => \A u \in U : t.serves[u] = NoRoute
  <2>1. s \in State /\ Releases(s, t) /\ (s.fault = "none" => Pointers(s))
    BY ReleasedAnyway DEF Sound, Service
  <2>2. s.fault = "none" => IsReleased(s, t, U)
    BY <2>1, ReleasedIs
  <2> HIDE DEF t
  <2> QED BY <2>1, <2>2 DEF Releases, IsReleased
<1> HIDE DEF t, r
<1>4. Trades(r)
  BY <1>1, <1>2, TradesKept DEF IsWiped
<1>5. ASSUME r.fault = "none" PROVE Service(r, W \ U, C)
  <2>1. /\ Pointers(t) /\ Marked(t, W) /\ Housed(t) /\ Loyal(t, C) /\ Apart(t, C) /\ Ordered(t)
        /\ \A u \in U : t.serves[u] = NoRoute
    BY <1>1, <1>2, <1>3, <1>5 DEF IsWiped, Service
  <2>2. \A u \in Units : u \notin U => (Alive(r, u) <=> Alive(t, u))
    BY <1>2 DEF IsWiped, Alive
  <2>3. \A u \in U : ~Alive(r, u)
    BY <1>2, PlacesDiffer DEF IsWiped, Alive
  <2>4. Pointers(r)
    BY <1>2, <2>1, <2>2 DEF IsWiped, Pointers
  <2>5. Marked(r, W \ U)
    <3>1. t.carrier \in [Routes -> Units \cup {NoUnit}]
      BY <1>1, StateFields
    <3> QED BY <1>2, <2>1, <3>1 DEF IsWiped, Marked
  <2>6. Housed(r)
    BY <1>2, <2>1, <2>2, <2>3 DEF IsWiped, Housed
  <2>7. Loyal(r, C)
    BY <1>2, <2>1 DEF IsWiped, Loyal, UnitOwner
  <2>8. Apart(r, C) /\ Ordered(r)
    BY <1>2, <2>1 DEF IsWiped, Apart, Ordered, Present, SameOwner, CanTrade
  <2> QED BY <2>4, <2>5, <2>6, <2>7, <2>8 DEF Service
<1> QED BY <1>2, <1>4, <1>5 DEF Sound, IsWiped, r

(***************************************************************************)
(* 6. New routes.                                                          *)
(***************************************************************************)

\* game_trade_route_find finds a route where one answers.
LEMMA FoundFacts ==
    ASSUME NEW s, Trades(s), NEW c \in Cities, NEW d \in Cities, c # d
    PROVE  /\ Found(s, c, d) \in SUBSET Routes
           /\ \A x \in Found(s, c, d) : Answers(s, x, c, d) /\ x \in {<<c, d>>, <<d, c>>}
           /\ Found(s, c, d) = {} =>
                /\ ~Present(s, <<c, d>>)
                /\ Present(s, <<d, c>>) =>
                     ~SameOwner(s, <<d, c>>) /\ s.route[<<d, c>>] # Established
<1> DEFINE x == <<c, d>>
           y == <<d, c>>
<1>1. /\ x \in Routes /\ y \in Routes /\ Back(x) = y /\ Back(y) = x
  BY PairFacts
<1>2. ~(x \in s.behind /\ y \in s.behind)
  BY <1>1 DEF Trades
<1>3. ASSUME Found(s, c, d) = {} PROVE ~Answers(s, x, c, d) /\ ~Answers(s, y, c, d)
  BY <1>1, <1>2, <1>3 DEF Found
<1> HIDE DEF x, y
<1>4. /\ \A z \in Found(s, c, d) : z \in Routes /\ Answers(s, z, c, d)
      /\ \A z : Answers(s, z, c, d) => z \in {<<c, d>>, <<d, c>>}
  BY DEF Found, Answers
<1>5. /\ Present(s, x) => Answers(s, x, c, d)
      /\ Present(s, y) /\ (SameOwner(s, y) \/ s.route[y] = Established) => Answers(s, y, c, d)
  BY DEF Answers, x, y
<1> QED BY <1>3, <1>4, <1>5 DEF x, y

IsAdded(s, r, c, d, status) ==
    /\ r \in State /\ Still(s, r) /\ r.serves = s.serves /\ r.fault = s.fault
    /\ r.route = [s.route EXCEPT ![<<c, d>>] = status]
    /\ r.carrier = [s.carrier EXCEPT ![<<c, d>>] = NoUnit]
    /\ r.behind = (s.behind \ {<<d, c>>})
                    \cup {x \in {<<c, d>>} : s.route[<<d, c>>] # Absent}

LEMMA AddedIs ==
    ASSUME NEW s \in State, NEW c \in Cities, NEW d \in Cities, c # d,
           NEW status \in Statuses
    PROVE  IsAdded(s, Added(s, c, d, status), c, d, status)
<1> DEFINE rt == [s.route EXCEPT ![<<c, d>>] = status]
           ca == [s.carrier EXCEPT ![<<c, d>>] = NoUnit]
           be == (s.behind \ {<<d, c>>}) \cup {x \in {<<c, d>>} : s.route[<<d, c>>] # Absent}
           r == Added(s, c, d, status)
<1>1. r = [s EXCEPT !.route = rt, !.carrier = ca, !.behind = be]
  BY DEF Added
<1>2. /\ rt \in [Routes -> Statuses] /\ ca \in [Routes -> Units \cup {NoUnit}]
      /\ be \in SUBSET Routes
  BY StateFields, PairFacts
<1> HIDE DEF rt, ca, be, r
<1>3. /\ r \in State /\ Still(s, r) /\ r.serves = s.serves /\ r.fault = s.fault
      /\ r.route = rt /\ r.carrier = ca /\ r.behind = be
  BY <1>1, <1>2 DEF State, Still
<1> QED BY <1>3 DEF IsAdded, r, rt, ca, be

\* A city with room for a route
Room(s, c) == Cardinality(TradesOf(s, c)) + 1 <= MaxRoutes

LEMMA AddedTrades ==
    ASSUME NEW s \in State, NEW r, Trades(s), NEW c \in Cities, NEW d \in Cities, c # d,
           NEW status \in Statuses, IsAdded(s, r, c, d, status), Found(s, c, d) = {},
           status = Established => Room(s, c) /\ Room(s, d)
    PROVE  Trades(r)
<1> DEFINE x == <<c, d>>
           y == <<d, c>>
<1>1. /\ x \in Routes /\ y \in Routes /\ Back(x) = y /\ Back(y) = x /\ x # y
      /\ Ends(x) = {c, d}
  BY PairFacts
<1>2. s.route[y] # Established
  <2>1. Present(s, y) => s.route[y] # Established
    BY FoundFacts
  <2> QED BY <2>1, StatusesDiffer DEF Present
<1>3. /\ \A z \in Routes : r.route[z] = IF z = x THEN status ELSE s.route[z]
      /\ r.behind \subseteq (s.behind \ {y}) \cup {x}
  BY <1>1, StateFields DEF IsAdded
<1> HIDE DEF x, y
<1>4. \A z \in r.behind : Back(z) \notin r.behind
  <2>1. \A z \in Routes : Back(z) \in Routes /\ Back(Back(z)) = z
    BY BackFacts
  <2>2. r.behind \subseteq Routes /\ s.behind \subseteq Routes
    BY StateFields DEF IsAdded
  <2> QED BY <1>1, <1>3, <2>1, <2>2 DEF Trades
<1>5. \A z \in Routes : r.route[z] = Established => r.route[Back(z)] # Established
  <2>1. \A z \in Routes : Back(z) \in Routes /\ Back(Back(z)) = z
    BY BackFacts
  <2> QED BY <1>1, <1>2, <1>3, <2>1 DEF Trades
<1>6. ASSUME NEW e \in Cities PROVE Cardinality(TradesOf(r, e)) <= MaxRoutes
  <2>1. /\ Cardinality(TradesOf(s, e)) \in Nat /\ Cardinality(TradesOf(r, e)) \in Nat
        /\ IsFiniteSet(TradesOf(s, e)) /\ Cardinality(TradesOf(s, e)) <= MaxRoutes
    BY TradesFinite DEF Trades
  <2>2. CASE status = Established /\ e \in {c, d}
    <3>1. TradesOf(r, e) \in SUBSET (TradesOf(s, e) \cup {x})
      BY <1>3 DEF TradesOf
    <3>2. /\ IsFiniteSet(TradesOf(s, e) \cup {x})
          /\ Cardinality(TradesOf(s, e) \cup {x}) \in Nat
          /\ Cardinality(TradesOf(s, e) \cup {x}) <= Cardinality(TradesOf(s, e)) + 1
      <4> DEFINE S == TradesOf(s, e)
      <4> HIDE DEF S
      <4>1. /\ IsFiniteSet(S \cup {x})
            /\ Cardinality(S \cup {x}) = IF x \in S THEN Cardinality(S) ELSE Cardinality(S) + 1
        BY <2>1, FS_AddElement DEF S
      <4>2. Cardinality(S) \in Nat
        BY <2>1 DEF S
      <4> QED BY <4>1, <4>2 DEF S
    <3>3. Cardinality(TradesOf(r, e)) <= Cardinality(TradesOf(s, e) \cup {x})
      BY <3>1, <3>2, FS_Subset
    <3>4. Room(s, e)
      BY <2>2
    <3> QED BY <2>1, <3>2, <3>3, <3>4, RouteConstants DEF Room
  <2>3. CASE ~(status = Established /\ e \in {c, d})
    <3>1. TradesOf(r, e) \in SUBSET TradesOf(s, e)
      BY <1>1, <1>3, <2>3 DEF TradesOf
    <3>2. Cardinality(TradesOf(r, e)) <= Cardinality(TradesOf(s, e))
      BY <2>1, <3>1, FS_Subset
    <3> QED BY <2>1, <3>2, RouteConstants
  <2> QED BY <2>2, <2>3
<1> QED BY <1>4, <1>5, <1>6 DEF Trades

LEMMA AddedService ==
    ASSUME NEW s \in State, NEW r, Trades(s), NEW c \in Cities, NEW d \in Cities, c # d,
           NEW status \in Statuses, IsAdded(s, r, c, d, status), Found(s, c, d) = {},
           status # Established => CanTrade(s, c, d),
           NEW W, NEW C, Service(s, W, C)
    PROVE  Service(r, W, C)
<1> DEFINE x == <<c, d>>
           y == <<d, c>>
<1>1. /\ x \in Routes /\ y \in Routes /\ Back(x) = y /\ Back(y) = x /\ x # y
      /\ x[1] = c /\ x[2] = d
  BY PairFacts
<1>2. s.route[x] = Absent /\ (Present(s, y) => ~SameOwner(s, y))
  BY FoundFacts DEF Present
<1>3. /\ \A z \in Routes : r.route[z] = IF z = x THEN status ELSE s.route[z]
      /\ \A z \in Routes : r.carrier[z] = IF z = x THEN NoUnit ELSE s.carrier[z]
      /\ r.serves = s.serves /\ r.at = s.at /\ r.home = s.home /\ r.owner = s.owner
  BY <1>1, StateFields DEF IsAdded, Still
<1> HIDE DEF x, y
<1>4. /\ Pointers(s) /\ Marked(s, W) /\ Housed(s) /\ Loyal(s, C) /\ Apart(s, C) /\ Ordered(s)
  BY DEF Service
<1>5. /\ \A u \in Units : Alive(r, u) <=> Alive(s, u)
      /\ \A u \in Units : UnitOwner(r, u) = UnitOwner(s, u)
      /\ \A z \in Routes : SameOwner(r, z) <=> SameOwner(s, z)
      /\ \A e, g \in Cities : CanTrade(r, e, g) <=> CanTrade(s, e, g)
  BY <1>3 DEF Alive, UnitOwner, SameOwner, CanTrade
<1>6. Pointers(r)
  <2>1. ASSUME NEW u \in Units, s.serves[u] # NoRoute
        PROVE  s.serves[u] \in Routes \ {x}
    BY <1>2, <1>4, <2>1, StateFields, StatusesDiffer DEF Pointers
  <2> QED BY <1>3, <1>4, <1>5, <2>1 DEF Pointers
<1>7. Marked(r, W) /\ Housed(r)
  BY <1>3, <1>4, <1>5 DEF Marked, Housed
<1>8. Loyal(r, C)
  BY <1>3, <1>4, <1>5 DEF Loyal
<1>9. Apart(r, C)
  <2>1. ASSUME NEW z \in Routes, Ends(z) \cap C = {}, Present(r, z)
        PROVE  /\ SameOwner(r, z) => ~Present(r, Back(z))
               /\ r.route[z] # Established => CanTrade(r, z[1], z[2])
    <3>1. Back(z) \in Routes /\ Back(Back(z)) = z /\ z[1] \in Cities /\ z[2] \in Cities
      BY BackFacts
    <3>2. CASE z = x
      <4>1. SameOwner(s, x) <=> SameOwner(s, y)
        BY DEF SameOwner, x, y
      <4>2. SameOwner(r, z) => ~Present(r, Back(z))
        BY <1>1, <1>2, <1>3, <1>5, <3>2, <4>1 DEF Present
      <4> QED BY <1>1, <1>3, <1>5, <3>2, <4>2
    <3>3. CASE z = y
      <4>1. Present(s, y) /\ r.route[y] = s.route[y]
        BY <1>1, <1>3, <2>1, <3>3 DEF Present
      <4>2. ~SameOwner(r, y)
        BY <1>1, <1>2, <1>5, <4>1
      <4>3. s.route[y] # Established => CanTrade(s, y[1], y[2])
        BY <1>1, <1>4, <2>1, <3>3, <4>1 DEF Apart
      <4> QED BY <1>5, <3>1, <3>3, <4>1, <4>2, <4>3
    <3>4. CASE z # x /\ z # y
      <4>1. /\ Back(z) # x /\ r.route[z] = s.route[z] /\ r.route[Back(z)] = s.route[Back(z)]
        BY <1>1, <1>3, <3>1, <3>4
      <4>2. /\ SameOwner(s, z) => ~Present(s, Back(z))
            /\ s.route[z] # Established => CanTrade(s, z[1], z[2])
        BY <1>4, <2>1, <4>1 DEF Apart, Present
      <4> QED BY <1>5, <3>1, <4>1, <4>2 DEF Present
    <3> QED BY <3>2, <3>3, <3>4
  <2> QED BY <2>1 DEF Apart
<1>10. Ordered(r)
  <2>1. /\ \A z \in Routes : Back(z) \in Routes /\ Back(Back(z)) = z
        /\ \A z \in s.behind : z # y => z \in r.behind
        /\ s.route[y] # Absent => x \in r.behind
    BY BackFacts DEF IsAdded, x, y
  <2> QED BY <1>1, <1>3, <1>4, <2>1 DEF Ordered, Present
<1> QED BY <1>6, <1>7, <1>8, <1>9, <1>10 DEF Service

\* game_trade_route_add, of cities without a route that would be found
LEMMA AddedKeeps ==
    ASSUME NEW s, NEW W, NEW C, Sound(s, W, C),
           NEW c \in Cities, NEW d \in Cities, c # d, NEW status \in Statuses,
           Found(s, c, d) = {},
           status = Established => Room(s, c) /\ Room(s, d),
           status # Established => CanTrade(s, c, d)
    PROVE  Sound(Added(s, c, d, status), W, C)
<1>1. s \in State /\ Trades(s) /\ (s.fault = "none" => Service(s, W, C))
  BY DEF Sound
<1> DEFINE r == Added(s, c, d, status)
<1>2. IsAdded(s, r, c, d, status)
  BY <1>1, AddedIs
<1> HIDE DEF r
<1>3. Trades(r)
  BY <1>1, <1>2, AddedTrades
<1>4. r.fault = "none" => Service(r, W, C)
  BY <1>1, <1>2, AddedService DEF IsAdded
<1> QED BY <1>2, <1>3, <1>4 DEF Sound, IsAdded, r

(***************************************************************************)
(* 7. Establishing routes.                                                 *)
(***************************************************************************)

LEMMA Faulty ==
    ASSUME NEW s, NEW W, NEW C, s \in State, Trades(s), NEW f \in {"null", "freed"}
    PROVE  Sound([s EXCEPT !.fault = f], W, C)
<1> DEFINE r == [s EXCEPT !.fault = f]
<1>1. r \in State /\ r.fault = f /\ r.route = s.route /\ r.behind = s.behind
  BY DEF State
<1> HIDE DEF r
<1>2. Trades(r)
  BY <1>1, TradesKept
<1> QED BY <1>1, <1>2 DEF Sound, r

\* server_establish_trade_route
LEMMA ServerEstablishedKeeps ==
    ASSUME NEW s, NEW W, NEW C, Sound(s, W, C), NEW c \in Cities, NEW d \in Cities,
           Room(s, c), Room(s, d)
    PROVE  Sound(ServerEstablished(s, c, d), W, C)
<1>1. CASE ~CanTrade(s, c, d) \/ ~CanEstablish(s, c, d)
  BY <1>1 DEF ServerEstablished
<1>2. CASE ~(~CanTrade(s, c, d) \/ ~CanEstablish(s, c, d))
  <2> DEFINE t == Removed(s, Found(s, c, d))
  <2>1. s \in State /\ Trades(s) /\ c # d
    BY <1>2 DEF Sound, CanTrade
  <2>2. Found(s, c, d) \in SUBSET Routes
    BY <2>1, FoundFacts
  <2>3. Sound(t, W, C) /\ IsRemoved(s, t, Found(s, c, d))
    BY <2>1, <2>2, RemovedKeeps, RemovedIs
  <2>4. ServerEstablished(s, c, d) =
          IF Found(t, c, d) # {} THEN [t EXCEPT !.fault = "null"]
          ELSE Added(t, c, d, Established)
    BY <1>2 DEF ServerEstablished
  <2> HIDE DEF t
  <2>5. \A e \in {c, d} : Room(t, e)
    <3>1. \A x \in Routes : t.route[x] = Established => s.route[x] = Established
      BY <2>3, StatusesDiffer DEF IsRemoved
    <3>2. ASSUME NEW e \in {c, d} PROVE Room(t, e)
      <4>1. Cardinality(TradesOf(t, e)) <= Cardinality(TradesOf(s, e))
        BY <3>1, FewerTrades
      <4>2. Cardinality(TradesOf(s, e)) + 1 <= MaxRoutes
        BY DEF Room
      <4>3. Cardinality(TradesOf(t, e)) \in Nat /\ Cardinality(TradesOf(s, e)) \in Nat
        BY TradesFinite
      <4> QED BY <4>1, <4>2, <4>3, RouteConstants DEF Room
    <3> QED BY <3>2
  <2>6. CASE Found(t, c, d) # {}
    <3>1. t \in State /\ Trades(t)
      BY <2>3 DEF Sound
    <3>2. Sound([t EXCEPT !.fault = "null"], W, C)
      BY <3>1, Faulty
    <3> QED BY <2>4, <2>6, <3>2
  <2>7. CASE Found(t, c, d) = {}
    <3>1. Established \in Statuses
      BY DEF Statuses
    <3> QED BY <2>1, <2>3, <2>4, <2>5, <2>7, <3>1, AddedKeeps
  <2> QED BY <2>6, <2>7
<1> QED BY <1>1, <1>2

\* The routes that give way are trade of the city, and leave it with room.
LEMMA GivesWayFacts ==
    ASSUME NEW s, Trades(s), NEW c \in Cities, NEW w \in GivesWay(s, c)
    PROVE  /\ w \in SUBSET Routes
           /\ \A x \in w : s.route[x] = Established /\ x \in Worst(s, c)
           /\ Full(s, c) => \E x \in TradesOf(s, c) : w = {x}
           /\ ~Full(s, c) => w = {}
  BY DEF GivesWay, Worst, TradesOf

LEMMA RoomMade ==
    ASSUME NEW s, Trades(s), NEW c \in Cities, NEW w \in GivesWay(s, c),
           NEW t, NEW R \in SUBSET Routes, w \subseteq R, IsRemoved(s, t, R)
    PROVE  Room(t, c)
<1>1. \A x \in Routes : t.route[x] = Established => s.route[x] = Established /\ x \notin R
  BY StatusesDiffer DEF IsRemoved
<1>2. /\ Cardinality(TradesOf(s, c)) \in Nat /\ Cardinality(TradesOf(t, c)) \in Nat
      /\ Cardinality(TradesOf(s, c)) <= MaxRoutes /\ IsFiniteSet(TradesOf(s, c))
  BY TradesFinite DEF Trades
<1>3. CASE Full(s, c)
  <2>1. PICK x \in TradesOf(s, c) : w = {x}
    BY <1>3, GivesWayFacts
  <2>2. TradesOf(t, c) \in SUBSET (TradesOf(s, c) \ {x})
    BY <1>1, <2>1 DEF TradesOf
  <2> DEFINE S == TradesOf(s, c)
  <2> HIDE DEF S
  <2>3. IsFiniteSet(S \ {x}) /\ Cardinality(S \ {x}) = Cardinality(S) - 1
    BY <1>2, <2>1, FS_RemoveElement DEF S
  <2>4. Cardinality(TradesOf(t, c)) <= Cardinality(S \ {x})
    BY <2>2, <2>3, FS_Subset DEF S
  <2> QED BY <1>2, <2>3, <2>4, RouteConstants DEF Room, S
<1>4. CASE ~Full(s, c)
  <2>1. Cardinality(TradesOf(t, c)) <= Cardinality(TradesOf(s, c))
    BY <1>1, FewerTrades
  <2> QED BY <1>2, <1>4, <2>1, RouteConstants DEF Room, Full
<1> QED BY <1>3, <1>4

\* unit_establish_trade_route of a caravan that is lost by it, whatever routes still
\* point to that caravan
LEMMA UnitEstablishedKeeps ==
    ASSUME NEW s, NEW u \in Units, NEW C, Sound(s, {u}, C),
           NEW c \in Cities, NEW d \in Cities, s.home[u] = c \/ Sound(s, {}, C),
           NEW r \in UnitEstablished(s, u, c, d)
    PROVE  Sound(r, {}, C)
<1>0. s \in State /\ Trades(s)
  BY DEF Sound
<1>1. CASE s.home[u] # c
  BY <1>1 DEF UnitEstablished
<1>2. CASE s.home[u] = c /\ ~CanEstablish(s, c, d)
  <2>1. r = Wiped(s, {u})
    BY <1>2 DEF UnitEstablished
  <2>2. Sound(Wiped(s, {u}), {u} \ {u}, C)
    BY WipedKeeps
  <2>3. {u} \ {u} = {}
    OBVIOUS
  <2> QED BY <2>1, <2>2, <2>3
<1>3. CASE s.home[u] = c /\ CanEstablish(s, c, d)
  <2> DEFINE Result(v, w) ==
               IF v = w /\ v # {} THEN [s EXCEPT !.fault = "freed"]
               ELSE Wiped(ServerEstablished(Removed(s, v \cup w), c, d), {u})
  <2>0. UnitEstablished(s, u, c, d)
          = {Result(v, w) : v \in GivesWay(s, c), w \in GivesWay(s, d)}
    BY <1>3 DEF UnitEstablished
  <2> HIDE DEF Result
  <2>1. PICK w1 \in GivesWay(s, c), w2 \in GivesWay(s, d) : r = Result(w1, w2)
    BY <2>0
  <2> DEFINE t == Removed(s, w1 \cup w2)
             e == ServerEstablished(t, c, d)
  <2>2. w1 \cup w2 \in SUBSET Routes
    BY <1>0, GivesWayFacts
  <2>3. Sound(t, {u}, C) /\ IsRemoved(s, t, w1 \cup w2)
    BY <1>0, <2>2, RemovedKeeps, RemovedIs
  <2> HIDE DEF t
  <2>4. Room(t, c) /\ Room(t, d)
    BY <1>0, <2>2, <2>3, RoomMade
  <2>5. Sound(e, {u}, C)
    BY <2>3, <2>4, ServerEstablishedKeeps
  <2> HIDE DEF e
  <2>6. Sound(Wiped(e, {u}), {u} \ {u}, C)
    BY <2>5, WipedKeeps
  <2>7. {u} \ {u} = {}
    OBVIOUS
  <2>8. CASE w1 = w2 /\ w1 # {}
    BY <1>0, <2>1, <2>8, Faulty DEF Result
  <2>9. CASE ~(w1 = w2 /\ w1 # {})
    BY <2>1, <2>6, <2>7, <2>9 DEF e, t, Result
  <2> QED BY <2>8, <2>9
<1> QED BY <1>1, <1>2, <1>3

(***************************************************************************)
(* 8. Caravans with orders.                                                *)
(***************************************************************************)

LEMMA MoreExceptions ==
    ASSUME NEW s, NEW V, NEW W, NEW C, V \subseteq W, Sound(s, V, C)
    PROVE  Sound(s, W, C)
<1>1. s.fault = "none" => Marked(s, W)
  BY DEF Sound, Service, Marked
<1> QED BY <1>1 DEF Sound, Service

\* The routes of T and those of the other direction
Swapped(T, x) == x \in T \/ Back(x) \in T

IsTurned(s, t, T) ==
    /\ t \in State /\ Still(s, t) /\ t.serves = s.serves /\ t.fault = s.fault
    /\ t.behind = {x \in s.behind : ~Swapped(T, x)}
    /\ \A x \in Routes :
         /\ t.route[x] = IF Swapped(T, x) THEN s.route[Back(x)] ELSE s.route[x]
         /\ t.carrier[x] = IF Swapped(T, x) THEN s.carrier[Back(x)] ELSE s.carrier[x]

LEMMA TurnedIs ==
    ASSUME NEW s \in State, NEW T \in SUBSET Routes
    PROVE  IsTurned(s, Turned(s, T), T)
<1> DEFINE swapped == {x \in Routes : x \in T \/ Back(x) \in T}
           rt == [x \in Routes |-> s.route[IF x \in swapped THEN Back(x) ELSE x]]
           ca == [x \in Routes |-> s.carrier[IF x \in swapped THEN Back(x) ELSE x]]
           be == s.behind \ swapped
           t == Turned(s, T)
<1>1. t = [s EXCEPT !.route = rt, !.carrier = ca, !.behind = be]
  BY DEF Turned
<1>2. \A x \in Routes : Back(x) \in Routes
  BY BackFacts
<1>3. /\ rt \in [Routes -> Statuses] /\ ca \in [Routes -> Units \cup {NoUnit}]
      /\ be \in SUBSET Routes
  BY <1>2, StateFields
<1>4. /\ \A x \in Routes : x \in swapped <=> Swapped(T, x)
      /\ be = {x \in s.behind : ~Swapped(T, x)}
  BY StateFields DEF Swapped
<1>5. \A x \in Routes :
        /\ rt[x] = IF Swapped(T, x) THEN s.route[Back(x)] ELSE s.route[x]
        /\ ca[x] = IF Swapped(T, x) THEN s.carrier[Back(x)] ELSE s.carrier[x]
  <2> HIDE DEF swapped
  <2> QED BY <1>4
<1> HIDE DEF rt, ca, be, t, swapped
<1>6. /\ t \in State /\ Still(s, t) /\ t.serves = s.serves /\ t.fault = s.fault
      /\ t.route = rt /\ t.carrier = ca /\ t.behind = be
  BY <1>1, <1>3 DEF State, Still
<1> QED BY <1>4, <1>5, <1>6 DEF IsTurned, t

\* Routes within one nation that wait for a caravan
Turnable(s, T) ==
    /\ T \in SUBSET Routes
    /\ \A r \in T : /\ s.route[r] \notin {Absent, Established}
                    /\ s.carrier[r] = NoUnit /\ SameOwner(s, r)

LEMMA SwappedFacts ==
    ASSUME NEW s, Sound(s, {}, {}), s.fault = "none", NEW T, Turnable(s, T),
           NEW x \in Routes, Swapped(T, x)
    PROVE  /\ SameOwner(s, x) /\ CanTrade(s, x[1], x[2]) /\ CanTrade(s, x[2], x[1])
           /\ s.carrier[x] = NoUnit /\ s.carrier[Back(x)] = NoUnit
           /\ s.route[x] # Established /\ s.route[Back(x)] # Established
           /\ x \in T => s.route[Back(x)] = Absent
           /\ Back(x) \in T => s.route[x] = Absent
<1>1. /\ Marked(s, {}) /\ Apart(s, {})
  BY DEF Sound, Service
<1>2. /\ Back(x) \in Routes /\ Back(Back(x)) = x
      /\ Back(x)[1] = x[2] /\ Back(x)[2] = x[1] /\ x[1] \in Cities /\ x[2] \in Cities
  BY BackFacts
<1>3. Absent # Established /\ Absent \notin {InRoute, PlannedInRoute}
  BY StatusesDiffer
<1>4. CASE x \in T
  <2>1. Present(s, x) /\ SameOwner(s, x) /\ s.route[x] # Established /\ s.carrier[x] = NoUnit
    BY <1>4 DEF Turnable, Present
  <2>2. s.route[Back(x)] = Absent /\ CanTrade(s, x[1], x[2])
    BY <1>1, <2>1 DEF Apart, Present
  <2>3. s.carrier[Back(x)] = NoUnit /\ Back(x) \notin T
    BY <1>1, <1>2, <1>3, <2>2 DEF Marked, Turnable
  <2> QED BY <1>3, <2>1, <2>2, <2>3 DEF CanTrade, SameOwner
<1>5. CASE Back(x) \in T
  <2>1. /\ Present(s, Back(x)) /\ SameOwner(s, Back(x))
        /\ s.route[Back(x)] # Established /\ s.carrier[Back(x)] = NoUnit
    BY <1>5 DEF Turnable, Present
  <2>2. s.route[x] = Absent /\ CanTrade(s, x[2], x[1])
    BY <1>1, <1>2, <2>1 DEF Apart, Present
  <2>3. s.carrier[x] = NoUnit /\ x \notin T
    BY <1>1, <1>2, <1>3, <2>2 DEF Marked, Turnable
  <2> QED BY <1>2, <1>3, <2>1, <2>2, <2>3 DEF CanTrade, SameOwner
<1> QED BY <1>4, <1>5 DEF Swapped

\* calculate_trade_move_cost, of routes without a caravan
LEMMA TurnedKeeps ==
    ASSUME NEW s, Sound(s, {}, {}), s.fault = "none", NEW T, Turnable(s, T)
    PROVE  Sound(Turned(s, T), {}, {})
<1> DEFINE t == Turned(s, T)
<1>1. /\ s \in State /\ Trades(s) /\ Pointers(s) /\ Marked(s, {}) /\ Housed(s) /\ Loyal(s, {})
      /\ Apart(s, {}) /\ Ordered(s)
  BY DEF Sound, Service
<1>2. IsTurned(s, t, T)
  BY <1>1, TurnedIs DEF Turnable
<1> HIDE DEF t
<1>3. \A x \in Routes : /\ Back(x) \in Routes /\ Back(Back(x)) = x
                        /\ Back(x)[1] = x[2] /\ Back(x)[2] = x[1]
                        /\ x[1] \in Cities /\ x[2] \in Cities
  BY BackFacts
<1>4. \A x \in Routes : Swapped(T, x) =>
        /\ SameOwner(s, x) /\ CanTrade(s, x[1], x[2])
        /\ s.carrier[x] = NoUnit /\ s.carrier[Back(x)] = NoUnit
        /\ s.route[x] # Established /\ s.route[Back(x)] # Established
        /\ s.route[x] = Absent \/ s.route[Back(x)] = Absent
  BY SwappedFacts DEF Swapped
<1>5. \A x \in Routes : Swapped(T, Back(x)) <=> Swapped(T, x)
  BY <1>3 DEF Swapped
<1>6. Trades(t)
  <2>1. \A x \in Routes : t.route[x] = Established => s.route[x] = Established
    BY <1>2, <1>4 DEF IsTurned
  <2>2. t.behind \subseteq s.behind
    BY <1>2 DEF IsTurned
  <2> QED BY <1>1, <1>2, <2>1, <2>2, TradesKept DEF IsTurned
<1>7. /\ t.at = s.at /\ t.home = s.home /\ t.owner = s.owner /\ t.serves = s.serves
      /\ \A u \in Units : Alive(t, u) <=> Alive(s, u)
      /\ \A x \in Routes : SameOwner(t, x) <=> SameOwner(s, x)
      /\ \A c, d \in Cities : CanTrade(t, c, d) <=> CanTrade(s, c, d)
  BY <1>2 DEF IsTurned, Still, Alive, SameOwner, CanTrade
<1>8. Pointers(t)
  <2>1. ASSUME NEW u \in Units, s.serves[u] # NoRoute
        PROVE  s.serves[u] \in Routes /\ ~Swapped(T, s.serves[u])
    <3>1. s.serves[u] \in Routes /\ u # NoUnit
      BY <1>1, <2>1, StateFields, NoRouteIsNone
    <3>2. s.carrier[s.serves[u]] = u
      BY <1>1, <2>1 DEF Pointers
    <3> QED BY <1>4, <3>1, <3>2
  <2> QED BY <1>1, <1>2, <1>7, <2>1 DEF Pointers, IsTurned
<1>9. Marked(t, {})
  <2>1. \A x \in Routes : t.carrier[x] # NoUnit => ~Swapped(T, x)
    BY <1>2, <1>4 DEF IsTurned
  <2> QED BY <1>1, <1>2, <1>7, <2>1 DEF Marked, IsTurned
<1>10. Housed(t) /\ Loyal(t, {})
  BY <1>1, <1>7 DEF Housed, Loyal, UnitOwner
<1>11. Apart(t, {})
  <2>1. ASSUME NEW x \in Routes, Present(t, x)
        PROVE  /\ SameOwner(t, x) => ~Present(t, Back(x))
               /\ t.route[x] # Established => CanTrade(t, x[1], x[2])
    <3>1. CASE Swapped(T, x)
      <4>1. t.route[x] = s.route[Back(x)] /\ t.route[Back(x)] = s.route[x]
        BY <1>2, <1>3, <1>5, <3>1 DEF IsTurned
      <4> QED BY <1>3, <1>4, <1>7, <2>1, <3>1, <4>1 DEF Present
    <3>2. CASE ~Swapped(T, x)
      <4>1. t.route[x] = s.route[x] /\ t.route[Back(x)] = s.route[Back(x)]
        BY <1>2, <1>3, <1>5, <3>2 DEF IsTurned
      <4>2. /\ SameOwner(s, x) => ~Present(s, Back(x))
            /\ s.route[x] # Established => CanTrade(s, x[1], x[2])
        BY <1>1, <2>1, <4>1 DEF Apart, Present
      <4> QED BY <1>3, <1>7, <4>1, <4>2 DEF Present
    <3> QED BY <3>1, <3>2
  <2> QED BY <2>1 DEF Apart
<1>12. Ordered(t)
  <2>1. ASSUME NEW x \in Routes, Present(t, x), Present(t, Back(x))
        PROVE  x \in t.behind \/ Back(x) \in t.behind
    <3>1. ~Swapped(T, x)
      BY <1>2, <1>3, <1>4, <1>5, <2>1 DEF IsTurned, Present
    <3>2. Present(s, x) /\ Present(s, Back(x))
      BY <1>2, <1>3, <1>5, <2>1, <3>1 DEF IsTurned, Present
    <3> QED BY <1>1, <1>2, <1>3, <1>5, <3>1, <3>2 DEF Ordered, IsTurned
  <2> QED BY <2>1 DEF Ordered
<1> QED BY <1>2, <1>6, <1>8, <1>9, <1>10, <1>11, <1>12 DEF Sound, Service, IsTurned, t

\* The caravan u is elsewhere, or at home elsewhere.
IsSettled(s, r, u) ==
    /\ r \in State
    /\ r.route = s.route /\ r.carrier = s.carrier /\ r.behind = s.behind
    /\ r.serves = s.serves /\ r.owner = s.owner /\ r.fault = s.fault
    /\ \A v \in Units : v # u => r.home[v] = s.home[v] /\ r.at[v] = s.at[v]
    /\ r.home[u] \in Cities /\ Alive(r, u)

\* A caravan that is not dead goes where its route allows it to be.
LEMMA SettledKeeps ==
    ASSUME NEW s, NEW W, NEW C, Sound(s, W, C), NEW u \in Units, NEW r, IsSettled(s, r, u),
           s.at[u] # Dead,
           s.fault = "none" /\ s.serves[u] # NoRoute
             => s.owner[s.serves[u][1]] = s.owner[r.home[u]]
    PROVE  Sound(r, W, C)
<1>1. s \in State /\ Trades(s) /\ (s.fault = "none" => Service(s, W, C))
  BY DEF Sound
<1>2. Trades(r)
  BY <1>1, TradesKept DEF IsSettled
<1>3. ASSUME r.fault = "none" PROVE Service(r, W, C)
  <2>1. /\ Pointers(s) /\ Marked(s, W) /\ Housed(s) /\ Loyal(s, C) /\ Apart(s, C) /\ Ordered(s)
        /\ s.fault = "none"
    BY <1>1, <1>3 DEF IsSettled, Service
  <2>2. \A v \in Units : v # u => (Alive(r, v) <=> Alive(s, v))
    BY DEF IsSettled, Alive
  <2>3. Pointers(r) /\ Housed(r)
    BY <2>1, <2>2 DEF Pointers, Housed, IsSettled
  <2>4. Marked(r, W)
    <3>1. s.carrier \in [Routes -> Units \cup {NoUnit}]
      BY <1>1, StateFields
    <3> QED BY <2>1, <3>1 DEF Marked, IsSettled
  <2>5. Loyal(r, C)
    <3>1. ASSUME NEW v \in Units, s.serves[v] # NoRoute, s.serves[v][1] \notin C,
                 r.home[v] \notin C
          PROVE  s.owner[s.serves[v][1]] = s.owner[r.home[v]]
      <4>1. CASE v = u
        BY <2>1, <3>1, <4>1
      <4>2. CASE v # u
        BY <2>1, <3>1, <4>2 DEF IsSettled, Loyal, UnitOwner
      <4> QED BY <4>1, <4>2
    <3> QED BY <3>1 DEF IsSettled, Loyal, UnitOwner
  <2>6. Apart(r, C) /\ Ordered(r)
    BY <2>1 DEF Apart, Ordered, IsSettled, Present, SameOwner, CanTrade
  <2> QED BY <2>3, <2>4, <2>5, <2>6 DEF Service
<1> QED BY <1>2, <1>3 DEF Sound, IsSettled

LEMMA SettledIs ==
    ASSUME NEW s \in State, NEW u \in Units, NEW h \in Cities, NEW e \in Cities \cup {Road}
    PROVE  IsSettled(s, Placed(s, u, h, e), u) /\ Placed(s, u, h, e).home[u] = h
<1> DEFINE ho == [s.home EXCEPT ![u] = h]
           a == [s.at EXCEPT ![u] = e]
           r == Placed(s, u, h, e)
<1>1. r = [s EXCEPT !.home = ho, !.at = a]
  BY DEF Placed
<1>2. /\ ho \in [Units -> Cities \cup {NoCity}] /\ a \in [Units -> Places]
      /\ ho[u] = h /\ a[u] = e /\ \A v \in Units : v # u => ho[v] = s.home[v] /\ a[v] = s.at[v]
  BY StateFields DEF Places
<1> HIDE DEF ho, a, r
<1>3. /\ r \in State /\ r.route = s.route /\ r.carrier = s.carrier /\ r.behind = s.behind
      /\ r.serves = s.serves /\ r.owner = s.owner /\ r.fault = s.fault
      /\ r.home = ho /\ r.at = a
  BY <1>1, <1>2 DEF State
<1> QED BY <1>2, <1>3 DEF IsSettled, Alive, r

LEMMA ArrivedKeeps ==
    ASSUME NEW t, Sound(t, {}, {}), NEW u \in Units, NEW r \in Routes, NEW h \in Cities,
           t.home[u] = h, NEW e, NEW x \in Arrived(t, u, r, h, e)
    PROVE  Sound(x, {}, {})
<1>1. Sound(t, {u}, {})
  BY MoreExceptions
<1>2. r[1] \in Cities /\ r[2] \in Cities
  BY BackFacts
<1>3. CASE x \in UnitEstablished(t, u, r[1], r[2])
  BY <1>1, <1>2, <1>3, UnitEstablishedKeeps
<1>4. CASE x = t
  BY <1>4
<1>5. CASE x = Released(t, {u})
  BY <1>5, ReleasedKeeps
<1>6. CASE x \in UnitEstablished(t, u, h, e) /\ e = r[2]
  BY <1>1, <1>2, <1>6, UnitEstablishedKeeps
<1>7. \/ x \in UnitEstablished(t, u, r[1], r[2])
      \/ x = t \/ x = Released(t, {u})
      \/ x \in UnitEstablished(t, u, h, e) /\ e = r[2]
  BY DEF Arrived
<1> QED BY <1>3, <1>4, <1>5, <1>6, <1>7

\* execute_orders of a caravan with a route
LEMMA OrdersExecutedKeeps ==
    ASSUME NEW s, Sound(s, {}, {}), NEW u \in Units, s.at[u] # Dead, s.home[u] \in Cities,
           s.serves[u] \in Routes, NEW x \in OrdersExecuted(s, u)
    PROVE  Sound(x, {}, {})
<1> DEFINE r == s.serves[u]
           T(h, e) == Placed(s, u, h, e)
           E == {y \in Cities : s.owner[y] # Nobody} \cup {Road}
<1>1. OrdersExecuted(s, u)
        = UNION {Arrived(T(h, e), u, r, h, e) : h \in {s.home[u], r[1]}, e \in E}
  BY DEF OrdersExecuted
<1>2. PICK h \in {s.home[u], r[1]}, e \in E : x \in Arrived(T(h, e), u, r, h, e)
  BY <1>1
<1>3. h \in Cities /\ e \in Cities \cup {Road} /\ s \in State
  BY <1>2, BackFacts DEF Sound
<1>4. IsSettled(s, T(h, e), u) /\ T(h, e).home[u] = h
  BY <1>3, SettledIs
<1>6. s.fault = "none" => s.owner[r[1]] = s.owner[h]
  <2>1. r # NoRoute
    BY NoRouteIsNone
  <2>2. s.fault = "none" => s.owner[r[1]] = UnitOwner(s, u)
    BY <2>1 DEF Sound, Service, Loyal
  <2> QED BY <2>2 DEF UnitOwner
<1>7. Sound(T(h, e), {}, {})
  BY <1>4, <1>6, SettledKeeps
<1> QED BY <1>2, <1>3, <1>4, <1>7, ArrivedKeeps

\* The caravan u takes the route q.
IsBegun(s, b, u, q) ==
    /\ b \in State /\ Still(s, b) /\ b.behind = s.behind /\ b.fault = s.fault
    /\ b.route = [s.route EXCEPT ![q] = WithCaravan(@)]
    /\ b.carrier = [s.carrier EXCEPT ![q] = u]
    /\ b.serves = [s.serves EXCEPT ![u] = q]

\* A route that a living caravan of its player may take
Free(s, u, q) ==
    /\ s.route[q] \notin {Absent, Established} /\ s.carrier[q] = NoUnit
    /\ s.at[u] \in Cities \cup {Road} /\ s.home[u] \in Cities
    /\ s.owner[q[1]] = UnitOwner(s, u)

\* The route that it leaves may still point to it.
LEMMA BegunKeeps ==
    ASSUME NEW s, Sound(s, {}, {}), NEW u \in Units, NEW q \in Routes, Free(s, u, q),
           NEW b, IsBegun(s, b, u, q), NEW W, s.serves[u] # NoRoute => u \in W
    PROVE  Sound(b, W, {})
<1>1. /\ s \in State /\ Trades(s) /\ (s.fault = "none" => Service(s, {}, {}))
      /\ b \in State /\ u # NoUnit /\ q # NoRoute
  BY NoRouteIsNone DEF Sound, IsBegun
<1>2. s.route[q] \in Statuses /\ s.route[q] \notin {Absent, Established}
  BY <1>1, StateFields DEF Free
<1>3. /\ \A x \in Routes : b.route[x] = IF x = q THEN WithCaravan(s.route[q]) ELSE s.route[x]
      /\ \A x \in Routes : b.carrier[x] = IF x = q THEN u ELSE s.carrier[x]
      /\ \A v \in Units : b.serves[v] = IF v = u THEN q ELSE s.serves[v]
      /\ WithCaravan(s.route[q]) \in {InRoute, PlannedInRoute}
  BY <1>1, <1>2, StateFields, WithCaravanIs DEF IsBegun
<1>4. Trades(b)
  <2>1. \A x \in Routes : b.route[x] = Established => s.route[x] = Established
    BY <1>3, StatusesDiffer
  <2> QED BY <1>1, <2>1, TradesKept DEF IsBegun
<1>5. ASSUME b.fault = "none" PROVE Service(b, W, {})
  <2>1. /\ Pointers(s) /\ Marked(s, {}) /\ Housed(s) /\ Loyal(s, {}) /\ Apart(s, {})
        /\ Ordered(s)
    BY <1>1, <1>5 DEF IsBegun, Service
  <2>2. /\ b.at = s.at /\ b.home = s.home /\ b.owner = s.owner
        /\ \A v \in Units : Alive(b, v) <=> Alive(s, v)
        /\ \A x \in Routes : SameOwner(b, x) <=> SameOwner(s, x)
        /\ \A c, d \in Cities : CanTrade(b, c, d) <=> CanTrade(s, c, d)
    BY DEF IsBegun, Still, Alive, SameOwner, CanTrade
  <2>3. Pointers(b)
    <3>1. ASSUME NEW v \in Units, v # u, s.serves[v] # NoRoute
          PROVE  /\ Alive(b, v) /\ b.carrier[s.serves[v]] = v
                 /\ b.route[s.serves[v]] \in {InRoute, PlannedInRoute}
      <4>1. /\ Alive(s, v) /\ s.carrier[s.serves[v]] = v /\ v # NoUnit
            /\ s.route[s.serves[v]] \in {InRoute, PlannedInRoute} /\ s.serves[v] \in Routes
        BY <1>1, <2>1, <3>1, StateFields, NoRouteIsNone DEF Pointers
      <4>2. s.serves[v] # q
        BY <4>1 DEF Free
      <4> QED BY <1>3, <2>2, <4>1, <4>2
    <3>2. Alive(b, u)
      BY <2>2 DEF Alive, Free
    <3> QED BY <1>3, <3>1, <3>2 DEF Pointers
  <2>4. Marked(b, W)
    <3>1. ASSUME NEW x \in Routes, x # q, s.carrier[x] # NoUnit
          PROVE  /\ b.route[x] \in {InRoute, PlannedInRoute}
                 /\ s.carrier[x] \in W \/ b.at[s.carrier[x]] = Dead \/ b.serves[s.carrier[x]] = x
      <4>1. /\ s.route[x] \in {InRoute, PlannedInRoute} /\ s.carrier[x] \in Units
            /\ s.at[s.carrier[x]] = Dead \/ s.serves[s.carrier[x]] = x
        BY <1>1, <2>1, <3>1, StateFields DEF Marked
      <4>2. CASE s.carrier[x] = u
        <5>1. s.at[u] # Dead
          BY PlacesDiffer DEF Free
        <5>2. s.serves[u] # NoRoute
          BY <4>1, <4>2, <5>1, NoRouteIsNone
        <5> QED BY <1>3, <3>1, <4>1, <4>2, <5>2
      <4>3. CASE s.carrier[x] # u
        BY <1>3, <2>2, <3>1, <4>1, <4>3
      <4> QED BY <4>2, <4>3
    <3> QED BY <1>3, <3>1 DEF Marked
  <2>5. Housed(b)
    BY <2>1, <2>2 DEF Housed
  <2>6. Loyal(b, {})
    BY <1>3, <2>1, <2>2 DEF Loyal, UnitOwner, Free
  <2>7. Apart(b, {})
    <3>1. \A x \in Routes : /\ Present(b, x) <=> Present(s, x)
                            /\ b.route[x] # Established <=> s.route[x] # Established
      BY <1>2, <1>3, StatusesDiffer DEF Present
    <3>2. \A x \in Routes : Back(x) \in Routes /\ x[1] \in Cities /\ x[2] \in Cities
      BY BackFacts
    <3> QED BY <2>1, <2>2, <3>1, <3>2 DEF Apart
  <2>8. Ordered(b)
    <3>1. \A x \in Routes : Back(x) \in Routes /\ (Present(b, x) => Present(s, x))
      BY <1>2, <1>3, BackFacts DEF Present
    <3> QED BY <2>1, <3>1 DEF Ordered, IsBegun
  <2> QED BY <2>3, <2>4, <2>5, <2>6, <2>7, <2>8 DEF Service
<1> QED BY <1>1, <1>4, <1>5 DEF Sound

LEMMA LeftKeeps ==
    ASSUME NEW s, NEW W, NEW C, Sound(s, W, C), NEW U \in SUBSET Units,
           NEW r, IsReleased(s, r, U)
    PROVE  Sound(r, W, C)
<1>1. s \in State /\ Trades(s) /\ (s.fault = "none" => Service(s, W, C))
  BY DEF Sound
<1>2. Trades(r)
  <2>1. \A x \in Routes : r.route[x] = Established => s.route[x] = Established
    BY StatusesDiffer DEF IsReleased
  <2> QED BY <1>1, <2>1, TradesKept DEF IsReleased
<1>3. r.fault = "none" => Service(r, W, C)
  BY <1>1, ReleasedService DEF IsReleased
<1> QED BY <1>2, <1>3 DEF Sound, IsReleased

\* The caravan trades at once (begun), or leaves its route and has its orders cancelled
\* (halted) or begins them (off).
IsTakenAs(s, u, q, begun, halted, off) ==
    /\ IsBegun(s, begun, u, q) /\ IsReleased(s, halted, {u}) /\ IsBegun(halted, off, u, q)
    /\ Free(halted, u, q) /\ halted.serves[u] = NoRoute
    /\ off.at[u] # Dead /\ off.home[u] \in Cities /\ off.serves[u] = q /\ begun.home = s.home
    /\ TakenAs(s, u, q) =
         IF s.home[u] = q[1] /\ s.at[u] = q[2] THEN UnitEstablished(begun, u, q[1], q[2])
         ELSE {halted} \cup OrdersExecuted(off, u)

LEMMA TakenAsIs ==
    ASSUME NEW s, Sound(s, {}, {}), s.fault = "none", NEW u \in Units, NEW q \in Routes,
           Free(s, u, q)
    PROVE  \E begun, halted, off : IsTakenAs(s, u, q, begun, halted, off)
<1> DEFINE t == [s EXCEPT !.carrier[q] = u]
           begun == [t EXCEPT !.serves[u] = q, !.route[q] = WithCaravan(@)]
           idle == Released(t, {u})
           halted == [idle EXCEPT !.carrier[q] = NoUnit]
           off == [idle EXCEPT !.serves[u] = q, !.route[q] = WithCaravan(@)]
           ca == [s.carrier EXCEPT ![q] = u]
<1>1. TakenAs(s, u, q) =
        IF s.home[u] = q[1] /\ s.at[u] = q[2] THEN UnitEstablished(begun, u, q[1], q[2])
        ELSE {halted} \cup OrdersExecuted(off, u)
  BY DEF TakenAs
<1>2. /\ s \in State /\ Trades(s) /\ Pointers(s) /\ Service(s, {}, {})
      /\ q[1] \in Cities /\ q[2] \in Cities /\ u # NoUnit /\ q # NoRoute
  BY BackFacts, NoRouteIsNone DEF Sound, Service
<1>3. /\ t = [s EXCEPT !.carrier = ca] /\ ca \in [Routes -> Units \cup {NoUnit}]
      /\ \A y \in Routes : ca[y] = IF y = q THEN u ELSE s.carrier[y]
  BY <1>2, StateFields
<1>4. WithCaravan(s.route[q]) \in Statuses
  <2>1. s.route[q] \in Statuses /\ s.route[q] \notin {Absent, Established}
    BY <1>2, StateFields DEF Free
  <2> QED BY <2>1, WithCaravanIs DEF Statuses
<1> DEFINE rt == [s.route EXCEPT ![q] = WithCaravan(@)]
           sv == [s.serves EXCEPT ![u] = q]
<1>5. /\ rt \in [Routes -> Statuses] /\ sv \in [Units -> Routes \cup {NoRoute}]
  BY <1>2, <1>4, StateFields
<1>6. begun = [s EXCEPT !.route = rt, !.carrier = ca, !.serves = sv]
  BY <1>2, <1>3 DEF State
<1> HIDE DEF t, begun, idle, halted, off, ca, rt, sv
<1>7. IsBegun(s, begun, u, q)
  <2>1. /\ begun \in State /\ Still(s, begun) /\ begun.behind = s.behind
        /\ begun.fault = s.fault /\ begun.route = rt /\ begun.carrier = ca /\ begun.serves = sv
    BY <1>2, <1>3, <1>5, <1>6 DEF State, Still
  <2> QED BY <2>1 DEF IsBegun, rt, ca, sv
<1>8. /\ t \in State /\ Still(s, t) /\ t.behind = s.behind /\ t.fault = s.fault
      /\ t.route = s.route /\ t.carrier = ca /\ t.serves = s.serves
  BY <1>2, <1>3 DEF State, Still
<1>9. Pointers(t) /\ \A v \in Units : s.serves[v] # q
  <2>1. ASSUME NEW v \in Units, s.serves[v] # NoRoute
        PROVE  /\ Alive(t, v) /\ t.carrier[s.serves[v]] = v /\ s.serves[v] # q
               /\ t.route[s.serves[v]] \in {InRoute, PlannedInRoute}
    <3>1. /\ Alive(s, v) /\ s.carrier[s.serves[v]] = v /\ v # NoUnit
          /\ s.route[s.serves[v]] \in {InRoute, PlannedInRoute} /\ s.serves[v] \in Routes
      BY <1>2, <2>1, StateFields, NoRouteIsNone DEF Pointers
    <3>2. s.serves[v] # q
      BY <3>1 DEF Free
    <3> QED BY <1>3, <1>8, <3>1, <3>2 DEF Alive, Still
  <2> QED BY <1>2, <1>8, <2>1 DEF Pointers
<1>10. IsReleased(t, idle, {u})
  BY <1>8, <1>9, ReleasedIs DEF idle
<1>11. LeftBy(t, {u}) = LeftBy(s, {u}) /\ q \notin LeftBy(s, {u})
  BY <1>2, <1>8, <1>9 DEF LeftBy
<1> DEFINE cb == [idle.carrier EXCEPT ![q] = NoUnit]
           ro == [idle.route EXCEPT ![q] = WithCaravan(@)]
           so == [idle.serves EXCEPT ![u] = q]
<1>12. /\ idle \in State /\ idle.carrier[q] = u /\ idle.route[q] = s.route[q]
       /\ idle.at = s.at /\ idle.home = s.home /\ idle.owner = s.owner
  BY <1>3, <1>8, <1>10, <1>11 DEF IsReleased, Still
<1>13. /\ cb \in [Routes -> Units \cup {NoUnit}] /\ ro \in [Routes -> Statuses]
       /\ so \in [Units -> Routes \cup {NoRoute}]
       /\ \A y \in Routes : cb[y] = IF y = q THEN NoUnit ELSE idle.carrier[y]
       /\ [cb EXCEPT ![q] = u] = idle.carrier
  <2>1. /\ idle.carrier \in [Routes -> Units \cup {NoUnit}] /\ idle.route \in [Routes -> Statuses]
        /\ idle.serves \in [Units -> Routes \cup {NoRoute}]
    BY <1>12, StateFields
  <2>2. /\ ro \in [Routes -> Statuses] /\ so \in [Units -> Routes \cup {NoRoute}]
    BY <1>4, <1>12, <2>1
  <2>3. /\ cb \in [Routes -> Units \cup {NoUnit}]
        /\ \A y \in Routes : cb[y] = IF y = q THEN NoUnit ELSE idle.carrier[y]
    BY <2>1
  <2>4. [cb EXCEPT ![q] = u] = idle.carrier
    <3> HIDE DEF cb
    <3> DEFINE g == [cb EXCEPT ![q] = u]
    <3>1. g \in [Routes -> Units \cup {NoUnit}] /\ \A y \in Routes : g[y] = IF y = q THEN u ELSE cb[y]
      BY <2>3
    <3> HIDE DEF g
    <3>2. g = idle.carrier
      BY <1>12, <2>1, <2>3, <3>1
    <3> QED BY <3>2 DEF g
  <2> QED BY <2>2, <2>3, <2>4
<1>14. /\ halted = [idle EXCEPT !.carrier = cb]
       /\ off = [idle EXCEPT !.route = ro, !.serves = so]
  BY DEF halted, off
<1> HIDE DEF cb, ro, so
<1>15. /\ halted \in State /\ Still(idle, halted) /\ halted.behind = idle.behind
       /\ halted.fault = idle.fault /\ halted.route = idle.route /\ halted.carrier = cb
       /\ halted.serves = idle.serves
  BY <1>12, <1>13, <1>14 DEF State, Still
<1>16. /\ off \in State /\ Still(idle, off) /\ off.behind = idle.behind
       /\ off.fault = idle.fault /\ off.route = ro /\ off.carrier = idle.carrier
       /\ off.serves = so
  BY <1>12, <1>13, <1>14 DEF State, Still
<1>17. IsReleased(s, halted, {u})
  <2>1. \A y \in Routes : halted.carrier[y] = IF y \in LeftBy(s, {u}) THEN NoUnit
                                              ELSE s.carrier[y]
    <3>1. \A y \in Routes : idle.carrier[y] = IF y \in LeftBy(s, {u}) THEN NoUnit
                                              ELSE IF y = q THEN u ELSE s.carrier[y]
      <4>1. \A y \in Routes : idle.carrier[y] = IF y \in LeftBy(t, {u}) THEN NoUnit
                                                ELSE t.carrier[y]
        BY <1>10 DEF IsReleased
      <4>2. \A y \in Routes : t.carrier[y] = IF y = q THEN u ELSE s.carrier[y]
        BY <1>3, <1>8
      <4> QED BY <1>11, <4>1, <4>2
    <3>2. \A y \in Routes : halted.carrier[y] = IF y = q THEN NoUnit ELSE idle.carrier[y]
      BY <1>13, <1>15
    <3>3. s.carrier[q] = NoUnit
      BY DEF Free
    <3> QED BY <1>11, <3>1, <3>2, <3>3
  <2>2. \A y \in Routes :
          halted.route[y] = IF y \notin LeftBy(s, {u}) THEN s.route[y]
                            ELSE IF s.route[y] = PlannedInRoute THEN Planned ELSE Absent
    BY <1>8, <1>10, <1>11, <1>15 DEF IsReleased
  <2>3. /\ \A v \in Units : halted.serves[v] = IF v \in {u} THEN NoRoute ELSE s.serves[v]
        /\ Still(s, halted) /\ halted.behind \subseteq s.behind
        /\ halted.fault = "none" => s.fault = "none"
    BY <1>8, <1>10, <1>15 DEF IsReleased, Still
  <2>4. YoungerKept(s, halted)
    BY <1>8, <1>10, <1>15 DEF IsReleased, YoungerKept, Present
  <2> QED BY <1>15, <2>1, <2>2, <2>3, <2>4 DEF IsReleased
<1>18. IsBegun(halted, off, u, q)
  <2>1. /\ off.route = [halted.route EXCEPT ![q] = WithCaravan(@)]
        /\ off.serves = [halted.serves EXCEPT ![u] = q]
    BY <1>15, <1>16 DEF ro, so
  <2>2. off.carrier = [halted.carrier EXCEPT ![q] = u]
    <3>1. [cb EXCEPT ![q] = u] = idle.carrier
      BY <1>13
    <3> QED BY <1>15, <1>16, <3>1
  <2>3. Still(halted, off) /\ off.behind = halted.behind /\ off.fault = halted.fault
    BY <1>15, <1>16 DEF Still
  <2> QED BY <1>16, <2>1, <2>2, <2>3 DEF IsBegun
<1>19. Free(halted, u, q) /\ halted.serves[u] = NoRoute
  <2>1. halted.serves[u] = NoRoute /\ halted.carrier[q] = NoUnit
    BY <1>11, <1>17 DEF IsReleased, Free
  <2>2. halted.route[q] = s.route[q] /\ halted.at = s.at /\ halted.home = s.home
        /\ halted.owner = s.owner
    BY <1>12, <1>15 DEF Still
  <2> QED BY <2>1, <2>2 DEF Free, UnitOwner
<1>20. off.at[u] # Dead /\ off.home[u] \in Cities /\ off.serves[u] = q /\ begun.home = s.home
  <2>1. so[u] = q
    BY <1>12, StateFields DEF so
  <2>2. begun.home = s.home
    BY <1>7 DEF IsBegun, Still
  <2> QED BY <1>12, <1>16, <2>1, <2>2, PlacesDiffer DEF Free, Still
<1>21. IsTakenAs(s, u, q, begun, halted, off)
  BY <1>1, <1>7, <1>17, <1>18, <1>19, <1>20 DEF IsTakenAs
<1> QED BY <1>21

\* handle_unit_trade_route with a route that may be taken
LEMMA TakenAsKeeps ==
    ASSUME NEW s, Sound(s, {}, {}), s.fault = "none", NEW u \in Units, NEW q \in Routes,
           Free(s, u, q), NEW x \in TakenAs(s, u, q)
    PROVE  Sound(x, {}, {})
<1>1. PICK begun, halted, off : IsTakenAs(s, u, q, begun, halted, off)
  BY TakenAsIs
<1>2. q[1] \in Cities /\ q[2] \in Cities
  BY BackFacts
<1>3. CASE s.home[u] = q[1] /\ s.at[u] = q[2]
  <2>1. Sound(begun, {u}, {}) /\ begun.home[u] = q[1]
    BY <1>1, <1>3, BegunKeeps DEF IsTakenAs
  <2>2. x \in UnitEstablished(begun, u, q[1], q[2])
    BY <1>1, <1>3 DEF IsTakenAs
  <2> QED BY <1>2, <2>1, <2>2, UnitEstablishedKeeps
<1>4. CASE ~(s.home[u] = q[1] /\ s.at[u] = q[2])
  <2>1. x = halted \/ x \in OrdersExecuted(off, u)
    BY <1>1, <1>4 DEF IsTakenAs
  <2>2. Sound(halted, {}, {})
    BY <1>1, LeftKeeps DEF IsTakenAs
  <2>3. Sound(off, {}, {})
    BY <1>1, <2>2, BegunKeeps DEF IsTakenAs
  <2>4. off.at[u] # Dead /\ off.home[u] \in Cities /\ off.serves[u] \in Routes
    BY <1>1 DEF IsTakenAs
  <2> QED BY <2>1, <2>2, <2>3, <2>4, OrdersExecutedKeeps
<1> QED BY <1>3, <1>4

LEMMA TakenKeeps ==
    ASSUME NEW s, Sound(s, {}, {}), s.fault = "none", NEW u \in Units, NEW r \in Routes,
           Free(s, u, r), NEW x \in Taken(s, u, r)
    PROVE  Sound(x, {}, {})
<1>1. PICK way \in Ways(s, r) : x \in TakenAs(way[1], u, way[2])
  BY DEF Taken
<1>2. CASE way = <<s, r>>
  BY <1>1, <1>2, TakenAsKeeps
<1>3. CASE way = <<Turned(s, {r}), Back(r)>> /\ SameOwner(s, r)
  <2> DEFINE t == Turned(s, {r})
  <2>1. Turnable(s, {r})
    BY <1>3 DEF Free, Turnable
  <2>2. Sound(t, {}, {}) /\ IsTurned(s, t, {r})
    BY <2>1, TurnedKeeps, TurnedIs DEF Sound
  <2> HIDE DEF t
  <2>3. Back(r) \in Routes /\ Back(r)[1] = r[2] /\ Back(Back(r)) = r
    BY BackFacts
  <2>4. Free(t, u, Back(r)) /\ t.fault = "none"
    <3>1. t.route[Back(r)] = s.route[r] /\ t.carrier[Back(r)] = s.carrier[r]
      BY <2>2, <2>3 DEF IsTurned, Swapped
    <3> QED BY <1>3, <2>2, <2>3, <3>1 DEF IsTurned, Still, Free, SameOwner, UnitOwner
  <2>5. x \in TakenAs(t, u, Back(r))
    BY <1>1, <1>3 DEF t
  <2> QED BY <2>2, <2>3, <2>4, <2>5, TakenAsKeeps
<1>4. way = <<s, r>> \/ (way = <<Turned(s, {r}), Back(r)>> /\ SameOwner(s, r))
  BY <1>1 DEF Ways
<1> QED BY <1>2, <1>3, <1>4

(***************************************************************************)
(* 9. The requests, and the turns of the game.                             *)
(***************************************************************************)

\* Between the handlers there are no exceptions.
RouteInv == Sound(Now, {}, {})

LEMMA StepsTo ==
    ASSUME NEW n, Sound(n, {}, {}), Become(n)
    PROVE  RouteInv'
<1>1. n \in State
  BY DEF Sound
<1>2. Now' = n
  BY <1>1 DEF Become, Now, State
<1> QED BY <1>2 DEF RouteInv

\* What RouteInv says of the variables while no fault has happened
LEMMA NowFacts ==
    ASSUME RouteInv, fault = "none"
    PROVE  /\ Now \in State /\ Trades(Now) /\ Now.fault = "none"
           /\ Pointers(Now) /\ Marked(Now, {}) /\ Housed(Now) /\ Loyal(Now, {}) /\ Apart(Now, {})
           /\ Ordered(Now)
           /\ Now.route = route /\ Now.carrier = carrier /\ Now.serves = serves
           /\ Now.home = home /\ Now.at = at /\ Now.owner = owner /\ Now.behind = behind
           /\ \A u \in Units : /\ Alive(Now, u) => home[u] \in Cities /\ at[u] # Dead
                               /\ serves[u] \in Routes \cup {NoRoute}
                               /\ serves[u] # NoRoute => Alive(Now, u)
           /\ \A r \in Routes : carrier[r] # NoUnit => route[r] \in {InRoute, PlannedInRoute}
<1>1. /\ Now.fault = fault /\ Now.route = route /\ Now.carrier = carrier /\ Now.serves = serves
      /\ Now.home = home /\ Now.at = at /\ Now.owner = owner /\ Now.behind = behind
  BY DEF Now
<1>2. /\ Now \in State /\ Trades(Now) /\ Pointers(Now) /\ Marked(Now, {}) /\ Housed(Now)
      /\ Loyal(Now, {}) /\ Apart(Now, {}) /\ Ordered(Now)
  BY <1>1 DEF RouteInv, Sound, Service
<1>3. \A u \in Units : /\ Alive(Now, u) => home[u] \in Cities /\ at[u] # Dead
                       /\ serves[u] \in Routes \cup {NoRoute}
                       /\ serves[u] # NoRoute => Alive(Now, u)
  BY <1>1, <1>2, StateFields, PlacesDiffer DEF Housed, Pointers, Alive
<1>4. \A r \in Routes : carrier[r] # NoUnit => route[r] \in {InRoute, PlannedInRoute}
  BY <1>1, <1>2 DEF Marked
<1> QED BY <1>1, <1>2, <1>3, <1>4

LEMMA PlanStep ==
    ASSUME RouteInv, NEW p \in Players, NEW r \in Asked, Plan(p, r[1], r[2])
    PROVE  RouteInv'
<1>1. /\ r[1] \in Cities /\ r[2] \in Cities /\ r[1] # r[2]
  BY RouteConstants
<1>2. /\ Found(Now, r[1], r[2]) = {} /\ CanTrade(Now, r[1], r[2])
      /\ Become(Added(Now, r[1], r[2], Planned))
  BY DEF Plan
<1>3. Planned \in Statuses /\ Planned # Established
  BY StatusesDiffer DEF Statuses
<1>4. Sound(Added(Now, r[1], r[2], Planned), {}, {})
  BY <1>1, <1>2, <1>3, AddedKeeps DEF RouteInv
<1> QED BY <1>2, <1>4, StepsTo

LEMMA UnplanStep ==
    ASSUME RouteInv, NEW p \in Players, NEW r \in Asked, Unplan(p, r[1], r[2])
    PROVE  RouteInv'
<1>1. /\ r[1] \in Cities /\ r[2] \in Cities /\ r[1] # r[2]
  BY RouteConstants
<1>2. Found(Now, r[1], r[2]) \in SUBSET Routes
  BY <1>1, FoundFacts DEF RouteInv, Sound
<1>3. Sound(Removed(Now, Found(Now, r[1], r[2])), {}, {})
  BY <1>2, RemovedKeeps DEF RouteInv
<1> QED BY <1>3, StepsTo DEF Unplan

LEMMA ServeStep ==
    ASSUME RouteInv, NEW p \in Players, NEW u \in Units, NEW r \in Asked,
           Serve(p, u, r[1], r[2])
    PROVE  RouteInv'
<1> DEFINE c == r[1]
           d == r[2]
<1>1. /\ c \in Cities /\ d \in Cities /\ c # d
  BY RouteConstants
<1>2. /\ fault = "none" /\ Alive(Now, u) /\ UnitOwner(Now, u) = p /\ owner[c] = p
  BY DEF Serve, Running
<1>3. /\ Now \in State /\ Trades(Now) /\ Now.fault = "none" /\ Now.owner = owner
      /\ Now.at = at /\ Now.home = home /\ Now.route = route /\ Now.carrier = carrier
      /\ home[u] \in Cities /\ at[u] \in Cities \cup {Road}
      /\ \A x \in Routes : carrier[x] # NoUnit => route[x] \in {InRoute, PlannedInRoute}
  BY <1>2, NowFacts DEF Alive
<1>4. CASE Found(Now, c, d) = {}
  <2> DEFINE t == Added(Now, c, d, Made)
  <2>1. CanTrade(Now, c, d) /\ \E s \in Taken(t, u, <<c, d>>) : Become(s)
    BY <1>4 DEF Serve
  <2>2. Made \in Statuses /\ Made # Established
    BY StatusesDiffer DEF Statuses
  <2>3. Sound(t, {}, {}) /\ IsAdded(Now, t, c, d, Made)
    BY <1>1, <1>3, <1>4, <2>1, <2>2, AddedKeeps, AddedIs DEF RouteInv
  <2> HIDE DEF t
  <2>4. <<c, d>> \in Routes
    BY <1>1, PairFacts
  <2>5. t.route[<<c, d>>] = Made /\ t.carrier[<<c, d>>] = NoUnit
    BY <1>3, <2>3, <2>4, StateFields DEF IsAdded
  <2>6. Free(t, u, <<c, d>>) /\ t.fault = "none"
    BY <1>2, <1>3, <2>3, <2>5, StatusesDiffer DEF IsAdded, Still, Free, UnitOwner
  <2> QED BY <2>1, <2>3, <2>4, <2>6, TakenKeeps, StepsTo
<1>5. CASE Found(Now, c, d) # {}
  <2>1. PICK x \in Found(Now, c, d) :
          route[x] \in {Made, Planned} /\ \E s \in Taken(Now, u, x) : Become(s)
    BY <1>5 DEF Serve
  <2>2. x \in Routes /\ Answers(Now, x, c, d)
    BY <1>1, <1>3, <2>1, FoundFacts
  <2>3. Free(Now, u, x)
    <3>1. Now.carrier[x] = NoUnit /\ Now.route[x] \notin {Absent, Established}
      BY <1>3, <2>1, <2>2, StatusesDiffer
    <3>2. owner[x[1]] = p
      BY <1>2, <1>3, <2>1, <2>2, StatusesDiffer DEF Answers, SameOwner
    <3> QED BY <1>2, <1>3, <3>1, <3>2 DEF Free
  <2> QED BY <1>3, <2>1, <2>2, <2>3, TakenKeeps, StepsTo DEF RouteInv
<1> QED BY <1>4, <1>5

\* The choice of the server: after the turns it takes a route that is free.
Chosen(p, u, T, r) ==
    /\ Turnable(Now, T) /\ IsTurned(Now, Turned(Now, T), T)
    /\ Sound(Turned(Now, T), {}, {}) /\ Turned(Now, T).fault = "none"
    /\ r \in Routes /\ Free(Turned(Now, T), u, r)
    /\ \E n \in TakenAs(Turned(Now, T), u, r) : Become(n)

LEMMA ServerChooses ==
    ASSUME RouteInv, NEW p \in Players, NEW u \in Units, ServeAny(p, u)
    PROVE  \E T, r : Chosen(p, u, T, r)
<1>1. /\ fault = "none" /\ Alive(Now, u) /\ UnitOwner(Now, u) = p
      /\ \E T \in SUBSET {r \in FreeRoutes(Now, p) : SameOwner(Now, r)} :
           \E r \in Candidates(Turned(Now, T), p, u) :
             \E n \in TakenAs(Turned(Now, T), u, r) : Become(n)
  BY DEF ServeAny, Running
<1>2. PICK T \in SUBSET {r \in FreeRoutes(Now, p) : SameOwner(Now, r)} :
        \E r \in Candidates(Turned(Now, T), p, u) :
          \E n \in TakenAs(Turned(Now, T), u, r) : Become(n)
  BY <1>1
<1> DEFINE t == Turned(Now, T)
<1>3. PICK r \in Candidates(t, p, u) : \E n \in TakenAs(t, u, r) : Become(n)
  BY <1>2
<1>4. /\ Now.fault = "none" /\ Now.owner = owner /\ Now.at = at /\ Now.home = home
      /\ home[u] \in Cities /\ at[u] \in Cities \cup {Road}
  BY <1>1, NowFacts DEF Alive
<1>5. Turnable(Now, T)
  BY <1>2 DEF FreeRoutes, Present, Turnable
<1>6. Sound(t, {}, {}) /\ IsTurned(Now, t, T)
  BY <1>4, <1>5, TurnedKeeps, TurnedIs DEF RouteInv, Sound, Turnable
<1> HIDE DEF t
<1>7. r \in FreeRoutes(t, p)
  BY DEF Candidates
<1>8. Free(t, u, r) /\ r \in Routes /\ t.fault = "none"
  BY <1>1, <1>4, <1>6, <1>7 DEF FreeRoutes, Free, Present, IsTurned, Still, UnitOwner
<1> QED BY <1>3, <1>5, <1>6, <1>8 DEF Chosen, t

LEMMA ServeAnyStep ==
    ASSUME RouteInv, NEW p \in Players, NEW u \in Units, ServeAny(p, u)
    PROVE  RouteInv'
<1>1. PICK T, r : Chosen(p, u, T, r)
  BY ServerChooses
<1>2. PICK n \in TakenAs(Turned(Now, T), u, r) : Become(n)
  BY <1>1 DEF Chosen
<1>3. Sound(n, {}, {})
  BY <1>1, <1>2, TakenAsKeeps DEF Chosen
<1> QED BY <1>2, <1>3, StepsTo

LEMMA SellStep ==
    ASSUME RouteInv, NEW u \in Units, NEW d \in Cities, Sell(u, d)
    PROVE  RouteInv'
<1>1. fault = "none" /\ Alive(Now, u)
  BY DEF Sell, Running
<1>2. home[u] \in Cities /\ Now.home = home
  BY <1>1, NowFacts
<1>3. Sound(Now, {u}, {})
  BY MoreExceptions DEF RouteInv
<1>4. ASSUME NEW s \in UnitEstablished(Now, u, home[u], d) PROVE Sound(s, {}, {})
  BY <1>2, <1>3, UnitEstablishedKeeps
<1> QED BY <1>4, StepsTo DEF Sell

LEMMA MoveStep ==
    ASSUME RouteInv, NEW u \in Units, NEW e \in Cities \cup {Road}, Move(u, e)
    PROVE  RouteInv'
<1> DEFINE t == Released(Now, {u})
           r == Placed(t, u, home[u], e)
<1>1. fault = "none" /\ Alive(Now, u) /\ Become(r)
  BY DEF Move, Running
<1>2. /\ Now \in State /\ Pointers(Now) /\ home[u] \in Cities /\ at[u] # Dead /\ Now.at = at
  BY <1>1, NowFacts
<1>3. Sound(t, {}, {}) /\ IsReleased(Now, t, {u})
  BY <1>2, ReleasedKeeps, ReleasedIs DEF RouteInv
<1> HIDE DEF t
<1>4. t \in State /\ t.at[u] # Dead /\ t.serves[u] = NoRoute
  BY <1>2, <1>3 DEF IsReleased, Still
<1>5. IsSettled(t, r, u)
  BY <1>2, <1>4, SettledIs
<1> HIDE DEF r
<1>6. Sound(r, {}, {})
  BY <1>3, <1>4, <1>5, SettledKeeps
<1> QED BY <1>1, <1>6, StepsTo

LEMMA RehomeStep ==
    ASSUME RouteInv, NEW u \in Units, Rehome(u)
    PROVE  RouteInv'
<1> DEFINE r == Placed(Now, u, at[u], at[u])
<1>1. /\ fault = "none" /\ at[u] \in Cities /\ owner[at[u]] = UnitOwner(Now, u) /\ Become(r)
  BY DEF Rehome, Running
<1>2. /\ Now \in State /\ Loyal(Now, {}) /\ Now.at = at /\ Now.serves = serves
      /\ Now.owner = owner
  BY <1>1, NowFacts
<1>3. IsSettled(Now, r, u) /\ r.home[u] = at[u] /\ Now.at[u] # Dead
  BY <1>1, <1>2, SettledIs, PlacesDiffer
<1> HIDE DEF r
<1>4. serves[u] # NoRoute => owner[serves[u][1]] = owner[at[u]]
  BY <1>1, <1>2 DEF Loyal
<1>5. Sound(r, {}, {})
  BY <1>2, <1>3, <1>4, SettledKeeps DEF RouteInv
<1> QED BY <1>1, <1>5, StepsTo

LEMMA ResetStep ==
    ASSUME RouteInv, NEW p \in Players, Reset(p)
    PROVE  RouteInv'
<1> DEFINE R == {r \in Routes : /\ Present(Now, r) /\ route[r] # Established
                                /\ \E c \in Ends(r) : owner[c] = p}
<1>1. Become(Removed(Now, R))
  BY DEF Reset
<1>2. R \in SUBSET Routes
  OBVIOUS
<1> HIDE DEF R
<1>3. Sound(Removed(Now, R), {}, {})
  BY <1>2, RemovedKeeps DEF RouteInv
<1> QED BY <1>1, <1>3, StepsTo

LEMMA TravelStep ==
    ASSUME RouteInv, NEW u \in Units, Travel(u)
    PROVE  RouteInv'
<1>1. /\ fault = "none" /\ Alive(Now, u) /\ serves[u] # NoRoute
      /\ \E s \in OrdersExecuted(Now, u) : Become(s)
  BY DEF Travel, Running
<1>2. /\ Now.at[u] # Dead /\ Now.home[u] \in Cities /\ Now.serves[u] \in Routes
  BY <1>1, NowFacts
<1> QED BY <1>1, <1>2, OrdersExecutedKeeps, StepsTo DEF RouteInv

LEMMA LoseStep ==
    ASSUME RouteInv, NEW u \in Units, Lose(u)
    PROVE  RouteInv'
<1>1. Sound(Wiped(Now, {u}), {} \ {u}, {})
  BY WipedKeeps DEF RouteInv
<1>2. {} \ {u} = {}
  OBVIOUS
<1> QED BY <1>1, <1>2, StepsTo DEF Lose

LEMMA BuildStep ==
    ASSUME RouteInv, NEW u \in Units, NEW c \in Cities, Build(u, c)
    PROVE  RouteInv'
<1> DEFINE r == Placed(Now, u, c, c)
<1>1. fault = "none" /\ at[u] = Unbuilt /\ Become(r)
  BY DEF Build, Running
<1>2. /\ Now \in State /\ Now.at = at /\ Now.serves = serves
      /\ serves[u] # NoRoute => Alive(Now, u)
  BY <1>1, NowFacts
<1>3. IsSettled(Now, r, u)
  BY <1>2, SettledIs
<1> HIDE DEF r
<1>4. serves[u] = NoRoute /\ at[u] # Dead
  BY <1>1, <1>2, PlacesDiffer DEF Alive
<1>5. Sound(r, {}, {})
  BY <1>2, <1>3, <1>4, SettledKeeps DEF RouteInv
<1> QED BY <1>1, <1>5, StepsTo

(***************************************************************************)
(* 10. Cities that are lost, and savegames.                                *)
(***************************************************************************)

\* What differs between the states s and z is the owner of c alone.
OthersOwned(s, z, c) ==
    /\ z \in State
    /\ z.route = s.route /\ z.carrier = s.carrier /\ z.behind = s.behind
    /\ z.serves = s.serves /\ z.home = s.home /\ z.at = s.at /\ z.fault = s.fault
    /\ \A d \in Cities \ {c} : z.owner[d] = s.owner[d]

LEMMA OwnerLost ==
    ASSUME NEW s, Sound(s, {}, {}), NEW c \in Cities, NEW z, OthersOwned(s, z, c)
    PROVE  Sound(z, {}, {c})
<1>1. s \in State /\ Trades(s) /\ (s.fault = "none" => Service(s, {}, {}))
  BY DEF Sound
<1>2. Trades(z)
  BY <1>1, TradesKept DEF OthersOwned
<1>3. ASSUME z.fault = "none" PROVE Service(z, {}, {c})
  <2>1. /\ Pointers(s) /\ Marked(s, {}) /\ Housed(s) /\ Loyal(s, {}) /\ Apart(s, {})
        /\ Ordered(s)
    BY <1>1, <1>3 DEF OthersOwned, Service
  <2>2. Pointers(z) /\ Marked(z, {}) /\ Housed(z) /\ Ordered(z)
    BY <2>1 DEF OthersOwned, Pointers, Marked, Housed, Alive, Ordered, Present
  <2>3. Loyal(z, {c})
    <3>1. ASSUME NEW u \in Units, s.serves[u] # NoRoute, s.serves[u][1] # c, s.home[u] # c
          PROVE  z.owner[s.serves[u][1]] = z.owner[s.home[u]]
      <4>1. s.owner[s.serves[u][1]] = s.owner[s.home[u]]
        BY <2>1, <3>1 DEF Loyal, UnitOwner
      <4>2. s.home[u] \in Cities /\ s.serves[u] \in Routes
        BY <1>1, <2>1, <3>1, StateFields DEF Pointers, Housed
      <4>3. s.serves[u][1] \in Cities
        BY <4>2, BackFacts
      <4> QED BY <3>1, <4>1, <4>2, <4>3 DEF OthersOwned
    <3> QED BY <3>1 DEF OthersOwned, Loyal, UnitOwner
  <2>4. Apart(z, {c})
    <3>1. ASSUME NEW r \in Routes, Ends(r) \cap {c} = {}, Present(z, r)
          PROVE  /\ SameOwner(z, r) => ~Present(z, Back(r))
                 /\ z.route[r] # Established => CanTrade(z, r[1], r[2])
      <4>1. z.owner[r[1]] = s.owner[r[1]] /\ z.owner[r[2]] = s.owner[r[2]]
        BY <3>1, BackFacts DEF OthersOwned, Ends
      <4>2. /\ SameOwner(s, r) => ~Present(s, Back(r))
            /\ s.route[r] # Established => CanTrade(s, r[1], r[2])
        BY <2>1, <3>1 DEF Apart, OthersOwned, Present
      <4> QED BY <4>1, <4>2 DEF OthersOwned, SameOwner, CanTrade, Present
    <3> QED BY <3>1 DEF Apart
  <2> QED BY <2>2, <2>3, <2>4 DEF Service
<1> QED BY <1>2, <1>3 DEF Sound, OthersOwned

\* No caravan and no plan of a city is left: its owner does not matter.
LEMMA OwnerForgotten ==
    ASSUME NEW s, NEW c \in Cities, Sound(s, {}, {c}),
           s.fault = "none" => \A u \in Units : Alive(s, u) => s.home[u] # c,
           \A r \in Routes : c \in Ends(r) => s.route[r] \in {Absent, Established}
    PROVE  Sound(s, {}, {})
<1>1. s \in State /\ Trades(s) /\ (s.fault = "none" => Service(s, {}, {c}))
  BY DEF Sound
<1>2. ASSUME s.fault = "none" PROVE Loyal(s, {}) /\ Apart(s, {})
  <2>1. Pointers(s) /\ Loyal(s, {c}) /\ Apart(s, {c})
    BY <1>1, <1>2 DEF Service
  <2>2. ASSUME NEW u \in Units, s.serves[u] # NoRoute
        PROVE  s.serves[u][1] # c /\ s.home[u] # c
    <3>1. /\ Alive(s, u) /\ s.serves[u] \in Routes
          /\ s.route[s.serves[u]] \in {InRoute, PlannedInRoute}
      BY <1>1, <2>1, <2>2, StateFields DEF Pointers
    <3>2. c \notin Ends(s.serves[u])
      BY <3>1, StatusesDiffer
    <3> QED BY <1>2, <3>1, <3>2 DEF Ends
  <2>3. Loyal(s, {})
    BY <2>1, <2>2 DEF Loyal
  <2>4. ASSUME NEW r \in Routes, Present(s, r)
        PROVE  /\ SameOwner(s, r) => ~Present(s, Back(r))
               /\ s.route[r] # Established => CanTrade(s, r[1], r[2])
    <3>1. CASE c \in Ends(r)
      <4>1. s.route[r] = Established /\ Back(r) \in Routes /\ c \in Ends(Back(r))
        BY <2>4, <3>1, BackFacts DEF Present
      <4>2. s.route[Back(r)] # Established
        BY <1>1, <4>1 DEF Trades
      <4> QED BY <4>1, <4>2 DEF Present
    <3>2. CASE c \notin Ends(r)
      BY <2>1, <2>4, <3>2 DEF Apart
    <3> QED BY <3>1, <3>2
  <2>5. Apart(s, {})
    BY <2>4 DEF Apart
  <2> QED BY <2>3, <2>5
<1> QED BY <1>1, <1>2 DEF Sound, Service

LEMMA TransferStep ==
    ASSUME RouteInv, NEW c \in Cities, NEW q \in Players, Transfer(c, q)
    PROVE  RouteInv'
<1> DEFINE n == [Now EXCEPT !.owner[c] = q]
           G == Garrison(c)
           s == Wiped(n, G)
           R == {r \in Routes : c \in Ends(r) /\ Present(s, r) /\ s.route[r] # Established}
           t == Removed(s, R)
<1>1. fault = "none" /\ Become(t)
  BY DEF Transfer, Event
<1>2. /\ Now \in State /\ Now.home = home /\ Now.at = at
      /\ G \in SUBSET Units /\ R \in SUBSET Routes
  BY <1>1, NowFacts DEF Garrison
<1>3. \A u \in Units : Alive(Now, u) /\ home[u] = c => u \in G
  BY DEF Garrison
<1>4. OthersOwned(Now, n, c)
  <2> DEFINE ow == [Now.owner EXCEPT ![c] = q]
  <2>1. /\ ow \in [Cities -> Players \cup {Nobody}]
        /\ \A d \in Cities \ {c} : ow[d] = Now.owner[d]
    BY <1>2, StateFields
  <2>2. n = [Now EXCEPT !.owner = ow]
    OBVIOUS
  <2> HIDE DEF ow
  <2>3. /\ n \in State /\ n.route = Now.route /\ n.carrier = Now.carrier
        /\ n.behind = Now.behind /\ n.serves = Now.serves /\ n.home = Now.home
        /\ n.at = Now.at /\ n.fault = Now.fault /\ n.owner = ow
    BY <1>2, <2>1, <2>2 DEF State
  <2> QED BY <2>1, <2>3 DEF OthersOwned
<1> HIDE DEF n, G
<1>5. Sound(n, {}, {c})
  BY <1>4, OwnerLost DEF RouteInv
<1>6. Sound(s, {}, {c})
  <2>1. Sound(s, {} \ G, {c})
    BY <1>2, <1>5, WipedKeeps
  <2>2. {} \ G = {}
    OBVIOUS
  <2> QED BY <2>1, <2>2
<1>7. \A u \in Units : Alive(s, u) => home[u] # c /\ s.home[u] = home[u]
  <2>1. Releases(n, Released(n, G)) /\ IsWiped(Released(n, G), s, G)
    BY <1>2, <1>4, ReleasedAnyway, WipedIs DEF OthersOwned, Releases
  <2> HIDE DEF s
  <2>2. /\ s.home = home
        /\ \A u \in Units : s.at[u] = IF u \in G THEN Dead ELSE at[u]
    BY <1>2, <1>4, <2>1 DEF Releases, IsWiped, Still, OthersOwned
  <2> QED BY <1>2, <1>3, <2>2, PlacesDiffer DEF Alive
<1>8. s \in State /\ \A r \in Routes : r \in R <=> c \in Ends(r) /\ s.route[r] \notin {Absent, Established}
  BY <1>6 DEF Sound, Present
<1> HIDE DEF s, R
<1>9. Sound(t, {}, {c}) /\ IsRemoved(s, t, R)
  BY <1>2, <1>6, <1>8, RemovedKeeps, RemovedIs
<1> HIDE DEF t
<1>10. \A u \in Units : Alive(t, u) => t.home[u] # c
  BY <1>7, <1>9 DEF IsRemoved, Still, Alive
<1>11. \A r \in Routes : c \in Ends(r) => t.route[r] \in {Absent, Established}
  BY <1>8, <1>9 DEF IsRemoved
<1>12. Sound(t, {}, {})
  BY <1>9, <1>10, <1>11, OwnerForgotten
<1> QED BY <1>1, <1>12, StepsTo

\* The units that were in a city are outside.
IsOut(s, z, c) ==
    /\ z \in State
    /\ z.route = s.route /\ z.carrier = s.carrier /\ z.behind = s.behind
    /\ z.serves = s.serves /\ z.home = s.home /\ z.owner = s.owner /\ z.fault = s.fault
    /\ \A u \in Units : z.at[u] = IF s.at[u] = c THEN Road ELSE s.at[u]

LEMMA OutKeeps ==
    ASSUME NEW s, Sound(s, {}, {}), NEW c \in Cities, NEW z, IsOut(s, z, c)
    PROVE  Sound(z, {}, {})
<1>1. s \in State /\ Trades(s) /\ (s.fault = "none" => Service(s, {}, {}))
  BY DEF Sound
<1>2. Trades(z)
  BY <1>1, TradesKept DEF IsOut
<1>3. ASSUME z.fault = "none" PROVE Service(z, {}, {})
  <2>1. /\ Pointers(s) /\ Marked(s, {}) /\ Housed(s) /\ Loyal(s, {}) /\ Apart(s, {})
        /\ Ordered(s)
    BY <1>1, <1>3 DEF IsOut, Service
  <2>2. \A u \in Units : (Alive(z, u) <=> Alive(s, u)) /\ (s.at[u] = Dead => z.at[u] = Dead)
    BY PlacesDiffer DEF IsOut, Alive
  <2>3. Pointers(z) /\ Housed(z)
    BY <2>1, <2>2 DEF IsOut, Pointers, Housed
  <2>4. Marked(z, {})
    BY <1>1, <2>1, <2>2, StateFields DEF IsOut, Marked
  <2>5. Loyal(z, {}) /\ Apart(z, {}) /\ Ordered(z)
    BY <2>1 DEF IsOut, Loyal, Apart, Ordered, UnitOwner, Present, SameOwner, CanTrade
  <2> QED BY <2>3, <2>4, <2>5 DEF Service
<1> QED BY <1>2, <1>3 DEF Sound, IsOut

LEMMA DestroyStep ==
    ASSUME RouteInv, NEW c \in Cities, Destroy(c)
    PROVE  RouteInv'
<1> DEFINE G == {u \in Units : Alive(Now, u) /\ home[u] = c}
           s == Wiped(Now, G)
           R == {r \in Routes : c \in Ends(r) /\ Present(s, r)}
           t == Removed(s, R)
           a == [u \in Units |-> IF t.at[u] = c THEN Road ELSE t.at[u]]
           ow == [t.owner EXCEPT ![c] = Nobody]
           z == [t EXCEPT !.owner[c] = Nobody, !.at = a]
           y == [t EXCEPT !.owner = ow]
<1>1. fault = "none" /\ Become(z)
  BY DEF Destroy, Event
<1>2. /\ Now \in State /\ Now.home = home /\ Now.at = at
      /\ G \in SUBSET Units /\ R \in SUBSET Routes
      /\ \A u \in Units : Alive(Now, u) /\ home[u] = c => u \in G
  BY <1>1, NowFacts
<1> HIDE DEF G
<1>3. Sound(s, {}, {})
  <2>1. Sound(s, {} \ G, {})
    BY <1>2, WipedKeeps DEF RouteInv
  <2>2. {} \ G = {}
    OBVIOUS
  <2> QED BY <2>1, <2>2
<1>4. \A u \in Units : Alive(s, u) => s.home[u] # c
  <2>1. Releases(Now, Released(Now, G)) /\ IsWiped(Released(Now, G), s, G)
    BY <1>2, ReleasedAnyway, WipedIs DEF Releases
  <2> HIDE DEF s
  <2>2. /\ s.home = home
        /\ \A u \in Units : s.at[u] = IF u \in G THEN Dead ELSE at[u]
    BY <1>2, <2>1 DEF Releases, IsWiped, Still
  <2> QED BY <1>2, <2>2, PlacesDiffer DEF Alive
<1>5. s \in State /\ \A r \in Routes : r \in R <=> c \in Ends(r) /\ s.route[r] # Absent
  BY <1>3 DEF Sound, Present
<1> HIDE DEF s, R
<1>6. Sound(t, {}, {}) /\ IsRemoved(s, t, R)
  BY <1>2, <1>3, <1>5, RemovedKeeps, RemovedIs
<1> HIDE DEF t
<1>7. t \in State
  BY <1>6 DEF IsRemoved
<1>8. /\ a \in [Units -> Places] /\ ow \in [Cities -> Players \cup {Nobody}]
      /\ \A d \in Cities \ {c} : ow[d] = t.owner[d]
      /\ \A u \in Units : a[u] = IF t.at[u] = c THEN Road ELSE t.at[u]
  BY <1>7, StateFields DEF Places
<1>9. z = [t EXCEPT !.owner = ow, !.at = a]
  OBVIOUS
<1> HIDE DEF a, ow, z, y
<1>10. /\ y \in State /\ y.route = t.route /\ y.carrier = t.carrier /\ y.behind = t.behind
       /\ y.serves = t.serves /\ y.home = t.home /\ y.at = t.at /\ y.fault = t.fault
       /\ y.owner = ow
  BY <1>7, <1>8 DEF State, y
<1>11. /\ z \in State /\ z.route = t.route /\ z.carrier = t.carrier /\ z.behind = t.behind
       /\ z.serves = t.serves /\ z.home = t.home /\ z.at = a /\ z.fault = t.fault
       /\ z.owner = ow
  BY <1>7, <1>8, <1>9 DEF State
<1>12. OthersOwned(t, y, c)
  BY <1>8, <1>10 DEF OthersOwned
<1>13. Sound(y, {}, {c})
  BY <1>6, <1>12, OwnerLost
<1>14. Sound(y, {}, {})
  <2>1. \A u \in Units : Alive(y, u) => y.home[u] # c
    BY <1>4, <1>6, <1>10 DEF IsRemoved, Still, Alive
  <2>2. \A r \in Routes : c \in Ends(r) => y.route[r] \in {Absent, Established}
    BY <1>5, <1>6, <1>10 DEF IsRemoved
  <2> QED BY <1>13, <2>1, <2>2, OwnerForgotten
<1>15. IsOut(y, z, c)
  BY <1>8, <1>10, <1>11 DEF IsOut
<1>16. Sound(z, {}, {})
  BY <1>14, <1>15, OutKeeps
<1> QED BY <1>1, <1>16, StepsTo

\* What a new server makes of the routes saved, when A gives each of them its direction:
\* St are the statuses of the routes, SB the routes of the caravans.
IsLoaded(s, n, saved, A) ==
    /\ n \in State /\ Still(s, n) /\ n.behind = {} /\ n.fault = s.fault
    /\ \A y \in Routes :
         n.route[y] = IF y \in saved /\ A[y] = y THEN s.route[y]
                      ELSE IF Back(y) \in saved /\ A[Back(y)] = y THEN s.route[Back(y)]
                      ELSE Absent
    /\ \A u \in Units :
         n.serves[u] = IF s.serves[u] = NoRoute THEN NoRoute
                       ELSE IF SameOwner(s, s.serves[u]) \/ A[s.serves[u]] = s.serves[u]
                         THEN A[s.serves[u]] ELSE NoRoute
    /\ \A y \in Routes :
         /\ n.carrier[y] # NoUnit => n.carrier[y] \in Units /\ n.serves[n.carrier[y]] = y
         /\ (\E u \in Units : n.serves[u] = y) => n.carrier[y] # NoUnit

LEMMA LoadedKeeps ==
    ASSUME NEW s, Sound(s, {}, {}), s.fault = "none", NEW saved,
           saved = {r \in Routes : s.route[r] # Absent},
           \A r \in saved : Back(r) \notin saved,
           NEW A \in [Routes -> Routes], \A r \in Routes : A[r] \in {r, Back(r)},
           NEW n, IsLoaded(s, n, saved, A)
    PROVE  Sound(n, {}, {})
<1>1. /\ s \in State /\ Trades(s) /\ Pointers(s) /\ Marked(s, {}) /\ Housed(s) /\ Loyal(s, {})
      /\ Apart(s, {}) /\ n \in State /\ n.fault = "none"
  BY DEF Sound, Service, IsLoaded
<1>2. \A r \in Routes : /\ Back(r) \in Routes /\ Back(r) # r /\ Back(Back(r)) = r
                        /\ Ends(Back(r)) = Ends(r) /\ r[1] \in Cities /\ r[2] \in Cities
                        /\ Back(r)[1] = r[2] /\ Back(r)[2] = r[1]
  BY BackFacts
<1>3. ASSUME NEW x \in saved PROVE n.route[A[x]] = s.route[x]
  <2>1. x \in Routes /\ A[x] \in {x, Back(x)} /\ Back(x) \notin saved /\ A[x] \in Routes
    BY <1>3
  <2>2. CASE A[x] = x
    BY <2>1, <2>2, <1>3 DEF IsLoaded
  <2>3. CASE A[x] = Back(x)
    BY <1>2, <1>3, <2>1, <2>3 DEF IsLoaded
  <2> QED BY <2>1, <2>2, <2>3
<1>4. ASSUME NEW y \in Routes, n.route[y] # Absent
      PROVE  \E x \in saved : x \in {y, Back(y)} /\ A[x] = y /\ n.route[y] = s.route[x]
  BY <1>4 DEF IsLoaded
<1>5. ASSUME NEW y \in Routes, n.route[y] # Absent PROVE n.route[Back(y)] = Absent
  <2>1. PICK x \in saved : x \in {y, Back(y)} /\ A[x] = y
    BY <1>4, <1>5
  <2>2. ASSUME n.route[Back(y)] # Absent PROVE FALSE
    <3>1. PICK z \in saved : z \in {Back(y), y} /\ A[z] = Back(y)
      BY <1>2, <1>4, <2>2
    <3>2. z = x
      BY <1>2, <2>1, <3>1
    <3> QED BY <1>2, <2>1, <3>1, <3>2
  <2> QED BY <2>2
<1>6. \A y \in Routes : n.route[y] = Established => n.route[Back(y)] # Established
  BY <1>5, StatusesDiffer
<1>7. ASSUME NEW c \in Cities PROVE Cardinality(TradesOf(n, c)) <= MaxRoutes
  <2> DEFINE S == TradesOf(s, c)
             T == TradesOf(n, c)
             f == [x \in S |-> A[x]]
  <2>1. ASSUME NEW x \in S PROVE A[x] \in T
    <3>1. x \in saved /\ s.route[x] = Established /\ c \in Ends(x) /\ x \in Routes
      BY StatusesDiffer DEF TradesOf
    <3>2. n.route[A[x]] = Established /\ c \in Ends(A[x]) /\ A[x] \in Routes
      BY <1>2, <1>3, <3>1
    <3> QED BY <3>2 DEF TradesOf
  <2>2. ASSUME NEW y \in T PROVE \E x \in S : f[x] = y
    <3>1. y \in Routes /\ n.route[y] = Established /\ c \in Ends(y)
      BY DEF TradesOf
    <3>2. PICK x \in saved : x \in {y, Back(y)} /\ A[x] = y /\ n.route[y] = s.route[x]
      BY <1>4, <3>1, StatusesDiffer
    <3>3. x \in S
      BY <1>2, <3>1, <3>2 DEF TradesOf
    <3> QED BY <3>2, <3>3
  <2>3. f \in Surjection(S, T)
    BY <2>1, <2>2 DEF Surjection
  <2>4. IsFiniteSet(S) /\ Cardinality(S) \in Nat /\ Cardinality(T) \in Nat
    BY TradesFinite
  <2>5. Cardinality(S) <= MaxRoutes
    BY <1>1 DEF Trades
  <2> HIDE DEF S, T, f
  <2>6. Cardinality(T) <= Cardinality(S)
    BY <2>3, <2>4, FS_Surjection
  <2>7. Cardinality(T) <= MaxRoutes
    BY <2>4, <2>5, <2>6, RouteConstants
  <2> QED BY <2>7 DEF T
<1>8. Trades(n)
  BY <1>6, <1>7 DEF Trades, IsLoaded
<1>9. /\ n.at = s.at /\ n.home = s.home /\ n.owner = s.owner
      /\ \A u \in Units : Alive(n, u) <=> Alive(s, u)
      /\ \A r \in Routes : SameOwner(n, r) <=> SameOwner(s, r)
      /\ \A c, d \in Cities : CanTrade(n, c, d) <=> CanTrade(s, c, d)
  BY DEF IsLoaded, Still, Alive, SameOwner, CanTrade
<1>10. ASSUME NEW u \in Units, n.serves[u] # NoRoute
       PROVE  LET x == s.serves[u] IN
              /\ x \in saved /\ Alive(s, u) /\ s.carrier[x] = u
              /\ s.route[x] \in {InRoute, PlannedInRoute}
              /\ s.owner[x[1]] = UnitOwner(s, u)
              /\ n.serves[u] = A[x] /\ (SameOwner(s, x) \/ A[x] = x)
  <2>1. s.serves[u] # NoRoute
    BY <1>10 DEF IsLoaded
  <2>2. /\ s.serves[u] \in Routes /\ Alive(s, u) /\ s.carrier[s.serves[u]] = u
        /\ s.route[s.serves[u]] \in {InRoute, PlannedInRoute}
        /\ s.owner[s.serves[u][1]] = UnitOwner(s, u)
    BY <1>1, <2>1, StateFields DEF Pointers, Loyal
  <2>3. n.serves[u] = A[s.serves[u]] /\ (SameOwner(s, s.serves[u]) \/ A[s.serves[u]] = s.serves[u])
    BY <1>10, <2>1 DEF IsLoaded
  <2> QED BY <2>2, <2>3, StatusesDiffer
<1>11. ASSUME NEW u \in Units, n.serves[u] # NoRoute
       PROVE  /\ n.serves[u] \in Routes /\ n.route[n.serves[u]] \in {InRoute, PlannedInRoute}
              /\ n.carrier[n.serves[u]] = u
  <2> DEFINE x == s.serves[u]
             y == n.serves[u]
             v == n.carrier[y]
             z == s.serves[v]
  <2>1. x \in saved /\ y = A[x] /\ s.route[x] \in {InRoute, PlannedInRoute} /\ s.carrier[x] = u
    BY <1>10, <1>11
  <2>2. y \in Routes /\ n.route[y] = s.route[x]
    BY <1>3, <2>1
  <2>3. v \in Units /\ n.serves[v] = y
    BY <2>2 DEF IsLoaded
  <2>4. z \in saved /\ y = A[z] /\ s.carrier[z] = v
    BY <1>10, <1>11, <2>3
  <2>5. x \in Routes /\ z \in Routes /\ A[x] \in {x, Back(x)} /\ A[z] \in {z, Back(z)}
    BY <2>1, <2>4
  <2>6. x = z
    <3>1. Back(x) # z
      BY <2>1, <2>4
    <3> HIDE DEF x, y, z
    <3>2. x \in {y, Back(y)} /\ z \in {y, Back(y)}
      <4>1. y \in {x, Back(x)} /\ y \in {z, Back(z)}
        BY <2>1, <2>4, <2>5
      <4> QED BY <1>2, <2>5, <4>1
    <3> QED BY <1>2, <2>2, <3>1, <3>2
  <2> QED BY <2>1, <2>2, <2>4, <2>6
<1>12. Pointers(n)
  BY <1>9, <1>10, <1>11 DEF Pointers
<1>13. Marked(n, {})
  <2>1. ASSUME NEW y \in Routes, n.carrier[y] # NoUnit
        PROVE  n.route[y] \in {InRoute, PlannedInRoute} /\ n.serves[n.carrier[y]] = y
    <3>1. n.carrier[y] \in Units /\ n.serves[n.carrier[y]] = y /\ y # NoRoute
      BY <2>1, NoRouteIsNone DEF IsLoaded
    <3> QED BY <1>11, <3>1
  <2> QED BY <2>1 DEF Marked
<1>14. Housed(n)
  BY <1>1, <1>9 DEF Housed
<1>15. Loyal(n, {})
  <2>1. ASSUME NEW u \in Units, n.serves[u] # NoRoute
        PROVE  s.owner[n.serves[u][1]] = UnitOwner(s, u)
    <3> DEFINE x == s.serves[u]
    <3>1. /\ x \in Routes /\ s.owner[x[1]] = UnitOwner(s, u) /\ n.serves[u] = A[x]
          /\ SameOwner(s, x) \/ A[x] = x
      BY <1>10, <2>1
    <3>2. A[x] = x \/ (A[x] = Back(x) /\ SameOwner(s, x))
      BY <3>1
    <3> QED BY <1>2, <3>1, <3>2 DEF SameOwner
  <2> QED BY <1>9, <2>1 DEF Loyal, UnitOwner
<1>16. Apart(n, {})
  <2>1. ASSUME NEW y \in Routes, Present(n, y), n.route[y] # Established
        PROVE  CanTrade(n, y[1], y[2])
    <3>1. PICK x \in saved : x \in {y, Back(y)} /\ n.route[y] = s.route[x]
      BY <1>4, <2>1 DEF Present
    <3>2. CanTrade(s, x[1], x[2])
      BY <1>1, <2>1, <3>1 DEF Apart, Present
    <3>3. CanTrade(s, y[1], y[2])
      <4>1. CASE x = y
        BY <3>2, <4>1
      <4>2. CASE x = Back(y)
        <5>1. x[1] = y[2] /\ x[2] = y[1] /\ {y[1], y[2]} = {y[2], y[1]}
          BY <1>2, <4>2
        <5> QED BY <3>2, <5>1 DEF CanTrade
      <4> QED BY <3>1, <4>1, <4>2
    <3> QED BY <1>2, <1>9, <3>3
  <2> QED BY <1>5, <2>1 DEF Apart, Present
<1>17. Ordered(n)
  BY <1>5 DEF Ordered, Present
<1> QED BY <1>1, <1>8, <1>12, <1>13, <1>14, <1>15, <1>16, <1>17 DEF Sound, Service

LEMMA ReloadStep ==
    ASSUME RouteInv, Reload
    PROVE  RouteInv'
<1> DEFINE saved == {r \in Routes : Present(Now, r)}
<1>1. fault = "none"
  BY DEF Reload, Event
<1>2. /\ Now \in State /\ Trades(Now) /\ Pointers(Now) /\ Now.fault = "none"
      /\ Now.route = route /\ Now.serves = serves /\ Now.owner = owner
      /\ \A u \in Units : /\ serves[u] \in Routes \cup {NoRoute}
  BY <1>1, NowFacts
<1>3. CASE Become([Now EXCEPT !.fault = "null"])
  <2>1. Sound([Now EXCEPT !.fault = "null"], {}, {})
    BY <1>2, Faulty
  <2> QED BY <1>3, <2>1, StepsTo
<1>4. CASE /\ \A r \in saved : Back(r) \notin saved
           /\ ~Become([Now EXCEPT !.fault = "null"])
  <2> DEFINE StatusOf(r, T) ==
               IF r \in saved /\ AsLoaded(r, T) = r THEN route[r]
               ELSE IF Back(r) \in saved /\ AsLoaded(Back(r), T) = r
                 THEN route[Back(r)] ELSE Absent
             ServedBy(u, T) ==
               IF serves[u] = NoRoute THEN NoRoute
               ELSE IF SameOwner(Now, serves[u]) \/ AsLoaded(serves[u], T) = serves[u]
                 THEN AsLoaded(serves[u], T) ELSE NoRoute
             CarrierOf(r, T) ==
               IF \E u \in Units : ServedBy(u, T) = r
                 THEN CHOOSE u \in Units : ServedBy(u, T) = r ELSE NoUnit
  <2>1. PICK T \in SUBSET {r \in saved : SameOwner(Now, r)} :
          Become([Now EXCEPT !.route = [r \in Routes |-> StatusOf(r, T)],
                             !.carrier = [r \in Routes |-> CarrierOf(r, T)],
                             !.behind = {},
                             !.serves = [u \in Units |-> ServedBy(u, T)]])
    BY <1>4 DEF Reload, Event
  <2> DEFINE rt == [r \in Routes |-> StatusOf(r, T)]
             ca == [r \in Routes |-> CarrierOf(r, T)]
             sv == [u \in Units |-> ServedBy(u, T)]
             n == [Now EXCEPT !.route = rt, !.carrier = ca, !.behind = {}, !.serves = sv]
             A == [r \in Routes |-> AsLoaded(r, T)]
  <2>2. A \in [Routes -> Routes] /\ \A r \in Routes : A[r] \in {r, Back(r)}
    BY BackFacts DEF AsLoaded
  <2>3. \A u \in Units : ServedBy(u, T) \in Routes \cup {NoRoute}
    BY <1>2, <2>2
  <2>4. \A r \in Routes : StatusOf(r, T) \in Statuses
    BY <1>2, BackFacts, StateFields DEF Statuses
  <2>5. \A r \in Routes :
          /\ CarrierOf(r, T) # NoUnit =>
               CarrierOf(r, T) \in Units /\ ServedBy(CarrierOf(r, T), T) = r
          /\ (\E u \in Units : ServedBy(u, T) = r) => CarrierOf(r, T) \in Units
          /\ CarrierOf(r, T) \in Units \cup {NoUnit}
    <3> HIDE DEF ServedBy
    <3> QED OBVIOUS
  <2>6. /\ rt \in [Routes -> Statuses] /\ ca \in [Routes -> Units \cup {NoUnit}]
        /\ sv \in [Units -> Routes \cup {NoRoute}]
    <3> HIDE DEF StatusOf, CarrierOf, ServedBy
    <3> QED BY <2>3, <2>4, <2>5
  <2>7. /\ \A y \in Routes :
             rt[y] = IF y \in saved /\ A[y] = y THEN route[y]
                     ELSE IF Back(y) \in saved /\ A[Back(y)] = y THEN route[Back(y)]
                     ELSE Absent
        /\ \A u \in Units :
             sv[u] = IF serves[u] = NoRoute THEN NoRoute
                     ELSE IF SameOwner(Now, serves[u]) \/ A[serves[u]] = serves[u]
                       THEN A[serves[u]] ELSE NoRoute
    BY <1>2, BackFacts
  <2>8. \A y \in Routes :
          /\ ca[y] # NoUnit => ca[y] \in Units /\ sv[ca[y]] = y
          /\ (\E u \in Units : sv[u] = y) => ca[y] # NoUnit
    <3> HIDE DEF StatusOf, CarrierOf, ServedBy
    <3> QED BY <2>5, NoRouteIsNone
  <2> HIDE DEF rt, ca, sv, n, A
  <2>9. /\ n \in State /\ Still(Now, n) /\ n.behind = {} /\ n.fault = Now.fault
        /\ n.route = rt /\ n.carrier = ca /\ n.serves = sv
    BY <1>2, <2>6 DEF State, Still, n
  <2>10. IsLoaded(Now, n, saved, A)
    BY <1>2, <2>7, <2>8, <2>9 DEF IsLoaded
  <2>11. saved = {r \in Routes : Now.route[r] # Absent} /\ \A r \in saved : Back(r) \notin saved
    BY <1>4 DEF Present
  <2> HIDE DEF saved
  <2>12. Sound(n, {}, {})
    BY <1>2, <2>2, <2>10, <2>11, LoadedKeeps DEF RouteInv
  <2>13. Become(n)
    BY <2>1 DEF n, rt, ca, sv, saved
  <2> QED BY <2>12, <2>13, StepsTo
<1> QED BY <1>3, <1>4 DEF Reload, Event

(***************************************************************************)
(* 11. What always holds.                                                  *)
(***************************************************************************)

LEMMA InitRoutes == Init => RouteInv
<1> SUFFICES ASSUME Init PROVE RouteInv
  OBVIOUS
<1>1. /\ Now.route = [r \in Routes |-> Absent] /\ Now.carrier = [r \in Routes |-> NoUnit]
      /\ Now.behind = {} /\ Now.serves = [u \in Units |-> NoRoute]
      /\ Now.at = [u \in Units |-> Unbuilt]
  BY DEF Now, Init
<1>2. Now \in State
  BY RouteConstants DEF Now, Init, State, Statuses, Places
<1>3. Trades(Now)
  <2>1. ASSUME NEW c \in Cities PROVE Cardinality(TradesOf(Now, c)) <= MaxRoutes
    <3>1. TradesOf(Now, c) = {}
      BY <1>1, StatusesDiffer DEF TradesOf
    <3> QED BY <3>1, FS_EmptySet, RouteConstants
  <2>2. \A r \in Routes : Now.route[r] # Established
    BY <1>1, StatusesDiffer
  <2> QED BY <1>1, <2>1, <2>2 DEF Trades
<1>4. Pointers(Now) /\ Marked(Now, {}) /\ Loyal(Now, {}) /\ Apart(Now, {}) /\ Ordered(Now)
  BY <1>1 DEF Pointers, Marked, Loyal, Apart, Ordered, Present
<1>5. Housed(Now)
  BY <1>1, PlacesDiffer DEF Housed, Alive
<1> QED BY <1>2, <1>3, <1>4, <1>5 DEF RouteInv, Sound, Service

LEMMA NextRoutes ==
    ASSUME RouteInv, Next
    PROVE  RouteInv'
<1>1. \/ \E p \in Players, r \in Asked : Plan(p, r[1], r[2])
      \/ \E p \in Players, r \in Asked : Unplan(p, r[1], r[2])
      \/ \E p \in Players, u \in Units, r \in Asked : Serve(p, u, r[1], r[2])
      \/ \E p \in Players, u \in Units : ServeAny(p, u)
      \/ \E u \in Units, d \in Cities : Sell(u, d)
      \/ \E u \in Units, e \in Cities \cup {Road} : Move(u, e)
      \/ \E u \in Units : Rehome(u)
      \/ \E p \in Players : Reset(p)
      \/ \E u \in Units : Travel(u)
      \/ \E u \in Units, c \in Cities : Build(u, c)
      \/ \E u \in Units : Lose(u)
      \/ \E c \in Cities, q \in Players : Transfer(c, q)
      \/ \E c \in Cities : Destroy(c)
      \/ Refresh
      \/ Reload
  BY RouteConstants DEF Next
<1>2. ASSUME Refresh PROVE RouteInv'
  <2>1. Now' = Now
    BY <1>2 DEF Refresh, Now
  <2> QED BY <2>1 DEF RouteInv
<1> QED BY <1>1, <1>2, PlanStep, UnplanStep, ServeStep, ServeAnyStep, SellStep, MoveStep, RehomeStep,
           ResetStep, TravelStep, BuildStep, LoseStep, TransferStep, DestroyStep, ReloadStep

LEMMA AlwaysRoutes == Spec => []RouteInv
<1>1. RouteInv /\ [Next]_vars => RouteInv'
  <2>1. ASSUME RouteInv, UNCHANGED vars PROVE RouteInv'
    <3>1. Now' = Now
      BY <2>1 DEF vars, Now
    <3> QED BY <2>1, <3>1 DEF RouteInv
  <2> QED BY <2>1, NextRoutes
<1> QED BY <1>1, InitRoutes, PTL DEF Spec

\* The variables keep their types, whatever the handlers do to the routes.
THEOREM RouteTypes == Spec => []TypeOK
<1> DEFINE Counted == events \in 0 .. MaxEvents /\ worth \in Worths
<1>1. Spec => []Counted
  <2>1. Init => Counted
    BY RouteConstants DEF Init
  <2>2. Counted /\ [Next]_vars => Counted'
    <3>1. ASSUME Counted, Next PROVE Counted'
      <4> DEFINE Counts == /\ events < MaxEvents /\ events' = events + 1
                           /\ worth' = worth \/ worth' \in Worths
      <4>1. /\ \A p \in Players : \A c, d : Plan(p, c, d) \/ Unplan(p, c, d) => Running
            /\ \A p \in Players, u \in Units : \A c, d : Serve(p, u, c, d) => Running
            /\ \A p \in Players, u \in Units : ServeAny(p, u) => Running
        BY DEF Plan, Unplan, Serve, ServeAny
      <4>2. /\ \A u \in Units : \A d : Sell(u, d) \/ Move(u, d) \/ Build(u, d) => Running
            /\ \A u \in Units : Rehome(u) \/ Travel(u) \/ Lose(u) => Running
            /\ \A p \in Players : Reset(p) => Running
        BY DEF Sell, Move, Build, Rehome, Travel, Lose, Reset
      <4>3. /\ \A c, q : Transfer(c, q) => Counts
            /\ \A c : Destroy(c) => Counts
            /\ (Reload => Counts) /\ (Refresh => Counts)
        BY DEF Transfer, Destroy, Reload, Refresh, Event
      <4> HIDE DEF Counts
      <4>4. Running \/ Counts
        BY <3>1, <4>1, <4>2, <4>3 DEF Next
      <4> QED BY <3>1, <4>4, RouteConstants DEF Running, Counts
    <3> QED BY <3>1 DEF vars
  <2> HIDE DEF Counted
  <2> QED BY <2>1, <2>2, PTL DEF Spec
<1>2. RouteInv /\ Counted => TypeOK
  <2> SUFFICES ASSUME RouteInv, Counted PROVE TypeOK
    OBVIOUS
  <2>1. Now \in State
    BY DEF RouteInv, Sound
  <2>2. /\ route \in [Routes -> Statuses] /\ carrier \in [Routes -> Units \cup {NoUnit}]
        /\ behind \in SUBSET Routes /\ serves \in [Units -> Routes \cup {NoRoute}]
        /\ home \in [Units -> Cities \cup {NoCity}] /\ at \in [Units -> Places]
        /\ owner \in [Cities -> Players \cup {Nobody}]
        /\ fault \in {"none", "null", "freed"}
    BY <2>1, StateFields DEF Now
  <2> QED BY <2>2, StatusesAre DEF TypeOK, Places
<1> HIDE DEF Counted
<1> QED BY <1>1, <1>2, AlwaysRoutes, PTL

\* A caravan and its route always point at each other: no handler leaves a caravan
\* with a route that was freed or given to another one, unless a fault has ended the
\* game (server_remove_trade_route and trade_free_unit in tradehand.cc).
THEOREM CaravansServe == Spec => []ServiceSound
<1>1. RouteInv => ServiceSound
  <2> SUFFICES ASSUME RouteInv, fault = "none", NEW u \in Units, serves[u] # NoRoute
               PROVE  /\ Alive(Now, u) /\ carrier[serves[u]] = u
                      /\ route[serves[u]] \in {InRoute, PlannedInRoute}
                      /\ owner[serves[u][1]] = UnitOwner(Now, u)
    BY DEF ServiceSound
  <2>1. /\ Pointers(Now) /\ Loyal(Now, {}) /\ Now.serves = serves /\ Now.carrier = carrier
        /\ Now.route = route /\ Now.owner = owner
    BY NowFacts
  <2> QED BY <2>1 DEF Pointers, Loyal
<1> QED BY <1>1, AlwaysRoutes, PTL

\* Two cities never have two established routes, nor a city more than maxtraderoutes,
\* even after a fault: whoever plans, serves, replaces or loads what
\* (server_establish_trade_route and unit_establish_trade_route).
THEOREM TradeStaysSound == Spec => []EstablishedSound
<1>1. RouteInv => EstablishedSound
  <2> SUFFICES ASSUME RouteInv PROVE EstablishedSound
    OBVIOUS
  <2>1. Trades(Now) /\ Now.route = route
    BY DEF RouteInv, Sound, Now
  <2> QED BY <2>1 DEF Trades, EstablishedSound
<1> QED BY <1>1, AlwaysRoutes, PTL

(***************************************************************************)
(* 12. What a step may undo.                                               *)
(***************************************************************************)

\* Established routes and plans are as they were.
Steady(s, t) ==
    /\ t.owner = s.owner
    /\ \A r \in Routes : /\ t.route[r] = Established <=> s.route[r] = Established
                         /\ IsPlan(s.route[r]) => IsPlan(t.route[r])

\* Of t, a new established route of more value than r, with one of its cities
Better(s, t, r) ==
    \E o \in Routes : /\ t.route[o] = Established /\ s.route[o] # Established
                      /\ Ends(o) \cap Ends(r) # {} /\ worth[o] > worth[r]

\* From s to t trade gave way to better trade and plans to trade only; a plan of one
\* nation may have been turned.
Passed(s, t) ==
    \A r \in Routes :
      /\ s.route[r] = Established =>
           t.route[r] = Established \/ t.route[Back(r)] = Established \/ Better(s, t, r)
      /\ IsPlan(s.route[r]) =>
           \/ IsPlan(t.route[r]) \/ (SameOwner(s, r) /\ IsPlan(t.route[Back(r)]))
           \/ Established \in {t.route[r], t.route[Back(r)]}

LEMMA SteadyFirst ==
    ASSUME NEW s, NEW t, NEW n, Steady(s, t), Passed(t, n)
    PROVE  Passed(s, n)
<1>1. ASSUME NEW r \in Routes, s.route[r] = Established
      PROVE  n.route[r] = Established \/ n.route[Back(r)] = Established \/ Better(s, n, r)
  <2>1. n.route[r] = Established \/ n.route[Back(r)] = Established \/ Better(t, n, r)
    BY <1>1 DEF Steady, Passed
  <2> QED BY <2>1 DEF Better, Steady
<1>2. ASSUME NEW r \in Routes, IsPlan(s.route[r])
      PROVE  \/ IsPlan(n.route[r]) \/ (SameOwner(s, r) /\ IsPlan(n.route[Back(r)]))
             \/ Established \in {n.route[r], n.route[Back(r)]}
  <2>1. SameOwner(t, r) => SameOwner(s, r)
    BY DEF Steady, SameOwner
  <2> QED BY <1>2, <2>1 DEF Steady, Passed
<1> QED BY <1>1, <1>2 DEF Passed

LEMMA SteadyLast ==
    ASSUME NEW s, NEW t, NEW n, Passed(s, t), Steady(t, n)
    PROVE  Passed(s, n)
<1>0. \A r \in Routes : Back(r) \in Routes
  BY BackFacts
<1>1. ASSUME NEW r \in Routes, s.route[r] = Established
      PROVE  n.route[r] = Established \/ n.route[Back(r)] = Established \/ Better(s, n, r)
  <2>1. t.route[r] = Established \/ t.route[Back(r)] = Established \/ Better(s, t, r)
    BY <1>1 DEF Passed
  <2> QED BY <1>0, <2>1 DEF Better, Steady
<1>2. ASSUME NEW r \in Routes, IsPlan(s.route[r])
      PROVE  \/ IsPlan(n.route[r]) \/ (SameOwner(s, r) /\ IsPlan(n.route[Back(r)]))
             \/ Established \in {n.route[r], n.route[Back(r)]}
  <2>1. \/ IsPlan(t.route[r]) \/ (SameOwner(s, r) /\ IsPlan(t.route[Back(r)]))
        \/ Established \in {t.route[r], t.route[Back(r)]}
    BY <1>2 DEF Passed
  <2> QED BY <1>0, <2>1 DEF Steady
<1> QED BY <1>1, <1>2 DEF Passed

LEMMA SteadyPasses ==
    ASSUME NEW s, NEW t, Steady(s, t)
    PROVE  Passed(s, t)
  BY DEF Steady, Passed

LEMMA WipedIsSteady ==
    ASSUME NEW s \in State, NEW U \in SUBSET Units
    PROVE  /\ Steady(s, Wiped(s, U))
           /\ Wiped(s, U).fault = "none" => s.fault = "none"
<1>1. Releases(s, Released(s, U)) /\ Released(s, U) \in State
  BY ReleasedAnyway DEF Releases
<1>2. IsWiped(Released(s, U), Wiped(s, U), U)
  BY <1>1, WipedIs
<1> QED BY <1>1, <1>2 DEF Releases, IsWiped, Steady, Still

\* have_cities_trade_route finds the route of a caravan's own direction.
LEMMA OneTrade ==
    ASSUME NEW s, Trades(s), Apart(s, {}), NEW c \in Cities, NEW d \in Cities, c # d,
           ~HaveRoute(s, c, d)
    PROVE  s.route[<<c, d>>] # Established
<1> DEFINE x == <<c, d>>
           y == <<d, c>>
<1>1. x \in Routes /\ y \in Routes /\ Back(x) = y /\ Back(y) = x
  BY PairFacts
<1>2. SUFFICES ASSUME s.route[x] = Established PROVE FALSE
  OBVIOUS
<1>3. Answers(s, x, c, d) /\ Present(s, x)
  BY <1>2, StatusesDiffer DEF Answers, Present
<1>4. x \notin Found(s, c, d)
  BY <1>2 DEF HaveRoute
<1>5. Answers(s, y, c, d)
  BY <1>1, <1>3, <1>4 DEF Found
<1>6. Present(s, y) /\ s.route[y] # Established
  BY <1>1, <1>2, <1>5 DEF Trades, Answers
<1>7. y # x
  BY <1>1, BackFacts
<1>8. SameOwner(s, y)
  BY <1>5, <1>6, <1>7 DEF Answers
<1>9. Ends(y) \cap {} = {}
  OBVIOUS
<1> HIDE DEF x, y
<1> QED BY <1>1, <1>3, <1>6, <1>8, <1>9 DEF Apart

\* The removal of established routes brings none to light that was behind a plan.
LEMMA StillNone ==
    ASSUME NEW s, Trades(s), NEW c \in Cities, NEW d \in Cities, c # d, ~HaveRoute(s, c, d),
           NEW t, NEW R \in SUBSET Routes, \A x \in R : s.route[x] = Established,
           IsRemoved(s, t, R)
    PROVE  ~HaveRoute(t, c, d)
<1>1. SUFFICES ASSUME NEW z \in Found(t, c, d), t.route[z] = Established PROVE FALSE
  BY DEF HaveRoute
<1>2. /\ z \in Routes /\ Answers(t, z, c, d) /\ ~(z \in t.behind /\ Answers(t, Back(z), c, d))
  BY DEF Found
<1>3. z \in {<<c, d>>, <<d, c>>} /\ Back(z) \in {<<c, d>>, <<d, c>>} /\ Back(z) \in Routes
  BY <1>2, PairFacts DEF Answers
<1>4. s.route[z] = Established /\ s.route[Back(z)] # Established
  BY <1>1, <1>2, StatusesDiffer DEF IsRemoved, Trades
<1>5. Answers(s, z, c, d)
  BY <1>3, <1>4, StatusesDiffer DEF Answers, Present
<1>6. z \notin Found(s, c, d)
  BY <1>4 DEF HaveRoute
<1>7. z \in s.behind /\ Answers(s, Back(z), c, d)
  BY <1>2, <1>5, <1>6 DEF Found
<1>8. t.route[Back(z)] = s.route[Back(z)]
  BY <1>3, <1>4 DEF IsRemoved
<1>9. Answers(t, Back(z), c, d)
  BY <1>7, <1>8 DEF Answers, Present, SameOwner, IsRemoved, Still
<1>10. z \in t.behind
  BY <1>1, <1>7, <1>9, StatusesDiffer DEF IsRemoved, YoungerKept, Present, Answers
<1> QED BY <1>2, <1>9, <1>10

\* The values are known.
Valued == worth \in Worths

LEMMA WorthIsInt ==
    ASSUME Valued, NEW r \in Routes
    PROVE  worth[r] \in Int
<1>1. worth \in [Routes -> Int]
  BY RouteConstants DEF Valued, Routes
<1> QED BY <1>1

\* What gives way in a full city is worth less than what comes.
LEMMA WorseGivesWay ==
    ASSUME NEW s, Trades(s), NEW c \in Cities, NEW w \in GivesWay(s, c),
           NEW v \in Int, CanReplace(s, c, v), NEW x \in w, Valued
    PROVE  c \in Ends(x) /\ worth[x] < v
<1>1. Full(s, c) /\ x \in Worst(s, c)
  BY GivesWayFacts
<1>2. PICK r \in TradesOf(s, c) : worth[r] < v
  BY <1>1 DEF CanReplace
<1>3. /\ x \in TradesOf(s, c) /\ worth[x] <= worth[r]
  BY <1>1, <1>2 DEF Worst
<1>4. x \in Routes /\ r \in Routes /\ c \in Ends(x)
  BY <1>2, <1>3 DEF TradesOf
<1>5. worth[x] \in Int /\ worth[r] \in Int
  BY <1>4, WorthIsInt
<1> QED BY <1>2, <1>3, <1>4, <1>5

\* No helper takes a fault back.
LEMMA ServerFaultStays ==
    ASSUME NEW t \in State, Trades(t), NEW c \in Cities, NEW d \in Cities,
           NEW e, e = ServerEstablished(t, c, d), e.fault = "none"
    PROVE  t.fault = "none"
<1>1. CASE ~CanTrade(t, c, d) \/ ~CanEstablish(t, c, d)
  BY <1>1 DEF ServerEstablished
<1>2. CASE ~(~CanTrade(t, c, d) \/ ~CanEstablish(t, c, d))
  <2> DEFINE k == Removed(t, Found(t, c, d))
  <2>1. e = IF Found(k, c, d) # {} THEN [k EXCEPT !.fault = "null"]
            ELSE Added(k, c, d, Established)
    BY <1>2 DEF ServerEstablished
  <2>2. c # d
    BY <1>2 DEF CanTrade
  <2>3. Found(t, c, d) \in SUBSET Routes
    BY <2>2, FoundFacts
  <2>4. IsRemoved(t, k, Found(t, c, d))
    BY <2>3, RemovedIs
  <2> HIDE DEF k
  <2>5. k \in State
    BY <2>4 DEF IsRemoved
  <2>6. CASE Found(k, c, d) # {}
    <3>1. e = [k EXCEPT !.fault = "null"]
      BY <2>1, <2>6
    <3>2. e.fault = "null"
      BY <2>5, <3>1 DEF State
    <3> QED BY <3>2
  <2>7. CASE Found(k, c, d) = {}
    <3>1. Established \in Statuses
      BY DEF Statuses
    <3>2. IsAdded(k, e, c, d, Established)
      BY <2>1, <2>2, <2>5, <2>7, <3>1, AddedIs
    <3> QED BY <2>4, <3>2 DEF IsAdded, IsRemoved
  <2> QED BY <2>6, <2>7
<1> QED BY <1>1, <1>2

LEMMA UnitFaultStays ==
    ASSUME NEW s, NEW W, Sound(s, W, {}), NEW u \in Units, NEW c \in Cities, NEW d \in Cities,
           NEW r \in UnitEstablished(s, u, c, d), r.fault = "none"
    PROVE  s.fault = "none"
<1>0. s \in State /\ Trades(s)
  BY DEF Sound
<1>1. CASE s.home[u] # c
  BY <1>1 DEF UnitEstablished
<1>2. CASE s.home[u] = c /\ ~CanEstablish(s, c, d)
  <2>1. r = Wiped(s, {u})
    BY <1>2 DEF UnitEstablished
  <2> QED BY <1>0, <2>1, WipedIsSteady
<1>3. CASE s.home[u] = c /\ CanEstablish(s, c, d)
  <2> DEFINE Result(v, w) ==
               IF v = w /\ v # {} THEN [s EXCEPT !.fault = "freed"]
               ELSE Wiped(ServerEstablished(Removed(s, v \cup w), c, d), {u})
  <2>0. UnitEstablished(s, u, c, d)
          = {Result(v, w) : v \in GivesWay(s, c), w \in GivesWay(s, d)}
    BY <1>3 DEF UnitEstablished
  <2> HIDE DEF Result
  <2>1. PICK w1 \in GivesWay(s, c), w2 \in GivesWay(s, d) : r = Result(w1, w2)
    BY <2>0
  <2> DEFINE t == Removed(s, w1 \cup w2)
             e == ServerEstablished(t, c, d)
  <2>2. w1 \cup w2 \in SUBSET Routes
    BY <1>0, GivesWayFacts
  <2>3. IsRemoved(s, t, w1 \cup w2) /\ Sound(t, W, {})
    BY <1>0, <2>2, RemovedIs, RemovedKeeps
  <2> HIDE DEF t
  <2>4. Room(t, c) /\ Room(t, d)
    BY <1>0, <2>2, <2>3, RoomMade
  <2>5. Sound(e, W, {})
    BY <2>3, <2>4, ServerEstablishedKeeps
  <2>6. r = [s EXCEPT !.fault = "freed"] \/ r = Wiped(e, {u})
    BY <2>1 DEF Result, t
  <2>7. ASSUME r = [s EXCEPT !.fault = "freed"] PROVE FALSE
    <3>1. r.fault = "freed"
      BY <1>0, <2>7 DEF State
    <3> QED BY <3>1
  <2>8. e.fault = "none" => t.fault = "none"
    BY <2>3, ServerFaultStays DEF Sound
  <2> HIDE DEF e
  <2>9. e.fault = "none"
    BY <2>5, <2>6, <2>7, WipedIsSteady DEF Sound
  <2> QED BY <2>3, <2>8, <2>9 DEF IsRemoved
<1> QED BY <1>1, <1>2, <1>3

\* server_establish_trade_route with room on both sides
LEMMA ServerEstablishedIs ==
    ASSUME NEW t \in State, Trades(t), NEW c \in Cities, NEW d \in Cities, CanTrade(t, c, d),
           ~HaveRoute(t, c, d), Room(t, c), Room(t, d),
           NEW e, e = ServerEstablished(t, c, d), e.fault = "none"
    PROVE  /\ t.fault = "none" /\ e.owner = t.owner
           /\ \A z \in Routes : e.route[z] = IF z = <<c, d>> THEN Established
                                             ELSE IF z \in Found(t, c, d) THEN Absent
                                             ELSE t.route[z]
<1>1. \A g \in {c, d} : CanReplace(t, g, worth[<<c, d>>])
  <2>1. \A g \in {c, d} : ~Full(t, g)
    BY TradesFinite, RouteConstants DEF Room, Full
  <2> QED BY <2>1 DEF CanReplace
<1>2. CanEstablish(t, c, d) /\ c # d
  BY <1>1 DEF CanEstablish, CanTrade
<1> DEFINE k == Removed(t, Found(t, c, d))
<1>3. e = IF Found(k, c, d) # {} THEN [k EXCEPT !.fault = "null"]
          ELSE Added(k, c, d, Established)
  BY <1>2 DEF ServerEstablished
<1>4. Found(t, c, d) \in SUBSET Routes
  BY <1>2, FoundFacts
<1>5. IsRemoved(t, k, Found(t, c, d))
  BY <1>4, RemovedIs
<1> HIDE DEF k
<1>6. k \in State
  BY <1>5 DEF IsRemoved
<1>7. CASE Found(k, c, d) # {}
  <2>1. e = [k EXCEPT !.fault = "null"]
    BY <1>3, <1>7
  <2>2. e.fault = "null"
    BY <1>6, <2>1 DEF State
  <2> QED BY <2>2
<1>8. CASE Found(k, c, d) = {}
  <2>1. Established \in Statuses
    BY DEF Statuses
  <2>2. IsAdded(k, e, c, d, Established)
    BY <1>2, <1>3, <1>6, <1>8, <2>1, AddedIs
  <2>3. <<c, d>> \in Routes
    BY <1>2, PairFacts
  <2>4. \A z \in Routes : e.route[z] = IF z = <<c, d>> THEN Established ELSE k.route[z]
    BY <1>6, <2>2, <2>3, StateFields DEF IsAdded
  <2> QED BY <1>5, <2>2, <2>4 DEF IsRemoved, IsAdded, Still
<1> QED BY <1>7, <1>8

\* unit_establish_trade_route
LEMMA UnitEstablishedPasses ==
    ASSUME Valued, NEW s, NEW W, Sound(s, W, {}), NEW u \in Units, NEW c \in Cities, NEW d \in Cities,
           CanTrade(s, c, d), NEW r \in UnitEstablished(s, u, c, d), r.fault = "none"
    PROVE  s.fault = "none" /\ Passed(s, r)
<1>0. s \in State /\ Trades(s) /\ c # d
  BY DEF Sound, CanTrade
<1>1. CASE s.home[u] # c
  <2>1. r = s
    BY <1>1 DEF UnitEstablished
  <2> QED BY <2>1 DEF Passed
<1>2. CASE s.home[u] = c /\ ~CanEstablish(s, c, d)
  <2>1. r = Wiped(s, {u})
    BY <1>2 DEF UnitEstablished
  <2> QED BY <1>0, <2>1, WipedIsSteady, SteadyPasses
<1>3. CASE s.home[u] = c /\ CanEstablish(s, c, d)
  <2> DEFINE Result(v, w) ==
               IF v = w /\ v # {} THEN [s EXCEPT !.fault = "freed"]
               ELSE Wiped(ServerEstablished(Removed(s, v \cup w), c, d), {u})
  <2>0. UnitEstablished(s, u, c, d)
          = {Result(v, w) : v \in GivesWay(s, c), w \in GivesWay(s, d)}
    BY <1>3 DEF UnitEstablished
  <2> HIDE DEF Result
  <2>1. PICK w1 \in GivesWay(s, c), w2 \in GivesWay(s, d) : r = Result(w1, w2)
    BY <2>0
  <2> DEFINE t == Removed(s, w1 \cup w2)
             e == ServerEstablished(t, c, d)
             x == <<c, d>>
  <2>2. /\ w1 \cup w2 \in SUBSET Routes /\ \A z \in w1 \cup w2 : s.route[z] = Established
    BY <1>0, GivesWayFacts
  <2>3. IsRemoved(s, t, w1 \cup w2) /\ Sound(t, W, {})
    BY <1>0, <2>2, RemovedIs, RemovedKeeps
  <2> HIDE DEF t
  <2>4. r = Wiped(e, {u})
    <3>1. CASE w1 = w2 /\ w1 # {}
      <4>1. r = [s EXCEPT !.fault = "freed"]
        BY <2>1, <3>1 DEF Result
      <4>2. r.fault = "freed"
        BY <1>0, <4>1 DEF State
      <4> QED BY <4>2
    <3>2. CASE ~(w1 = w2 /\ w1 # {})
      BY <2>1, <3>2 DEF Result, t
    <3> QED BY <3>1, <3>2
  <2>5. Room(t, c) /\ Room(t, d)
    BY <1>0, <2>2, <2>3, RoomMade
  <2>6. Sound(e, W, {})
    BY <2>3, <2>5, ServerEstablishedKeeps
  <2> HIDE DEF e
  <2>7. Steady(e, r) /\ e.fault = "none"
    BY <2>4, <2>6, WipedIsSteady DEF Sound
  <2>8. ~HaveRoute(s, c, d) /\ \A g \in {c, d} : CanReplace(s, g, worth[<<c, d>>])
    BY <1>3 DEF CanEstablish
  <2>9. ~HaveRoute(t, c, d)
    BY <1>0, <2>2, <2>3, <2>8, StillNone
  <2>10. CanTrade(t, c, d) /\ t \in State /\ Trades(t)
    BY <2>3 DEF CanTrade, IsRemoved, Still, Sound
  <2>11. /\ t.fault = "none"
         /\ \A z \in Routes : e.route[z] = IF z = x THEN Established
                                           ELSE IF z \in Found(t, c, d) THEN Absent
                                           ELSE t.route[z]
    BY <2>5, <2>7, <2>9, <2>10, ServerEstablishedIs DEF e
  <2>12. s.fault = "none"
    BY <2>3, <2>11 DEF IsRemoved
  <2>13. s.route[x] # Established
    BY <1>0, <2>8, <2>12, OneTrade DEF Sound, Service
  <2>14. /\ x \in Routes /\ Ends(x) = {c, d} /\ worth[x] \in Int
         /\ e.route[x] = Established
    BY <1>0, <2>11, PairFacts, WorthIsInt
  <2>15. ASSUME NEW z \in Routes, s.route[z] = Established
         PROVE  e.route[z] = Established \/ Better(s, e, z)
    <3>1. CASE z \in w1 \cup w2
      <4>1. worth[z] < worth[x] /\ Ends(z) \cap {c, d} # {}
        <5>1. CASE z \in w1
          BY <1>0, <2>8, <2>14, <5>1, WorseGivesWay
        <5>2. CASE z \in w2
          BY <1>0, <2>8, <2>14, <5>2, WorseGivesWay
        <5> QED BY <3>1, <5>1, <5>2
      <4>2. worth[z] \in Int
        BY WorthIsInt
      <4>3. worth[x] > worth[z] /\ Ends(x) \cap Ends(z) # {}
        BY <2>14, <4>1, <4>2
      <4> HIDE DEF x
      <4> QED BY <2>13, <2>14, <4>3 DEF Better
    <3>2. CASE z \notin w1 \cup w2
      <4>1. t.route[z] = Established
        BY <2>3, <2>15, <3>2 DEF IsRemoved
      <4>2. z \notin Found(t, c, d)
        BY <2>9, <4>1 DEF HaveRoute
      <4> QED BY <2>11, <4>1, <4>2
    <3> QED BY <3>1, <3>2
  <2>16. ASSUME NEW z \in Routes, IsPlan(s.route[z])
         PROVE  IsPlan(e.route[z]) \/ Established \in {e.route[z], e.route[Back(z)]}
    <3>1. t.route[z] = s.route[z]
      BY <2>2, <2>3, <2>16, StatusesDiffer DEF IsPlan, IsRemoved
    <3>2. CASE z \in Found(t, c, d)
      <4>1. z \in {x, <<d, c>>}
        BY <1>0, <2>10, <3>2, FoundFacts
      <4>2. z = x \/ Back(z) = x
        BY <1>0, <4>1, PairFacts
      <4> QED BY <2>14, <4>2
    <3>3. CASE z \notin Found(t, c, d)
      BY <2>11, <2>16, <3>1, <3>3
    <3> QED BY <3>2, <3>3
  <2>17. Passed(s, e)
    BY <2>15, <2>16 DEF Passed
  <2> QED BY <2>7, <2>12, <2>17, SteadyLast
<1> QED BY <1>1, <1>2, <1>3

LEMMA ArrivedPasses ==
    ASSUME Valued, NEW t, Sound(t, {}, {}), NEW u \in Units, NEW r \in Routes, t.serves[u] = r,
           NEW h \in Cities, t.home[u] = h, NEW e, NEW x \in Arrived(t, u, r, h, e),
           x.fault = "none"
    PROVE  t.fault = "none" /\ Passed(t, x)
<1>1. r[1] \in Cities /\ r[2] \in Cities /\ t \in State /\ r # NoRoute
  BY BackFacts, NoRouteIsNone DEF Sound
<1>2. CASE x \in UnitEstablished(t, u, r[1], r[2])
  <2>1. ASSUME t.fault = "none" PROVE CanTrade(t, r[1], r[2])
    <3>1. Pointers(t) /\ Apart(t, {})
      BY <2>1 DEF Sound, Service
    <3>2. t.route[r] \in {InRoute, PlannedInRoute}
      BY <1>1, <3>1 DEF Pointers
    <3>3. Present(t, r) /\ t.route[r] # Established /\ Ends(r) \cap {} = {}
      BY <3>2, StatusesDiffer DEF Present
    <3> QED BY <3>1, <3>3 DEF Apart
  <2>2. t.fault = "none"
    BY <1>1, <1>2, UnitFaultStays
  <2> QED BY <1>1, <1>2, <2>1, <2>2, UnitEstablishedPasses
<1>3. CASE x = t
  BY <1>3 DEF Passed
<1>4. CASE x = Released(t, {u})
  <2>1. Releases(t, x)
    BY <1>1, <1>4, ReleasedAnyway
  <2>2. Steady(t, x)
    BY <2>1 DEF Releases, Steady, Still
  <2> QED BY <2>1, <2>2, SteadyPasses DEF Releases
<1>5. CASE x \in UnitEstablished(t, u, h, e) /\ e = r[2] /\ CanTrade(t, h, e)
  BY <1>1, <1>5, UnitEstablishedPasses
<1>6. \/ x \in UnitEstablished(t, u, r[1], r[2])
      \/ x = t \/ x = Released(t, {u})
      \/ (x \in UnitEstablished(t, u, h, e) /\ e = r[2] /\ CanTrade(t, h, e))
  BY DEF Arrived
<1> QED BY <1>2, <1>3, <1>4, <1>5, <1>6

LEMMA OrdersExecutedPasses ==
    ASSUME Valued, NEW s, Sound(s, {}, {}), NEW u \in Units, s.at[u] # Dead, s.home[u] \in Cities,
           s.serves[u] \in Routes, NEW x \in OrdersExecuted(s, u), x.fault = "none"
    PROVE  s.fault = "none" /\ Passed(s, x)
<1> DEFINE r == s.serves[u]
           T(h, e) == Placed(s, u, h, e)
           E == {y \in Cities : s.owner[y] # Nobody} \cup {Road}
<1>1. OrdersExecuted(s, u)
        = UNION {Arrived(T(h, e), u, r, h, e) : h \in {s.home[u], r[1]}, e \in E}
  BY DEF OrdersExecuted
<1>2. PICK h \in {s.home[u], r[1]}, e \in E : x \in Arrived(T(h, e), u, r, h, e)
  BY <1>1
<1>3. h \in Cities /\ e \in Cities \cup {Road} /\ s \in State
  BY <1>2, BackFacts DEF Sound
<1>4. IsSettled(s, T(h, e), u) /\ T(h, e).home[u] = h
  BY <1>3, SettledIs
<1>5. s.fault = "none" => s.owner[r[1]] = s.owner[h]
  <2>1. r # NoRoute
    BY NoRouteIsNone
  <2>2. s.fault = "none" => s.owner[r[1]] = UnitOwner(s, u)
    BY <2>1 DEF Sound, Service, Loyal
  <2> QED BY <2>2 DEF UnitOwner
<1>6. Sound(T(h, e), {}, {})
  BY <1>4, <1>5, SettledKeeps
<1>7. T(h, e).serves[u] = r /\ Steady(s, T(h, e)) /\ T(h, e).fault = s.fault
  BY <1>4 DEF IsSettled, Steady
<1> HIDE DEF T, r
<1>8. r \in Routes
  BY DEF r
<1>9. T(h, e).fault = "none" /\ Passed(T(h, e), x)
  BY <1>2, <1>3, <1>4, <1>6, <1>7, <1>8, ArrivedPasses
<1> QED BY <1>7, <1>9, SteadyFirst

LEMMA BegunIsSteady ==
    ASSUME NEW s \in State, NEW u \in Units, NEW q \in Routes, Free(s, u, q),
           NEW b, IsBegun(s, b, u, q)
    PROVE  Steady(s, b)
<1>1. s.route[q] \in Statuses /\ s.route[q] \notin {Absent, Established}
  BY StateFields DEF Free
<1>2. \A x \in Routes : b.route[x] = IF x = q THEN WithCaravan(s.route[q]) ELSE s.route[x]
  BY StateFields DEF IsBegun
<1>3. /\ WithCaravan(s.route[q]) # Established
      /\ IsPlan(s.route[q]) => IsPlan(WithCaravan(s.route[q]))
  BY <1>1 DEF Statuses, WithCaravan, IsPlan, Absent, Made, Planned, InRoute, PlannedInRoute,
              Established
<1> QED BY <1>1, <1>2, <1>3 DEF Steady, IsBegun, Still

LEMMA TakenAsPasses ==
    ASSUME Valued, NEW s, Sound(s, {}, {}), s.fault = "none", NEW u \in Units, NEW q \in Routes,
           Free(s, u, q), NEW x \in TakenAs(s, u, q), x.fault = "none"
    PROVE  Passed(s, x)
<1>1. PICK begun, halted, off : IsTakenAs(s, u, q, begun, halted, off)
  BY TakenAsIs
<1>2. /\ q[1] \in Cities /\ q[2] \in Cities /\ s \in State /\ Pointers(s) /\ Apart(s, {})
  BY BackFacts DEF Sound, Service
<1>3. CASE s.home[u] = q[1] /\ s.at[u] = q[2]
  <2>1. Sound(begun, {u}, {}) /\ Steady(s, begun)
    BY <1>1, <1>2, BegunKeeps, BegunIsSteady DEF IsTakenAs
  <2>2. x \in UnitEstablished(begun, u, q[1], q[2])
    BY <1>1, <1>3 DEF IsTakenAs
  <2>3. CanTrade(begun, q[1], q[2])
    <3>1. Present(s, q) /\ s.route[q] # Established /\ Ends(q) \cap {} = {}
      BY DEF Free, Present
    <3>2. CanTrade(s, q[1], q[2])
      BY <1>2, <3>1 DEF Apart
    <3> QED BY <2>1, <3>2 DEF Steady, CanTrade
  <2> QED BY <1>2, <2>1, <2>2, <2>3, UnitEstablishedPasses, SteadyFirst
<1>4. CASE ~(s.home[u] = q[1] /\ s.at[u] = q[2])
  <2>1. x = halted \/ x \in OrdersExecuted(off, u)
    BY <1>1, <1>4 DEF IsTakenAs
  <2>2. Sound(halted, {}, {}) /\ halted \in State
    BY <1>1, LeftKeeps DEF IsTakenAs, Sound
  <2>3. Sound(off, {}, {}) /\ Steady(halted, off)
    BY <1>1, <2>2, BegunKeeps, BegunIsSteady DEF IsTakenAs
  <2>4. off.at[u] # Dead /\ off.home[u] \in Cities /\ off.serves[u] \in Routes
    BY <1>1 DEF IsTakenAs
  <2>5. Steady(s, halted)
    <3>1. \A r \in LeftBy(s, {u}) : s.route[r] \in {InRoute, PlannedInRoute}
      BY <1>2 DEF LeftBy, Pointers
    <3> QED BY <1>1, <3>1, StatusesDiffer DEF IsTakenAs, IsReleased, Still, Steady, IsPlan
  <2>6. CASE x = halted
    BY <2>5, <2>6, SteadyPasses
  <2>7. CASE x \in OrdersExecuted(off, u)
    <3>1. Passed(off, x)
      BY <2>3, <2>4, <2>7, OrdersExecutedPasses
    <3> QED BY <2>3, <2>5, <3>1, SteadyFirst
  <2> QED BY <2>1, <2>6, <2>7
<1> QED BY <1>3, <1>4

\* What passes after routes were turned passes.
LEMMA TurnedFirst ==
    ASSUME NEW s, Sound(s, {}, {}), s.fault = "none", NEW T, Turnable(s, T),
           NEW t, IsTurned(s, t, T), NEW n, Passed(t, n)
    PROVE  Passed(s, n)
<1>1. \A z \in Routes : s.route[z] = Established => t.route[z] = Established
  BY SwappedFacts DEF IsTurned
<1>2. \A z \in Routes : t.route[z] = Established => s.route[z] = Established
  BY SwappedFacts DEF IsTurned
<1>3. ASSUME NEW z \in Routes, s.route[z] = Established
      PROVE  n.route[z] = Established \/ n.route[Back(z)] = Established \/ Better(s, n, z)
  <2>1. n.route[z] = Established \/ n.route[Back(z)] = Established \/ Better(t, n, z)
    BY <1>1, <1>3 DEF Passed
  <2> QED BY <1>1, <2>1 DEF Better
<1>4. ASSUME NEW z \in Routes, IsPlan(s.route[z])
      PROVE  \/ IsPlan(n.route[z]) \/ (SameOwner(s, z) /\ IsPlan(n.route[Back(z)]))
             \/ Established \in {n.route[z], n.route[Back(z)]}
  <2>1. Back(z) \in Routes /\ Back(Back(z)) = z
    BY BackFacts
  <2>2. SameOwner(t, z) <=> SameOwner(s, z)
    BY DEF IsTurned, Still, SameOwner
  <2>3. CASE Swapped(T, z)
    <3>1. SameOwner(s, z)
      BY <2>3, SwappedFacts
    <3>2. IsPlan(t.route[Back(z)])
      BY <1>4, <2>1, <2>3 DEF IsTurned, Swapped
    <3>3. \/ IsPlan(n.route[Back(z)]) \/ IsPlan(n.route[z])
          \/ Established \in {n.route[Back(z)], n.route[z]}
      BY <2>1, <3>2 DEF Passed
    <3> QED BY <3>1, <3>3
  <2>4. CASE ~Swapped(T, z)
    <3>1. IsPlan(t.route[z])
      BY <1>4, <2>4 DEF IsTurned
    <3> QED BY <2>2, <3>1 DEF Passed
  <2> QED BY <2>3, <2>4
<1> QED BY <1>3, <1>4 DEF Passed

LEMMA TakenPasses ==
    ASSUME Valued, NEW s, Sound(s, {}, {}), s.fault = "none", NEW u \in Units, NEW r \in Routes,
           Free(s, u, r), NEW x \in Taken(s, u, r), x.fault = "none"
    PROVE  Passed(s, x)
<1>1. PICK way \in Ways(s, r) : x \in TakenAs(way[1], u, way[2])
  BY DEF Taken
<1>2. CASE way = <<s, r>>
  BY <1>1, <1>2, TakenAsPasses
<1>3. CASE way = <<Turned(s, {r}), Back(r)>> /\ SameOwner(s, r)
  <2> DEFINE t == Turned(s, {r})
  <2>1. Turnable(s, {r})
    BY <1>3 DEF Free, Turnable
  <2>2. Sound(t, {}, {}) /\ IsTurned(s, t, {r})
    BY <2>1, TurnedKeeps, TurnedIs DEF Sound
  <2> HIDE DEF t
  <2>3. Back(r) \in Routes /\ Back(r)[1] = r[2] /\ Back(Back(r)) = r
    BY BackFacts
  <2>4. Free(t, u, Back(r)) /\ t.fault = "none"
    <3>1. t.route[Back(r)] = s.route[r] /\ t.carrier[Back(r)] = s.carrier[r]
      BY <2>2, <2>3 DEF IsTurned, Swapped
    <3> QED BY <1>3, <2>2, <2>3, <3>1 DEF IsTurned, Still, Free, SameOwner, UnitOwner
  <2>5. x \in TakenAs(t, u, Back(r))
    BY <1>1, <1>3 DEF t
  <2>6. Passed(t, x)
    BY <2>2, <2>3, <2>4, <2>5, TakenAsPasses
  <2> QED BY <2>1, <2>2, <2>6, TurnedFirst
<1>4. way = <<s, r>> \/ (way = <<Turned(s, {r}), Back(r)>> /\ SameOwner(s, r))
  BY <1>1 DEF Ways
<1> QED BY <1>2, <1>3, <1>4

\* EstablishedGivesWay and PlansKept, of one step
GaveWay ==
    fault' = "none" =>
        \A r \in Routes : route[r] = Established =>
          \/ route'[r] = Established \/ route'[Back(r)] = Established
          \/ \E c \in Ends(r) : owner'[c] = Nobody
          \/ \E o \in Routes : /\ route'[o] = Established /\ route[o] # Established
                              /\ Ends(o) \cap Ends(r) # {}
                              /\ worth[o] > worth[r]

PlansLive ==
    fault' = "none" =>
        \A r \in Routes : IsPlan(route[r]) =>
          \/ IsPlan(route'[r])
          \/ IsPlan(route'[Back(r)]) /\ (owner[r[1]] = owner[r[2]] \/ events' # events)
          \/ Established \in {route'[r], route'[Back(r)]}
          \/ Unplan(owner[r[1]], r[1], r[2]) \/ Unplan(owner[r[1]], r[2], r[1])
          \/ \E c \in Ends(r) : owner'[c] # owner[c]
          \/ \E c \in Ends(r) : Reset(owner[c])

\* Most steps pass.
Passes == \E n : Become(n) /\ Passed(Now, n)

LEMMA PassesIsEnough ==
    ASSUME Passes
    PROVE  GaveWay /\ PlansLive
<1>1. PICK n : Become(n) /\ Passed(Now, n)
  BY DEF Passes
<1>2. route' = n.route
  BY <1>1 DEF Become
<1>3. Now.route = route /\ Now.owner = owner
  BY DEF Now
<1>4. GaveWay
  BY <1>1, <1>2, <1>3 DEF Passed, Better, GaveWay
<1>5. PlansLive
  BY <1>1, <1>2, <1>3 DEF Passed, SameOwner, PlansLive
<1> QED BY <1>4, <1>5

LEMMA AddedIsSteady ==
    ASSUME NEW s \in State, Trades(s), NEW c \in Cities, NEW d \in Cities, c # d,
           Found(s, c, d) = {}, NEW status \in Statuses, status # Established
    PROVE  Steady(s, Added(s, c, d, status))
<1> DEFINE n == Added(s, c, d, status)
<1>1. IsAdded(s, n, c, d, status)
  BY AddedIs
<1> HIDE DEF n
<1>2. <<c, d>> \in Routes /\ ~Present(s, <<c, d>>)
  BY PairFacts, FoundFacts
<1>3. \A x \in Routes : n.route[x] = IF x = <<c, d>> THEN status ELSE s.route[x]
  BY <1>1, <1>2, StateFields DEF IsAdded
<1>4. Steady(s, n)
  BY <1>1, <1>2, <1>3, StatusesDiffer DEF Steady, IsAdded, Still, IsPlan, Present
<1> QED BY <1>4 DEF n

LEMMA PlanPasses ==
    ASSUME RouteInv, NEW p \in Players, NEW r \in Asked, Plan(p, r[1], r[2])
    PROVE  Passes
<1>1. /\ r[1] \in Cities /\ r[2] \in Cities /\ r[1] # r[2]
  BY RouteConstants
<1>2. /\ Found(Now, r[1], r[2]) = {} /\ Become(Added(Now, r[1], r[2], Planned))
  BY DEF Plan
<1>3. Planned \in Statuses /\ Planned # Established /\ Now \in State /\ Trades(Now)
  BY StatusesDiffer DEF Statuses, RouteInv, Sound
<1> QED BY <1>1, <1>2, <1>3, AddedIsSteady, SteadyPasses DEF Passes

LEMMA ServePasses ==
    ASSUME Valued, RouteInv, NEW p \in Players, NEW u \in Units, NEW r \in Asked,
           Serve(p, u, r[1], r[2]), fault' = "none"
    PROVE  Passes
<1> DEFINE c == r[1]
           d == r[2]
<1>1. /\ c \in Cities /\ d \in Cities /\ c # d
  BY RouteConstants
<1>2. /\ fault = "none" /\ Alive(Now, u) /\ UnitOwner(Now, u) = p /\ owner[c] = p
  BY DEF Serve, Running
<1>3. /\ Now \in State /\ Trades(Now) /\ Now.fault = "none" /\ Now.owner = owner
      /\ Now.at = at /\ Now.home = home /\ Now.route = route /\ Now.carrier = carrier
      /\ home[u] \in Cities /\ at[u] \in Cities \cup {Road}
      /\ \A x \in Routes : carrier[x] # NoUnit => route[x] \in {InRoute, PlannedInRoute}
  BY <1>2, NowFacts DEF Alive
<1>4. CASE Found(Now, c, d) = {}
  <2> DEFINE t == Added(Now, c, d, Made)
  <2>1. CanTrade(Now, c, d) /\ \E n \in Taken(t, u, <<c, d>>) : Become(n)
    BY <1>4 DEF Serve
  <2>2. Made \in Statuses /\ Made # Established
    BY StatusesDiffer DEF Statuses
  <2>3. Sound(t, {}, {}) /\ IsAdded(Now, t, c, d, Made) /\ Steady(Now, t)
    BY <1>1, <1>3, <1>4, <2>1, <2>2, AddedKeeps, AddedIs, AddedIsSteady DEF RouteInv
  <2> HIDE DEF t
  <2>4. <<c, d>> \in Routes
    BY <1>1, PairFacts
  <2>5. t.route[<<c, d>>] = Made /\ t.carrier[<<c, d>>] = NoUnit
    BY <1>3, <2>3, <2>4, StateFields DEF IsAdded
  <2>6. Free(t, u, <<c, d>>) /\ t.fault = "none"
    BY <1>2, <1>3, <2>3, <2>5, StatusesDiffer DEF IsAdded, Still, Free, UnitOwner
  <2>7. PICK n \in Taken(t, u, <<c, d>>) : Become(n)
    BY <2>1
  <2>8. n.fault = "none"
    BY <2>7 DEF Become
  <2> HIDE DEF c, d
  <2>9. Passed(t, n)
    BY <2>3, <2>4, <2>6, <2>7, <2>8, TakenPasses
  <2> QED BY <2>3, <2>7, <2>9, SteadyFirst DEF Passes
<1>5. CASE Found(Now, c, d) # {}
  <2>1. PICK x \in Found(Now, c, d) :
          route[x] \in {Made, Planned} /\ \E n \in Taken(Now, u, x) : Become(n)
    BY <1>5 DEF Serve
  <2>2. x \in Routes /\ Answers(Now, x, c, d)
    BY <1>1, <1>3, <2>1, FoundFacts
  <2>3. Free(Now, u, x)
    <3>1. Now.carrier[x] = NoUnit /\ Now.route[x] \notin {Absent, Established}
      BY <1>3, <2>1, <2>2, StatusesDiffer
    <3>2. owner[x[1]] = p
      BY <1>2, <1>3, <2>1, <2>2, StatusesDiffer DEF Answers, SameOwner
    <3> QED BY <1>2, <1>3, <3>1, <3>2 DEF Free
  <2>4. PICK n \in Taken(Now, u, x) : Become(n)
    BY <2>1
  <2>5. n.fault = "none"
    BY <2>4 DEF Become
  <2>6. Passed(Now, n)
    BY <1>3, <2>2, <2>3, <2>4, <2>5, TakenPasses DEF RouteInv
  <2> QED BY <2>4, <2>6 DEF Passes
<1> QED BY <1>4, <1>5

LEMMA ServeAnyPasses ==
    ASSUME Valued, RouteInv, NEW p \in Players, NEW u \in Units, ServeAny(p, u), fault' = "none"
    PROVE  Passes
<1>1. PICK T, r : Chosen(p, u, T, r)
  BY ServerChooses
<1>2. PICK n \in TakenAs(Turned(Now, T), u, r) : Become(n)
  BY <1>1 DEF Chosen
<1>3. n.fault = "none"
  BY <1>2 DEF Become
<1>4. Passed(Turned(Now, T), n)
  BY <1>1, <1>2, <1>3, TakenAsPasses DEF Chosen
<1>5. Now.fault = "none"
  BY DEF ServeAny, Running, Now
<1>6. Passed(Now, n)
  BY <1>1, <1>4, <1>5, TurnedFirst DEF Chosen, RouteInv
<1> QED BY <1>2, <1>6 DEF Passes

LEMMA SellPasses ==
    ASSUME Valued, RouteInv, NEW u \in Units, NEW d \in Cities, Sell(u, d), fault' = "none"
    PROVE  Passes
<1>1. fault = "none" /\ Alive(Now, u) /\ CanTrade(Now, home[u], d)
  BY DEF Sell, Running
<1>2. home[u] \in Cities
  BY <1>1, NowFacts
<1>3. PICK n \in UnitEstablished(Now, u, home[u], d) : Become(n)
  BY DEF Sell
<1>4. n.fault = "none"
  BY <1>3 DEF Become
<1>5. Passed(Now, n)
  BY <1>1, <1>2, <1>3, <1>4, UnitEstablishedPasses DEF RouteInv
<1> QED BY <1>3, <1>5 DEF Passes

LEMMA TravelPasses ==
    ASSUME Valued, RouteInv, NEW u \in Units, Travel(u), fault' = "none"
    PROVE  Passes
<1>1. fault = "none" /\ Alive(Now, u) /\ serves[u] # NoRoute
  BY DEF Travel, Running
<1>2. PICK n \in OrdersExecuted(Now, u) : Become(n)
  BY DEF Travel
<1>3. Now.at[u] # Dead /\ Now.home[u] \in Cities /\ Now.serves[u] \in Routes
  BY <1>1, NowFacts
<1>4. n.fault = "none"
  BY <1>2 DEF Become
<1>5. Passed(Now, n)
  BY <1>2, <1>3, <1>4, OrdersExecutedPasses DEF RouteInv
<1> QED BY <1>2, <1>5 DEF Passes

LEMMA PlacedIsSteady ==
    ASSUME NEW s \in State, NEW u, NEW h, NEW e
    PROVE  Steady(s, Placed(s, u, h, e))
<1> DEFINE n == Placed(s, u, h, e)
<1>1. n.route = s.route /\ n.owner = s.owner
  BY DEF Placed, State
<1> HIDE DEF n
<1>2. Steady(s, n)
  BY <1>1 DEF Steady
<1> QED BY <1>2 DEF n

LEMMA PlainMovesPass ==
    ASSUME RouteInv, NEW u \in Units,
           \/ \E e \in Cities \cup {Road} : Move(u, e)
           \/ Rehome(u) \/ Lose(u)
           \/ \E c \in Cities : Build(u, c)
    PROVE  Passes
<1>1. Now \in State
  BY DEF RouteInv, Sound
<1>2. ASSUME NEW e \in Cities \cup {Road}, Move(u, e) PROVE Passes
  <2> DEFINE t == Released(Now, {u})
  <2>1. Releases(Now, t)
    BY <1>1, ReleasedAnyway
  <2>2. Become(Placed(t, u, home[u], e))
    BY <1>2 DEF Move
  <2> HIDE DEF t
  <2>3. Passed(Now, t) /\ Steady(t, Placed(t, u, home[u], e))
    <3>1. Steady(Now, t) /\ t \in State
      BY <2>1 DEF Releases, Still, Steady
    <3> QED BY <3>1, SteadyPasses, PlacedIsSteady
  <2> QED BY <2>2, <2>3, SteadyLast DEF Passes
<1>3. ASSUME Rehome(u) PROVE Passes
  BY <1>1, <1>3, PlacedIsSteady, SteadyPasses DEF Rehome, Passes
<1>4. ASSUME Lose(u) PROVE Passes
  BY <1>1, <1>4, WipedIsSteady, SteadyPasses DEF Lose, Passes
<1>5. ASSUME NEW c \in Cities, Build(u, c) PROVE Passes
  BY <1>1, <1>5, PlacedIsSteady, SteadyPasses DEF Build, Passes
<1> QED BY <1>2, <1>3, <1>4, <1>5

\* Of two routes of a pair that answer, one is behind and is not found.
LEMMA FoundAlone ==
    ASSUME NEW s, Trades(s), Ordered(s), NEW c \in Cities, NEW d \in Cities, c # d,
           NEW x \in Found(s, c, d), NEW y \in Found(s, c, d)
    PROVE  x = y
<1>1. /\ x \in Routes /\ Answers(s, x, c, d) /\ x \in {<<c, d>>, <<d, c>>}
      /\ y \in Routes /\ Answers(s, y, c, d) /\ y \in {<<c, d>>, <<d, c>>}
  BY FoundFacts
<1>2. /\ ~(x \in s.behind /\ Answers(s, Back(x), c, d))
      /\ ~(y \in s.behind /\ Answers(s, Back(y), c, d))
  BY DEF Found
<1>3. ASSUME x # y PROVE FALSE
  <2>1. y = Back(x) /\ x = Back(y)
    BY <1>1, <1>3, PairFacts
  <2>2. Present(s, x) /\ Present(s, Back(x))
    BY <1>1, <2>1 DEF Answers
  <2>3. x \in s.behind \/ y \in s.behind
    BY <1>1, <2>1, <2>2 DEF Ordered
  <2> QED BY <1>1, <1>2, <2>1, <2>3
<1> QED BY <1>3

LEMMA UnplanYields ==
    ASSUME RouteInv, NEW p \in Players, NEW q \in Asked, Unplan(p, q[1], q[2])
    PROVE  GaveWay /\ PlansLive
<1> DEFINE c == q[1]
           d == q[2]
           R == Found(Now, c, d)
           n == Removed(Now, R)
<1>1. /\ c \in Cities /\ d \in Cities /\ c # d
  BY RouteConstants
<1>2. /\ fault = "none" /\ owner[c] = p /\ Become(n) /\ \E x \in R : route[x] # Established
  BY DEF Unplan, Running
<1>3. /\ Now \in State /\ Trades(Now) /\ Ordered(Now) /\ Now.route = route /\ Now.owner = owner
  BY <1>2, NowFacts
<1>4. \A x, y \in R : x = y
  BY <1>1, <1>3, FoundAlone
<1>5. /\ R \in SUBSET Routes
      /\ \A x \in R : Answers(Now, x, c, d) /\ x \in {<<c, d>>, <<d, c>>}
  BY <1>1, <1>3, FoundFacts
<1>6. Unplan(owner[c], c, d)
  BY <1>2
<1> HIDE DEF R
<1>7. IsRemoved(Now, n, R)
  BY <1>3, <1>5, RemovedIs
<1> HIDE DEF n, c, d
<1>8. \A x \in Routes : route'[x] = IF x \in R THEN Absent ELSE route[x]
  BY <1>2, <1>3, <1>7 DEF Become, IsRemoved
<1>9. GaveWay
  BY <1>2, <1>4, <1>8 DEF GaveWay
<1>10. ASSUME NEW x \in R, IsPlan(route[x])
       PROVE  Unplan(owner[x[1]], x[1], x[2]) \/ Unplan(owner[x[1]], x[2], x[1])
  <2>1. CASE x = <<c, d>>
    BY <1>6, <2>1
  <2>2. CASE x = <<d, c>>
    <3>1. x # <<c, d>> /\ route[x] # Established
      BY <1>1, <1>10, <2>2, StatusesDiffer DEF IsPlan
    <3>2. owner[d] = owner[c]
      BY <1>3, <1>5, <2>2, <3>1 DEF Answers, SameOwner
    <3> QED BY <1>6, <2>2, <3>2
  <2> QED BY <1>5, <2>1, <2>2
<1>11. PlansLive
  BY <1>8, <1>10 DEF PlansLive
<1> QED BY <1>9, <1>11

LEMMA ResetYields ==
    ASSUME RouteInv, NEW p \in Players, Reset(p)
    PROVE  GaveWay /\ PlansLive
<1> DEFINE R == {r \in Routes : /\ Present(Now, r) /\ route[r] # Established
                                /\ \E c \in Ends(r) : owner[c] = p}
           n == Removed(Now, R)
<1>1. Now \in State /\ Now.route = route
  BY DEF RouteInv, Sound, Now
<1>2. Become(n)
  BY DEF Reset
<1>3. R \in SUBSET Routes
  OBVIOUS
<1>4. \A r \in R : route[r] # Established /\ \E c \in Ends(r) : owner[c] = p
  OBVIOUS
<1> HIDE DEF R
<1>5. IsRemoved(Now, n, R)
  BY <1>1, <1>3, RemovedIs
<1> HIDE DEF n
<1>6. \A x \in Routes : route'[x] = IF x \in R THEN Absent ELSE route[x]
  BY <1>1, <1>2, <1>5 DEF Become, IsRemoved
<1>7. GaveWay
  BY <1>4, <1>6 DEF GaveWay
<1>8. \A r \in R : \E c \in Ends(r) : Reset(owner[c])
  BY <1>4
<1>9. PlansLive
  BY <1>6, <1>8 DEF PlansLive
<1> QED BY <1>7, <1>9

\* Of a city that changes hands, or is lost, plans and caravans go: the others' trade
\* and plans are as they were.
LEMMA LossYields ==
    ASSUME NEW c \in Cities, owner'[c] # owner[c],
           \A x \in Routes : c \notin Ends(x) =>
             /\ route[x] = Established => route'[x] = Established
             /\ IsPlan(route[x]) => IsPlan(route'[x]),
           \A x \in Routes : c \in Ends(x) /\ route[x] = Established =>
             route'[x] = Established \/ owner'[c] = Nobody
    PROVE  GaveWay /\ PlansLive
<1>1. GaveWay
  BY DEF GaveWay
<1>2. PlansLive
  BY DEF PlansLive
<1> QED BY <1>1, <1>2

LEMMA TransferYields ==
    ASSUME RouteInv, NEW c \in Cities, NEW q \in Players, Transfer(c, q)
    PROVE  GaveWay /\ PlansLive
<1> DEFINE n == [Now EXCEPT !.owner[c] = q]
           G == Garrison(c)
           s == Wiped(n, G)
           R == {r \in Routes : c \in Ends(r) /\ Present(s, r) /\ s.route[r] # Established}
           t == Removed(s, R)
<1>1. fault = "none" /\ owner[c] # q /\ Become(t)
  BY DEF Transfer, Event
<1>2. Now \in State /\ Now.route = route /\ Now.owner = owner /\ G \in SUBSET Units
  BY <1>1, NowFacts DEF Garrison
<1>3. n \in State /\ n.route = route /\ n.owner[c] = q
  <2> DEFINE ow == [Now.owner EXCEPT ![c] = q]
  <2>1. ow \in [Cities -> Players \cup {Nobody}] /\ ow[c] = q
    BY <1>2, StateFields
  <2>2. n = [Now EXCEPT !.owner = ow]
    OBVIOUS
  <2> HIDE DEF ow
  <2> QED BY <1>2, <2>1, <2>2 DEF State
<1> HIDE DEF n, G
<1>4. Steady(n, s) /\ s \in State
  <2>1. Releases(n, Released(n, G)) /\ IsWiped(Released(n, G), s, G)
    BY <1>2, <1>3, ReleasedAnyway, WipedIs DEF Releases
  <2> QED BY <1>2, <1>3, <2>1, WipedIsSteady DEF IsWiped
<1>5. R \in SUBSET Routes /\ \A r \in R : c \in Ends(r) /\ s.route[r] # Established
  OBVIOUS
<1> HIDE DEF s, R
<1>6. IsRemoved(s, t, R)
  BY <1>4, <1>5, RemovedIs
<1> HIDE DEF t
<1>7. route' = t.route /\ owner' = t.owner
  BY <1>1 DEF Become
<1>8. owner'[c] # owner[c]
  BY <1>1, <1>3, <1>4, <1>6, <1>7 DEF IsRemoved, Still, Steady
<1>9. \A x \in Routes : x \notin R =>
        /\ route[x] = Established => route'[x] = Established
        /\ IsPlan(route[x]) => IsPlan(route'[x])
  BY <1>3, <1>4, <1>6, <1>7 DEF IsRemoved, Steady
<1>10. \A x \in R : c \in Ends(x) /\ route[x] # Established
  BY <1>3, <1>4, <1>5 DEF Steady
<1>11. /\ \A x \in Routes : c \notin Ends(x) =>
            /\ route[x] = Established => route'[x] = Established
            /\ IsPlan(route[x]) => IsPlan(route'[x])
       /\ \A x \in Routes : c \in Ends(x) /\ route[x] = Established =>
            route'[x] = Established
  BY <1>9, <1>10
<1> QED BY <1>8, <1>11, LossYields

LEMMA DestroyYields ==
    ASSUME RouteInv, NEW c \in Cities, Destroy(c)
    PROVE  GaveWay /\ PlansLive
<1> DEFINE G == {u \in Units : Alive(Now, u) /\ home[u] = c}
           s == Wiped(Now, G)
           R == {r \in Routes : c \in Ends(r) /\ Present(s, r)}
           t == Removed(s, R)
           ow == [t.owner EXCEPT ![c] = Nobody]
           a == [u \in Units |-> IF t.at[u] = c THEN Road ELSE t.at[u]]
           z == [t EXCEPT !.owner[c] = Nobody, !.at = a]
<1>1. fault = "none" /\ owner[c] # Nobody /\ Become(z)
  BY DEF Destroy, Event
<1>2. Now \in State /\ Now.route = route /\ Now.owner = owner /\ G \in SUBSET Units
  BY <1>1, NowFacts
<1> HIDE DEF G
<1>3. Steady(Now, s) /\ s \in State
  <2>1. Releases(Now, Released(Now, G)) /\ IsWiped(Released(Now, G), s, G)
    BY <1>2, ReleasedAnyway, WipedIs DEF Releases
  <2> QED BY <1>2, <2>1, WipedIsSteady DEF IsWiped
<1>4. R \in SUBSET Routes /\ \A r \in R : c \in Ends(r)
  OBVIOUS
<1> HIDE DEF s, R
<1>5. IsRemoved(s, t, R)
  BY <1>3, <1>4, RemovedIs
<1> HIDE DEF t
<1>6. t \in State /\ ow[c] = Nobody
  BY <1>5, StateFields DEF IsRemoved
<1>7. z = [t EXCEPT !.owner = ow, !.at = a]
  OBVIOUS
<1> HIDE DEF a, ow, z
<1>8. route' = t.route /\ owner' = ow
  BY <1>1, <1>6, <1>7 DEF Become, State
<1>9. owner'[c] = Nobody /\ owner'[c] # owner[c]
  BY <1>1, <1>6, <1>8
<1>10. \A x \in Routes : x \notin R =>
         /\ route[x] = Established => route'[x] = Established
         /\ IsPlan(route[x]) => IsPlan(route'[x])
  BY <1>2, <1>3, <1>5, <1>8 DEF IsRemoved, Steady
<1>11. \A x \in Routes : c \notin Ends(x) =>
         /\ route[x] = Established => route'[x] = Established
         /\ IsPlan(route[x]) => IsPlan(route'[x])
  BY <1>4, <1>10
<1> QED BY <1>9, <1>11, LossYields

\* A route that is saved is loaded in one of its directions.
LEMMA ReloadYields ==
    ASSUME RouteInv, Reload, events \in Nat
    PROVE  GaveWay /\ PlansLive
<1> DEFINE saved == {r \in Routes : Present(Now, r)}
<1>1. fault = "none" /\ events' # events
  <2>1. fault = "none" /\ events' = events + 1
    BY DEF Reload, Event
  <2> QED BY <2>1
<1>2. Now \in State /\ Now.fault = "none" /\ Now.route = route /\ Now.owner = owner
  BY <1>1, NowFacts
<1>3. CASE Become([Now EXCEPT !.fault = "null"])
  <2>1. fault' = "null"
    BY <1>3 DEF Become, Now
  <2> QED BY <2>1 DEF GaveWay, PlansLive
<1>4. CASE /\ \A r \in saved : Back(r) \notin saved
           /\ ~Become([Now EXCEPT !.fault = "null"])
  <2> DEFINE StatusOf(r, T) ==
               IF r \in saved /\ AsLoaded(r, T) = r THEN route[r]
               ELSE IF Back(r) \in saved /\ AsLoaded(Back(r), T) = r
                 THEN route[Back(r)] ELSE Absent
             ServedBy(u, T) ==
               IF serves[u] = NoRoute THEN NoRoute
               ELSE IF SameOwner(Now, serves[u]) \/ AsLoaded(serves[u], T) = serves[u]
                 THEN AsLoaded(serves[u], T) ELSE NoRoute
             CarrierOf(r, T) ==
               IF \E u \in Units : ServedBy(u, T) = r
                 THEN CHOOSE u \in Units : ServedBy(u, T) = r ELSE NoUnit
  <2>1. PICK T \in SUBSET {r \in saved : SameOwner(Now, r)} :
          Become([Now EXCEPT !.route = [r \in Routes |-> StatusOf(r, T)],
                             !.carrier = [r \in Routes |-> CarrierOf(r, T)],
                             !.behind = {},
                             !.serves = [u \in Units |-> ServedBy(u, T)]])
    BY <1>4 DEF Reload, Event
  <2> DEFINE rt == [r \in Routes |-> StatusOf(r, T)]
             ca == [r \in Routes |-> CarrierOf(r, T)]
             sv == [u \in Units |-> ServedBy(u, T)]
             A == [r \in Routes |-> AsLoaded(r, T)]
  <2>2. \A r \in Routes : A[r] \in {r, Back(r)}
    BY DEF AsLoaded
  <2>3. \A y \in Routes :
          rt[y] = IF y \in saved /\ A[y] = y THEN route[y]
                  ELSE IF Back(y) \in saved /\ A[Back(y)] = y THEN route[Back(y)]
                  ELSE Absent
    BY BackFacts
  <2>4. Become([Now EXCEPT !.route = rt, !.carrier = ca, !.behind = {}, !.serves = sv])
    BY <2>1
  <2> HIDE DEF rt, ca, sv, A
  <2>5. route' = rt /\ owner' = owner
    BY <1>2, <2>4 DEF Become, State
  <2>6. \A r \in Routes : route[r] # Absent => r \in saved /\ Back(r) \notin saved
    BY <1>2, <1>4 DEF Present
  <2> HIDE DEF saved
  <2>7. ASSUME NEW r \in Routes, route[r] # Absent
        PROVE  route'[r] = route[r] \/ route'[Back(r)] = route[r]
    <3>1. Back(r) \in Routes /\ Back(r) # r /\ Back(Back(r)) = r
      BY BackFacts
    <3>2. CASE A[r] = r
      BY <2>3, <2>5, <2>6, <2>7, <3>2
    <3>3. CASE A[r] = Back(r)
      BY <2>3, <2>5, <2>6, <2>7, <3>1, <3>3
    <3> QED BY <2>2, <3>2, <3>3
  <2>8. GaveWay
    BY <2>7, StatusesDiffer DEF GaveWay
  <2>9. PlansLive
    BY <1>1, <2>7, StatusesDiffer DEF PlansLive, IsPlan
  <2> QED BY <2>8, <2>9
<1> QED BY <1>3, <1>4 DEF Reload, Event

LEMMA StepYields ==
    ASSUME Valued, RouteInv, events \in Nat, Next
    PROVE  GaveWay /\ PlansLive
<1>1. ASSUME fault' # "none" PROVE GaveWay /\ PlansLive
  BY <1>1 DEF GaveWay, PlansLive
<1>2. ASSUME fault' = "none" PROVE GaveWay /\ PlansLive
  <2>1. \/ \E p \in Players, r \in Asked : Plan(p, r[1], r[2])
        \/ \E p \in Players, u \in Units, r \in Asked : Serve(p, u, r[1], r[2])
        \/ \E p \in Players, u \in Units : ServeAny(p, u)
        \/ \E u \in Units, d \in Cities : Sell(u, d)
        \/ \E u \in Units : \/ \E e \in Cities \cup {Road} : Move(u, e)
                            \/ Rehome(u) \/ Lose(u)
                            \/ \E c \in Cities : Build(u, c)
        \/ \E u \in Units : Travel(u)
        \/ \E p \in Players, r \in Asked : Unplan(p, r[1], r[2])
        \/ \E p \in Players : Reset(p)
        \/ \E c \in Cities, q \in Players : Transfer(c, q)
        \/ \E c \in Cities : Destroy(c)
        \/ Refresh
        \/ Reload
    BY RouteConstants DEF Next
  <2>2. \/ \E p \in Players, r \in Asked : Plan(p, r[1], r[2])
        \/ \E p \in Players, u \in Units, r \in Asked : Serve(p, u, r[1], r[2])
        \/ \E p \in Players, u \in Units : ServeAny(p, u)
        \/ \E u \in Units, d \in Cities : Sell(u, d)
        \/ \E u \in Units : \/ \E e \in Cities \cup {Road} : Move(u, e)
                            \/ Rehome(u) \/ Lose(u)
                            \/ \E c \in Cities : Build(u, c)
        \/ \E u \in Units : Travel(u)
        => Passes
    BY <1>2, PlanPasses, ServePasses, ServeAnyPasses, SellPasses, PlainMovesPass, TravelPasses
  <2>3. Refresh => GaveWay /\ PlansLive
    BY DEF Refresh, GaveWay, PlansLive
  <2> QED BY <2>1, <2>2, <2>3, PassesIsEnough, UnplanYields, ResetYields, TransferYields,
             DestroyYields, ReloadYields
<1> QED BY <1>1, <1>2

\* The steps of a behaviour, seen from the invariant
LEMMA AlwaysYields == Spec => [][GaveWay /\ PlansLive]_vars
<1>1. RouteInv /\ TypeOK /\ [Next]_vars => [GaveWay /\ PlansLive]_vars
  <2>1. TypeOK => events \in Nat /\ Valued
    BY DEF TypeOK, Valued
  <2> QED BY <2>1, StepYields
<1> QED BY <1>1, AlwaysRoutes, RouteTypes, PTL DEF Spec

\* An established trade route ends only with one of its cities or for one of more value
\* with one of its cities, whatever is planned, served, conquered, saved and loaded
\* (unit_establish_trade_route and server_remove_trade_route in tradehand.cc).
THEOREM TradeGivesWay == Spec => EstablishedGivesWay
<1>1. EstablishedGivesWay <=> [][GaveWay]_vars
  BY DEF EstablishedGivesWay, GaveWay
<1> QED BY <1>1, AlwaysYields, PTL

\* A plan outlives the caravans that serve it: it is lost only to trade, to its owner's
\* own request, to the loss of a city or to a reset of a player
\* (trade_free_unit in tradehand.cc).
THEOREM PlansStay == Spec => PlansKept
<1>1. PlansKept <=> [][PlansLive]_vars
  BY DEF PlansKept, PlansLive
<1> QED BY <1>1, AlwaysYields, PTL

=============================================================================
