----------------------------- MODULE TradeRoutes -----------------------------
(***************************************************************************)
(* The trade routes of the server: plans, the caravans that serve them,    *)
(* their establishment, and everything that takes a city, a caravan or a   *)
(* plan away (server/tradehand.cc, common/traderoute.cc, the parts of      *)
(* city.cc, unithand.cc, unittools.cc and citytools.cc that call them, and *)
(* the savegames).                                                         *)
(*                                                                         *)
(* A route is named by the ordered pair of its cities <<pcity1, pcity2>>;  *)
(* game_trade_route_add never makes a second one of the same pair.  Of the *)
(* order of the lists only what the code can tell is kept: which of the    *)
(* two routes of a pair of cities is the older one.                        *)
(*                                                                         *)
(* Handlers call each other in the middle of their work, so the helpers    *)
(* map a state to a state: s is a record with one field of the name of     *)
(* each variable.  Where the map of the game decides (which way is         *)
(* faster, how far a caravan gets) they give the set of possible results.  *)
(***************************************************************************)
EXTENDS Integers, FiniteSets

CONSTANTS
    Cities, Players, Units,   \* the caravans of a run
    Nobody,     \* owner of a city that is destroyed
    NoRoute,    \* unit->ptr of a unit without a route
    NoUnit,     \* ptr->punit of a route without a caravan
    NoCity,     \* homecity of a unit that is not built yet
    Road, Unbuilt, Dead,   \* a unit is in a city, on the road, or not at all
    FirstOwner, \* [Cities -> Players]
    Seat,       \* [Players -> Nat], player_no, the order in which they are loaded
    FirstWorth, \* trade_between_cities at the start, [Routes -> Int] ...
    Worths,     \* ... and what it may become
    Near,       \* the sets of two cities closer than trademindist
    MaxRoutes,  \* maxtraderoutes
    \* Bounds of an instance
    Asked,      \* the routes that the clients ask for
    Contested,  \* the cities that may be lost
    MaxEvents   \* how often a city is lost, the values change or the game is loaded again

ASSUME RouteConstants ==
    /\ IsFiniteSet(Cities) /\ Nobody \notin Players
    /\ NoRoute \notin Cities \X Cities /\ NoUnit \notin Units
    /\ NoCity \notin Cities
    /\ Cities \cap {Road, Unbuilt, Dead} = {}
    /\ Cardinality({Road, Unbuilt, Dead}) = 3
    /\ FirstOwner \in [Cities -> Players] /\ Seat \in [Players -> Nat]
    /\ FirstWorth \in Worths /\ Worths \subseteq [{r \in Cities \X Cities : r[1] # r[2]} -> Int]
    /\ Asked \subseteq {r \in Cities \X Cities : r[1] # r[2]}
    /\ Contested \subseteq Cities
    /\ MaxRoutes \in Nat /\ MaxEvents \in Nat

VARIABLES
    route,    \* [Routes -> status]
    carrier,  \* [Routes -> unit or NoUnit], ptr->punit
    behind,   \* the routes that are younger than the one of the other direction
    serves,   \* [Units -> route or NoRoute], unit->ptr
    home,     \* [Units -> city], homecity
    at,       \* [Units -> city, Road, Unbuilt or Dead]
    owner,    \* [Cities -> player or Nobody]
    worth,    \* [Routes -> Int], trade_between_cities and ptr->value
    events,   \* bounded counter of an instance
    fault     \* "none"; "null" once a null pointer, "freed" once a freed unit is used

vars == <<route, carrier, behind, serves, home, at, owner, worth, events, fault>>

Now == [route |-> route, carrier |-> carrier, behind |-> behind, serves |-> serves,
        home |-> home, at |-> at, owner |-> owner, fault |-> fault]

\* (The quantifier has TLC compute s once.)
Become(s) == \E n \in {s} :
    /\ route' = n.route /\ carrier' = n.carrier /\ behind' = n.behind
    /\ serves' = n.serves /\ home' = n.home /\ at' = n.at /\ owner' = n.owner
    /\ fault' = n.fault

-----------------------------------------------------------------------------
(* Routes, their status bits, and finding them *)

Routes == {r \in Cities \X Cities : r[1] # r[2]}
Back(r) == <<r[2], r[1]>>
Ends(r) == {r[1], r[2]}

Absent == -1    \* there is no such route
Made == 0       \* TR_NONE
Planned == 1
InRoute == 2
PlannedInRoute == 3
Established == 4

\* Mutant: the bit is added.
WithCaravanAdded(status) == status + InRoute

\* status | TR_IN_ROUTE, of a status that is not established
WithCaravan(status) == IF status \in {InRoute, PlannedInRoute} THEN status ELSE status + InRoute

IsPlan(status) == status \in {Planned, PlannedInRoute}

Present(s, r) == s.route[r] # Absent

SameOwner(s, r) == s.owner[r[1]] = s.owner[r[2]]

\* A route that game_trade_route_find accepts for the cities <<c, d>>
Answers(s, r, c, d) ==
    /\ Present(s, r)
    /\ \/ r = <<c, d>>
       \/ r = <<d, c>> /\ (SameOwner(s, r) \/ s.route[r] = Established)

\* game_trade_route_find: the first in the list of c, at most one
Found(s, c, d) ==
    {r \in Routes : Answers(s, r, c, d) /\ ~(r \in s.behind /\ Answers(s, Back(r), c, d))}

\* have_cities_trade_route
HaveRoute(s, c, d) == \E r \in Found(s, c, d) : s.route[r] = Established

\* The established routes of a city
TradesOf(s, c) == {r \in Routes : c \in Ends(r) /\ s.route[r] = Established}

Full(s, c) == Cardinality(TradesOf(s, c)) >= MaxRoutes

\* get_city_min_trade_route: a route of least value (of several, the code takes
\* the first in the list)
Worst(s, c) ==
    {r \in TradesOf(s, c) : \A o \in TradesOf(s, c) : worth[r] <= worth[o]}

CanTrade(s, c, d) == c # d /\ (s.owner[c] # s.owner[d] \/ {c, d} \notin Near)

\* Mutant: the values are not compared.
CanAlwaysReplace(s, c, value) == TRUE

\* A full city must have a route of less value.
CanReplace(s, c, value) == Full(s, c) => \E r \in TradesOf(s, c) : worth[r] < value

CanEstablish(s, c, d) ==
    /\ ~HaveRoute(s, c, d)
    /\ \A e \in {c, d} : CanReplace(s, e, worth[<<c, d>>])

-----------------------------------------------------------------------------
(* Making and removing routes *)

\* game_trade_route_add of cities without a route that would be found
Added(s, c, d, status) ==
    [s EXCEPT !.route[<<c, d>>] = status,
              !.carrier[<<c, d>>] = NoUnit,
              !.behind = (@ \ {<<d, c>>})
                           \cup {r \in {<<c, d>>} : s.route[<<d, c>>] # Absent}]

\* Mutant: the caravans keep their pointers to the routes.
RemovedAlone(s, R) ==
    [s EXCEPT
       !.route = [r \in Routes |-> IF r \in R THEN Absent ELSE @[r]],
       !.carrier = [r \in Routes |-> IF r \in R THEN NoUnit ELSE @[r]],
       !.behind = {r \in @ : r \notin R /\ Back(r) \notin R}]

\* server_remove_trade_route of each of R: its caravan loses its orders.
Removed(s, R) ==
    LET idle == {s.carrier[r] : r \in R} \ {NoUnit}
    IN  [s EXCEPT
           !.route = [r \in Routes |-> IF r \in R THEN Absent ELSE @[r]],
           !.carrier = [r \in Routes |-> IF r \in R THEN NoUnit ELSE @[r]],
           !.behind = {r \in @ : r \notin R /\ Back(r) \notin R},
           !.serves = [u \in Units |-> IF u \in idle THEN NoRoute ELSE @[u]],
           !.fault = IF \E u \in idle : s.at[u] = Dead THEN "freed" ELSE @]

\* Mutant: the plan goes with its caravan.
ReleasedWithPlan(s, U) == Removed(s, {s.serves[u] : u \in U} \ {NoRoute})

\* trade_free_unit of each of U that has a route: a plan stays, a route that was
\* made for the caravan goes.
Released(s, U) ==
    LET left == {s.serves[u] : u \in U} \ {NoRoute}
        kept == {r \in left : s.route[r] = PlannedInRoute}
        lost == {r \in left : s.route[r] = InRoute}
    IN  Removed([s EXCEPT
                   !.route = [r \in Routes |-> IF r \in kept THEN Planned ELSE @[r]],
                   !.carrier = [r \in Routes |-> IF r \in kept THEN NoUnit ELSE @[r]],
                   !.serves = [u \in Units |->
                                 IF u \in U /\ @[u] \in kept THEN NoRoute ELSE @[u]],
                   !.fault = IF \E r \in left : ~Present(s, r) THEN "freed" ELSE @],
                lost)

\* wipe_unit of each of U
Wiped(s, U) ==
    LET t == Released(s, U)
    IN  [t EXCEPT !.at = [u \in Units |-> IF u \in U THEN Dead ELSE @[u]]]

\* server_establish_trade_route: the route that is found is replaced; if the
\* other route of the pair is found next, the new one is a null pointer.
ServerEstablished(s, c, d) ==
    IF ~CanTrade(s, c, d) \/ ~CanEstablish(s, c, d) THEN s
    ELSE LET t == Removed(s, Found(s, c, d))
         IN  IF Found(t, c, d) # {} THEN [t EXCEPT !.fault = "null"]
             ELSE Added(t, c, d, Established)

\* Mutant: no route gives way.
NoneGivesWay(s, c) == {{}}

\* The worst route of a full city gives way to a new one.
GivesWay(s, c) == IF Full(s, c) THEN {{r} : r \in Worst(s, c)} ELSE {{}}

\* unit_establish_trade_route: without room the caravan sells its goods only.
\* (The gold is left out.)
UnitEstablished(s, u, c, d) ==
    IF s.home[u] # c THEN {s}
    ELSE IF ~CanEstablish(s, c, d) THEN {Wiped(s, {u})}
    ELSE {IF w1 = w2 /\ w1 # {} THEN [s EXCEPT !.fault = "freed"]   \* removed twice
          ELSE Wiped(ServerEstablished(Removed(s, w1 \cup w2), c, d), {u}) :
            w1 \in GivesWay(s, c), w2 \in GivesWay(s, d)}

-----------------------------------------------------------------------------
(* Caravans with orders *)

\* The player of a unit: units are re-created when their home changes hands.
UnitOwner(s, u) == s.owner[s.home[u]]
Alive(s, u) == s.at[u] \in Cities \cup {Road}

\* calculate_trade_move_cost may swap the cities of a route within one nation: each
\* of T changes places with the route of the other direction, which is not there.
Turned(s, T) ==
    LET swapped == {r \in Routes : r \in T \/ Back(r) \in T}
    IN  [s EXCEPT !.route = [r \in Routes |-> @[IF r \in swapped THEN Back(r) ELSE r]],
                  !.carrier = [r \in Routes |-> @[IF r \in swapped THEN Back(r) ELSE r]],
                  !.behind = @ \ swapped]

\* The state and the route after the choice of the faster way
Ways(s, r) == {<<s, r>>} \cup IF SameOwner(s, r) THEN {<<Turned(s, {r}), Back(r)>>} ELSE {}

\* A caravan with its home in h, at e
Placed(s, u, h, e) == [s EXCEPT !.home[u] = h, !.at[u] = e]

\* What a caravan with the route r does at e, with its home in h: it establishes
\* the route in pcity2, sells its goods to a city that it may not enter, goes on or
\* has its orders cancelled.
Arrived(s, u, r, h, e) ==
    IF e = r[2] /\ h = r[1] THEN UnitEstablished(s, u, r[1], r[2])
    ELSE {s, Released(s, {u})}
           \cup IF e = r[2] /\ CanTrade(s, h, e) /\ ~SameOwner(s, <<h, e>>)
                  THEN UnitEstablished(s, u, h, e) ELSE {}

\* execute_orders of a caravan with a route, in one turn: it rehomes when it is
\* in pcity1 with moves left, and goes some of its way.
OrdersExecuted(s, u) ==
    LET r == s.serves[u]
    IN  UNION {Arrived(Placed(s, u, h, e), u, r, h, e) :
                 h \in {s.home[u], r[1]},
                 e \in {x \in Cities : s.owner[x] # Nobody} \cup {Road}}

\* The route q is taken: already in place the caravan trades at once, whatever
\* route it served; else it leaves that route and takes its orders, if there is
\* a way.
TakenAs(s, u, q) ==
    LET t == [s EXCEPT !.carrier[q] = u]
        begun == [t EXCEPT !.serves[u] = q, !.route[q] = WithCaravan(@)]
        idle == Released(t, {u})
    IN  IF s.home[u] = q[1] /\ s.at[u] = q[2] THEN UnitEstablished(begun, u, q[1], q[2])
        ELSE {[idle EXCEPT !.carrier[q] = NoUnit]}
               \cup OrdersExecuted([idle EXCEPT !.serves[u] = q, !.route[q] = WithCaravan(@)], u)

\* handle_unit_trade_route once the route r is there and has no caravan
Taken(s, u, r) == UNION {TakenAs(way[1], u, way[2]) : way \in Ways(s, r)}

-----------------------------------------------------------------------------
(* Requests of the clients *)

Running == fault = "none" /\ UNCHANGED <<events, worth>>

\* handle_trade_route_plan; with a route that would be found, nothing happens.
Plan(p, c, d) ==
    /\ Running
    /\ owner[c] = p /\ owner[d] # Nobody
    /\ CanTrade(Now, c, d) /\ CanEstablish(Now, c, d)
    /\ Found(Now, c, d) = {}
    /\ Become(Added(Now, c, d, Planned))

\* handle_trade_route_remove
Unplan(p, c, d) ==
    /\ Running
    /\ owner[c] = p
    /\ \E r \in Found(Now, c, d) : route[r] # Established
    /\ Become(Removed(Now, Found(Now, c, d)))

\* handle_unit_trade_route with two cities
Serve(p, u, c, d) ==
    /\ Running
    /\ Alive(Now, u) /\ UnitOwner(Now, u) = p
    /\ owner[c] = p /\ owner[d] # Nobody
    /\ IF Found(Now, c, d) = {}
         THEN /\ CanTrade(Now, c, d) /\ CanEstablish(Now, c, d)
              /\ \E s \in Taken(Added(Now, c, d, Made), u, <<c, d>>) : Become(s)
         ELSE \E r \in Found(Now, c, d) :
                /\ route[r] \in {Made, Planned}
                /\ \E s \in Taken(Now, u, r) : Become(s)

\* The routes of p that a caravan may take
FreeRoutes(s, p) ==
    {r \in Routes : /\ Present(s, r) /\ s.route[r] # Established
                    /\ s.carrier[r] = NoUnit /\ s.owner[r[1]] = p}

\* The routes among which get_next_trade_route_to_establish chooses by cost:
\* those of the nation come first, of them those of the caravan's home.
Candidates(s, p, u) ==
    LET inner == {r \in FreeRoutes(s, p) : SameOwner(s, r)}
        homely == {r \in inner : s.home[u] \in Ends(r)}
    IN  IF homely # {} THEN homely ELSE IF inner # {} THEN inner ELSE FreeRoutes(s, p)

\* handle_unit_trade_route without cities: the server compares the costs of all the
\* routes, which turns those within the nation that are faster the other way.
ServeAny(p, u) ==
    /\ Running
    /\ Alive(Now, u) /\ UnitOwner(Now, u) = p
    /\ \E T \in SUBSET {r \in FreeRoutes(Now, p) : SameOwner(Now, r)} :
       \E s \in {Turned(Now, T)} :
       \E r \in Candidates(s, p, u) : \E t \in TakenAs(s, u, r) : Become(t)

\* handle_unit_establish_trade in a city, or a move into a foreign city that
\* the unit may not enter
Sell(u, d) ==
    /\ Running
    /\ Alive(Now, u) /\ owner[d] # Nobody
    /\ at[u] = d \/ (at[u] = Road /\ owner[d] # UnitOwner(Now, u))
    /\ CanTrade(Now, home[u], d)
    /\ \E s \in UnitEstablished(Now, u, home[u], d) : Become(s)

\* handle_unit_goto, handle_unit_orders, handle_unit_change_activity: the caravan
\* leaves its route and goes elsewhere.
Move(u, e) ==
    /\ Running
    /\ Alive(Now, u)
    /\ e \in Cities => owner[e] # Nobody
    /\ Become(Placed(Released(Now, {u}), u, home[u], e))

\* handle_unit_change_homecity
Rehome(u) ==
    /\ Running
    /\ at[u] \in Cities /\ owner[at[u]] = UnitOwner(Now, u) /\ home[u] # at[u]
    /\ Become(Placed(Now, u, at[u], at[u]))

\* A connection without "extglobalinfo" takes the player:
\* reset_trade_route_planning.
Reset(p) ==
    /\ Running
    /\ Become(Removed(Now, {r \in Routes : /\ Present(Now, r) /\ route[r] # Established
                                           /\ \E c \in Ends(r) : owner[c] = p}))

-----------------------------------------------------------------------------
(* The game goes on *)

\* The orders of a caravan at the turn change
Travel(u) ==
    /\ Running
    /\ Alive(Now, u) /\ serves[u] # NoRoute
    /\ \E s \in OrdersExecuted(Now, u) : Become(s)

Build(u, c) ==
    /\ Running
    /\ at[u] = Unbuilt /\ owner[c] # Nobody
    /\ Become(Placed(Now, u, c, c))

Lose(u) ==
    /\ Running
    /\ Alive(Now, u)
    /\ Become(Wiped(Now, {u}))

\* An event that the instance bounds
Event == fault = "none" /\ events < MaxEvents /\ events' = events + 1

\* city_refresh: trade_between_cities changes with the tiles of the cities, their owners
\* and buildings, and the values of the established routes with it.
Refresh ==
    /\ Event
    /\ worth' \in Worths
    /\ UNCHANGED <<route, carrier, behind, serves, home, at, owner, fault>>

\* Units that are re-created or lost when c leaves its owner: those it supports
\* and those of its owner in it
Garrison(c) == {u \in Units : Alive(Now, u) /\ (home[u] = c \/ (at[u] = c /\ UnitOwner(Now, u) = owner[c]))}

\* transfer_city: the routes that are not established go.
Transfer(c, q) ==
    /\ Event /\ UNCHANGED worth
    /\ owner[c] \notin {Nobody, q}
    /\ LET s == Wiped([Now EXCEPT !.owner[c] = q], Garrison(c))
       IN  Become(Removed(s, {r \in Routes : /\ c \in Ends(r) /\ Present(s, r)
                                             /\ s.route[r] # Established}))

\* remove_city: all its routes go.
Destroy(c) ==
    /\ Event /\ UNCHANGED worth
    /\ owner[c] # Nobody
    /\ LET s == Wiped(Now, {u \in Units : Alive(Now, u) /\ home[u] = c})
           t == Removed(s, {r \in Routes : c \in Ends(r) /\ Present(s, r)})
       IN  Become([t EXCEPT !.owner[c] = Nobody,
                            !.at = [u \in Units |-> IF @[u] = c THEN Road ELSE @[u]]])

\* A route as it is loaded: the city that is loaded later becomes pcity1.  Within
\* one nation it depends on the order of its cities, and on what is faster for
\* the caravan: the routes of T are turned.
AsLoaded(r, T) ==
    IF r \in T \/ Seat[owner[r[1]]] < Seat[owner[r[2]]] THEN Back(r) ELSE r

\* The game is saved, the server stops, and a new one loads it: the routes of
\* each city whose other city is there already, then the units of each player,
\* with their routes if those are found.  The second route of a pair is a null
\* pointer.
Reload ==
    /\ Event /\ UNCHANGED worth
    /\ LET saved == {r \in Routes : Present(Now, r)}
       IN  \/ /\ \E r \in saved : Back(r) \in saved
              /\ Become([Now EXCEPT !.fault = "null"])
           \/ /\ \A r \in saved : Back(r) \notin saved
              /\ \E T \in SUBSET {r \in saved : SameOwner(Now, r)} :
                   LET StatusOf(r) == IF r \in saved /\ AsLoaded(r, T) = r THEN route[r]
                                      ELSE IF Back(r) \in saved /\ AsLoaded(Back(r), T) = r
                                        THEN route[Back(r)] ELSE Absent
                       ServedBy(u) ==
                         IF serves[u] = NoRoute THEN NoRoute
                         ELSE IF SameOwner(Now, serves[u]) \/ AsLoaded(serves[u], T) = serves[u]
                           THEN AsLoaded(serves[u], T) ELSE NoRoute
                   IN  Become([Now EXCEPT
                         !.route = [r \in Routes |-> StatusOf(r)],
                         !.carrier = [r \in Routes |->
                            IF \E u \in Units : ServedBy(u) = r
                              THEN CHOOSE u \in Units : ServedBy(u) = r ELSE NoUnit],
                         !.behind = {},
                         !.serves = [u \in Units |-> ServedBy(u)]])

Next ==
    \/ \E p \in Players, r \in Asked : Plan(p, r[1], r[2])
    \/ \E p \in Players, r \in Asked : Unplan(p, r[1], r[2])
    \/ \E p \in Players, u \in Units, r \in Asked : Serve(p, u, r[1], r[2])
    \/ \E p \in Players, u \in Units : ServeAny(p, u)
    \/ \E u \in Units, d \in Cities : Sell(u, d)
    \/ \E u \in Units, e \in Cities \cup {Road} : Move(u, e)
    \/ \E u \in Units : Rehome(u)
    \/ \E p \in Players : Reset(p)
    \/ \E u \in Units : Travel(u)
    \/ \E u \in Units, c \in Cities : Build(u, c)
    \/ \E u \in Units : Lose(u)
    \/ \E c \in Contested, q \in Players : Transfer(c, q)
    \/ \E c \in Contested : Destroy(c)
    \/ Refresh
    \/ Reload

Init ==
    /\ route = [r \in Routes |-> Absent]
    /\ carrier = [r \in Routes |-> NoUnit]
    /\ behind = {}
    /\ serves = [u \in Units |-> NoRoute]
    /\ home = [u \in Units |-> NoCity]
    /\ at = [u \in Units |-> Unbuilt]
    /\ owner = FirstOwner
    /\ worth = FirstWorth
    /\ events = 0
    /\ fault = "none"

Spec == Init /\ [][Next]_vars

-----------------------------------------------------------------------------
(* What should hold *)

\* The variables have their types; a route that is not there has no caravan.
TypeOK ==
    /\ route \in [Routes -> Absent .. Established]
    /\ carrier \in [Routes -> Units \cup {NoUnit}]
    /\ behind \subseteq Routes
    /\ serves \in [Units -> Routes \cup {NoRoute}]
    /\ home \in [Units -> Cities \cup {NoCity}]
    /\ at \in [Units -> Cities \cup {Road, Unbuilt, Dead}]
    /\ owner \in [Cities -> Players \cup {Nobody}]
    /\ worth \in Worths
    /\ events \in 0 .. MaxEvents
    /\ fault \in {"none", "null", "freed"}

\* A caravan and its route point at each other, the route is marked as in route,
\* and it begins in a city of the caravan's owner: no unit ever follows a
\* pointer to a route that was freed or given to another unit
\* (ptr->punit and unit->ptr are kept in step by hand in tradehand.cc).
ServiceSound ==
    fault = "none" =>
      \A u \in Units : serves[u] # NoRoute =>
        /\ Alive(Now, u)
        /\ carrier[serves[u]] = u
        /\ route[serves[u]] \in {InRoute, PlannedInRoute}
        /\ owner[serves[u][1]] = UnitOwner(Now, u)

\* Two cities have one established trade route at most, and no city has more
\* than maxtraderoutes of them, whatever was planned, lost or replaced meanwhile.
EstablishedSound ==
    /\ \A r \in Routes : route[r] = Established => route[Back(r)] # Established
    /\ \A c \in Cities : Cardinality(TradesOf(Now, c)) <= MaxRoutes

\* An established trade route ends only with one of its cities or for one of
\* more value with one of its cities: neither plans nor caravans, conquests or
\* savegames undo it.
EstablishedGivesWay ==
    [][fault' = "none" =>
        \A r \in Routes : route[r] = Established =>
          \/ route'[r] = Established \/ route'[Back(r)] = Established
          \/ \E c \in Ends(r) : owner'[c] = Nobody
          \/ \E o \in Routes : /\ route'[o] = Established /\ route[o] # Established
                              /\ Ends(o) \cap Ends(r) # {}
                              /\ worth[o] > worth[r]]_vars

\* A plan outlives its caravans: it ends when its cities trade, when its owner
\* takes it back, with the loss of one of its cities, or when the player of one
\* of them is reset.  (A game that is loaded may give it to the other player.)
PlansKept ==
    [][fault' = "none" =>
        \A r \in Routes : IsPlan(route[r]) =>
          \/ IsPlan(route'[r])
          \/ IsPlan(route'[Back(r)]) /\ (owner[r[1]] = owner[r[2]] \/ events' # events)
          \/ Established \in {route'[r], route'[Back(r)]}
          \/ Unplan(owner[r[1]], r[1], r[2]) \/ Unplan(owner[r[1]], r[2], r[1])
          \/ \E c \in Ends(r) : owner'[c] # owner[c]
          \/ \E c \in Ends(r) : Reset(owner[c])]_vars

\* The route that server_establish_trade_route has just made is there:
\* "Maybe the trade route already exists, is planned, or is in route"
\* (tradehand.cc:195), and whatever was in its way was removed.
NewRouteThere == fault # "null"
=============================================================================
