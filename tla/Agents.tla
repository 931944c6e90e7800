------------------------------- MODULE Agents -------------------------------
(***************************************************************************)
(* The agents of the client and the tracking of requests: the citizens     *)
(* management agent (CMA), which keeps the workers of its cities on the    *)
(* tiles it has calculated, the list of agent calls, freezing, and the     *)
(* request numbers by which the client tells the answers to its own        *)
(* requests from other news (client/agents/agents.cc,                      *)
(* client/agents/cma_core.cc, client/clinet.cc, client/packhand.cc; the    *)
(* server's side in server/sernet.cc and server/cityhand.cc).              *)
(*                                                                         *)
(* The client has one thread.  The agent waits for the answers to its      *)
(* requests in a loop of its own, which handles every packet that comes    *)
(* in, and the server goes on meanwhile; so the code between two waits is  *)
(* cut into steps at the points that pc names.                             *)
(***************************************************************************)
EXTENDS Integers, FiniteSets, SequencesExt

CONSTANTS
    Cities,
    Tiles,
    Near,     \* [Cities -> SUBSET Tiles], the tiles around a city
    Settings, \* what the calculation of a city depends on, but for the tiles
    Best,     \* [Settings -> [SUBSET Tiles -> SUBSET Tiles or NoResult]], cm_query_result:
              \* the tiles to work among those that are open to the city
    NoResult, \* the requirements cannot be fulfilled
    NoCity,   \* there is no such city
    Size,     \* the number of citizens
    Tries,    \* how often a city is tried (5 in handle_city)
    IdMod,    \* 65536, where request numbers wrap around
    \* Bounds of an instance
    Arranged,  \* how the server may arrange the workers
    First,     \* the setting of all cities at first
    MaxEvents, \* changes of cities on the server and lost connections
    MaxOrders  \* what the user does

ASSUME AgentsAssumption ==
    /\ Near \in [Cities -> SUBSET Tiles]
    /\ \A s \in Settings, T \in SUBSET Tiles :
         Best[s][T] = NoResult \/ (Best[s][T] \subseteq T /\ Cardinality(Best[s][T]) <= Size)
    /\ \A T \in Arranged : T \subseteq Tiles /\ Cardinality(T) <= Size
    /\ First \in Settings
    /\ IsFiniteSet(Cities) /\ IsFiniteSet(Tiles) /\ IdMod \in Nat \ 0..2 /\ Size \in Nat /\ Tries \in Nat \ {0}
    /\ MaxEvents \in Nat /\ MaxOrders \in Nat

\* What the server keeps of a city, and what a client is shown of it
CityData == [owner : {"me", "other"}, setting : Settings, work : SUBSET Tiles]
ShownData ==
    [owner : {"me", "other"}, setting : Settings, work : SUBSET Tiles, open : SUBSET Tiles]

\* A pointer to a city is not NULL.
ASSUME NoCityAssumption == NoCity \notin CityData \cup ShownData

VARIABLES
    \* the server
    city,       \* its cities
    counted,    \* last_request_id_seen of the connection
    \* the network
    up,         \* there is a connection
    requests,   \* to the server
    news,       \* to the client
    \* the client
    running,    \* its state is CLIENT_GAME_RUNNING_STATE
    view,       \* its cities
    managed,    \* the cities with a CMA parameter
    calls,      \* agents.calls: the cities with a call to the CMA, and which
    frozen,     \* frozen_level
    used,       \* last_request_id_used
    seen,       \* last_processed_request_id_seen
    handled,    \* request_id_of_currently_handled_packet, 0 for none
    awaited,    \* <<first, last>> outstanding request of the CMA, <<0, 0>> for none
    pc,         \* "main"; call_handle_methods is running: "loop"; handle_city: "try",
                \* "wait" in wait_for_requests, "judge" after it
    job,        \* the city that is handled, the try, the result applied, whether
                \* pcity still points to the city
    putting,    \* cma_put_city_under_agent is in the loop for this city; the same of its
                \* pcity
    ignored,    \* history: the cities with news that came with the answers of another
                \* city, and no call since
    fault,      \* "none", "assert" once an assertion fails, "dangling" once a pointer
                \* to a deleted city is used: the client is done for
    spent       \* bounded counters of an instance

server == <<city, counted>>
network == <<up, requests, news>>
ids == <<used, seen, handled>>
client == <<running, view, managed, calls, frozen, ids, awaited, pc, job, putting, ignored, fault>>
vars == <<server, network, client, spent>>

NextId(i) == IF (i + 1) % IdMod = 0 THEN 2 ELSE i + 1

\* send_packet_data, n times: the number of the last of n requests after number id
LastId(id, n) ==
    LET number[k \in 0..n] == IF k = 0 THEN id ELSE NextId(number[k - 1])
    IN  number[n]

NoJob == [city |-> NoCity, try |-> 0, goal |-> {}, fresh |-> TRUE]
NotPutting == [city |-> NoCity, fresh |-> TRUE]

Exists(cities, c) == cities[c] # NoCity
Own(cities, c) == Exists(cities, c) /\ cities[c].owner = "me"

Mark(kind, id) == [kind |-> kind, city |-> NoCity, data |-> NoCity, id |-> id]

Spend(what, max) ==
    /\ spent[what] < max
    /\ spent' = [spent EXCEPT ![what] = @ + 1]

-----------------------------------------------------------------------------
(* The server *)

\* city_can_work_tile: the tiles of a city that no other city works
Open(cities, c) ==
    Near[c] \ UNION {cities[d].work : d \in {d \in Cities \ {c} : Exists(cities, d)}}

Abroad == [owner |-> "other", setting |-> First, work |-> {}, open |-> {}]

\* What the client is shown of a city: of another player's only that it is there.
Shown(cities, c) ==
    IF Own(cities, c)
      THEN [owner |-> "me", setting |-> cities[c].setting, work |-> cities[c].work,
            open |-> Open(cities, c)]
    ELSE IF Exists(cities, c) THEN Abroad ELSE NoCity

\* The news of some cities after a step of the server, and of all that look different.
\* (A worker who is set or removed closes or opens the tile for the cities around, and
\* sync_cities sends all cities that are not up to date.)
Infos(C) ==
    [i \in 1..Cardinality(C) |->
       LET c == SetToSeq(C)[i] IN
       [kind |-> IF Exists(city', c) THEN "city" ELSE "remove",
        city |-> c, data |-> Shown(city', c), id |-> 0]]

Unsynced == Infos({c \in Cities : Shown(city', c) # Shown(city, c)})

\* handle_city_make_specialist and handle_city_make_worker: the workers of the city of
\* a request.  (handle_city_manager_param and handle_city_no_manager_param change none.)
Toggled(r) ==
    LET work == city[r.city].work IN
    IF r.to = "specialist" THEN work \ {r.tile}
    ELSE IF /\ r.to = "worker" /\ Cardinality(work) < Size
            /\ r.tile \in Open(city, r.city)
           THEN work \cup {r.tile}
    ELSE work

\* Mutant: a request that changes nothing is not answered.
AnsweredIfChanged(infos, id) ==
    IF infos # <<>> THEN <<Mark("started", id)>> \o infos \o <<Mark("finished", id)>> ELSE <<>>

\* The answer to a request, in its bracket, with the cities that changed.
Answer(infos, id) == <<Mark("started", id)>> \o infos \o <<Mark("finished", id)>>

\* decode_packet_data
Serve ==
    /\ requests # <<>>
    /\ LET r == Head(requests) IN
       city' = IF Own(city, r.city) THEN [city EXCEPT ![r.city].work = Toggled(r)] ELSE city
    /\ counted' = NextId(counted)
    /\ news' = news \o Answer(Unsynced, NextId(counted))
    /\ requests' = Tail(requests)
    /\ UNCHANGED <<up, client, spent>>

\* News that answer no request come alone, or in the freeze of a turn change.
Tell(infos) ==
    news' \in {news \o infos, news \o <<Mark("freeze", 0)>> \o infos \o <<Mark("thaw", 0)>>}

\* A city grows, shrinks or sees its surroundings change; the server may rearrange
\* its workers (auto_arrange_workers).  Or it changes hands, in sight of the user.
ChangeCity(c) ==
    /\ up /\ Exists(city, c)
    /\ Spend("events", MaxEvents)
    /\ \/ \E s \in Settings, T \in Arranged :
            /\ T \subseteq Open(city, c)
            /\ city' = [city EXCEPT ![c].setting = s, ![c].work = T] /\ city' # city
       \/ city' = [city EXCEPT ![c].owner = IF @ = "me" THEN "other" ELSE "me"]
    /\ Tell(Unsynced)
    /\ UNCHANGED <<counted, up, requests, client>>

\* remove_city
RemoveCity(c) ==
    /\ up /\ Exists(city, c)
    /\ Spend("events", MaxEvents)
    /\ city' = [city EXCEPT ![c] = NoCity]
    /\ Tell(Unsynced)
    /\ UNCHANGED <<counted, up, requests, client>>

-----------------------------------------------------------------------------
(* The list of calls and the freeze *)

\* is_outstanding_request: the packet is handled as part of the answer to a
\* request of the agent.
IsOutstanding(request) ==
    /\ awaited[1] # 0 /\ request # 0
    /\ awaited[1] <= request /\ request <= awaited[2]

\* Mutant: calls for different cities count as equal.
EnqueuedOnce(c, callback) ==
    IF IsOutstanding(handled) \/ calls # {} THEN calls
    ELSE {[city |-> c, callback |-> callback]}

\* enqueue_call: calls_are_equal compares neither the agents nor the callbacks, so
\* there is one call for each city at most, and the first one stays.
Enqueued(c, callback) ==
    IF IsOutstanding(handled) \/ \E k \in calls : k.city = c THEN calls
    ELSE calls \cup {[city |-> c, callback |-> callback]}

\* call_handle_methods: pc, if it does something when the frozen level is level
\* and these calls are waiting.
Dispatched(level, waiting) ==
    IF pc = "main" /\ level = 0 /\ waiting # {} THEN "loop" ELSE pc

\* send_packet_data, of requests about cities
Send(sent) ==
    /\ requests' = IF up THEN requests \o sent ELSE requests
    /\ used' = LastId(used, Len(sent))

\* city_manager_param and city_no_manager_param tell the server what the agent does.
Told(c, agents) == [city |-> c, to |-> IF c \in agents THEN "param" ELSE "release"]

\* One call is executed.  (The agents have the same level, so that the sorting leaves
\* open which call comes first.)
ExecuteCall ==
    /\ pc = "loop"
    /\ \E k \in calls :
         /\ calls' = calls \ {k}
         /\ ignored' = ignored \ {k.city}
         /\ CASE k.callback = "remove" ->           \* city_remove
                   managed' = managed \ {k.city} /\ UNCHANGED <<pc, job>>
              [] k.callback = "change" /\ view[k.city] = NoCity ->
                   UNCHANGED <<managed, pc, job>>
              [] OTHER ->                           \* city_changed
                   /\ pc' = "try"
                   /\ job' = [city |-> k.city, try |-> 1, goal |-> {}, fresh |-> TRUE]
                   /\ UNCHANGED managed
    /\ UNCHANGED <<server, network, running, view, frozen, ids, awaited, putting, fault, spent>>

\* All calls have been executed.  The rest of cma_put_city_under_agent, if the loop ran
\* in it, reads the number of the city, whether or not the city is still there.
Return ==
    /\ pc = "loop" /\ calls = {} /\ fault = "none"
    /\ IF putting.city = NoCity \/ putting.fresh
         THEN /\ pc' = "main"
              /\ Send(IF putting.city = NoCity THEN <<>>
                      ELSE <<Told(putting.city, managed)>>)
              /\ putting' = NotPutting
              /\ UNCHANGED fault
         ELSE fault' = "dangling" /\ UNCHANGED <<pc, requests, used, putting>>
    /\ UNCHANGED <<server, up, news, running, view, managed, calls, frozen, seen, handled,
                   awaited, job, ignored, spent>>

-----------------------------------------------------------------------------
(* The agent: handle_city and apply_result_on_server *)

\* check_city
Valid(c) == c \in managed /\ Own(view, c)

\* cma_release_city
ReleaseCity(c) == managed' = managed \ {c} /\ Send(<<Told(c, {})>>)

\* check_city gives up a city that is no longer the player's.
CheckCity(c) ==
    IF c \in managed /\ Exists(view, c) /\ ~Own(view, c) THEN ReleaseCity(c)
    ELSE UNCHANGED <<managed, requests, used>>

\* A sequence of requests for tiles of city c
Ordered(c, T, to) == [i \in 1..Cardinality(T) |-> [city |-> c, tile |-> SetToSeq(T)[i], to |-> to]]

\* The goal is put to the server: surplus workers are taken off, then the others set.
Apply(c, goal) ==
    LET sent == Ordered(c, view[c].work \ goal, "specialist")
                  \o Ordered(c, goal \ view[c].work, "worker")
        first == NextId(used)
    IN /\ Send(sent)
       /\ awaited' = <<first, used'>>
       /\ IF first <= used' THEN pc' = "wait" /\ UNCHANGED fault
          ELSE fault' = "assert" /\ UNCHANGED pc
       /\ job' = [job EXCEPT !.goal = [work |-> goal, setting |-> view[c].setting]]

\* One round of the loop in handle_city, up to the sending of requests.  After the
\* last try the agent "will detach itself from the city now", and asks nobody whether
\* the city is still there.
Try ==
    /\ pc = "try" /\ fault = "none"
    /\ LET c == job.city IN
       \/ /\ job.try > Tries /\ job.fresh
          /\ ReleaseCity(c) /\ pc' = "loop" /\ UNCHANGED <<awaited, job, fault>>
       \/ /\ job.try <= Tries /\ ~Valid(c)
          /\ CheckCity(c) /\ pc' = "loop" /\ UNCHANGED <<awaited, job, fault>>
       \/ /\ job.try > Tries \/ Valid(c)
          /\ ~job.fresh
          /\ fault' = "dangling"
          /\ UNCHANGED <<requests, used, awaited, job, managed, pc>>
       \/ /\ job.try <= Tries /\ Valid(c) /\ job.fresh
          /\ LET goal == Best[view[c].setting][view[c].open] IN
             IF goal = NoResult
               THEN ReleaseCity(c) /\ pc' = "loop" /\ UNCHANGED <<awaited, job, fault>>
             ELSE IF goal = view[c].work
               THEN pc' = "loop" /\ UNCHANGED <<requests, used, awaited, job, managed, fault>>
             ELSE Apply(c, goal) /\ UNCHANGED managed
    /\ UNCHANGED <<server, up, news, running, view, calls, frozen, seen, handled, putting,
                   ignored, spent>>

\* The rest of apply_result_on_server: does the city look as expected?
Judge ==
    /\ pc = "judge" /\ fault = "none"
    /\ LET c == job.city
           again == pc' = "try" /\ job' = [job EXCEPT !.try = @ + 1]
       IN \/ ~Valid(c) /\ CheckCity(c) /\ again /\ UNCHANGED fault
          \/ /\ Valid(c) /\ ~job.fresh
             /\ fault' = "dangling" /\ UNCHANGED <<requests, used, managed, pc, job>>
          \/ /\ Valid(c) /\ job.fresh
             /\ IF job.goal = [work |-> view[c].work, setting |-> view[c].setting]
                  THEN pc' = "loop" /\ UNCHANGED job ELSE again
             /\ UNCHANGED <<requests, used, managed, fault>>
    /\ UNCHANGED <<server, up, news, running, view, calls, frozen, seen, handled, awaited,
                   putting, ignored, spent>>

-----------------------------------------------------------------------------
(* The client's handling of packets *)

\* The job, or what is put under the agent, once the client deletes the object of city c
Deleted(work, c) == IF work.city = c THEN [work EXCEPT !.fresh = FALSE] ELSE work

\* handle_city_info: a city that changed hands is made anew.
HandleCity(p) ==
    /\ view' = [view EXCEPT ![p.city] = p.data]
    /\ IF Exists(view, p.city) /\ view[p.city].owner # p.data.owner
         THEN job' = Deleted(job, p.city) /\ putting' = Deleted(putting, p.city)
         ELSE UNCHANGED <<job, putting>>
    /\ calls' = Enqueued(p.city, "change")
    /\ ignored' = IF IsOutstanding(handled) /\ p.city # job.city THEN ignored \cup {p.city}
                  ELSE ignored
    /\ pc' = Dispatched(frozen, calls')
    /\ UNCHANGED <<requests, used, running, managed, frozen, seen, handled, awaited>>

\* handle_city_remove.  (The calls are handled before the city goes; but whenever the
\* client is not frozen the only one that waits is this one.)
HandleRemove(p) ==
    /\ IF Exists(view, p.city)
         THEN /\ view' = [view EXCEPT ![p.city] = NoCity]
              /\ job' = Deleted(job, p.city) /\ putting' = Deleted(putting, p.city)
              /\ calls' = Enqueued(p.city, "remove")
              /\ pc' = Dispatched(frozen, calls')
         ELSE UNCHANGED <<view, job, putting, calls, pc>>
    /\ UNCHANGED <<requests, used, running, managed, frozen, seen, handled, awaited, ignored>>

\* handle_processing_started, and agents_freeze_hint
HandleFreeze(p) ==
    /\ handled' = IF p.kind = "started" THEN NextId(seen) ELSE handled
    /\ frozen' = frozen + 1
    /\ UNCHANGED <<requests, used, running, view, managed, calls, seen, awaited, pc, job,
                   putting, ignored>>

\* thaw
Thawed == IF running THEN Dispatched(frozen', calls) ELSE pc

\* agents_thaw_hint
HandleThaw(p) ==
    /\ frozen' = frozen - 1
    /\ pc' = Thawed
    /\ UNCHANGED <<requests, used, running, view, managed, calls, seen, handled, awaited, job,
                   putting, ignored>>

\* Mutant: the agent waits for one answer.
EnoughAfterOne(id) == id >= awaited[1]

\* input_from_server_till_request_got_processed returns.
Enough(id) == id >= awaited[2]

\* handle_processing_finished; it may end the wait.
HandleFinished(p) ==
    /\ seen' = handled /\ handled' = 0
    /\ frozen' = frozen - 1
    /\ IF pc = "wait" /\ Enough(seen')
         THEN awaited' = <<0, 0>> /\ pc' = "judge"
         ELSE pc' = Thawed /\ UNCHANGED awaited
    /\ UNCHANGED <<requests, used, running, view, managed, calls, job, putting, ignored>>

\* handle_city_manager_param and handle_city_no_manager_param, for each city of the
\* player, while the client joins: it takes over what the server has, and says so.
HandleManagers(p) ==
    LET own == SetToSeq({c \in Cities : Own(view, c)}) IN
    /\ managed' = managed \cup p.data
    /\ Send([i \in 1..Len(own) |-> Told(own[i], managed')])
    /\ UNCHANGED <<running, view, calls, frozen, seen, handled, awaited, pc, job, putting,
                   ignored>>

\* handle_game_state; its call_handle_methods does nothing in the freeze of a join.
HandleRunning(p) ==
    /\ running' = TRUE
    /\ pc' = Dispatched(frozen, calls)
    /\ UNCHANGED <<requests, used, view, managed, calls, frozen, seen, handled, awaited, job,
                   putting, ignored>>

\* handle_packet_input
Receive ==
    /\ pc \in {"main", "wait"} /\ news # <<>>
    /\ LET p == Head(news) IN
       CASE p.kind = "city" -> HandleCity(p)
         [] p.kind = "remove" -> HandleRemove(p)
         [] p.kind \in {"started", "freeze"} -> HandleFreeze(p)
         [] p.kind = "thaw" -> HandleThaw(p)
         [] p.kind = "finished" -> HandleFinished(p)
         [] p.kind = "managers" -> HandleManagers(p)
         [] p.kind = "running" -> HandleRunning(p)
    /\ news' = Tail(news)
    /\ UNCHANGED <<server, up, fault, spent>>

-----------------------------------------------------------------------------
(* The user, and the connection *)

Mine(c) == up /\ running /\ pc = "main" /\ Own(view, c)

\* cma_put_city_under_agent, to its end if the loop does not run.
PutUnderAgent(c) ==
    /\ Mine(c) /\ Spend("orders", MaxOrders)
    /\ managed' = managed \cup {c}
    /\ calls' = IF \E k \in calls : k.city = c THEN calls
                ELSE calls \cup {[city |-> c, callback |-> "change"]}
    /\ pc' = Dispatched(frozen, calls')
    /\ IF pc' = "main" THEN Send(<<Told(c, managed')>>) /\ UNCHANGED putting
       ELSE putting' = [city |-> c, fresh |-> TRUE] /\ UNCHANGED <<requests, used>>
    /\ UNCHANGED <<server, up, news, running, view, frozen, seen, handled, awaited, job,
                   ignored, fault>>

\* The user moves a worker of a city that is not under the agent, and does not wait.
MoveWorker(c, t) ==
    /\ Mine(c) /\ c \notin managed /\ t \in view[c].open /\ Spend("orders", MaxOrders)
    /\ Send(Ordered(c, {t}, IF t \in view[c].work THEN "specialist" ELSE "worker"))
    /\ UNCHANGED <<server, up, news, running, view, managed, calls, frozen, seen, handled,
                   awaited, pc, job, putting, ignored, fault>>

\* Mutants: the client stays frozen; the bracket of one answer is taken back.
FrozenOnClose == frozen
FrozenOneLess == frozen - 1

\* agents_disconnect
FrozenAfterClose == 0

\* The connection is lost: client_game_free deletes the cities, the attributes and
\* the calls; a wait for requests ends.
Disconnect ==
    /\ up /\ pc \in {"main", "wait"}
    /\ Spend("events", MaxEvents)
    /\ up' = FALSE /\ requests' = <<>> /\ news' = <<>> /\ running' = FALSE
    /\ view' = [c \in Cities |-> NoCity] /\ managed' = {} /\ calls' = {} /\ ignored' = {}
    /\ frozen' = FrozenAfterClose
    /\ job' = [job EXCEPT !.fresh = FALSE]
    /\ putting' = [putting EXCEPT !.fresh = FALSE]
    /\ awaited' = <<0, 0>> /\ pc' = IF pc = "wait" THEN "judge" ELSE pc
    /\ UNCHANGED <<server, ids, fault>>

\* The user joins again.  The answer to his join request, number 1, holds everything
\* in a freeze, with the cities that were under the agent as the server has them.
Reconnect ==
    /\ ~up /\ pc = "main"
    /\ up' = TRUE /\ used' = 1 /\ seen' = 0 /\ handled' = 0 /\ counted' = 1
    /\ UNCHANGED city
    /\ \E S \in SUBSET Cities :
         news' = <<Mark("started", 1), Mark("freeze", 0)>>
                   \o Infos({c \in Cities : Exists(city, c)})
                   \o <<[kind |-> "managers", city |-> NoCity, data |-> S, id |-> 0],
                        Mark("running", 0), Mark("thaw", 0), Mark("finished", 1)>>
    /\ UNCHANGED <<requests, running, view, managed, calls, frozen, awaited, pc, job, putting,
                   ignored, fault, spent>>

-----------------------------------------------------------------------------

\* Some cities are under the agent, and as it wants them; nothing is under way.
Init ==
    /\ \E work \in [Cities -> SUBSET Tiles] :
         /\ city = [c \in Cities |-> [owner |-> "me", setting |-> First, work |-> work[c]]]
         /\ \A c \in Cities : work[c] \subseteq Open(city, c)
    /\ managed \in SUBSET Cities
    /\ \A c \in Cities :
         city[c].work = IF c \in managed THEN Best[First][Open(city, c)] ELSE {}
    /\ running = TRUE /\ view = [c \in Cities |-> Shown(city, c)] /\ calls = {} /\ frozen = 0
    /\ up = TRUE /\ requests = <<>> /\ news = <<>>
    /\ counted = 1 /\ used = 1 /\ seen = 1 /\ handled = 0 /\ awaited = <<0, 0>>
    /\ pc = "main" /\ job = NoJob /\ putting = NotPutting /\ ignored = {} /\ fault = "none"
    /\ spent = [events |-> 0, orders |-> 0]

ServerStep == Serve \/ \E c \in Cities : ChangeCity(c) \/ RemoveCity(c)
ClientStep == Receive \/ ExecuteCall \/ Return \/ Try \/ Judge
UserStep == \E c \in Cities : PutUnderAgent(c) \/ \E t \in Tiles : MoveWorker(c, t)

Next == fault = "none" /\ (ServerStep \/ ClientStep \/ UserStep \/ Disconnect \/ Reconnect)

Spec == Init /\ [][Next]_vars

\* The server serves its connections, and the client its input and its agents.
FairSpec == Spec /\ WF_vars(fault = "none" /\ Serve) /\ WF_vars(fault = "none" /\ ClientStep)

-----------------------------------------------------------------------------
(* Properties *)

\* The variables have their types.
TypeOK ==
    /\ \A c \in Cities : Exists(city, c) => city[c] \in CityData
    /\ \A c \in Cities : Exists(view, c) => view[c] \in ShownData
    /\ ignored \subseteq Cities /\ running \in BOOLEAN
    /\ managed \subseteq Cities /\ up \in BOOLEAN
    /\ calls \subseteq [city : Cities, callback : {"change", "remove"}]
    /\ frozen \in Nat
    /\ {counted, used, seen, handled} \cup {awaited[1], awaited[2]} \subseteq 0..(IdMod - 1)
    /\ pc \in {"main", "loop", "try", "wait", "judge"}
    /\ fault \in {"none", "assert", "dangling"}

Opening(p) == p.kind \in {"started", "freeze"}
Closing(p) == p.kind \in {"finished", "thaw"}

\* The client only counts the brackets of the answers, the server the packets of the
\* client: the request a client takes an answer for is the one it answers, and when
\* nothing is under way both counted to the number used last.
IdsInStep ==
    LET started == {i \in DOMAIN news : news[i].kind = "started"}
        taken == IF handled = 0 THEN seen ELSE handled
    IN  up => /\ \A i \in started :
                   (\A j \in started : i <= j) => news[i].id = NextId(taken)
              /\ started = {} /\ requests = <<>> => counted = used /\ used = taken

\* A freeze ends: what the client is frozen for is closed by what is under way, nested
\* brackets, lost connections and new games included; and at the end of the news no
\* call of an agent is left waiting for a thaw that does not come.
FreezesEnd ==
    /\ frozen = Cardinality({i \in DOMAIN news : Closing(news[i])})
                  - Cardinality({i \in DOMAIN news : Opening(news[i])})
    /\ pc = "main" /\ frozen = 0 => calls = {}

\* Nothing is under way and nothing left to do.
Quiet == up /\ news = <<>> /\ requests = <<>> /\ pc = "main" /\ fault = "none"

\* "handle_city ensures that either the city follows the set CMA goal or that the CMA
\* detaches itself from the city" (cma_core.cc:390), although the city changes, is
\* lost and changes hands while the agent waits for its requests, and although the
\* news that come with their answers are ignored.  It does not hold for a city whose
\* news came with the answers of a neighbour: is_outstanding_request does not look at
\* the city, and nobody tells the agent that a tile was closed or opened.
GoalKept ==
    Quiet => \A c \in managed : Own(city, c) =>
        \/ city[c].work = Best[city[c].setting][Open(city, c)]
        \/ c \in ignored /\ \E d \in Cities \ {c} : Near[c] \cap Near[d] # {}

\* "This function will return until the last request has been processed by the
\* server" (wait_for_requests): the agent judges a city with all answers in hand.  (The
\* requests are the agent's own; the pongs of the client, which nobody waits for, are
\* left out.)
JudgedOnAnswers ==
    pc = "judge" /\ up => requests = <<>> /\ \A i \in DOMAIN news : news[i].kind # "started"

\* The agent is never stuck: it gets back to the main loop of the client, whatever
\* happens to its city, its requests and the connection.
AgentReturns == (pc # "main") ~> (pc = "main" \/ fault # "none")
=============================================================================
