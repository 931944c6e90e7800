# A verification of warciv's server

warciv is a turn-based strategy game, a fork of freeciv: a C++ server that owns
the game, clients that mirror it, and an AI that runs inside the server.  This
directory holds TLA+ modules translated from `src/`, the TLC instances that
check them, and TLAPS proofs about them.

## 1. The system

The server is one thread.  `sniff_packets` (`server/sernet.cc`) waits for
sockets and timeouts; each complete packet and each line at the prompt is
handled from start to end before the next one, so a handler is one atomic step.
What interleaves is the order of the requests of all users between two such
steps, the end of a turn, broken connections (marked first, closed later) and the
handlers' own calls into each other: a lost connection turns a player over to
the AI, which cancels his treaties; a cancelled vote may decide another one, whose
command mutes or cuts a user.  The client has one thread too, but its agents wait for
the server in a nested loop that handles every packet that comes in.  A server may be
stopped after a save; a new one loads the savegame.

| Component | State it keeps | Operations | Interacts with | Hard part | What makes it correct |
|---|---|---|---|---|---|
| Treaty (`common/diptreaty.cc`) | clauses, two accept flags | add, replace, remove a clause | diplomacy handlers | a clause replaced after an acceptance | acceptances refer to the terms as they stand; one pact, one sum of each giver |
| Diplomacy (`server/diplhand.cc`) | the list of open treaties | open, cancel, propose, accept, execute | players, cities, AI, connections | promises made twice, checked twice, kept once | what is concluded is delivered and was agreed to by both |
| Pacts and contact (`server/plrhand.cc`, `common/player.cc`) | two rows of `diplstates` for each pair, embassies, shared vision | break, fall-out, contact, death | turn change, treaties | two rows written by hand, cascades among allies | rows agree; no war inside an alliance |
| Voting (`server/vote.cc`) | list of votes and casts | call, cast, cancel, decide, age | commands, connections, turn change | decisions taken while voters vanish; a decision acts on its own voters | votes name only what exists; early decisions are final; every vote ends |
| Commands (`server/stdinhand.cc`) | mute table, pause, attachments | mute, kick, cut, pause, take, detach | votes, connections | a command run by a vote | see voting |
| Connections (`server/sernet.cc`, `connecthand.cc`) | connection table, `is_closing`, players attached | accept, break, close, attach | votes, players, AI | the time between breaking and closing | nothing refers to a closed connection |
| Turn loop (`server/srv_main.cc`) | phase, turn, timeouts | end of turn, end of game | everything | timeouts, pauses | turns end unless paused |
| Savegames (`server/game_load.cc`, `game_save.cc`) | - | save, load, repair | all state | repair while half of the table is read; routes that are saved twice and added when the second city is read | rows agree, repairs have a reason and are final; caravans find their routes |
| Shared vision (`server/maphand.cc`) | transitive vision, seen counts | give, remove | treaties, death | transitive closure kept incrementally | counts match the closure |
| Trade routes (`common/traderoute.cc`, `server/tradehand.cc`) | a list of routes in each city, `ptr->punit` and `unit->ptr` | plan, serve, establish, replace, cancel, reset | cities, units, savegames | pointers in both directions, kept by hand; a city, caravan or route lost under way | both pointers agree; routes and plans end for a reason |
| Client agents (`client/agents/agents.cc`, `cma_core.cc`, `clinet.cc`) | list of calls, freeze level, request numbers, outstanding requests | queue, freeze, call, send, wait | client network, server | a nested loop in the middle of a handler; echoes of one's own requests among other news | the numbers of both sides are in step; the goal is kept; every wait ends |
| Client mirror (`client/packhand.cc`) | copies of treaties, votes | packets | server | packets for what was closed meanwhile | the mirror agrees at rest |
| Buffers, protocol, containers, AI, rules, GUI | - | - | - | large data, generated code or I/O | not a target of these models |

## 2. Modules

| Module | Models |
|---|---|
| `Treaty` | the clause list of a meeting, as operators on a record |
| `Diplomacy` | EXTENDS `Treaty`: meetings, acceptance, execution, pacts, contact, turn change, AI toggle, death |
| `Contract` | the abstract specification of what the diplomacy promises to any two players; `Diplomacy` implements it |
| `MCDiplomacy` | instances of `Diplomacy` |
| `DiplomacyProofs`, `ContractProofs`, `LimitProofs`, `DeliveryProofs` | its theorems; the second holds those about consent and the refinement, the third those about `maxallies`, the last the delivery of what is promised |
| `Vote`, `MCVote` | votes, the commands under vote, connections as far as they vote; its instances |
| `VoteProofs` | a theorem about the decision of a vote, and those about the states of the vote list |
| `TradeRoutes`, `MCTradeRoutes` | trade routes, caravans, and what cities and savegames do to them; its instances |
| `TradeRoutesProofs` | its theorems |
| `GameLoad`, `MCGameLoad` | the table of pacts through savegames; its instance |
| `GameLoadProofs` | its theorems |
| `Agents`, `MCAgents` | the agents of the client, request numbers, and the server's side of them; its instance |
| `AgentsProofs` | its theorems |

### Diplomacy

`ds[p][q]`, `turnsLeft[p][q]` and `contact[p][q]` are the fields of
`p->diplstates[q]`; `embassy`, `vision`, `alive`, `ai`, `gold`, `techs` those of
`player_t`; `owner` is the owner of a city; `meetings` is the list `treaties`.

| Action | Handler |
|---|---|
| `InitMeeting`, `CancelMeeting` | `handle_diplomacy_init_meeting_req`, `..._cancel_meeting_req` |
| `CreateClause`, `RemoveClauseReq` | `handle_diplomacy_create_clause_req`, `..._remove_clause_req` |
| `Withdraw`, `AcceptFirst`, `AcceptTooLate`, `Conclude` | the four outcomes of `handle_diplomacy_accept_treaty_req`: flag taken down; flag put up; the other's promises no longer hold; the treaty is executed |
| `StopVision`, `CancelPact` | `handle_diplomacy_cancel_pact` (with `CLAUSE_LAST`: all the way to war) |
| `MakeContact`, `EstablishEmbassy` | `make_contact`, `establish_embassy` |
| `TurnChange` | `update_diplomatics` |
| `ToggleAI` | `toggle_ai_player_direct`, `set_away` |
| `KillPlayer` | `kill_player` |

A request that the code refuses changes nothing and is not an action.  Left out:
reputation, `has_reason_to_cancel`, the senate and governments (they only refuse
or punish), map and sea-map clauses (they change no state of these modules), the
rules that make an advance available, barbarians, civil war, embassies by wonders,
income of gold and advances, contact made as a side effect of a city that changes
hands, and the requirement that a human requester is connected.

### Contract

For a pair of players, `deals[P]` is what is on their table and `bonds[P]` the pact in force,
each a set with at most one member.  A deal is opened, amended (which takes all agreement
back), agreed to by one, and either closed or concluded; a bond comes only with the conclusion
of a deal that contains it and that one party had agreed to before, is loosened at any
time, and an alliance may leave a peace.  There is no list, no row, no turn, no check.
`Diplomacy!TableOf` and `Diplomacy!BondOf` are the refinement mapping and `KeepsContract` is
`Contract!Spec` under it: several pairs take a step at once when an alliance
that is complete, a death or an AI ends the meetings of its party.

### Vote

A handler of the server calls others in the middle of its work, so the helpers of
`Vote` map a state record to a state record in the order of the calls of the code:
`Close` is `lost_connection_to_client` (detach, perhaps a pause vote of the
server), then `cancel_connection_votes`, which drops the votes the connection
called and takes back its casts one by one; each may decide a vote
(`CheckVote`), whose command is then carried out (`Perform`).

`link` is a connection's place in `all_connections` and its `is_closing`, `plays`
its `player`, `muted` the mute table, `votes` the vote list, `lastNo` and
`serverNo` are `vote_number_sequence` and `last_server_vote`.  `resolved` is a history
variable with the decisions of the last step.  A threshold is a fraction, and the
comparisons of `check_vote`, made there on doubles with an epsilon, are made here on
products of integers; a quotient whose divisor is 0 is 0 there, and the products
agree with that.

One user has one connection and one address.  Left out: observers, votes on
settings (`CMD_SET` and its own thresholds), what `remove` and `switch` do to the
game once they pass (nothing to the votes), the 30 minutes for which a kicked user is
refused, `VCF_UNANIMOUS` and `VCF_WAITFORALL`, which no command has.  How long a mute
lasts is an argument of the command, so any mute may expire at a turn.

### TradeRoutes

`route[<<c, d>>]` is the status of the route with `pcity1` c and `pcity2` d, or `Absent`;
`carrier` is `ptr->punit`, `serves` is `unit->ptr`; `behind` keeps the one thing the order of
the lists decides: which of two routes of a pair `game_trade_route_find` sees first.  A handler
is a map of state records as in `Vote`; where the map of the game decides (which direction is
faster, how far a caravan gets in a turn) the helper gives the set of possible results.

| Action | Handler |
|---|---|
| `Plan`, `Unplan` | `handle_trade_route_plan`, `handle_trade_route_remove` |
| `Serve`, `ServeAny` | `handle_unit_trade_route`, with two cities or with the server's choice |
| `Sell` | `handle_unit_establish_trade`, and the move of a caravan into a foreign city |
| `Move` | goto, orders or a new activity: `trade_free_unit` |
| `Rehome`, `Build`, `Lose` | new home, creation and loss of a caravan |
| `Travel` | `execute_orders` at the turn change |
| `Refresh` | `city_refresh`: the value of trade changes |
| `Transfer`, `Destroy` | `transfer_city`, `remove_city` |
| `Reset` | `reset_trade_route_planning` |
| `Reload` | save, stop, load |

`worth[<<c, d>>]` is `trade_between_cities`, which need not be the same in both directions (style 2)
and changes with the tiles, owners and buildings of the cities.  The code compares a new route with the
`value` stored in the old ones; `city_refresh` brings both up to date together, so the model has one
value of each route at a time, and "of more value" means at the moment of the replacement.

When the server chooses a route (`ServeAny`), it compares the costs of all free routes of the player,
and the calculation of a cost turns a route within the nation that is faster the other way: any set
of them may be turned, the one that is chosen or not.

Routes of zero value, revenue, and the re-creation of units (a unit that changes owner is a
new unit; the old one is wiped) are left out.  `fault` says that the server has used a null
pointer or a freed unit; nothing follows.

### GameLoad

`Load(p)` is `player_load`: the row of p and whether he lives are read, then his alliances are
repaired in both rows, with the rows of later players still those of an empty game
(`player_init`).  `SaveAndRestart` saves what was loaded, as it is, and starts again.

### Agents

The server, one connection in both directions as two queues, and one client.  `pc` cuts the
agent's code where it waits: `ExecuteCall` (`call_handle_methods`), `Try` (`handle_city` up to
the sending of requests), `Receive` (a packet, in the main loop or in the nested one), `Judge`
(the rest of `apply_result_on_server`), `Return` (the end of the calls, and the rest of
`cma_put_city_under_agent` if they ran in it).  `job.fresh` and `putting.fresh` are whether the
pointers to cities that `handle_city` and `cma_put_city_under_agent` hold are still valid.

Cities share tiles: `Near` are the tiles around a city, `Open` those that no other city works
(`city_can_work_tile`).  A worker who is set or removed closes or opens his tile for the cities around
(`server_set_tile_city`), and `sync_cities` sends every city that looks different, within the answer to
the request that moved him (`Unsynced`, `Answer`).  The client drops all that comes with the answers
it waits for, whatever city it is about; the history variable `ignored` has the cities other than the
one that is handled for which this happened and no call came since.  The calculation of the best
arrangement is the constant `Best`; it depends on the setting of a city and the tiles open to it.
Nothing is assumed of what the server does when a setting changes but that workers stand on open tiles.

The packets that tell the server what is under the agent (`Told`) are requests like others and are
counted; the server does nothing to the city for them.  A client that joins is shown everything in a
freeze, with the cities that were under the agent (`HandleManagers`), before its game runs
(`HandleRunning`); until then a thaw executes no calls (`Thawed`).

Left out: the agent of the city dialogs (`cma_fec.cc`), calls for units and tiles, specialists of
several kinds, the refresh request that is sent when client and server disagree on the output of the
same arrangement, the release of a city by the user and of all cities when the game is over
(`civclient.cc:575`), the pongs of the client, and servers without the capability `extglobalinfo`, to
which the parameters are not sent.

## 3. Runs

| Run | Question | Result |
|---|---|---|
| `Pacts` | three players, all pacts, one meeting at a time | rows agree, consent, no in-alliance war |
| `Goods` | gold, a negative sum, a city, a capital and an advance promised in two meetings | delivery, one treaty of a pair, unambiguous terms, nothing left by the dead, nobody pays more than he has |
| `Teams` | a team of two and a third player, with fairness | fall-out among team mates; cease-fires end; the contract of every pair is kept |
| `Allies` | `maxallies` 1, diplomacy for humans only | the limit holds and isolates; open meetings stay allowed |
| `Triad` | is the love-love-hate triad prevented? | **no** |
| `Votes` | two users, every command that touches votes | the vote list is sound, numbers are never reused, one pause vote |
| `Decisions` | three users and two players, votes to mute and team votes, with fairness | early decisions are final; nobody decides alone; every vote ends |
| `StaleCasts` | do detached users leave no votes? | **no** |
| `Routes` | two players, three cities, two caravans; a city lost, other values or a reload | pointers agree; routes and plans end for a reason |
| `RouteFault` | is a route that is established always there? | **no** |
| `Reloads` | all tables of four players, loaded twice | rows agree, repairs are modest, have a reason and are final; which triads remain |
| `Agents` | two cities that share a tile, the agent, the user, the server, a lost connection, with fairness | numbers in step, freezes end, every wait ends; which goals are kept |

What the three violations show:

* `Triad`: b accepts an alliance with a, then something turns one of them to war
  with an ally of the other.  The recheck when a accepts asks
  `pplayer_can_ally(pother, pplayer)` and not the converse
  (`diplhand.cc:325`), though `player.cc:47` says that both ways are needed.
* `StaleCasts`: `take_command` detaches the user who is displaced without
  `cancel_connection_votes`, which `detach_command` and `close_connection` call.  His
  cast counts again as soon as he takes another player; a team vote he had called
  can be voted on by nobody meanwhile.
* `RouteFault`: p plans A to B, q establishes B to A with a caravan of his, and p's caravan
  serves the plan.  `have_cities_trade_route` sees the plan, which is the older one in the
  list, and says that nothing is established; `server_establish_trade_route` removes the
  plan, `game_trade_route_add` finds the established route and returns NULL, and the next
  line writes through it (`tradehand.cc:201`).

What else the models show of the code, without a run of its own:

* With `maxallies`, `cancel_diplomacy` (`diplhand.cc:819`) sets war directly; the fall-out that
  breaks alliances with the aggressor is only in `handle_diplomacy_cancel_pact`, so allies of a
  common ally may come to be at war.
* Nothing keeps team mates from signing a pact, and its execution overwrites `DIPLSTATE_TEAM`,
  although a team cannot be broken by cancelling (`plrhand.cc:1214`).  Two mates of a team of three,
  who have as many allies as `maxallies` allows by their team alone, become strangers with a peace
  that `cancel_diplomacy`, called after an alliance only, never cancels.  The help of the setting
  (`settings.cc:742`) makes no exception for them; `SaturatedIsolation`, which is proved, does.
* A gold clause may be negative; the party that receives it pays, without a look at its treasury,
  which may become negative (`SumsCovered` states that nothing else does that).
* An open meeting outlives the contact it was opened by: `contact_turns_left` runs out at a turn
  change and nobody looks at it again (`MeetingStillAllowed` states what does stay).
* The threshold of a `NOPASSALONE` vote is raised when it is called, from the number of voters
  then; abstentions and departures shrink the divisor later.
* Triads whose centre is loaded last survive the repair of a savegame, and a dead player who
  is loaded later still costs an alliance (`Reloads` states exactly which).
* A caravan that serves one route and stands where another one ends is given the other without
  leaving the first (`tradehand.cc:553`); when the first is removed, a freed unit is used.
* A savegame gives a plan between two nations to the player who is loaded later, though
  `traderoute.hh:28` says the owner of `pcity1` owns it, and two plans of the same cities in
  opposite directions make the loader use a null pointer.
* `calls_are_equal` (`agents.cc:95`) joins its two conditions with `&&` and does not look at
  the agent, so the removal of a city is dropped behind any other call for that city, and the
  parameter of the agent stays with the number of a city that is gone.
* `doc/README.cma:23` says that the agent becomes active "everytime anything changes with the city", and
  `cma_core.cc:390` that the city follows its goal or is released.  Not so for a city whose neighbour is
  handled: the requests for the neighbour open or close a tile of both, the news of the city come with
  the answers to them, and `agents_city_changed` (`agents.cc:606`) drops what comes with awaited
  answers without a look at the city.  `GoalKept` excepts those cities and no others.
* `handle_city` goes on with its pointer to a city that was deleted while it waited
  (`cma_core.cc:458`), and so does `cma_put_city_under_agent` after the calls; the model ends there with the fault `dangling`.
* When the request number wraps around while an agent sends its requests, its wait ends at
  once or the assertion of `wait_for_requests` fails: with a small `IdMod` the model shows both.

### Bounds

* Players: three in every diplomacy run.  The relations checked are about two players and one
  common ally; a fourth player only adds another ally of the same kind.
* `MaxMeetings` 1 or 2: two open meetings are needed for a promise made twice and
  for treaties cut off by another one; with one, meetings still follow each
  other in every order.  `MaxClauses` 2: one pact replaced by another, or goods for
  goods.
* `MaxDebt` 0: a negative sum is put forward only where neither party owes anything already, or
  treasuries could move apart without end.
* `CeasefireTurns` 2 in place of 16, `ContactTurns` at most 1 in place of 20: enough
  to age, to renew and to run out; nothing compares them to anything but 0.
* `Mortals`, `Switchers`, `Breakers`, `Envoys`, `Offers` say who may die, change to
  the AI, break pacts, open embassies and what is offered; each run enables what
  its question needs.
* `Conns`: two in `Votes`, three in `Decisions`, where they share two players: two vote and the
  third may take a player from either.  `MaxNo` bounds the votes of a run: two are needed for a
  replaced vote, a number to be reused and a second pause vote; `Decisions` has one.  Larger
  electorates are the theorem's.
* `Routes`: b, the better partner of both other cities, belongs to the other player, who is
  loaded second; with `MaxRoutes` 1 every second route has to replace one.  Two caravans can
  serve the same plan one after the other; routes of both directions between a and b come about by
  trade on the spot and by a savegame, which turns a plan the other way (`RouteFault` has requests
  in both directions).  Besides the route from a to b one within a nation is asked for, and with b
  conquered two that the server may turn while it chooses.  `MaxEvents` 1: b changes hands or is destroyed, the values of trade change (in one
  direction a to b becomes the best, in the other the worst), or the game is loaded again, at any moment.
* `Reloads`: a triad needs three players; the fourth is an ally of the centre whose own alliance
  may be repaired first.  `MaxDead` 1; every symmetric table over the five pacts that the repair
  tells apart ("peace" stands for all harmless ones); two savegames, as the second round
  already gives back what it reads.
* `Agents`: `Tries` 2 in place of 5, one citizen and two tiles, so an arrangement takes up to two
  requests.  Two cities share one of the tiles, and what is best changes with the setting and with
  what is open, so that each can take the tile from the other or give it up; in one case the goal
  cannot be met.  Two events of the server or the network at any moment, one order of the user.
  `IdMod` is that of the code and never reached.
* Symmetry is used in the safety runs only, over players or connections that the
  configuration does not tell apart.

`CHECK_DEADLOCK` is on in all runs of `Diplomacy` and `Vote`: the server never stops.  It is off
where the system really may stop: `Routes` and `RouteFault` (after a fault, or when all caravans
are gone and nothing more may be planned), `Reloads` (a game that is loaded is not played here)
and `Agents` (after a fault; with all bounded events spent and nothing to do the client rests).

### Fairness

`FairSpec` of `Diplomacy` is weak fairness of the turn change: turns end by timeout
or when all are done, whatever the players do.  `FairSpec` of `Vote` is weak fairness
of `VotingTurn`, which is disabled by a pause (`check_for_full_turn_done` returns, and
the timeout is 0): so `VotesEnd` says nothing of a paused game.  `FairSpec` of `Agents` is
weak fairness of the server's handling of requests and of the client's handling of packets
and calls: both loops read every socket that is ready (`sniff_packets`, `read_from_connection`),
and the agent's code between two waits does not block.  No fairness of players, voters, users,
connections or events is assumed.

## 4. Proofs

TLAPS checks the following about `Diplomacy`, for every set of players, teams, cities, advances,
offers and settings that satisfies the named assumptions (`PlayersAssumption`,
`TurnsAssumption`, `SettingsAssumption`, `StartAssumption`, `OffersAssumption`), and
without the bounds that make TLC's state space finite being of any size in
particular.

* `TypeCorrect`: `TypeOK` is inductive by itself.
* `SumsAreCovered`: only `Conclude` moves gold, and each party's sum is at most its treasury at that
  moment (`AllKept`, `AllStillKept`), so a treasury that falls below zero, or further below it, was
  drawn by a negative sum of the other party.  That this happens is part of the model: a gold clause
  is a signed integer to the code, and neither `add_clause` (`diptreaty.cc:186`) nor the accept handler
  (`diplhand.cc:230`, `338`) looks at its sign or at the treasury of the receiver.
* `RowsAlwaysAgree`: `RowsAgree` with `TypeOK` is inductive; every step writes a pair
  by `SetPair`, by a condition symmetric in the two, or ages both rows.
* `MeetingsAlwaysSound` and `DeadAlwaysLeaveNothing`: neither is inductive alone.  A
  meeting opens only between living players, who could have no city, vision or
  meeting if dead; and only if the parties of a meeting are two different players do
  the steps of one party leave the other meetings alone.  The inductive invariant is
  `MeetingsInv`, their conjunction, under `TypeOK`.
* `AcceptanceIsFresh`: the action property `FreshAcceptance` follows from that invariant:
  a meeting of the same parties after the step is the one before it, changed by
  `AddClause` or `RemoveClause`.
* `TermsAlwaysUnambiguous`: `AddClause` replaces what it supersedes (lemma `Replaces`), and no other
  step adds a clause.
* `NoAllianceTorn`: under two assumptions on settings, `MaxAllies` = 0 and `DiplomacySetting` = 0, the
  code's defaults (`game.hh:427`, `431`).  They are needed: with a limit, `cancel_diplomacy` begins wars without a
  fall-out.  The invariant is `TeamsAreMates` (the state "team" is only between members of
  one team): an alliance survives a fall-out only if it is one of a team, and then the
  mates of the aggressor are dealt with from the other side.
* `PactsOnlyByConsent` and `ContractKept` (`ContractProofs`): every action is shown, pair by pair, to
  loosen the bond of the pair and to rest, open, amend, agree or close its table, or to conclude
  the deal on it; what an action does to pairs it does not name (the cuts of a complete
  alliance, the fall-out, a death) is a lemma about `CutStates`, `FallOut` and `OpenWithout`.
  `ContractKept` is the refinement, for every number of players.
* `LimitProofs`: `AlliesAlwaysBounded`, `LimitIsolates` and `MeetingsStayAllowed` are inductive
  together and not alone.  The accept handler concludes an alliance without counting the allies of
  both sides; that both are below the limit follows from diplomacy being possible in it
  (`could_meet_with_player` refuses a player at the limit).  Diplomacy stays possible in it because
  whoever reaches the limit loses his other meetings, and who is isolated stays so because only the
  loss of an ally who is no team mate, which leads below the limit, makes anybody a stranger again.
  The proof never uses the checks that the accept handler itself makes of `maxallies`.  That the
  parties know each other is a second invariant (`AcquaintanceInv`): contact comes with a state other
  than "no contact", which no handler brings back.  That their contact is recent is not claimed.
* `PromisesAlwaysKept` (`DeliveryProofs`): an action property about the step that executes a treaty.
  It rests on `TermsUnambiguous` (one sum of each giver, so the gold paid is the gold promised) and
  on the parties being two (`MeetingsInv`).

About `Vote` (`ConnsAssumption`, `BoundAssumption`, `TeamAssumption`, `MotionsAssumption`):

* `EarlyDecisionsAreFinal` (`VoteProofs`): whatever the numbers of votes and the
  threshold, if `check_vote` decides a vote before its last turn then every
  completion of the missing votes has the same outcome.  Two lemmas: enough yes votes
  stay enough, too many no votes stay too many; the other shortcuts of the code
  are these two in other words.  It is about the operators `Decided` and `Passed`.
* Six theorems about the states (`VoteProofs`).  `cancel_connection_votes` and `voting_turn`
  go through the list and may decide every vote on their way, so one step is a chain of as many
  states as there were votes (`RemoveCasts`, `CheckVotes`, recursive functions on the numbers of the
  votes).  That a chain keeps what its links keep is proved once, from the least number at which it
  would fail, because the library's induction takes an operator.  The invariant is `Sound`: types,
  the list and what it refers to, and what is known of the decisions of the step so far; in the
  middle of the closing of a connection it is stated with the casts of that connection excepted.
  `VoteTypes`, `ListStaysSound`, `OnePauseAtATime` and `DecisionsAreForGood` follow; the last shows
  that the tallies of all behaviours meet the assumptions of `EarlyDecisionsAreFinal`.
  `NumbersStayWithMotions` and `NobodyEverDecidesAlone` are action properties from it.

About `TradeRoutes` (`RouteConstants`), in `TradeRoutesProofs`:

* Every handler is a composition of helpers on states, so each helper is shown to keep one
  invariant, `Sound(s, W, C)`, and each handler to be put together from them.  Types and trades (one
  established route of a pair, `maxtraderoutes`) hold always, after a fault too.  Until a fault,
  pointers agree in both directions, a route with a caravan is marked, a nation has one route of a
  pair of cities, and of two routes of a pair one is known to be the older one.  In the middle of a
  handler the second part has exceptions: the caravans of W, whose route is about to change (the
  server writes `ptr->punit` before it takes the caravan off its old route), and the cities of C,
  whose owner has just changed.  `RouteTypes`, `CaravansServe` and `TradeStaysSound` follow.  What a
  fault allows is part of the statement: `ServiceSound` ends with it.
* That `maxtraderoutes` is kept by a replacement needs that the worst route of a city is removed
  before the new one comes, from both cities, and that the removal does not bring an established
  route to light behind a plan; in that case the server faults (`RouteFault`), and that the fault
  remains to the end of the handler is a lemma.
* `TradeGivesWay` and `PlansStay` are action properties.  A helper either is `Steady` (established
  routes and plans are as they were) or `Passed` (trade gave way to better trade of one of its
  cities, plans to trade; a plan inside a nation may be turned), and a handler is one step that
  passes among steady ones.  Values are integers (`trade_between_cities` returns an int), of
  each direction, and may change at any time; nothing else is assumed of them.  The removal of a plan on request, a reset, a city that is lost and a
  savegame are cases of their own.

About `GameLoad` (`SeatAssumption`, `PactsAssumption`, `RoundsAssumption`):

* `GameLoadProofs`: six theorems from one inductive invariant, `Inv`.  None of the
  properties is inductive alone: that rows agree needs to know which entries are still
  those of an empty game and which are still as saved (`RowsAsRead`), and that players load in
  order (`InOrder`); that the second load changes nothing needs that what is left after the first
  holds no alliance that any row would take for illegal when it is read (`RowsRepaired`,
  carried over a restart as `SavedRepaired`).  The order enters by `SeatAssumption` alone: seats
  are integers, no two alike.

About `Agents` (`AgentsAssumption`, and `NoCityAssumption`: a city is not "no city"), in `AgentsProofs`:

* `AgentsTypes`, `NumbersInStep` and `FreezesAlwaysEnd` are read off from one invariant, `Sound`.
  None of the three is inductive alone: that `frozen` stays a natural number when a thaw comes in
  depends on everything that is under way before it.  The invariant says of a connection that the
  number used last by the client is the one the server will have counted to when it has served the
  requests under way (`LastId(counted, Len(requests))`), and that the news under way are a path
  (`Through`): each packet fits where the one before has left the client (inside an answer or not,
  how deep in freezes, at which number, showing which cities, in a running game or not), and the path
  ends outside of every bracket, in a running game, at the number the server has counted, with every
  city shown as the server has it (`Settled`).    Without a connection nothing is under way and nothing is frozen.
* The lemmas about paths are those of composition: nothing, one packet, two sequences joined, the
  tail behind a head.  An answer, other news and the game sent to a client that joins are then
  paths of a few links, and every packet that is handled moves the client one link on.  How many
  brackets are open at the end of a path, and which number its first answer has, are inductions
  along it from the least number that fails (`UpTo`).
* For these three, of `IdMod` only that it is more than 2 is assumed, so the wrapping around is
  covered.  The queues are not bounded.
* `AnswersInHand` (`JudgedOnAnswers`) and `GoalsAreKept` (`GoalKept`) have one hypothesis more,
  `[][Unwrapped]_vars`: no step that sends requests takes the number of the last one past the
  wrap.  It is a restriction of behaviours and not of constants, because it is the code that needs
  it: `wait_for_requests` compares numbers by size, and for every `IdMod` a long behaviour wraps in
  the middle of a try (section 3 and the hazard at `connection.cc:627`).  With the code's 65536
  numbers it holds in every behaviour that sends fewer requests than that on one connection, so in
  all of the run `Agents`, where both properties are checked.
* They need a second invariant, `InHand`, on top of `Sound`.  Its parts are needed together:
  * `Linear`: numbers are sums, `used = counted + Len(requests)`, and so is "earlier".
  * `Echoes`: the path of the news under way is narrowed.  Between the start and the end of an answer
    to an awaited request only the city of the job is told about, with the tiles open to it as they
    were, and cities that share a tile with another (`Echo`).  When a try sends its requests, what is
    under way answers earlier numbers (`AllowedBefore`) and the narrower path exists at once.
  * `Waits`: the requests from the first awaited number on are about that city, and the last
    of them has the number used last.
  * `Aimed`: the goal of the job is what `Best` says of the setting it was calculated for and the tiles
    shown as open, or a call for the city waits.
  * `Placed`: workers stand on tiles around their city.  So the requests of
    an agent change what is open only to cities with a tile in common, and nothing of their own.
  * `Joining`: until the game runs the agent's code does not, and every city that is shown has a call,
    so the parameters that a joining client takes over find their cities called.
  * `Excused`: a city in `ignored` has a neighbour with a tile in common.
  * `GoalsInHand`: a city under the agent that is not shown as wanted is being handled, has a call or
    is in `ignored`.
  `GoalKept` follows at the end of the news: the path is empty, so the view is the truth, nothing
  is frozen or called for, and no job is under way.  `InHand` is proved of the steps that end without a fault;
  the specification takes no step after one, and `GoalKept` speaks of no state with a fault.
* Both invariants are preserved by one lemma for each action; the lemmas about paths take the
  allowed pairs of place and packet as a parameter (`Anywhere` for `Sound`, `Allowed` for `InHand`).

Every safety invariant and every action property of the passing runs is a theorem.
Only model-checked is liveness (`CeasefireEnds`, `VotesEnd`, `AgentReturns`), which is out of the
prover's reach, as is ENABLED.

## 5. Not modelled, and why

* Shared vision on the map: the reference counts of seen tiles are one counter for each tile
  and player; who gives vision to whom is in `Diplomacy`, its closure over the map is not.
* The client's mirror of treaties and votes: one ordered stream of packets from a server that
  handles one request at a time; the mirror repeats the server's own calls.
* The packet code is generated, the network buffers are bytes under socket I/O; what matters of
  them to other parts (brackets, numbers, order, loss of the connection) is in `Agents` and `Vote`.
* Containers, the AI's choices, combat, movement, city growth, rulesets, map generation and the
  graphical clients: large data and sequential code within one handler, the bulk of the
  lines of the repository.
* Of the modelled parts: reputation, senate, map clauses, `CMD_SET` votes, observers, unit and
  tile calls of agents, the planning calculation of trade routes, all other data of a savegame.

## 6. Next

1. Connections: attach, take, observe and access levels, refining an abstract map of
   users to players; composed with `Vote` and with the AI toggle of `Diplomacy`.
2. Several agents with different levels, and the front end's agent, in `Agents`.
