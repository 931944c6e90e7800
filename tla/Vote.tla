-------------------------------- MODULE Vote --------------------------------
(***************************************************************************)
(* The votes of the server: motions called by players, casts, the decision *)
(* and its execution, and everything that takes a vote away from a voter:  *)
(* lost and broken connections, taking and leaving a player, muting        *)
(* (server/vote.cc; the commands of server/stdinhand.cc; the closing of    *)
(* connections in server/sernet.cc and server/connecthand.cc).             *)
(*                                                                         *)
(* The game is running.  A handler calls others in the middle of its work: *)
(* a lost connection makes the server call a vote, cancels the casts of    *)
(* the connection, and each cancelled cast may decide a vote, whose motion *)
(* is then carried out.  So the helpers map a state to a state: s is a     *)
(* record with one field of the name of each variable.                     *)
(***************************************************************************)
EXTENDS Integers, FiniteSets

CONSTANTS
    Conns,    \* the connections, one address and one user each
    Players,  \* the players that can be taken
    Nobody,   \* plays[c] of a connection that controls no player
    Server,   \* the caller of a vote the server makes, caller_id 0
    Team,     \* [Players -> teams], every player is in one
    Admins,   \* the connections with access level admin; the others have basic
    Displace, \* setting allowtake lets a player be taken from his controller
    \* Bounds of an instance
    Motions,  \* the commands that are put to the vote or typed at the prompt
    MaxNo     \* the number of votes of a run

ASSUME ConnsAssumption == IsFiniteSet(Conns) /\ Server \notin Conns
ASSUME BoundAssumption == MaxNo \in Nat
ASSUME TeamAssumption == Nobody \notin Players /\ Players \subseteq DOMAIN Team
ASSUME MotionsAssumption ==
    Motions \subseteq {"poll", "mute", "unmute", "kick", "cut", "pause", "unpause",
                       "remove", "switch"}

VARIABLES
    link,      \* "down", "up" or "closing" (is_closing, not yet closed)
    plays,     \* the player a connection controls
    muted,     \* mute_table
    paused,    \* game_is_paused
    votes,     \* vote_list
    lastNo,    \* vote_number_sequence
    serverNo,  \* last_server_vote, 0 for none
    resolved   \* history: the decisions taken in the last step

vars == <<link, plays, muted, paused, votes, lastNo, serverNo, resolved>>

Now == [link |-> link, plays |-> plays, muted |-> muted, paused |-> paused,
        votes |-> votes, lastNo |-> lastNo, serverNo |-> serverNo, resolved |-> {}]

\* (The quantifier has TLC compute s once.)
Become(s) == \E n \in {s} :
    /\ link' = n.link /\ plays' = n.plays /\ muted' = n.muted /\ paused' = n.paused
    /\ votes' = n.votes /\ lastNo' = n.lastNo /\ serverNo' = n.serverNo
    /\ resolved' = n.resolved

-----------------------------------------------------------------------------
(* The commands as the table of server/commands.cc has them *)

NoPassAlone == {"mute", "unmute", "kick", "switch"}
NoDissent == {"remove", "switch"}
TeamOnly == {"switch"}
AlwaysVote == {"poll"}
Aimed == {"mute", "unmute", "kick", "cut"}   \* they name a user

\* vote_percent, as a fraction
Percent(kind) ==
    CASE kind = "mute" -> <<2, 5>> [] kind = "unmute" -> <<1, 4>>
      [] kind = "remove" -> <<3, 4>> [] OTHER -> <<1, 2>>

\* conn_controls_player and conn_is_muted, of an established connection
HasVoice(s, c) == s.link[c] # "down" /\ s.plays[c] # Nobody /\ c \notin s.muted

\* conn_can_vote: a team vote is for the team of the caller's player, and for
\* nobody while the caller has none.
CanVote(s, c, v) ==
    /\ HasVoice(s, c)
    /\ v.kind \in TeamOnly =>
         /\ v.caller \in Conns /\ s.plays[v.caller] # Nobody
         /\ Team[s.plays[c]] = Team[s.plays[v.caller]]

Voters(s, v) == {c \in Conns : CanVote(s, c, v)}

\* Mutant: the threshold stays where one vote passes it.
NeedAsListed(kind, voters) == Percent(kind)

\* need_pc of a new vote: NOPASSALONE raises it where one vote would pass it.
NeedOf(kind, voters) ==
    IF kind \in NoPassAlone /\ voters > 1 /\ Percent(kind)[2] > Percent(kind)[1] * voters
      THEN IF voters > 4 THEN <<2, voters>> ELSE <<1, 2>>
      ELSE Percent(kind)

\* The commands that pass their check.  Called by a player, kick needs three
\* addresses and may not name the caller; admins are not muted.
Legal(s, by, kind, target) ==
    /\ kind \in Aimed => target \in Conns /\ s.link[target] # "down"
    /\ kind = "mute" => target \notin s.muted \cup Admins
    /\ kind = "unmute" => target \in s.muted
    /\ kind = "kick" /\ by \in Conns \ Admins =>
         target # by /\ Cardinality({c \in Conns : s.link[c] # "down"}) >= 3
    /\ kind = "pause" => ~s.paused
    /\ kind = "unpause" => s.paused

\* The command is carried out at the server's prompt.  A connection that is cut
\* is closed later.  What poll, remove and switch do is not about votes.
Perform(s, kind, target) ==
    IF ~Legal(s, Server, kind, target) THEN s
    ELSE [s EXCEPT
            !.muted = CASE kind = "mute" -> @ \cup {target}
                        [] kind = "unmute" -> @ \ {target}
                        [] OTHER -> @,
            !.link = IF kind \in {"kick", "cut"} THEN [@ EXCEPT ![target] = "closing"] ELSE @,
            !.paused = CASE kind = "pause" -> TRUE [] kind = "unpause" -> FALSE [] OTHER -> @]

-----------------------------------------------------------------------------
(* check_vote *)

\* Casts count only while the connection may vote.
Tally(s, v) ==
    LET Of(voters) ==
          LET Count(cast) == Cardinality({c \in voters : v.casts[c] = cast})
              all == Cardinality(voters)
          IN [no |-> v.no, kind |-> v.kind, need |-> v.need, turns |-> v.turns, voters |-> all,
              yes |-> Count("yes"), against |-> Count("no"),
              rest |-> Count("none"), base |-> all - Count("abstain")]
    IN CHOOSE t \in {Of(voters) : voters \in {Voters(s, v)}} : TRUE

\* x / base > need, and need = need[1] / need[2]; the code has 0 for x / 0.
Exceeds(x, base, need) == x * need[2] > need[1] * base

Passed(t) ==
    /\ Exceeds(t.yes, t.base, t.need)
    /\ t.kind \in NoDissent => t.against = 0

\* Mutant: half of the votes is taken for a majority.
DecidedAtTheBorder(t) ==
    /\ t.voters > 0
    /\ \/ t.kind \in NoDissent /\ t.against > 0
       \/ t.yes * t.need[2] >= t.need[1] * t.base
       \/ ~Exceeds(t.base - t.against, t.base, t.need)
       \/ t.rest = 0 \/ t.turns > 1

\* Mutant: a vote waits for its voters.
DecidedWhenAllVoted(t) ==
    /\ t.voters > 0
    /\ \/ t.kind \in NoDissent /\ t.against > 0
       \/ Exceeds(t.yes, t.base, t.need)
       \/ ~Exceeds(t.base - t.against, t.base, t.need)
       \/ t.rest = 0

\* "if we should resolve the vote": a dissent, enough yes or too many no votes,
\* not enough no or yes votes left, everyone voted, old, everyone abstains.
Decided(t) ==
    /\ t.voters > 0
    /\ \/ t.kind \in NoDissent /\ t.against > 0
       \/ Exceeds(t.yes, t.base, t.need)
       \/ ~Exceeds(t.base - t.against, t.base, t.need)
       \/ Exceeds(t.base - t.against - t.rest, t.base, t.need)
       \/ ~Exceeds(t.yes + t.rest, t.base, t.need)
       \/ t.rest = 0
       \/ t.turns > 1
       \/ t.base = 0

\* (The set has TLC count the votes once.)
CheckVote(s, no) ==
    LET Outcome(v, t) ==
          LET gone == [s EXCEPT !.votes = @ \ {v},
                                !.resolved = @ \cup {[tally |-> t, passed |-> Passed(t)]}]
          IN IF ~Decided(t) THEN s
             ELSE IF Passed(t) THEN Perform(gone, v.kind, v.target) ELSE gone
    IN CHOOSE r \in {Outcome(c.vote, c.tally) :
                       c \in {[vote |-> v, tally |-> Tally(s, v)] :
                                 v \in {w \in s.votes : w.no = no}}} : TRUE

\* The votes are looked at from the oldest on; the decision of one may remove or
\* mute the voters of the next.
CheckVotes(s) ==
    LET after[n \in 0..s.lastNo] ==
          IF n = 0 THEN s
          ELSE IF \E v \in after[n - 1].votes : v.no = n THEN CheckVote(after[n - 1], n)
          ELSE after[n - 1]
    IN after[s.lastNo]

Numbers(s) == {v.no : v \in s.votes}

\* connection_vote of a connection that may vote
CastVote(s, c, no, cast) ==
    CheckVote([s EXCEPT !.votes =
                 {IF v.no = no THEN [v EXCEPT !.casts[c] = cast] ELSE v : v \in @}], no)

\* remove_vote_cast, of a connection that has cast its vote
RemoveCast(s, c, no) ==
    IF \E v \in s.votes : v.no = no /\ v.casts[c] # "none"
      THEN CastVote(s, c, no, "none") ELSE s

\* Its casts are taken back one by one, from the oldest vote on; a vote that is
\* decided by that may change what the next ones count.
RemoveCasts(s, c) ==
    LET after[n \in 0..s.lastNo] == IF n = 0 THEN s ELSE RemoveCast(after[n - 1], c, n)
    IN after[s.lastNo]

\* Mutant: the votes that the connection called stay open.
CancelCastsOnly(s, c) == RemoveCasts(s, c)

\* cancel_connection_votes
CancelConnectionVotes(s, c) == RemoveCasts([s EXCEPT !.votes = {v \in @ : v.caller # c}], c)

\* Mutants: numbers are places in the list; the first number is 0.
NumberOfPlace(s, kept) ==
    CHOOSE i \in 1..(Cardinality(kept) + 1) : \A v \in kept : v.no # i
NumberFromZero(s, kept) == s.lastNo

\* ++vote_number_sequence, whatever votes are kept
NewNumber(s, kept) == s.lastNo + 1

\* vote_new: the caller's previous vote is cancelled.
NewVote(s, caller, kind, target) ==
    LET kept == {v \in s.votes : caller = Server \/ v.caller # caller}
        blank == [no |-> NewNumber(s, kept), caller |-> caller, kind |-> kind,
                  target |-> target, need |-> Percent(kind), turns |-> 0,
                  casts |-> [c \in Conns |-> "none"]]
        need == NeedOf(kind, Cardinality(Voters(s, blank)))
    IN [s EXCEPT !.lastNo = @ + 1, !.votes = kept \cup {[blank EXCEPT !.need = need]}]

\* Mutant: every lost player makes the server call another vote.
RequestAnotherPause(s) ==
    IF s.paused \/ {c \in Conns : HasVoice(s, c)} = {} \/ s.lastNo >= MaxNo THEN s
    ELSE [NewVote(s, Server, "pause", Server) EXCEPT !.serverNo = s.lastNo + 1]

\* server_request_pause_vote (within the bound MaxNo)
RequestPauseVote(s) ==
    IF \/ s.paused \/ {c \in Conns : HasVoice(s, c)} = {} \/ s.lastNo >= MaxNo
       \/ s.serverNo # 0 /\ s.serverNo \in Numbers(s)
      THEN s
      ELSE [NewVote(s, Server, "pause", Server) EXCEPT !.serverNo = s.lastNo + 1]

-----------------------------------------------------------------------------
(* Connections and players *)

\* A user connects; if a player bears his name, it is given back to him.  (The name
\* of a player is that of who controls it.)
Connect(c, p) ==
    /\ link[c] = "down"
    /\ p # Nobody => \A x \in Conns : plays[x] # p
    /\ Become([Now EXCEPT !.link[c] = "up", !.plays[c] = p])

\* take_command: whoever controls p is detached by force; c leaves the player it
\* has (detach_command cancels its votes) and is attached to p.
Take(c, p) ==
    LET freed == [Now EXCEPT !.plays = [x \in Conns |-> IF @[x] = p THEN Nobody ELSE @[x]]]
        left == IF plays[c] = Nobody THEN freed
                ELSE CancelConnectionVotes([freed EXCEPT !.plays[c] = Nobody], c)
    IN /\ link[c] = "up" /\ plays[c] # p /\ c \notin muted
       /\ Displace \/ \A x \in Conns : plays[x] # p
       /\ Become([left EXCEPT !.plays[c] = p])

\* detach_command of a controller
Detach(c) ==
    /\ link[c] = "up" /\ plays[c] # Nobody /\ c \notin muted
    /\ Become(CancelConnectionVotes([Now EXCEPT !.plays[c] = Nobody], c))

\* The socket fails, or the server gives up on it: the connection is marked.
Break(c) ==
    /\ link[c] = "up"
    /\ Become([Now EXCEPT !.link[c] = "closing"])

\* really_close_connections: lost_connection_to_client, which asks for a pause
\* when a player was lost, then close_connection.
Close(c) ==
    LET lost == [Now EXCEPT !.link[c] = "down", !.plays[c] = Nobody]
        asked == IF plays[c] # Nobody THEN RequestPauseVote(lost) ELSE lost
    IN /\ link[c] = "closing"
       /\ Become(CancelConnectionVotes(asked, c))

-----------------------------------------------------------------------------
(* Commands and packets *)

\* A command that needs more than the basic level becomes a vote, and its caller
\* votes for it (handle_stdin_input, vote_new, connection_vote).
CallVote(c, kind, target) ==
    /\ link[c] = "up" /\ HasVoice(Now, c)
    /\ c \notin Admins \/ kind \in AlwaysVote
    /\ Legal(Now, c, kind, target)
    /\ lastNo < MaxNo
    /\ LET called == NewVote(Now, c, kind, target)
           mine == CHOOSE v \in called.votes : v.caller = c
       IN Become(CastVote(called, c, mine.no, "yes"))

\* handle_vote_submit and vote_command
Cast(c, v, cast) ==
    /\ link[c] = "up" /\ CanVote(Now, c, v)
    /\ Become(CastVote(Now, c, v.no, cast))

\* cancel_vote_command, of the caller, an admin or the prompt
CancelVote(v) == Become([Now EXCEPT !.votes = @ \ {v}])

\* "cancelvote all", and clear_all_votes when a game ends or is loaded
ClearVotes == votes # {} /\ Become([Now EXCEPT !.votes = {}])

\* The prompt, or an admin, needs no vote.
Order(kind, target) ==
    /\ kind \notin AlwaysVote /\ Legal(Now, Server, kind, target)
    /\ Become(Perform(Now, kind, target))

\* A turn older, with some mutes expired (from 2 on, turn_count makes no difference)
Aged(forgiven) ==
    [Now EXCEPT !.muted = @ \ forgiven,
                !.votes = {[v EXCEPT !.turns = IF @ = 2 THEN 2 ELSE @ + 1] : v \in @}]

\* The end of a turn, which a pause holds up: mutes expire (stdinhand_turn), then
\* every vote grows older and is looked at (voting_turn).
VotingTurn ==
    /\ ~paused
    /\ UNCHANGED <<plays, lastNo, serverNo>>   \* (said first, for TLC)
    /\ \E s \in {Aged(forgiven) : forgiven \in SUBSET muted} :
         Become(CheckVotes(s))

-----------------------------------------------------------------------------

Init ==
    /\ link = [c \in Conns |-> "down"] /\ plays = [c \in Conns |-> Nobody]
    /\ muted = {} /\ paused = FALSE
    /\ votes = {} /\ lastNo = 0 /\ serverNo = 0 /\ resolved = {}

Next ==
    \/ \E c \in Conns :
         \/ \E p \in Players \cup {Nobody} : Connect(c, p)
         \/ \E p \in Players : Take(c, p)
         \/ Detach(c) \/ Break(c) \/ Close(c)
         \/ \E kind \in Motions :
              \E target \in IF kind \in Aimed THEN Conns ELSE {Server} : CallVote(c, kind, target)
         \/ \E v \in votes, cast \in {"yes", "no", "abstain"} : Cast(c, v, cast)
    \/ \E v \in votes : CancelVote(v)
    \/ ClearVotes
    \/ \E kind \in Motions :
         \E target \in IF kind \in Aimed THEN Conns ELSE {Server} : Order(kind, target)
    \/ VotingTurn

Spec == Init /\ [][Next]_vars

\* Turn after turn ends, unless the game is paused.
FairSpec == Spec /\ WF_vars(VotingTurn)

-----------------------------------------------------------------------------
(* Properties *)

Ballot == {"yes", "no", "abstain", "none"}

\* Types.
TypeOK ==
    /\ link \in [Conns -> {"down", "up", "closing"}]
    /\ plays \in [Conns -> Players \cup {Nobody}]
    /\ muted \subseteq Conns
    /\ paused \in BOOLEAN
    /\ lastNo \in 0..MaxNo /\ serverNo \in 0..lastNo
    /\ \A v \in votes :
         /\ v.no \in 1..lastNo /\ v.caller \in Conns \cup {Server}
         /\ v.turns \in 0..2 /\ v.casts \in [Conns -> Ballot]

\* The list holds no trace of a connection that is gone: nobody has two votes
\* running, every vote of a player and every cast belongs to a connection that
\* still exists (close_connection; caller_id and conn_id are looked up again and
\* again by find_conn_by_id), and a number names one vote.
VotesSound ==
    /\ \A v, w \in votes :
         v.no = w.no \/ (v.caller = w.caller /\ v.caller # Server) => v = w
    /\ \A v \in votes :
         /\ v.caller # Server => link[v.caller] # "down"
         /\ \A c \in Conns : link[c] = "down" => v.casts[c] = "none"

\* However many players are lost, the server itself asks for one pause at a time
\* (last_server_vote).
OnePauseVote == Cardinality({v \in votes : v.caller = Server}) <= 1

\* A vote that is decided before its time could not have ended otherwise, however
\* those who have not voted would have: the five shortcuts of check_vote (too
\* many no, enough yes, ...) agree with the count of all votes at the end.
DecidedForGood ==
    \A r \in resolved : LET t == r.tally IN
        t.turns <= 1 /\ t.kind \notin NoDissent =>
          \A more \in 0..t.rest : \A against \in 0..(t.rest - more) :
            r.passed <=>
              Exceeds(t.yes + more, t.yes + more + t.against + against, t.need)

\* Nobody mutes, unmutes or kicks on his own word: a motion of these commands
\* passes by the vote of its caller alone, in the step that calls it, only when
\* there is no other voter (NOPASSALONE in vote_new; the percentage listed for
\* mute and unmute would let one of two voters decide).
NobodyDecidesAlone ==
    [][\A r \in resolved' :
         r.tally.no > lastNo /\ r.passed /\ r.tally.kind \in NoPassAlone
         => r.tally.voters = 1]_vars

\* A cast that arrives late, by number (handle_vote_submit), never counts for a
\* motion other than the one it was meant for: a number stays with its motion, and
\* what comes later has a greater number.
NumbersNameMotions ==
    [][\A w \in votes' :
         \/ \E v \in votes : /\ v.no = w.no /\ v.caller = w.caller
                             /\ v.kind = w.kind /\ v.target = w.target
         \/ w.no > lastNo]_vars

\* A vote does not stay open for ever: after two turns it is decided with the
\* votes there are, unless nobody is left who may vote on it or the game is
\* paused (turn_count > 1 in check_vote).
VotesEnd ==
    \A n \in 1..MaxNo :
        n \in Numbers(Now) ~>
          \/ n \notin Numbers(Now)
          \/ paused
          \/ \E v \in votes : v.no = n /\ Voters(Now, v) = {}

\* "Cancel the votes of a lost or a detached connection" (vote.cc:696): who
\* controls no player has neither a vote running nor a cast on file.
DetachedHoldNoVotes ==
    \A v \in votes, c \in Conns :
        plays[c] = Nobody => v.caller # c /\ v.casts[c] = "none"
=============================================================================
