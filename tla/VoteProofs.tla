----------------------------- MODULE VoteProofs -----------------------------
(***************************************************************************)
(* What check_vote decides, for electorates of every size and for every    *)
(* threshold (section 1); and the list of votes, for every number of       *)
(* connections, players and votes: its types, what it refers to, and what  *)
(* may decide a vote.                                                      *)
(*                                                                         *)
(* cancel_connection_votes and voting_turn go through the list and may     *)
(* decide every vote they pass, so a step of the server is a chain of as   *)
(* many states as there were votes.  That a chain keeps what its links     *)
(* keep is an induction; here it is the argument from the least number     *)
(* that fails, because the links are operators (section 2).  The rest is   *)
(* one invariant, Sound, that every helper of Vote is shown to keep, but   *)
(* for the casts of the connections that are being closed.                 *)
(***************************************************************************)
EXTENDS Vote, TLAPS, FiniteSetTheorems, WellFoundedInduction

(***************************************************************************)
(* 1. Decisions.                                                           *)
(***************************************************************************)


\* A tally as check_vote computes it: whoever has not abstained has voted yes, no
\* or not at all; need is a fraction of the whole.
IsTally(t) ==
    /\ t.yes \in Nat /\ t.against \in Nat /\ t.rest \in Nat
    /\ t.base = t.yes + t.against + t.rest
    /\ t.need[1] \in Nat /\ t.need[2] \in Nat /\ t.need[1] <= t.need[2]

\* The count of all the votes, had "more" of those who have not voted said yes and
\* "against" of them no; the others would have abstained.
Finally(t, more, against) ==
    Exceeds(t.yes + more, t.yes + more + t.against + against, t.need)

\* Multiplication of natural numbers is monotonic.
LEMMA TimesMonotonic ==
    ASSUME NEW i \in Nat, NEW j \in Nat, NEW k \in Nat, i <= j
    PROVE  k * i <= k * j
<1>1. PICK e \in Nat : j = i + e
    <2>1. j - i \in Nat /\ j = i + (j - i)
        BY SMT
    <2>2. QED
        BY <2>1
<1>2. k * j = k * i + k * e
    BY <1>1, SMT
<1>3. k * e \in Nat /\ k * i \in Nat
    BY <1>1, SMT
<1>4. QED
    BY <1>2, <1>3, SMT

\* Enough yes votes stay enough: neither a yes nor an abstention of those who
\* have not voted yet helps the other side, and their no votes were counted.
LEMMA EnoughYes ==
    ASSUME NEW t, IsTally(t), NEW more \in Nat, NEW against \in Nat,
           more + against <= t.rest, Exceeds(t.yes, t.base, t.need)
    PROVE  Finally(t, more, against)
<1> DEFINE n == t.need[1]
           d == t.need[2]
           all == t.yes + more + t.against + against
<1>0. /\ n \in Nat /\ d \in Nat /\ all \in Nat /\ t.base \in Nat
      /\ t.yes \in Nat /\ t.against \in Nat /\ t.rest \in Nat
    BY DEF IsTally
<1>1. all <= t.base
    BY <1>0, SMT DEF IsTally
<1>2. n * all <= n * t.base
    BY <1>0, <1>1, TimesMonotonic
<1>3. d * t.yes <= d * (t.yes + more)
    BY <1>0, TimesMonotonic
<1>4. t.yes * d > n * t.base
    BY DEF Exceeds
<1>5. t.yes * d = d * t.yes /\ (t.yes + more) * d = d * (t.yes + more)
    BY <1>0, SMT
<1>6. (t.yes + more) * d > n * all
    <2> DEFINE u == d * t.yes
               v == d * (t.yes + more)
               w == n * all
               x == n * t.base
    <2>1. u \in Int /\ v \in Int /\ w \in Int /\ x \in Int
        BY <1>0, SMT
    <2>2. u > x /\ u <= v /\ w <= x
        BY <1>2, <1>3, <1>4, <1>5
    <2>3. v > w
        <3> HIDE DEF u, v, w, x
        <3>1. QED
            BY <2>1, <2>2, SMT
    <2>4. QED
        BY <2>3, <1>5
<1>7. QED
    BY <1>6 DEF Finally, Exceeds

\* Too many no votes stay too many: not even the yes of all the others passes the
\* vote, and their abstention only leaves fewer.
LEMMA TooManyNo ==
    ASSUME NEW t, IsTally(t), NEW more \in Nat, NEW against \in Nat,
           more + against <= t.rest, ~Exceeds(t.yes + t.rest, t.base, t.need)
    PROVE  ~Finally(t, more, against)
<1> DEFINE n == t.need[1]
           d == t.need[2]
           m == d - n
           few == t.yes + more
           most == t.yes + t.rest
           all == few + t.against + against
<1>0. /\ n \in Nat /\ d \in Nat /\ m \in Nat /\ few \in Nat /\ most \in Nat /\ all \in Nat
      /\ t.against \in Nat /\ d = n + m /\ few <= most
      /\ t.base = most + t.against /\ few + t.against <= all
    BY SMT DEF IsTally
<1>1. most * d <= n * t.base
    <2>1. most * d \in Int /\ n * t.base \in Int
        BY <1>0, SMT
    <2>2. ~(most * d > n * t.base)
        BY DEF Exceeds
    <2>3. QED
        <3> DEFINE u == most * d
                   v == n * t.base
        <3>1. u \in Int /\ v \in Int /\ ~(u > v)
            BY <2>1, <2>2
        <3>2. u <= v
            <4> HIDE DEF u, v
            <4>1. QED
                BY <3>1, SMT
        <3>3. QED
            BY <3>2
<1>2. m * few <= m * most
    BY <1>0, TimesMonotonic
<1>3. n * (few + t.against) <= n * all
    BY <1>0, TimesMonotonic
<1>4. few * d <= n * all
    <2>0. ASSUME NEW N \in Nat, NEW M \in Nat, NEW F \in Nat, NEW B \in Nat,
                 NEW G \in Nat, NEW A \in Nat,
                 B * (N + M) <= N * (B + G), M * F <= M * B, N * (F + G) <= N * A
          PROVE  F * (N + M) <= N * A
        BY <2>0, SMT
    <2>1. most * (n + m) <= n * (most + t.against)
        BY <1>0, <1>1
    <2>2. few * (n + m) <= n * all
        <3> HIDE DEF n, m, few, most, all
        <3>1. QED
            BY <1>0, <1>2, <1>3, <2>0, <2>1
    <2>3. QED
        BY <1>0, <2>2
<1>5. few * d \in Int /\ n * all \in Int
    BY <1>0, SMT
<1>6. ~(few * d > n * all)
    <2> DEFINE u == few * d
               v == n * all
    <2>1. u \in Int /\ v \in Int /\ u <= v
        BY <1>4, <1>5
    <2>2. ~(u > v)
        <3> HIDE DEF u, v
        <3>1. QED
            BY <2>1, SMT
    <2>3. QED
        BY <2>2
<1>7. QED
    BY <1>6 DEF Finally, Exceeds

\* A vote that check_vote decides in its first two turns, of a command that a
\* single no does not stop, has the outcome that the votes of those who have not
\* voted could only confirm, for every number of voters and every threshold: the
\* reason why DecidedForGood holds.
THEOREM EarlyDecisionsAreFinal ==
    ASSUME NEW t, IsTally(t), Decided(t), t.turns <= 1, t.turns \in Nat,
           t.kind \notin NoDissent,
           NEW more \in Nat, NEW against \in Nat, more + against <= t.rest
    PROVE  Passed(t) <=> Finally(t, more, against)
<1>1. Passed(t) <=> Exceeds(t.yes, t.base, t.need)
    BY DEF Passed
<1>2. CASE Exceeds(t.yes, t.base, t.need)
    BY <1>1, <1>2, EnoughYes
<1>3. CASE ~Exceeds(t.yes + t.rest, t.base, t.need)
    <2>1. ~Exceeds(t.yes, t.base, t.need)
        <3>1. 0 \in Nat /\ 0 + 0 <= t.rest
            BY SMT DEF IsTally
        <3>2. ~Finally(t, t.rest, 0)
            BY <1>3, TooManyNo, SMT DEF IsTally
        <3>3. SUFFICES ASSUME Exceeds(t.yes, t.base, t.need) PROVE FALSE
            OBVIOUS
        <3>4. Finally(t, t.rest, 0)
            BY <3>3, EnoughYes, SMT DEF IsTally
        <3>5. QED
            BY <3>2, <3>4
    <2>2. QED
        BY <1>1, <1>3, <2>1, TooManyNo
<1>4. CASE t.rest = 0
    <2>1. more = 0 /\ against = 0
        BY <1>4, SMT
    <2>2. t.yes + more = t.yes /\ t.yes + more + t.against + against = t.base
        BY <1>4, <2>1, SMT DEF IsTally
    <2>3. QED
        BY <1>1, <2>2 DEF Finally
<1>5. t.base - t.against = t.yes + t.rest /\ t.base - t.against - t.rest = t.yes
    BY SMT DEF IsTally
<1>6. t.base = 0 => t.rest = 0
    BY SMT DEF IsTally
<1>7. ~(t.turns > 1)
    BY SMT
<1>8. QED
    BY <1>2, <1>3, <1>4, <1>5, <1>6, <1>7 DEF Decided


(***************************************************************************)
(* 2. Chains.                                                              *)
(***************************************************************************)

LEMMA LeastNumber ==
    ASSUME NEW T, T \subseteq Nat, T # {}
    PROVE  \E i \in T : \A j \in T : i <= j
<1>1. \E i \in T : \A j \in T : ~(<<j, i>> \in OpToRel(<, Nat))
  BY WFMin, NatLessThanWellFounded, Zenon
<1>2. PICK i \in T : \A j \in T : ~(<<j, i>> \in OpToRel(<, Nat))
  BY <1>1
<1>3. ASSUME NEW j \in T PROVE i <= j
  <2>1. ~(j < i)
    BY <1>2 DEF OpToRel
  <2> QED BY <2>1
<1> QED BY <1>3

\* A set that holds 0 and with every number the next holds all the numbers.
LEMMA UpTo ==
    ASSUME NEW N \in Nat, NEW P, 0 \in P, \A n \in 1..N : n - 1 \in P => n \in P
    PROVE  \A n \in 0..N : n \in P
<1> DEFINE T == {n \in 0..N : n \notin P}
<1> SUFFICES ASSUME T # {} PROVE FALSE
  OBVIOUS
<1>1. T \subseteq Nat
  OBVIOUS
<1>2. PICK i \in T : \A j \in T : i <= j
  BY <1>1, LeastNumber
<1>3. i \in 1..N /\ i - 1 \in 0..N /\ ~(i <= i - 1)
  BY <1>2
<1>4. i - 1 \notin T
  BY <1>2, <1>3
<1> QED BY <1>2, <1>3, <1>4

\* f is a chain of n links from s, link k being T[k].
Chain(f, n, S, s, T) ==
    /\ f \in [0..n -> S]
    /\ f[0] = s
    /\ \A k \in 1..n : f[k] = T[k][f[k - 1]]

LEMMA ChainExists ==
    ASSUME NEW N \in Nat, NEW S, NEW s \in S, NEW T \in [1..N -> [S -> S]]
    PROVE  \E f : Chain(f, N, S, s, T)
<1> DEFINE P == {n \in 0..N : \E f : Chain(f, n, S, s, T)}
<1>1. 0 \in P
  <2> DEFINE f == [k \in 0..0 |-> s]
  <2>1. Chain(f, 0, S, s, T)
    BY DEF Chain
  <2> QED BY <2>1
<1>2. ASSUME NEW n \in 1..N, n - 1 \in P PROVE n \in P
  <2>1. PICK f : Chain(f, n - 1, S, s, T)
    BY <1>2
  <2> DEFINE g == [k \in 0..n |-> IF k = n THEN T[n][f[n - 1]] ELSE f[k]]
  <2>2. f[n - 1] \in S /\ T[n][f[n - 1]] \in S
    BY <2>1 DEF Chain
  <2>3. \A k \in 0..n : k # n => k \in 0..(n - 1)
    OBVIOUS
  <2>4. g \in [0..n -> S] /\ g[0] = s
    BY <2>1, <2>2, <2>3 DEF Chain
  <2>5. ASSUME NEW k \in 1..n PROVE g[k] = T[k][g[k - 1]]
    <3>1. g[k - 1] = f[k - 1]
      OBVIOUS
    <3>2. CASE k = n
      BY <3>1, <3>2
    <3>3. CASE k # n
      <4>1. k \in 1..(n - 1) /\ g[k] = f[k]
        BY <3>3
      <4> QED BY <2>1, <3>1, <4>1 DEF Chain
    <3> QED BY <3>2, <3>3
  <2>6. Chain(g, n, S, s, T)
    BY <2>4, <2>5 DEF Chain
  <2> QED BY <2>6
<1>3. N \in P
  <2> HIDE DEF P
  <2>1. \A n \in 1..N : n - 1 \in P => n \in P
    BY <1>2
  <2>2. \A n \in 0..N : n \in P
    BY <1>1, <2>1, UpTo
  <2> QED BY <2>2
<1> QED BY <1>3

\* The states cancel_connection_votes goes through
CastsRemoved(f, S, s, c) ==
    /\ f \in [0..s.lastNo -> S]
    /\ f[0] = s
    /\ \A n \in 1..s.lastNo : f[n] = RemoveCast(f[n - 1], c, n)
    /\ RemoveCasts(s, c) = f[s.lastNo]

\* They are states of S, if every link stays in S.
LEMMA RemoveCastsChain ==
    ASSUME NEW S, NEW s \in S, NEW c, s.lastNo \in Nat,
           \A r \in S, n \in 1..s.lastNo : RemoveCast(r, c, n) \in S
    PROVE  \E f : CastsRemoved(f, S, s, c)
<1> DEFINE N == s.lastNo
           T == [n \in 1..N |-> [r \in S |-> RemoveCast(r, c, n)]]
           after[n \in 0..N] == IF n = 0 THEN s ELSE RemoveCast(after[n - 1], c, n)
<1>1. RemoveCasts(s, c) = after[N]
  BY DEF RemoveCasts
<1>2. PICK f : Chain(f, N, S, s, T)
  BY ChainExists
<1>3. f = [n \in 0..N |-> IF n = 0 THEN s ELSE RemoveCast(f[n - 1], c, n)]
  <2>1. ASSUME NEW n \in 0..N
        PROVE  f[n] = IF n = 0 THEN s ELSE RemoveCast(f[n - 1], c, n)
    <3>1. CASE n = 0
      BY <1>2, <3>1 DEF Chain
    <3>2. CASE n # 0
      <4>1. n \in 1..N /\ f[n - 1] \in S
        BY <1>2, <3>2 DEF Chain
      <4> QED BY <1>2, <4>1 DEF Chain
    <3> QED BY <3>1, <3>2
  <2> QED BY <1>2, <2>1 DEF Chain
<1>4. after = [n \in 0..N |-> IF n = 0 THEN s ELSE RemoveCast(after[n - 1], c, n)]
  BY <1>3
<1> HIDE DEF after
<1>5. after[0] = s /\ \A n \in 1..N : after[n] = RemoveCast(after[n - 1], c, n)
  BY <1>4
<1>6. \A n \in 0..N : after[n] \in S
  <2> DEFINE P == {n \in 0..N : after[n] \in S}
  <2>1. 0 \in P
    BY <1>5
  <2>2. \A n \in 1..N : n - 1 \in P => n \in P
    BY <1>5
  <2> HIDE DEF P
  <2>3. \A n \in 0..N : n \in P
    BY <2>1, <2>2, UpTo
  <2> QED BY <2>3 DEF P
<1>7. after \in [0..N -> S]
  BY <1>4, <1>6
<1>8. CastsRemoved(after, S, s, c)
  BY <1>1, <1>5, <1>7 DEF CastsRemoved
<1> QED BY <1>8

\* The same of voting_turn
LookAt(r, n) == IF \E v \in r.votes : v.no = n THEN CheckVote(r, n) ELSE r

LEMMA CheckVotesChain ==
    ASSUME NEW S, NEW s \in S, s.lastNo \in Nat,
           \A r \in S, n \in 1..s.lastNo : LookAt(r, n) \in S
    PROVE  CheckVotes(s) \in S
<1> DEFINE N == s.lastNo
           T == [n \in 1..N |-> [r \in S |-> LookAt(r, n)]]
           after[n \in 0..N] ==
             IF n = 0 THEN s
             ELSE IF \E v \in after[n - 1].votes : v.no = n THEN CheckVote(after[n - 1], n)
             ELSE after[n - 1]
<1>1. CheckVotes(s) = after[N]
  BY DEF CheckVotes
<1>2. PICK f : Chain(f, N, S, s, T)
  BY ChainExists
<1>3. f = [n \in 0..N |->
             IF n = 0 THEN s
             ELSE IF \E v \in f[n - 1].votes : v.no = n THEN CheckVote(f[n - 1], n)
             ELSE f[n - 1]]
  <2>1. ASSUME NEW n \in 0..N
        PROVE  f[n] = IF n = 0 THEN s
                      ELSE IF \E v \in f[n - 1].votes : v.no = n THEN CheckVote(f[n - 1], n)
                      ELSE f[n - 1]
    <3>1. CASE n = 0
      BY <1>2, <3>1 DEF Chain
    <3>2. CASE n # 0
      <4>1. n \in 1..N /\ f[n - 1] \in S
        BY <1>2, <3>2 DEF Chain
      <4>2. f[n] = LookAt(f[n - 1], n)
        BY <1>2, <4>1 DEF Chain
      <4> QED BY <3>2, <4>2 DEF LookAt
    <3> QED BY <3>1, <3>2
  <2> QED BY <1>2, <2>1 DEF Chain
<1>4. after = [n \in 0..N |->
                 IF n = 0 THEN s
                 ELSE IF \E v \in after[n - 1].votes : v.no = n THEN CheckVote(after[n - 1], n)
                 ELSE after[n - 1]]
  BY <1>3
<1> HIDE DEF after
<1>5. after[0] = s /\ \A n \in 1..N : after[n] = LookAt(after[n - 1], n)
  <2>1. after[0] = s
    BY <1>4
  <2>2. ASSUME NEW n \in 1..N PROVE after[n] = LookAt(after[n - 1], n)
    <3>1. n \in 0..N /\ n # 0
      OBVIOUS
    <3>2. after[n] = IF \E v \in after[n - 1].votes : v.no = n
                       THEN CheckVote(after[n - 1], n) ELSE after[n - 1]
      BY <1>4, <3>1
    <3> QED BY <3>2 DEF LookAt
  <2> QED BY <2>1, <2>2
<1>6. \A n \in 0..N : after[n] \in S
  <2> DEFINE P == {n \in 0..N : after[n] \in S}
  <2>1. 0 \in P
    BY <1>5
  <2>2. \A n \in 1..N : n - 1 \in P => n \in P
    BY <1>5
  <2> HIDE DEF P
  <2>3. \A n \in 0..N : n \in P
    BY <2>1, <2>2, UpTo
  <2> QED BY <2>3 DEF P
<1> QED BY <1>1, <1>6

(***************************************************************************)
(* 3. The invariant.                                                       *)
(***************************************************************************)

Kinds == {"poll", "mute", "unmute", "kick", "cut", "pause", "unpause", "remove", "switch"}

Motion == [no : Nat, caller : Conns \cup {Server}, kind : Kinds,
           target : Conns \cup {Server}, need : Nat \X Nat, turns : 0..2,
           casts : [Conns -> Ballot]]

Tallies == [no : Nat, kind : Kinds, need : Nat \X Nat, turns : 0..2, voters : Nat,
            yes : Nat, against : Nat, rest : Nat, base : Nat]

Decision == [tally : Tallies, passed : BOOLEAN]

State == [link : [Conns -> {"down", "up", "closing"}],
          plays : [Conns -> Players \cup {Nobody}],
          muted : SUBSET Conns, paused : BOOLEAN, votes : SUBSET Motion,
          lastNo : 0..MaxNo, serverNo : Nat,
          resolved : SUBSET Decision]

\* A number names one vote, nobody but the server has two; the server has only the
\* one it remembers.
ListSound(s) ==
    /\ \A v, w \in s.votes :
         v.no = w.no \/ (v.caller = w.caller /\ v.caller # Server) => v = w
    /\ \A v \in s.votes :
         /\ 1 <= v.no /\ v.no <= s.lastNo /\ v.need[1] <= v.need[2]
         /\ v.caller = Server => v.no = s.serverNo

\* A connection that is gone, but for those of X, has no vote and no cast on file.
NoTrace(s, X) ==
    \A v \in s.votes, c \in Conns \ X :
        s.link[c] = "down" => v.caller # c /\ v.casts[c] = "none"

\* What was decided was ready to be decided, and by that count.
DecisionsSound(s) ==
    \A d \in s.resolved :
        IsTally(d.tally) /\ Decided(d.tally) /\ (d.passed <=> Passed(d.tally))

Sound(s, X) ==
    /\ s \in State /\ s.serverNo <= s.lastNo
    /\ ListSound(s) /\ NoTrace(s, X) /\ DecisionsSound(s)

\* r comes from s by casts and decisions: no vote is new, and what is decided newly
\* was in the list.
SameMotion(v, w) ==
    v.no = w.no /\ v.caller = w.caller /\ v.kind = w.kind /\ v.target = w.target

Follows(s, r) ==
    /\ r.lastNo = s.lastNo /\ r.serverNo = s.serverNo
    /\ \A w \in r.votes : \E v \in s.votes : SameMotion(v, w)
    /\ \A d \in r.resolved :
         d \in s.resolved \/ \E v \in s.votes : d.tally.no = v.no /\ d.tally.kind = v.kind

LEMMA FollowsItself == ASSUME NEW s PROVE Follows(s, s)
  BY DEF Follows, SameMotion

LEMMA FollowsOn ==
    ASSUME NEW s, NEW r, NEW t, Follows(s, r), Follows(r, t)
    PROVE  Follows(s, t)
<1>1. \A w \in t.votes : \E v \in s.votes : SameMotion(v, w)
  BY DEF Follows, SameMotion
<1>2. ASSUME NEW d \in t.resolved
      PROVE  d \in s.resolved \/ \E v \in s.votes : d.tally.no = v.no /\ d.tally.kind = v.kind
  BY <1>2 DEF Follows, SameMotion
<1> QED BY <1>1, <1>2 DEF Follows

(***************************************************************************)
(* 4. Tallies.                                                             *)
(***************************************************************************)

LEMMA TallyIs ==
    ASSUME NEW s, NEW v
    PROVE  Tally(s, v) =
             [no |-> v.no, kind |-> v.kind, need |-> v.need, turns |-> v.turns,
              voters |-> Cardinality(Voters(s, v)),
              yes |-> Cardinality({c \in Voters(s, v) : v.casts[c] = "yes"}),
              against |-> Cardinality({c \in Voters(s, v) : v.casts[c] = "no"}),
              rest |-> Cardinality({c \in Voters(s, v) : v.casts[c] = "none"}),
              base |-> Cardinality(Voters(s, v))
                         - Cardinality({c \in Voters(s, v) : v.casts[c] = "abstain"})]
  BY DEF Tally

LEMMA TwoParts ==
    ASSUME NEW S, IsFiniteSet(S), NEW T, IsFiniteSet(T), S \cap T = {}
    PROVE  /\ IsFiniteSet(S \cup T)
           /\ Cardinality(S \cup T) = Cardinality(S) + Cardinality(T)
<1>1. /\ IsFiniteSet(S \cup T)
      /\ Cardinality(S \cup T) = Cardinality(S) + Cardinality(T) - Cardinality(S \cap T)
  BY FS_Union
<1>2. Cardinality(S \cap T) = 0
  BY FS_EmptySet
<1>3. Cardinality(S) \in Nat /\ Cardinality(T) \in Nat
  BY FS_CardinalityType
<1> QED BY <1>1, <1>2, <1>3

\* Whoever may vote has voted yes, no, or to abstain, or not at all.
LEMMA CountsAddUp ==
    ASSUME NEW V, IsFiniteSet(V), NEW casts, \A c \in V : casts[c] \in Ballot
    PROVE  LET Count(cast) == Cardinality({c \in V : casts[c] = cast}) IN
           /\ Cardinality(V) \in Nat /\ Count("yes") \in Nat /\ Count("no") \in Nat
           /\ Count("none") \in Nat /\ Count("abstain") \in Nat
           /\ Cardinality(V) = Count("yes") + Count("no") + Count("none") + Count("abstain")
<1> DEFINE Of(cast) == {c \in V : casts[c] = cast}
           Y == Of("yes")
           N == Of("no")
           R == Of("none")
           A == Of("abstain")
<1>1. /\ IsFiniteSet(Y) /\ IsFiniteSet(N) /\ IsFiniteSet(R) /\ IsFiniteSet(A)
  BY FS_Subset
<1>2. /\ Y \cap N = {} /\ (Y \cup N) \cap R = {} /\ (Y \cup N \cup R) \cap A = {}
  OBVIOUS
<1>3. Y \cup N \cup R \cup A = V
  BY DEF Ballot
<1> HIDE DEF Y, N, R, A
<1>4. /\ Cardinality(Y) \in Nat /\ Cardinality(N) \in Nat /\ Cardinality(R) \in Nat
      /\ Cardinality(A) \in Nat
  BY <1>1, FS_CardinalityType
<1>5. IsFiniteSet(Y \cup N) /\ Cardinality(Y \cup N) = Cardinality(Y) + Cardinality(N)
  BY <1>1, <1>2, TwoParts
<1>6. /\ IsFiniteSet(Y \cup N \cup R)
      /\ Cardinality(Y \cup N \cup R) = Cardinality(Y) + Cardinality(N) + Cardinality(R)
  BY <1>1, <1>2, <1>5, TwoParts
<1>7. Cardinality(V) = Cardinality(Y) + Cardinality(N) + Cardinality(R) + Cardinality(A)
  BY <1>1, <1>2, <1>3, <1>6, TwoParts
<1>8. Cardinality(V) \in Nat
  BY <1>4, <1>7
<1> QED BY <1>4, <1>7, <1>8 DEF Y, N, R, A

LEMMA TallyOf ==
    ASSUME NEW s, NEW v \in Motion, v.need[1] <= v.need[2]
    PROVE  Tally(s, v) \in Tallies /\ IsTally(Tally(s, v))
<1>1. IsFiniteSet(Voters(s, v)) /\ \A c \in Voters(s, v) : v.casts[c] \in Ballot
  <2>1. Voters(s, v) \in SUBSET Conns
    BY DEF Voters
  <2> QED BY <2>1, ConnsAssumption, FS_Subset DEF Motion
<1> DEFINE Count(cast) == Cardinality({c \in Voters(s, v) : v.casts[c] = cast})
           all == Cardinality(Voters(s, v))
<1>2. /\ all \in Nat /\ Count("yes") \in Nat /\ Count("no") \in Nat
      /\ Count("none") \in Nat /\ Count("abstain") \in Nat
      /\ all = Count("yes") + Count("no") + Count("none") + Count("abstain")
  BY <1>1, CountsAddUp
<1>3. Tally(s, v) =
        [no |-> v.no, kind |-> v.kind, need |-> v.need, turns |-> v.turns, voters |-> all,
         yes |-> Count("yes"), against |-> Count("no"), rest |-> Count("none"),
         base |-> all - Count("abstain")]
  BY TallyIs
<1> HIDE DEF Count, all
<1>4. /\ all - Count("abstain") \in Nat
      /\ all - Count("abstain") = Count("yes") + Count("no") + Count("none")
  BY <1>2
<1>5. /\ v.no \in Nat /\ v.kind \in Kinds /\ v.need \in Nat \X Nat /\ v.turns \in 0..2
  BY DEF Motion
<1>6. v.need[1] \in Nat /\ v.need[2] \in Nat
  BY <1>5
<1>7. Tally(s, v) \in Tallies
  BY <1>2, <1>3, <1>4, <1>5 DEF Tallies
<1>8. IsTally(Tally(s, v))
  BY <1>2, <1>3, <1>4, <1>6 DEF IsTally
<1> QED BY <1>7, <1>8

(***************************************************************************)
(* 5. The helpers.                                                         *)
(***************************************************************************)

\* A command that is carried out neither adds nor removes a connection.
LEMMA PerformFields ==
    ASSUME NEW s \in State, NEW kind \in Kinds, NEW target \in Conns \cup {Server}
    PROVE  LET r == Perform(s, kind, target) IN
           /\ r \in State
           /\ r.votes = s.votes /\ r.lastNo = s.lastNo /\ r.serverNo = s.serverNo
           /\ r.plays = s.plays /\ r.resolved = s.resolved
           /\ \A c \in Conns : r.link[c] = "down" <=> s.link[c] = "down"
<1> DEFINE m == CASE kind = "mute" -> s.muted \cup {target}
                  [] kind = "unmute" -> s.muted \ {target}
                  [] OTHER -> s.muted
           l == IF kind \in {"kick", "cut"} THEN [s.link EXCEPT ![target] = "closing"]
                                           ELSE s.link
           p == CASE kind = "pause" -> TRUE [] kind = "unpause" -> FALSE [] OTHER -> s.paused
<1>1. CASE ~Legal(s, Server, kind, target)
  BY <1>1 DEF Perform
<1>2. CASE Legal(s, Server, kind, target)
  <2>1. Perform(s, kind, target) = [s EXCEPT !.muted = m, !.link = l, !.paused = p]
    BY <1>2 DEF Perform
  <2>2. kind \in Aimed => target \in Conns /\ s.link[target] # "down"
    BY <1>2 DEF Legal
  <2>3. m \in SUBSET Conns
    <3>1. s.muted \in SUBSET Conns
      BY DEF State
    <3>2. kind = "mute" => target \in Conns
      BY <2>2 DEF Aimed
    <3> QED BY <3>1, <3>2
  <2>4. l \in [Conns -> {"down", "up", "closing"}]
    BY DEF State
  <2>5. \A c \in Conns : l[c] = "down" <=> s.link[c] = "down"
    BY <2>2 DEF State, Aimed
  <2>6. p \in BOOLEAN
    BY DEF State
  <2> HIDE DEF m, l, p
  <2> QED BY <2>1, <2>3, <2>4, <2>5, <2>6 DEF State
<1> QED BY <1>1, <1>2

LEMMA PerformKeeps ==
    ASSUME NEW s, NEW X, Sound(s, X), NEW kind \in Kinds, NEW target \in Conns \cup {Server}
    PROVE  Sound(Perform(s, kind, target), X) /\ Follows(s, Perform(s, kind, target))
<1> DEFINE r == Perform(s, kind, target)
<1>1. s \in State
  BY DEF Sound
<1>2. /\ r \in State /\ r.votes = s.votes /\ r.lastNo = s.lastNo /\ r.serverNo = s.serverNo
      /\ r.plays = s.plays /\ r.resolved = s.resolved
      /\ \A c \in Conns : r.link[c] = "down" <=> s.link[c] = "down"
  BY <1>1, PerformFields
<1> HIDE DEF r
<1>3. ListSound(r)
  <2>1. \A v \in s.votes : v.caller \in Conns \cup {Server}
    BY <1>1 DEF State, Motion
  <2> QED BY <1>2, <2>1 DEF Sound, ListSound
<1>4. NoTrace(r, X) /\ DecisionsSound(r)
  BY <1>2 DEF Sound, NoTrace, DecisionsSound
<1>5. Sound(r, X)
  BY <1>2, <1>3, <1>4 DEF Sound
<1>6. Follows(s, r)
  BY <1>2 DEF Follows, SameMotion
<1> QED BY <1>5, <1>6 DEF r

\* The state without a vote that was decided
Resolved(s, v) ==
    [s EXCEPT !.votes = @ \ {v},
              !.resolved = @ \cup {[tally |-> Tally(s, v), passed |-> Passed(Tally(s, v))]}]

LEMMA CheckVoteIs ==
    ASSUME NEW s, NEW v \in s.votes, \A w \in s.votes : w.no = v.no => w = v
    PROVE  CheckVote(s, v.no) =
             IF ~Decided(Tally(s, v)) THEN s
             ELSE IF Passed(Tally(s, v)) THEN Perform(Resolved(s, v), v.kind, v.target)
             ELSE Resolved(s, v)
<1>1. {w \in s.votes : w.no = v.no} = {v}
  OBVIOUS
<1> DEFINE Outcome(w, t) ==
             LET gone == [s EXCEPT !.votes = @ \ {w},
                                   !.resolved = @ \cup {[tally |-> t, passed |-> Passed(t)]}]
             IN IF ~Decided(t) THEN s
                ELSE IF Passed(t) THEN Perform(gone, w.kind, w.target) ELSE gone
           counted == {[vote |-> w, tally |-> Tally(s, w)] : w \in {w \in s.votes : w.no = v.no}}
<1>2. CheckVote(s, v.no) = CHOOSE r \in {Outcome(c.vote, c.tally) : c \in counted} : TRUE
  BY DEF CheckVote
<1>3. counted = {[vote |-> v, tally |-> Tally(s, v)]}
  BY <1>1
<1> HIDE DEF Outcome, counted
<1>4. {Outcome(c.vote, c.tally) : c \in counted} = {Outcome(v, Tally(s, v))}
  BY <1>3
<1>5. CheckVote(s, v.no) = Outcome(v, Tally(s, v))
  BY <1>2, <1>4
<1> QED BY <1>5 DEF Outcome, Resolved

LEMMA ResolvedKeeps ==
    ASSUME NEW s, NEW X, Sound(s, X), NEW v \in s.votes, Decided(Tally(s, v))
    PROVE  Sound(Resolved(s, v), X) /\ Follows(s, Resolved(s, v))
<1> DEFINE t == Tally(s, v)
           d == [tally |-> t, passed |-> Passed(t)]
           r == Resolved(s, v)
<1>1. s \in State /\ v \in Motion /\ v.need[1] <= v.need[2]
  BY DEF Sound, State, ListSound
<1>2. t \in Tallies /\ IsTally(t) /\ t.no = v.no /\ t.kind = v.kind
  BY <1>1, TallyOf, TallyIs
<1>3. Decided(t)
  OBVIOUS
<1>4. Passed(t) \in BOOLEAN
  BY DEF Passed, Exceeds
<1> HIDE DEF t
<1>5. d \in Decision
  BY <1>2, <1>4 DEF Decision
<1>6. r = [s EXCEPT !.votes = @ \ {v}, !.resolved = @ \cup {d}]
  BY DEF Resolved, t
<1>7. d.tally = t /\ d.passed = Passed(t)
  OBVIOUS
<1> HIDE DEF d, r
<1>8. /\ r \in State /\ r.votes = s.votes \ {v} /\ r.lastNo = s.lastNo
      /\ r.serverNo = s.serverNo /\ r.link = s.link /\ r.plays = s.plays
      /\ r.resolved = s.resolved \cup {d}
  BY <1>1, <1>5, <1>6 DEF State
<1>9. ListSound(r) /\ NoTrace(r, X)
  BY <1>8 DEF Sound, ListSound, NoTrace
<1>10. DecisionsSound(r)
  BY <1>2, <1>3, <1>7, <1>8 DEF Sound, DecisionsSound
<1>11. Sound(r, X)
  BY <1>8, <1>9, <1>10 DEF Sound
<1>12. Follows(s, r)
  BY <1>2, <1>7, <1>8 DEF Follows, SameMotion
<1> QED BY <1>11, <1>12 DEF r

\* check_vote, of a vote of the list
LEMMA CheckVoteKeeps ==
    ASSUME NEW s, NEW X, Sound(s, X), NEW no, \E v \in s.votes : v.no = no
    PROVE  Sound(CheckVote(s, no), X) /\ Follows(s, CheckVote(s, no))
<1>1. PICK v \in s.votes : v.no = no
  OBVIOUS
<1>2. v \in Motion /\ \A w \in s.votes : w.no = v.no => w = v
  BY DEF Sound, State, ListSound
<1>3. v.kind \in Kinds /\ v.target \in Conns \cup {Server}
  BY <1>2 DEF Motion
<1>4. CheckVote(s, no) =
        IF ~Decided(Tally(s, v)) THEN s
        ELSE IF Passed(Tally(s, v)) THEN Perform(Resolved(s, v), v.kind, v.target)
        ELSE Resolved(s, v)
  BY <1>1, <1>2, CheckVoteIs
<1>5. CASE ~Decided(Tally(s, v))
  BY <1>4, <1>5, FollowsItself
<1>6. CASE Decided(Tally(s, v))
  <2>1. Sound(Resolved(s, v), X) /\ Follows(s, Resolved(s, v))
    BY <1>6, ResolvedKeeps
  <2>2. LET r == Perform(Resolved(s, v), v.kind, v.target) IN
        Sound(r, X) /\ Follows(Resolved(s, v), r)
    BY <1>3, <2>1, PerformKeeps
  <2>3. Follows(s, Perform(Resolved(s, v), v.kind, v.target))
    BY <2>1, <2>2, FollowsOn
  <2> QED BY <1>4, <1>6, <2>1, <2>2, <2>3
<1> QED BY <1>5, <1>6

\* check_vote adds no vote and changes none.
LEMMA CheckVoteTakes ==
    ASSUME NEW s, NEW X, Sound(s, X), NEW no, \E v \in s.votes : v.no = no
    PROVE  CheckVote(s, no).votes \subseteq s.votes
<1>1. PICK v \in s.votes : v.no = no
  OBVIOUS
<1>2. s \in State /\ v \in Motion /\ \A w \in s.votes : w.no = v.no => w = v
  BY DEF Sound, State, ListSound
<1>3. v.kind \in Kinds /\ v.target \in Conns \cup {Server}
  BY <1>2 DEF Motion
<1>4. CheckVote(s, no) =
        IF ~Decided(Tally(s, v)) THEN s
        ELSE IF Passed(Tally(s, v)) THEN Perform(Resolved(s, v), v.kind, v.target)
        ELSE Resolved(s, v)
  BY <1>1, <1>2, CheckVoteIs
<1>5. CASE ~Decided(Tally(s, v))
  BY <1>4, <1>5
<1>6. CASE Decided(Tally(s, v))
  <2>1. Resolved(s, v) \in State
    BY <1>6, ResolvedKeeps DEF Sound
  <2>2. Perform(Resolved(s, v), v.kind, v.target).votes = Resolved(s, v).votes
    BY <1>3, <2>1, PerformFields
  <2>3. Resolved(s, v).votes \subseteq s.votes
    BY <1>2 DEF Resolved, State
  <2> QED BY <1>4, <1>6, <2>2, <2>3
<1> QED BY <1>5, <1>6

\* The state with a cast on file, before the vote is checked
Filed(s, c, no, cast) ==
    [s EXCEPT !.votes = {IF v.no = no THEN [v EXCEPT !.casts[c] = cast] ELSE v : v \in @}]

\* w is v with the cast.
FiledVote(v, w, c, no, cast) ==
    /\ w \in Motion /\ SameMotion(v, w) /\ w.need = v.need
    /\ w.casts = IF v.no = no THEN [v.casts EXCEPT ![c] = cast] ELSE v.casts

\* t is s with the cast on file.
IsFiled(s, t, c, no, cast) ==
    /\ t \in State
    /\ t.lastNo = s.lastNo /\ t.serverNo = s.serverNo /\ t.link = s.link
    /\ t.plays = s.plays /\ t.muted = s.muted /\ t.resolved = s.resolved
    /\ \A v \in s.votes : v.no = no => \E w \in t.votes : w.no = no
    /\ \A w \in t.votes : \E v \in s.votes :
         /\ w = IF v.no = no THEN [v EXCEPT !.casts[c] = cast] ELSE v
         /\ FiledVote(v, w, c, no, cast)

LEMMA FiledFields ==
    ASSUME NEW s \in State, NEW c \in Conns, NEW no, NEW cast \in Ballot
    PROVE  IsFiled(s, Filed(s, c, no, cast), c, no, cast)
<1> DEFINE With(v) == IF v.no = no THEN [v EXCEPT !.casts[c] = cast] ELSE v
           all == {With(v) : v \in s.votes}
           t == Filed(s, c, no, cast)
<1>1. ASSUME NEW v \in s.votes PROVE FiledVote(v, With(v), c, no, cast)
  <2>1. v \in Motion
    BY DEF State
  <2>2. CASE v.no = no
    <3>1. With(v) = [v EXCEPT !.casts = [v.casts EXCEPT ![c] = cast]]
      BY <2>1, <2>2 DEF Motion
    <3>2. [v.casts EXCEPT ![c] = cast] \in [Conns -> Ballot]
      BY <2>1 DEF Motion
    <3> HIDE DEF With
    <3> QED BY <2>1, <2>2, <3>1, <3>2 DEF FiledVote, Motion, SameMotion
  <2>3. CASE v.no # no
    BY <2>1, <2>3 DEF FiledVote, SameMotion
  <2> QED BY <2>2, <2>3
<1>2. t = [s EXCEPT !.votes = all]
  BY DEF Filed
<1>3. all \subseteq Motion
  BY <1>1 DEF FiledVote
<1>4. \A v \in s.votes : v.no = no => With(v) \in all /\ With(v).no = no
  BY <1>1 DEF FiledVote, SameMotion
<1>5. \A w \in all : \E v \in s.votes : w = With(v) /\ FiledVote(v, w, c, no, cast)
  BY <1>1
<1> HIDE DEF all
<1>6. /\ t \in State /\ t.votes = all /\ t.lastNo = s.lastNo /\ t.serverNo = s.serverNo
      /\ t.link = s.link /\ t.plays = s.plays /\ t.muted = s.muted /\ t.resolved = s.resolved
  BY <1>2, <1>3 DEF State
<1> HIDE DEF t
<1>7. \A v \in s.votes : v.no = no => \E w \in t.votes : w.no = no
  BY <1>4, <1>6
<1> QED BY <1>5, <1>6, <1>7 DEF t, IsFiled

\* A cast is filed of a connection that is there, or it is taken back.
LEMMA FiledKeeps ==
    ASSUME NEW s, NEW X, Sound(s, X), NEW c \in Conns, NEW no, NEW cast \in Ballot,
           cast = "none" \/ s.link[c] # "down"
    PROVE  Sound(Filed(s, c, no, cast), X) /\ Follows(s, Filed(s, c, no, cast))
<1> DEFINE t == Filed(s, c, no, cast)
<1>0. s \in State
  BY DEF Sound
<1>1. /\ t \in State
      /\ t.lastNo = s.lastNo /\ t.serverNo = s.serverNo /\ t.link = s.link
      /\ t.plays = s.plays /\ t.resolved = s.resolved
  BY <1>0, FiledFields DEF IsFiled
<1>2. ASSUME NEW w \in t.votes
      PROVE  \E v \in s.votes : /\ w = IF v.no = no THEN [v EXCEPT !.casts[c] = cast] ELSE v
                                /\ FiledVote(v, w, c, no, cast)
  BY <1>0, FiledFields DEF IsFiled
<1> HIDE DEF t
<1>3. ListSound(t)
  <2>1. ASSUME NEW w \in t.votes, NEW x \in t.votes,
               w.no = x.no \/ (w.caller = x.caller /\ w.caller # Server)
        PROVE  w = x
    <3>1. PICK v \in s.votes : /\ w = IF v.no = no THEN [v EXCEPT !.casts[c] = cast] ELSE v
                               /\ FiledVote(v, w, c, no, cast)
      BY <1>2
    <3>2. PICK u \in s.votes : /\ x = IF u.no = no THEN [u EXCEPT !.casts[c] = cast] ELSE u
                               /\ FiledVote(u, x, c, no, cast)
      BY <1>2
    <3>3. v.no = u.no \/ (v.caller = u.caller /\ v.caller # Server)
      BY <2>1, <3>1, <3>2 DEF FiledVote, SameMotion
    <3>4. v = u
      BY <3>3 DEF Sound, ListSound
    <3> QED BY <3>1, <3>2, <3>4
  <2>2. ASSUME NEW w \in t.votes
        PROVE  /\ 1 <= w.no /\ w.no <= t.lastNo /\ w.need[1] <= w.need[2]
               /\ w.caller = Server => w.no = t.serverNo
    <3>1. PICK v \in s.votes : FiledVote(v, w, c, no, cast)
      BY <1>2
    <3> QED BY <1>1, <3>1 DEF FiledVote, SameMotion, Sound, ListSound
  <2> QED BY <2>1, <2>2 DEF ListSound
<1>4. NoTrace(t, X)
  <2>1. ASSUME NEW w \in t.votes, NEW x \in Conns \ X, t.link[x] = "down"
        PROVE  w.caller # x /\ w.casts[x] = "none"
    <3>1. PICK v \in s.votes : FiledVote(v, w, c, no, cast)
      BY <1>2
    <3>2. v.caller # x /\ v.casts[x] = "none" /\ v.casts \in [Conns -> Ballot]
      BY <1>0, <1>1, <2>1 DEF Sound, NoTrace, State, Motion
    <3>3. CASE x = c
      BY <1>1, <2>1, <3>1, <3>2, <3>3 DEF FiledVote, SameMotion
    <3>4. CASE x # c
      BY <3>1, <3>2, <3>4 DEF FiledVote, SameMotion
    <3> QED BY <3>3, <3>4
  <2> QED BY <2>1 DEF NoTrace
<1>5. DecisionsSound(t)
  BY <1>1 DEF Sound, DecisionsSound
<1>6. Follows(s, t)
  <2>1. \A w \in t.votes : \E v \in s.votes : SameMotion(v, w)
    BY <1>2 DEF FiledVote
  <2> QED BY <1>1, <2>1 DEF Follows
<1>7. Sound(t, X)
  BY <1>1, <1>3, <1>4, <1>5 DEF Sound
<1> QED BY <1>6, <1>7 DEF t

\* connection_vote
LEMMA CastVoteKeeps ==
    ASSUME NEW s, NEW X, Sound(s, X), NEW c \in Conns, NEW no, NEW cast \in Ballot,
           cast = "none" \/ s.link[c] # "down", \E v \in s.votes : v.no = no
    PROVE  /\ Sound(CastVote(s, c, no, cast), X) /\ Follows(s, CastVote(s, c, no, cast))
           /\ CastVote(s, c, no, cast).votes \subseteq Filed(s, c, no, cast).votes
<1> DEFINE t == Filed(s, c, no, cast)
<1>1. Sound(t, X) /\ Follows(s, t)
  BY FiledKeeps
<1>2. \E w \in t.votes : w.no = no
  BY FiledFields DEF Sound, IsFiled
<1>3. CastVote(s, c, no, cast) = CheckVote(t, no)
  BY DEF CastVote, Filed
<1> HIDE DEF t
<1>4. Sound(CheckVote(t, no), X) /\ Follows(t, CheckVote(t, no))
  BY <1>1, <1>2, CheckVoteKeeps
<1>5. CheckVote(t, no).votes \subseteq t.votes
  BY <1>1, <1>2, CheckVoteTakes
<1>6. Follows(s, CheckVote(t, no))
  BY <1>1, <1>4, FollowsOn
<1> QED BY <1>3, <1>4, <1>5, <1>6 DEF t

\* No cast of c is on file for the vote of a number.
NoCast(s, c, no) == \A v \in s.votes : v.no = no => v.casts[c] = "none"

\* remove_vote_cast takes one cast back, and no other comes up.
LEMMA RemoveCastKeeps ==
    ASSUME NEW s, NEW X, Sound(s, X), NEW c \in Conns, NEW no
    PROVE  /\ Sound(RemoveCast(s, c, no), X) /\ Follows(s, RemoveCast(s, c, no))
           /\ NoCast(RemoveCast(s, c, no), c, no)
           /\ \A m : NoCast(s, c, m) => NoCast(RemoveCast(s, c, no), c, m)
<1>1. CASE \E v \in s.votes : v.no = no /\ v.casts[c] # "none"
  <2> DEFINE r == CastVote(s, c, no, "none")
  <2>1. "none" \in Ballot /\ \E v \in s.votes : v.no = no
    BY <1>1 DEF Ballot
  <2>2. /\ Sound(r, X) /\ Follows(s, r) /\ r.votes \subseteq Filed(s, c, no, "none").votes
    BY <2>1, CastVoteKeeps
  <2>3. RemoveCast(s, c, no) = r
    BY <1>1 DEF RemoveCast
  <2> HIDE DEF r
  <2>4. ASSUME NEW w \in r.votes
        PROVE  \E v \in s.votes : FiledVote(v, w, c, no, "none") /\ v \in Motion
    BY <2>1, <2>2, FiledFields DEF Sound, State, IsFiled
  <2>5. NoCast(r, c, no)
    BY <2>4 DEF NoCast, FiledVote, SameMotion, Motion
  <2>6. ASSUME NEW m, NoCast(s, c, m) PROVE NoCast(r, c, m)
    <3>1. ASSUME NEW w \in r.votes, w.no = m PROVE w.casts[c] = "none"
      <4>1. PICK v \in s.votes : FiledVote(v, w, c, no, "none") /\ v \in Motion
        BY <2>4
      <4>2. v.no = m /\ v.casts[c] = "none" /\ v.casts \in [Conns -> Ballot]
        BY <2>6, <3>1, <4>1 DEF NoCast, FiledVote, SameMotion, Motion
      <4> QED BY <4>1, <4>2 DEF FiledVote
    <3> QED BY <3>1 DEF NoCast
  <2> QED BY <2>2, <2>3, <2>5, <2>6
<1>2. CASE ~\E v \in s.votes : v.no = no /\ v.casts[c] # "none"
  <2>1. RemoveCast(s, c, no) = s
    BY <1>2 DEF RemoveCast
  <2>2. NoCast(s, c, no)
    BY <1>2 DEF NoCast
  <2> QED BY <2>1, <2>2, FollowsItself
<1> QED BY <1>1, <1>2

\* cancel_connection_votes goes through all of the list, whatever is decided on the way.
LEMMA RemoveCastsKeeps ==
    ASSUME NEW s, NEW c \in Conns, Sound(s, {c}), \A v \in s.votes : v.caller # c
    PROVE  Sound(RemoveCasts(s, c), {}) /\ Follows(s, RemoveCasts(s, c))
<1> DEFINE S == {r \in State : Sound(r, {c}) /\ Follows(s, r)}
           N == s.lastNo
<1>1. s \in S /\ N \in Nat
  BY BoundAssumption, FollowsItself DEF Sound, State
<1>2. ASSUME NEW r \in S, NEW n \in 1..N PROVE RemoveCast(r, c, n) \in S
  <2>1. Sound(RemoveCast(r, c, n), {c}) /\ Follows(r, RemoveCast(r, c, n))
    BY RemoveCastKeeps
  <2>2. Follows(s, RemoveCast(r, c, n))
    BY <2>1, FollowsOn
  <2> QED BY <2>1, <2>2 DEF Sound
<1>2a. PICK f : CastsRemoved(f, S, s, c)
  <2> HIDE DEF S
  <2>1. \A r \in S, n \in 1..s.lastNo : RemoveCast(r, c, n) \in S
    BY <1>2
  <2> QED BY <1>1, <2>1, RemoveCastsChain
<1>3. /\ \A n \in 0..N : f[n] \in State /\ Sound(f[n], {c}) /\ Follows(s, f[n])
      /\ f[0] = s /\ \A n \in 1..N : f[n] = RemoveCast(f[n - 1], c, n)
      /\ RemoveCasts(s, c) = f[N] /\ N \in 0..N
  <2>1. ASSUME NEW n \in 0..N PROVE f[n] \in State /\ Sound(f[n], {c}) /\ Follows(s, f[n])
    <3>1. f[n] \in S
      <4> HIDE DEF S
      <4> QED BY <1>2a DEF CastsRemoved
    <3> QED BY <3>1
  <2>2. /\ f[0] = s /\ \A n \in 1..N : f[n] = RemoveCast(f[n - 1], c, n)
        /\ RemoveCasts(s, c) = f[N]
    BY <1>2a DEF CastsRemoved
  <2> QED BY <1>1, <2>1, <2>2
<1> HIDE DEF S
<1> DEFINE Clean == {n \in 0..N : \A m \in 1..n : NoCast(f[n], c, m)}
<1>4. 0 \in Clean
  BY <1>1
<1>5. ASSUME NEW n \in 1..N, n - 1 \in Clean PROVE n \in Clean
  <2>1. Sound(f[n - 1], {c}) /\ f[n] = RemoveCast(f[n - 1], c, n)
    <3>1. n - 1 \in 0..N
      BY <1>1
    <3> QED BY <1>3, <3>1
  <2>2. NoCast(f[n], c, n) /\ \A m : NoCast(f[n - 1], c, m) => NoCast(f[n], c, m)
    BY <2>1, RemoveCastKeeps
  <2>3. ASSUME NEW m \in 1..n PROVE NoCast(f[n], c, m)
    <3>1. m = n \/ m \in 1..(n - 1)
      OBVIOUS
    <3> QED BY <1>5, <2>2, <3>1
  <2> QED BY <2>3
<1>6. N \in Clean
  <2> HIDE DEF Clean
  <2>1. \A n \in 0..N : n \in Clean
    BY <1>1, <1>4, <1>5, UpTo
  <2> QED BY <1>1, <2>1
<1> DEFINE r == RemoveCasts(s, c)
<1>7. Sound(r, {c}) /\ Follows(s, r) /\ r \in State /\ r.lastNo = N
  <2>1. Sound(f[N], {c}) /\ Follows(s, f[N]) /\ f[N] \in State /\ r = f[N]
    BY <1>3
  <2>2. f[N].lastNo = s.lastNo
    BY <2>1 DEF Follows
  <2> QED BY <2>1, <2>2
<1>8. \A m \in 1..N : NoCast(r, c, m)
  BY <1>3, <1>6
<1> HIDE DEF r
<1>9. \A w \in r.votes : w.caller # c /\ w.casts[c] = "none"
  <2>1. ASSUME NEW w \in r.votes PROVE w.caller # c /\ w.casts[c] = "none"
    <3>1. w.no \in 1..N
      BY <1>7 DEF Sound, ListSound, State, Motion
    <3>2. w.caller # c
      BY <1>7 DEF Follows, SameMotion
    <3> QED BY <1>8, <3>1, <3>2 DEF NoCast
  <2> QED BY <2>1
<1>10. NoTrace(r, {})
  BY <1>7, <1>9 DEF Sound, NoTrace
<1>11. Sound(r, {})
  BY <1>7, <1>10 DEF Sound
<1> QED BY <1>7, <1>11 DEF r

\* With fewer votes a state stays sound.
LEMMA FewerVotes ==
    ASSUME NEW s, NEW X, Sound(s, X), NEW V \in SUBSET s.votes
    PROVE  /\ Sound([s EXCEPT !.votes = V], X) /\ Follows(s, [s EXCEPT !.votes = V])
           /\ [s EXCEPT !.votes = V].votes = V
<1> DEFINE t == [s EXCEPT !.votes = V]
<1>1. /\ t \in State /\ t.votes = V /\ t.votes \subseteq s.votes
      /\ t.lastNo = s.lastNo /\ t.serverNo = s.serverNo
      /\ t.link = s.link /\ t.plays = s.plays /\ t.resolved = s.resolved
  BY DEF Sound, State
<1> HIDE DEF t
<1>2. ListSound(t) /\ NoTrace(t, X) /\ DecisionsSound(t)
  BY <1>1 DEF Sound, ListSound, NoTrace, DecisionsSound
<1>3. Sound(t, X) /\ Follows(s, t)
  BY <1>1, <1>2 DEF Sound, Follows, SameMotion
<1> QED BY <1>1, <1>3 DEF t

\* cancel_connection_votes leaves no trace of the connection.
LEMMA CancelConnectionVotesKeeps ==
    ASSUME NEW s, NEW c \in Conns, Sound(s, {c})
    PROVE  /\ Sound(CancelConnectionVotes(s, c), {})
           /\ Follows(s, CancelConnectionVotes(s, c))
<1> DEFINE V == {v \in s.votes : v.caller # c}
           t == [s EXCEPT !.votes = V]
<1>1. Sound(t, {c}) /\ Follows(s, t) /\ t.votes = V
  <2> HIDE DEF V
  <2> QED BY FewerVotes DEF V
<1>2. CancelConnectionVotes(s, c) = RemoveCasts(t, c)
  BY DEF CancelConnectionVotes
<1> HIDE DEF t
<1>3. Sound(RemoveCasts(t, c), {}) /\ Follows(t, RemoveCasts(t, c))
  BY <1>1, RemoveCastsKeeps
<1> QED BY <1>1, <1>2, <1>3, FollowsOn

\* voting_turn looks at the votes of the list.
LEMMA CheckVotesKeeps ==
    ASSUME NEW s, Sound(s, {})
    PROVE  Sound(CheckVotes(s), {}) /\ Follows(s, CheckVotes(s))
<1> DEFINE S == {r \in State : Sound(r, {}) /\ Follows(s, r)}
<1>1. s \in S /\ s.lastNo \in Nat
  BY BoundAssumption, FollowsItself DEF Sound, State
<1>2. ASSUME NEW r \in S, NEW n \in 1..s.lastNo PROVE LookAt(r, n) \in S
  <2>1. CASE \E v \in r.votes : v.no = n
    <3>1. Sound(CheckVote(r, n), {}) /\ Follows(r, CheckVote(r, n))
      BY <2>1, CheckVoteKeeps
    <3>2. Follows(s, CheckVote(r, n))
      BY <3>1, FollowsOn
    <3> QED BY <2>1, <3>1, <3>2 DEF LookAt, Sound
  <2>2. CASE ~\E v \in r.votes : v.no = n
    BY <2>2 DEF LookAt
  <2> QED BY <2>1, <2>2
<1>3. CheckVotes(s) \in S
  <2> HIDE DEF S
  <2> QED BY <1>1, <1>2, CheckVotesChain
<1> QED BY <1>3

(***************************************************************************)
(* 6. New votes.                                                           *)
(***************************************************************************)

\* The threshold of a new vote is a fraction of the whole, and the vote of one does
\* not pass it where that is not meant to be, unless there is no other voter.
LEMMA NeedIs ==
    ASSUME NEW kind \in Kinds, NEW voters \in Nat
    PROVE  LET need == NeedOf(kind, voters) IN
           /\ need \in Nat \X Nat /\ need[1] <= need[2]
           /\ kind \in NoPassAlone /\ voters > 1 => ~Exceeds(1, voters, need)
<1> DEFINE p == Percent(kind)
           need == NeedOf(kind, voters)
<1>1. p \in {<<2, 5>>, <<1, 4>>, <<3, 4>>, <<1, 2>>}
  BY DEF Percent
<1>2. need = IF kind \in NoPassAlone /\ voters > 1 /\ p[2] > p[1] * voters
               THEN IF voters > 4 THEN <<2, voters>> ELSE <<1, 2>>
               ELSE p
  BY DEF NeedOf
<1> HIDE DEF p, need
<1>3. CASE kind \in NoPassAlone /\ voters > 1 /\ p[2] > p[1] * voters
  <2>1. CASE voters > 4
    <3>1. need = <<2, voters>>
      BY <1>2, <1>3, <2>1
    <3> QED BY <2>1, <3>1 DEF Exceeds, need
  <2>2. CASE ~(voters > 4)
    <3>1. need = <<1, 2>>
      BY <1>2, <1>3, <2>2
    <3> QED BY <1>3, <3>1 DEF Exceeds, need
  <2> QED BY <2>1, <2>2
<1>4. CASE ~(kind \in NoPassAlone /\ voters > 1 /\ p[2] > p[1] * voters)
  <2>1. need = p
    BY <1>2, <1>4
  <2>2. kind \in NoPassAlone /\ voters > 1 => ~(p[2] > p[1] * voters)
    BY <1>4
  <2>3. p \in Nat \X Nat /\ p[1] <= p[2] /\ 1 * p[2] = p[2]
    BY <1>1
  <2> QED BY <2>1, <2>2, <2>3 DEF Exceeds, need
<1> QED BY <1>3, <1>4

\* w is the new vote.
NewMotion(s, w, caller, kind, target) ==
    /\ w \in Motion /\ w.no = s.lastNo + 1 /\ w.caller = caller /\ w.kind = kind
    /\ w.target = target /\ w.turns = 0 /\ w.casts = [c \in Conns |-> "none"]
    /\ w.need = NeedOf(kind, Cardinality(Voters(s, w)))
    /\ w.need[1] <= w.need[2]

KeptBy(s, caller) == {v \in s.votes : caller = Server \/ v.caller # caller}

\* vote_new adds it to the list.
AddsMotion(s, w, caller, kind, target) ==
    /\ NewMotion(s, w, caller, kind, target)
    /\ NewVote(s, caller, kind, target) =
         [s EXCEPT !.lastNo = @ + 1, !.votes = KeptBy(s, caller) \cup {w}]

LEMMA NewVoteIs ==
    ASSUME NEW s \in State, NEW caller \in Conns \cup {Server}, NEW kind \in Kinds,
           NEW target \in Conns \cup {Server}
    PROVE  \E w : AddsMotion(s, w, caller, kind, target)
<1> DEFINE blank == [no |-> s.lastNo + 1, caller |-> caller, kind |-> kind,
                     target |-> target, need |-> Percent(kind), turns |-> 0,
                     casts |-> [c \in Conns |-> "none"]]
           need == NeedOf(kind, Cardinality(Voters(s, blank)))
           w == [blank EXCEPT !.need = need]
<1>1. NewVote(s, caller, kind, target) =
        [s EXCEPT !.lastNo = @ + 1, !.votes = KeptBy(s, caller) \cup {w}]
  BY DEF NewVote, NewNumber, KeptBy
<1>2. w.no = s.lastNo + 1 /\ w.caller = caller /\ w.kind = kind /\ w.target = target
      /\ w.turns = 0 /\ w.casts = [c \in Conns |-> "none"] /\ w.need = need
      /\ blank.caller = caller /\ blank.kind = kind
      /\ w = [no |-> s.lastNo + 1, caller |-> caller, kind |-> kind, target |-> target,
              need |-> need, turns |-> 0, casts |-> [c \in Conns |-> "none"]]
  <2> DEFINE none == [c \in Conns |-> "none"]
  <2> HIDE DEF need, none
  <2>1. w.casts = none /\ w = [no |-> s.lastNo + 1, caller |-> caller, kind |-> kind,
                               target |-> target, need |-> need, turns |-> 0, casts |-> none]
    BY DEF none
  <2> QED BY <2>1 DEF none
<1> HIDE DEF blank, w
<1>3. Voters(s, w) = Voters(s, blank)
  BY <1>2 DEF Voters, CanVote
<1>4. Cardinality(Voters(s, blank)) \in Nat
  <2>1. Voters(s, blank) \in SUBSET Conns
    BY DEF Voters
  <2> QED BY <2>1, ConnsAssumption, FS_Subset, FS_CardinalityType
<1>5. need \in Nat \X Nat /\ need[1] <= need[2]
  BY <1>4, NeedIs
<1> HIDE DEF need
<1>6. w \in Motion
  <2>1. s.lastNo + 1 \in Nat /\ [c \in Conns |-> "none"] \in [Conns -> Ballot]
    BY BoundAssumption DEF State, Ballot
  <2> QED BY <1>2, <1>5, <2>1 DEF Motion
<1>7. NewMotion(s, w, caller, kind, target)
  BY <1>2, <1>3, <1>5, <1>6 DEF NewMotion, need
<1>8. AddsMotion(s, w, caller, kind, target)
  BY <1>1, <1>7 DEF AddsMotion
<1> QED BY <1>8

\* A player calls a vote.
LEMMA CallKeeps ==
    ASSUME NEW s, NEW c \in Conns, Sound(s, {}), s.lastNo < MaxNo, s.link[c] # "down",
           NEW w, NEW kind, NEW target, NewMotion(s, w, c, kind, target),
           NEW r, r = [s EXCEPT !.lastNo = @ + 1, !.votes = KeptBy(s, c) \cup {w}]
    PROVE  Sound(r, {}) /\ w \in r.votes
<1>1. /\ r \in State /\ r.votes = KeptBy(s, c) \cup {w} /\ r.lastNo = s.lastNo + 1
      /\ r.serverNo = s.serverNo /\ r.link = s.link /\ r.resolved = s.resolved
  <2>1. s \in State /\ s.lastNo + 1 \in 0..MaxNo
    BY BoundAssumption DEF Sound, State
  <2>2. KeptBy(s, c) \cup {w} \in SUBSET Motion
    BY <2>1 DEF KeptBy, State, NewMotion
  <2> QED BY <2>1, <2>2 DEF State
<1>2. /\ w.no = s.lastNo + 1 /\ w.caller = c /\ c # Server /\ w.need[1] <= w.need[2]
      /\ w.casts = [x \in Conns |-> "none"]
  BY ConnsAssumption DEF NewMotion
<1>3. s.lastNo \in Nat /\ s.serverNo \in Nat /\ s.serverNo <= s.lastNo
  BY BoundAssumption DEF Sound, State
<1>4. \A v \in KeptBy(s, c) : /\ v \in s.votes /\ v.caller # c /\ v.no \in Nat
                              /\ 1 <= v.no /\ v.no <= s.lastNo
  BY ConnsAssumption DEF KeptBy, Sound, ListSound, State, Motion
<1>5. ListSound(r)
  <2>1. \A v, u \in r.votes :
          v.no = u.no \/ (v.caller = u.caller /\ v.caller # Server) => v = u
    BY <1>1, <1>2, <1>3, <1>4 DEF Sound, ListSound
  <2>2. \A v \in r.votes : /\ 1 <= v.no /\ v.no <= r.lastNo /\ v.need[1] <= v.need[2]
                           /\ v.caller = Server => v.no = r.serverNo
    BY <1>1, <1>2, <1>3, <1>4 DEF Sound, ListSound
  <2> QED BY <2>1, <2>2 DEF ListSound
<1>6. NoTrace(r, {}) /\ DecisionsSound(r)
  BY <1>1, <1>2, <1>4 DEF Sound, NoTrace, DecisionsSound
<1> QED BY <1>1, <1>3, <1>5, <1>6 DEF Sound

\* The server calls one when the one it called last is not in the list.
LEMMA ServerCallKeeps ==
    ASSUME NEW s, NEW X, Sound(s, X), s.lastNo < MaxNo,
           s.serverNo = 0 \/ s.serverNo \notin Numbers(s),
           NEW w, NEW kind, NEW target, NewMotion(s, w, Server, kind, target),
           NEW r, r = [s EXCEPT !.lastNo = @ + 1, !.votes = KeptBy(s, Server) \cup {w},
                                !.serverNo = s.lastNo + 1]
    PROVE  Sound(r, X)
<1>1. /\ r \in State /\ r.votes = s.votes \cup {w} /\ r.lastNo = s.lastNo + 1
      /\ r.serverNo = s.lastNo + 1 /\ r.link = s.link /\ r.resolved = s.resolved
  <2>1. s \in State /\ s.lastNo + 1 \in 0..MaxNo /\ s.lastNo + 1 \in Nat
    BY BoundAssumption DEF Sound, State
  <2>2. KeptBy(s, Server) = s.votes
    BY DEF KeptBy
  <2>3. s.votes \cup {w} \in SUBSET Motion
    BY <2>1 DEF State, NewMotion
  <2> QED BY <2>1, <2>2, <2>3 DEF State
<1>2. /\ w.no = s.lastNo + 1 /\ w.caller = Server /\ w.need[1] <= w.need[2]
      /\ w.casts = [x \in Conns |-> "none"]
  BY DEF NewMotion
<1>3. s.lastNo \in Nat /\ s.serverNo \in Nat /\ s.serverNo <= s.lastNo
  BY BoundAssumption DEF Sound, State
<1>4. \A v \in s.votes : /\ v.no \in Nat /\ 1 <= v.no /\ v.no <= s.lastNo
                         /\ v.caller # Server
  BY <1>3 DEF Numbers, Sound, ListSound, State, Motion
<1>5. ListSound(r)
  <2>1. \A v, u \in r.votes :
          v.no = u.no \/ (v.caller = u.caller /\ v.caller # Server) => v = u
    BY <1>1, <1>2, <1>3, <1>4 DEF Sound, ListSound
  <2>2. \A v \in r.votes : /\ 1 <= v.no /\ v.no <= r.lastNo /\ v.need[1] <= v.need[2]
                           /\ v.caller = Server => v.no = r.serverNo
    BY <1>1, <1>2, <1>3, <1>4 DEF Sound, ListSound
  <2> QED BY <2>1, <2>2 DEF ListSound
<1>6. NoTrace(r, X) /\ DecisionsSound(r)
  BY <1>1, <1>2, ConnsAssumption DEF Sound, NoTrace, DecisionsSound
<1> QED BY <1>1, <1>3, <1>5, <1>6 DEF Sound

\* server_request_pause_vote, also while a connection is being closed
LEMMA RequestPauseVoteKeeps ==
    ASSUME NEW s, NEW X, Sound(s, X)
    PROVE  LET r == RequestPauseVote(s) IN
           /\ Sound(r, X) /\ r.resolved = s.resolved
           /\ \A v \in r.votes : v \in s.votes \/ (v.no = s.lastNo + 1 /\ v.kind = "pause")
<1>1. CASE \/ s.paused \/ {c \in Conns : HasVoice(s, c)} = {} \/ s.lastNo >= MaxNo
           \/ s.serverNo # 0 /\ s.serverNo \in Numbers(s)
  BY <1>1 DEF RequestPauseVote
<1>2. CASE ~(\/ s.paused \/ {c \in Conns : HasVoice(s, c)} = {} \/ s.lastNo >= MaxNo
             \/ s.serverNo # 0 /\ s.serverNo \in Numbers(s))
  <2>1. /\ s \in State /\ s.lastNo < MaxNo /\ s.lastNo \in Nat
        /\ (s.serverNo = 0 \/ s.serverNo \notin Numbers(s))
    BY <1>2, BoundAssumption DEF Sound, State
  <2>1a. PICK w : AddsMotion(s, w, Server, "pause", Server)
    <3>1. "pause" \in Kinds /\ Server \in Conns \cup {Server}
      BY DEF Kinds
    <3> QED BY <2>1, <3>1, NewVoteIs
  <2>2. /\ NewMotion(s, w, Server, "pause", Server)
        /\ NewVote(s, Server, "pause", Server) =
             [s EXCEPT !.lastNo = @ + 1, !.votes = KeptBy(s, Server) \cup {w}]
    BY <2>1a DEF AddsMotion
  <2> DEFINE r == [s EXCEPT !.lastNo = @ + 1, !.votes = KeptBy(s, Server) \cup {w},
                            !.serverNo = s.lastNo + 1]
  <2>3. RequestPauseVote(s) = r
    <3>1. RequestPauseVote(s) = [NewVote(s, Server, "pause", Server) EXCEPT
                                   !.serverNo = s.lastNo + 1]
      BY <1>2 DEF RequestPauseVote
    <3> QED BY <2>1, <2>2, <3>1 DEF State
  <2>4. Sound(r, X)
    BY <2>1, <2>2, ServerCallKeeps
  <2>5. r.votes = s.votes \cup {w} /\ r.resolved = s.resolved
    BY <2>1 DEF State, KeptBy
  <2>6. w.no = s.lastNo + 1 /\ w.kind = "pause"
    BY <2>2 DEF NewMotion
  <2> HIDE DEF r
  <2> QED BY <2>3, <2>4, <2>5, <2>6
<1> QED BY <1>1, <1>2

\* What is decided by check_vote is the vote it was asked to look at.
LEMMA CheckVoteDecides ==
    ASSUME NEW s, NEW X, Sound(s, X), NEW v \in s.votes
    PROVE  \A d \in CheckVote(s, v.no).resolved :
             \/ d \in s.resolved
             \/ (d.tally = Tally(s, v) /\ d.passed = Passed(Tally(s, v)))
<1>1. s \in State /\ v \in Motion /\ \A w \in s.votes : w.no = v.no => w = v
  BY DEF Sound, State, ListSound
<1>2. v.kind \in Kinds /\ v.target \in Conns \cup {Server}
  BY <1>1 DEF Motion
<1>3. CheckVote(s, v.no) =
        IF ~Decided(Tally(s, v)) THEN s
        ELSE IF Passed(Tally(s, v)) THEN Perform(Resolved(s, v), v.kind, v.target)
        ELSE Resolved(s, v)
  BY <1>1, CheckVoteIs
<1>4. CASE ~Decided(Tally(s, v))
  BY <1>3, <1>4
<1>5. CASE Decided(Tally(s, v))
  <2>1. Resolved(s, v) \in State
    BY <1>5, ResolvedKeeps DEF Sound
  <2>2. Perform(Resolved(s, v), v.kind, v.target).resolved = Resolved(s, v).resolved
    BY <1>2, <2>1, PerformFields
  <2>3. Resolved(s, v).resolved =
          s.resolved \cup {[tally |-> Tally(s, v), passed |-> Passed(Tally(s, v))]}
    BY <1>1 DEF Resolved, State
  <2> DEFINE t == Tally(s, v)
             e == [tally |-> t, passed |-> Passed(t)]
  <2> HIDE DEF t
  <2>3a. e.tally = t /\ e.passed = Passed(t) /\ Resolved(s, v).resolved = s.resolved \cup {e}
    BY <2>3 DEF t
  <2> HIDE DEF e
  <2>4. \A d \in Resolved(s, v).resolved :
          d \in s.resolved \/ (d.tally = t /\ d.passed = Passed(t))
    BY <2>3a
  <2> QED BY <1>3, <1>5, <2>2, <2>4 DEF t
<1> QED BY <1>4, <1>5

\* The vote of the caller alone passes a motion that is not to pass alone only where
\* nobody else may vote.
LEMMA OneYes ==
    ASSUME NEW V, IsFiniteSet(V), NEW c, NEW casts,
           \A x \in V : casts[x] = IF x = c THEN "yes" ELSE "none",
           NEW kind \in NoPassAlone, NEW need, need = NeedOf(kind, Cardinality(V)),
           Exceeds(Cardinality({x \in V : casts[x] = "yes"}),
                   Cardinality(V) - Cardinality({x \in V : casts[x] = "abstain"}), need)
    PROVE  Cardinality(V) = 1
<1> DEFINE yes == Cardinality({x \in V : casts[x] = "yes"})
           all == Cardinality(V)
<1>1. kind \in Kinds
  BY DEF NoPassAlone, Kinds
<1>2. all \in Nat
  BY FS_CardinalityType
<1>3. {x \in V : casts[x] = "abstain"} = {}
  OBVIOUS
<1>4. Cardinality({x \in V : casts[x] = "abstain"}) = 0
  BY <1>3, FS_EmptySet
<1>5. yes = IF c \in V THEN 1 ELSE 0
  <2>1. {x \in V : casts[x] = "yes"} = IF c \in V THEN {c} ELSE {}
    OBVIOUS
  <2> QED BY <2>1, FS_EmptySet, FS_Singleton
<1>6. need \in Nat \X Nat /\ (all > 1 => ~Exceeds(1, all, need))
  BY <1>1, <1>2, NeedIs
<1>7. Exceeds(yes, all, need)
  BY <1>2, <1>4
<1>8. need[1] \in Nat /\ need[2] \in Nat /\ need[1] * all \in Nat
  BY <1>2, <1>6
<1>9. yes = 1
  <2>1. SUFFICES ASSUME yes = 0 PROVE FALSE
    BY <1>5
  <2>2. 0 * need[2] > need[1] * all
    BY <1>7, <2>1 DEF Exceeds
  <2> QED BY <1>8, <2>2
<1>10. ~(all > 1)
  BY <1>6, <1>7, <1>9
<1>11. all # 0
  BY <1>5, <1>9, FS_EmptySet
<1> QED BY <1>2, <1>10, <1>11

LEMMA CallDecides ==
    ASSUME NEW s, Sound(s, {}), NEW c \in Conns, s.link[c] # "down",
           NEW w, NEW kind, NEW target, NewMotion(s, w, c, kind, target),
           NEW r, r = [s EXCEPT !.lastNo = @ + 1, !.votes = KeptBy(s, c) \cup {w}],
           Sound(r, {}), w \in r.votes
    PROVE  \A d \in CastVote(r, c, w.no, "yes").resolved :
             \/ d \in s.resolved
             \/ (d.passed /\ d.tally.kind \in NoPassAlone => d.tally.voters = 1)
<1> DEFINE t == Filed(r, c, w.no, "yes")
<1>1. /\ s \in State /\ r \in State /\ r.link = s.link /\ r.plays = s.plays
      /\ r.muted = s.muted /\ r.resolved = s.resolved
  BY DEF Sound, State
<1>2. /\ t.link = s.link /\ t.plays = s.plays /\ t.muted = s.muted
      /\ t.resolved = s.resolved /\ \E x \in t.votes : x.no = w.no
      /\ \A x \in t.votes : \E v \in r.votes : FiledVote(v, x, c, w.no, "yes")
  <2>1. "yes" \in Ballot
    BY DEF Ballot
  <2>2. /\ t.link = r.link /\ t.plays = r.plays /\ t.muted = r.muted
        /\ t.resolved = r.resolved
        /\ \A v \in r.votes : v.no = w.no => \E x \in t.votes : x.no = w.no
        /\ \A x \in t.votes : \E v \in r.votes : FiledVote(v, x, c, w.no, "yes")
    <3>1. IsFiled(r, t, c, w.no, "yes")
      BY <1>1, <2>1, FiledFields
    <3> HIDE DEF t
    <3> QED BY <3>1 DEF IsFiled
  <2> QED BY <1>1, <2>2
<1>3. Sound(t, {})
  <2>1. "yes" \in Ballot /\ r.link[c] # "down"
    BY <1>1 DEF Ballot
  <2> QED BY <2>1, FiledKeeps
<1>4. CastVote(r, c, w.no, "yes") = CheckVote(t, w.no)
  BY DEF CastVote, Filed
<1> HIDE DEF t
<1>5. PICK x \in t.votes : x.no = w.no
  BY <1>2
<1>6. FiledVote(w, x, c, w.no, "yes")
  <2>1. PICK v \in r.votes : FiledVote(v, x, c, w.no, "yes")
    BY <1>2
  <2>2. v.no = w.no
    BY <1>5, <2>1 DEF FiledVote, SameMotion
  <2>3. v = w
    BY <2>2 DEF Sound, ListSound
  <2> QED BY <2>1, <2>3
<1>7. /\ x.casts = [[y \in Conns |-> "none"] EXCEPT ![c] = "yes"]
      /\ x.kind = kind /\ x.caller = w.caller /\ w.kind = kind
      /\ x.need = NeedOf(kind, Cardinality(Voters(s, w)))
  BY <1>6 DEF FiledVote, SameMotion, NewMotion
<1> DEFINE V == Voters(t, x)
<1>8. V = Voters(s, w)
  BY <1>2, <1>7 DEF Voters, CanVote, HasVoice
<1>9. IsFiniteSet(V) /\ \A y \in V : y \in Conns
  <2>1. V \in SUBSET Conns
    BY DEF Voters
  <2> QED BY <2>1, ConnsAssumption, FS_Subset
<1>10. \A y \in V : x.casts[y] = IF y = c THEN "yes" ELSE "none"
  BY <1>7, <1>9
<1>11. /\ Tally(t, x).kind = kind /\ Tally(t, x).voters = Cardinality(V)
       /\ Tally(t, x).need = x.need
       /\ Tally(t, x).yes = Cardinality({y \in V : x.casts[y] = "yes"})
       /\ Tally(t, x).base =
            Cardinality(V) - Cardinality({y \in V : x.casts[y] = "abstain"})
  <2>1. Tally(t, x) =
             [no |-> x.no, kind |-> x.kind, need |-> x.need, turns |-> x.turns,
              voters |-> Cardinality(V),
              yes |-> Cardinality({y \in V : x.casts[y] = "yes"}),
              against |-> Cardinality({y \in V : x.casts[y] = "no"}),
              rest |-> Cardinality({y \in V : x.casts[y] = "none"}),
              base |-> Cardinality(V)
                         - Cardinality({y \in V : x.casts[y] = "abstain"})]
    BY TallyIs
  <2> QED BY <1>7, <2>1
<1>12. Passed(Tally(t, x)) /\ kind \in NoPassAlone => Tally(t, x).voters = 1
  <2>1. SUFFICES ASSUME Passed(Tally(t, x)), kind \in NoPassAlone
                 PROVE  Cardinality(V) = 1
    BY <1>11
  <2>2. Exceeds(Cardinality({y \in V : x.casts[y] = "yes"}),
                Cardinality(V) - Cardinality({y \in V : x.casts[y] = "abstain"}), x.need)
    BY <1>11, <2>1 DEF Passed
  <2>3. x.need = NeedOf(kind, Cardinality(V))
    BY <1>7, <1>8
  <2> HIDE DEF V
  <2> QED BY <1>9, <1>10, <2>1, <2>2, <2>3, OneYes
<1>13. \A d \in CheckVote(t, w.no).resolved :
         d \in t.resolved \/ (d.tally = Tally(t, x) /\ d.passed = Passed(Tally(t, x)))
  <2>1. \A d \in CheckVote(t, x.no).resolved :
          d \in t.resolved \/ (d.tally = Tally(t, x) /\ d.passed = Passed(Tally(t, x)))
    BY <1>3, CheckVoteDecides
  <2> QED BY <1>5, <2>1
<1> QED BY <1>2, <1>4, <1>11, <1>12, <1>13

(***************************************************************************)
(* 7. The steps.                                                           *)
(***************************************************************************)

Here == [link |-> link, plays |-> plays, muted |-> muted, paused |-> paused,
         votes |-> votes, lastNo |-> lastNo, serverNo |-> serverNo, resolved |-> resolved]

\* The inductive invariant
VoteInv == Sound(Here, {})

LEMMA NowSound ==
    ASSUME VoteInv
    PROVE  /\ Sound(Now, {}) /\ Now \in State
           /\ Now.link = link /\ Now.plays = plays /\ Now.muted = muted /\ Now.votes = votes
           /\ Now.lastNo = lastNo /\ Now.serverNo = serverNo /\ Now.resolved = {}
<1>1. /\ Now.link = link /\ Now.plays = plays /\ Now.muted = muted /\ Now.votes = votes
      /\ Now.lastNo = lastNo /\ Now.serverNo = serverNo /\ Now.resolved = {}
  BY DEF Now
<1>2. /\ Here.link = link /\ Here.votes = votes
      /\ Here.lastNo = lastNo /\ Here.serverNo = serverNo
  BY DEF Here
<1>3. Now \in State
  BY DEF VoteInv, Sound, State, Here, Now
<1>4. ListSound(Now) /\ NoTrace(Now, {}) /\ DecisionsSound(Now)
  BY <1>1, <1>2 DEF VoteInv, Sound, ListSound, NoTrace, DecisionsSound
<1> QED BY <1>1, <1>2, <1>3, <1>4 DEF VoteInv, Sound

\* A step continues the list: what is new in it has a new number; and a new motion
\* that is not to pass alone has not passed so.
Continued(r) ==
    /\ \A x \in r.votes : (\E v \in votes : SameMotion(v, x)) \/ x.no > lastNo
    /\ \A d \in r.resolved :
         d.tally.no > lastNo /\ d.passed /\ d.tally.kind \in NoPassAlone => d.tally.voters = 1

Taken(r) == Sound(r, {}) /\ Continued(r) /\ Become(r)

LEMMA BecomeSound ==
    ASSUME NEW r, Sound(r, {}), Become(r)
    PROVE  VoteInv'
<1>1. /\ link' = r.link /\ plays' = r.plays /\ muted' = r.muted /\ paused' = r.paused
      /\ votes' = r.votes /\ lastNo' = r.lastNo /\ serverNo' = r.serverNo
      /\ resolved' = r.resolved
  BY DEF Become
<1>2. Here' = r
  BY <1>1 DEF Here, Sound, State
<1> QED BY <1>2 DEF VoteInv

\* What follows a state with the votes there are, and maybe one of the server's,
\* continues the list.
LEMMA FollowerContinues ==
    ASSUME VoteInv, NEW s, NEW r, Follows(s, r), s.resolved = {},
           \A v \in s.votes : v \in votes \/ (v.no = lastNo + 1 /\ v.kind = "pause")
    PROVE  Continued(r)
<1>1. lastNo \in Nat /\ \A v \in votes : v.no <= lastNo /\ v.no \in Nat
  BY NowSound, BoundAssumption DEF Sound, State, ListSound, Motion
<1>2. ASSUME NEW x \in r.votes PROVE (\E v \in votes : SameMotion(v, x)) \/ x.no > lastNo
  <2>1. PICK v \in s.votes : SameMotion(v, x)
    BY DEF Follows
  <2>2. v \in votes \/ x.no = lastNo + 1
    BY <2>1 DEF SameMotion
  <2> QED BY <1>1, <2>1, <2>2
<1>3. ASSUME NEW d \in r.resolved, d.tally.no > lastNo
      PROVE  d.tally.kind \notin NoPassAlone
  <2>1. PICK v \in s.votes : d.tally.no = v.no /\ d.tally.kind = v.kind
    BY DEF Follows
  <2>2. v \notin votes
    BY <1>1, <1>3, <2>1
  <2>3. d.tally.kind = "pause"
    BY <2>1, <2>2
  <2> QED BY <2>3 DEF NoPassAlone
<1> QED BY <1>2, <1>3 DEF Continued

LEMMA FollowsNow ==
    ASSUME VoteInv, NEW r, Follows(Now, r)
    PROVE  Continued(r)
  BY NowSound, FollowerContinues

\* Players and connections change hands, and those of Y are gone.
LEMMA Changed ==
    ASSUME NEW s, NEW X, Sound(s, X), NEW Y, X \subseteq Y, NEW r \in State,
           r.votes = s.votes, r.lastNo = s.lastNo, r.serverNo = s.serverNo,
           r.resolved = s.resolved,
           \A c \in Conns \ Y : r.link[c] = "down" => s.link[c] = "down"
    PROVE  Sound(r, Y) /\ Follows(s, r)
<1>1. ListSound(r) /\ NoTrace(r, Y) /\ DecisionsSound(r)
  BY DEF Sound, ListSound, NoTrace, DecisionsSound
<1>2. Sound(r, Y)
  BY <1>1 DEF Sound
<1>3. Follows(s, r)
  BY DEF Follows, SameMotion
<1> QED BY <1>2, <1>3

LEMMA ConnectStep ==
    ASSUME VoteInv, NEW c \in Conns, NEW p \in Players \cup {Nobody}, Connect(c, p)
    PROVE  \E r : Taken(r)
<1> DEFINE r == [Now EXCEPT !.link[c] = "up", !.plays[c] = p]
<1>1. /\ r \in State /\ r.votes = Now.votes /\ r.lastNo = Now.lastNo
      /\ r.serverNo = Now.serverNo /\ r.resolved = Now.resolved
      /\ \A x \in Conns : r.link[x] = "down" => Now.link[x] = "down"
  BY NowSound DEF State
<1>2. Become(r)
  BY DEF Connect
<1> HIDE DEF r
<1>3. Sound(r, {}) /\ Follows(Now, r)
  BY <1>1, NowSound, Changed
<1> QED BY <1>2, <1>3, FollowsNow DEF Taken

LEMMA BreakStep ==
    ASSUME VoteInv, NEW c \in Conns, Break(c)
    PROVE  \E r : Taken(r)
<1> DEFINE r == [Now EXCEPT !.link[c] = "closing"]
<1>1. /\ r \in State /\ r.votes = Now.votes /\ r.lastNo = Now.lastNo
      /\ r.serverNo = Now.serverNo /\ r.resolved = Now.resolved
      /\ \A x \in Conns : r.link[x] = "down" => Now.link[x] = "down"
  BY NowSound DEF State
<1>2. Become(r)
  BY DEF Break
<1> HIDE DEF r
<1>3. Sound(r, {}) /\ Follows(Now, r)
  BY <1>1, NowSound, Changed
<1> QED BY <1>2, <1>3, FollowsNow DEF Taken

LEMMA DetachStep ==
    ASSUME VoteInv, NEW c \in Conns, Detach(c)
    PROVE  \E r : Taken(r)
<1> DEFINE s == [Now EXCEPT !.plays[c] = Nobody]
           r == CancelConnectionVotes(s, c)
<1>1. /\ s \in State /\ s.votes = Now.votes /\ s.lastNo = Now.lastNo
      /\ s.serverNo = Now.serverNo /\ s.resolved = Now.resolved /\ s.link = Now.link
  BY NowSound DEF State
<1>2. Become(r)
  BY DEF Detach
<1> HIDE DEF s
<1>3. Sound(s, {c}) /\ Follows(Now, s)
  BY <1>1, NowSound, Changed
<1>4. Sound(r, {}) /\ Follows(s, r)
  BY <1>3, CancelConnectionVotesKeeps
<1> HIDE DEF r
<1>5. Follows(Now, r)
  BY <1>3, <1>4, FollowsOn
<1> QED BY <1>2, <1>4, <1>5, FollowsNow DEF Taken

LEMMA TakeStep ==
    ASSUME VoteInv, NEW c \in Conns, NEW p \in Players, Take(c, p)
    PROVE  \E r : Taken(r)
<1> DEFINE freed == [Now EXCEPT !.plays = [x \in Conns |-> IF @[x] = p THEN Nobody ELSE @[x]]]
           alone == [freed EXCEPT !.plays[c] = Nobody]
           left == IF plays[c] = Nobody THEN freed ELSE CancelConnectionVotes(alone, c)
           r == [left EXCEPT !.plays[c] = p]
<1>1. /\ freed \in State /\ freed.votes = Now.votes /\ freed.lastNo = Now.lastNo
      /\ freed.serverNo = Now.serverNo /\ freed.resolved = Now.resolved
      /\ freed.link = Now.link
  <2> DEFINE P == [x \in Conns |-> IF Now.plays[x] = p THEN Nobody ELSE Now.plays[x]]
  <2>1. P \in [Conns -> Players \cup {Nobody}]
    BY NowSound DEF State
  <2>2. freed = [Now EXCEPT !.plays = P]
    OBVIOUS
  <2> HIDE DEF P, freed
  <2> QED BY <2>1, <2>2, NowSound DEF State
<1>2. Become(r)
  BY DEF Take
<1> HIDE DEF freed
<1>3. Sound(freed, {}) /\ Follows(Now, freed)
  BY <1>1, NowSound, Changed
<1>4. /\ alone \in State /\ alone.votes = Now.votes /\ alone.lastNo = Now.lastNo
      /\ alone.serverNo = Now.serverNo /\ alone.resolved = Now.resolved
      /\ alone.link = Now.link
  BY <1>1 DEF State
<1> HIDE DEF alone
<1>5. Sound(alone, {c}) /\ Follows(Now, alone)
  BY <1>4, NowSound, Changed
<1>6. /\ Sound(CancelConnectionVotes(alone, c), {})
      /\ Follows(alone, CancelConnectionVotes(alone, c))
  BY <1>5, CancelConnectionVotesKeeps
<1>7. Sound(left, {}) /\ Follows(Now, left)
  BY <1>3, <1>5, <1>6, FollowsOn
<1> HIDE DEF left
<1>8. /\ r \in State /\ r.votes = left.votes /\ r.lastNo = left.lastNo
      /\ r.serverNo = left.serverNo /\ r.resolved = left.resolved /\ r.link = left.link
  BY <1>7 DEF Sound, State
<1> HIDE DEF r
<1>9. Sound(r, {}) /\ Follows(left, r)
  BY <1>7, <1>8, Changed
<1>10. Follows(Now, r)
  BY <1>7, <1>9, FollowsOn
<1> QED BY <1>2, <1>9, <1>10, FollowsNow DEF Taken

LEMMA CloseStep ==
    ASSUME VoteInv, NEW c \in Conns, Close(c)
    PROVE  \E r : Taken(r)
<1> DEFINE lost == [Now EXCEPT !.link[c] = "down", !.plays[c] = Nobody]
           asked == IF plays[c] # Nobody THEN RequestPauseVote(lost) ELSE lost
           r == CancelConnectionVotes(asked, c)
<1>1. /\ lost \in State /\ lost.votes = Now.votes /\ lost.lastNo = Now.lastNo
      /\ lost.serverNo = Now.serverNo /\ lost.resolved = Now.resolved
      /\ \A x \in Conns \ {c} : lost.link[x] = "down" => Now.link[x] = "down"
  BY NowSound DEF State
<1>2. Become(r)
  BY DEF Close
<1> HIDE DEF lost
<1>3. Sound(lost, {c})
  BY <1>1, NowSound, Changed
<1>4. LET q == RequestPauseVote(lost) IN
      /\ Sound(q, {c}) /\ q.resolved = lost.resolved
      /\ \A v \in q.votes : v \in lost.votes \/ (v.no = lost.lastNo + 1 /\ v.kind = "pause")
  BY <1>3, RequestPauseVoteKeeps
<1>5. /\ Sound(asked, {c}) /\ asked.resolved = {}
      /\ \A v \in asked.votes : v \in votes \/ (v.no = lastNo + 1 /\ v.kind = "pause")
  BY <1>1, <1>3, <1>4, NowSound
<1> HIDE DEF asked
<1>6. Sound(r, {}) /\ Follows(asked, r)
  BY <1>5, CancelConnectionVotesKeeps
<1> HIDE DEF r
<1>7. Continued(r)
  BY <1>5, <1>6, FollowerContinues
<1> QED BY <1>2, <1>6, <1>7 DEF Taken

LEMMA CallStep ==
    ASSUME VoteInv, NEW c \in Conns, NEW kind \in Kinds, NEW target \in Conns \cup {Server},
           CallVote(c, kind, target)
    PROVE  \E r : Taken(r)
<1> DEFINE called == NewVote(Now, c, kind, target)
           mine == CHOOSE v \in called.votes : v.caller = c
           r == CastVote(called, c, mine.no, "yes")
<1>1. /\ Become(r) /\ Now.link[c] # "down" /\ Now.lastNo < MaxNo
      /\ Sound(Now, {}) /\ Now \in State /\ Now.resolved = {}
      /\ Now.votes = votes /\ Now.lastNo = lastNo
  BY NowSound DEF CallVote
<1>2. PICK w : AddsMotion(Now, w, c, kind, target)
  BY <1>1, NewVoteIs
<1>3. /\ NewMotion(Now, w, c, kind, target)
      /\ called = [Now EXCEPT !.lastNo = @ + 1, !.votes = KeptBy(Now, c) \cup {w}]
  BY <1>2 DEF AddsMotion
<1>4. called.votes = KeptBy(Now, c) \cup {w} /\ called.link = Now.link /\ called.resolved = {}
  BY <1>1, <1>3 DEF State
<1> HIDE DEF called
<1>5. Sound(called, {}) /\ w \in called.votes
  BY <1>1, <1>3, CallKeeps
<1>6. mine = w
  <2>1. w.caller = c /\ \A v \in KeptBy(Now, c) : v.caller # c
    BY <1>3, ConnsAssumption DEF NewMotion, KeptBy
  <2>2. \A v \in called.votes : v.caller = c <=> v = w
    BY <1>4, <2>1
  <2> QED BY <1>5, <2>2
<1> HIDE DEF mine
<1>7. r = CastVote(called, c, w.no, "yes")
  BY <1>6
<1> HIDE DEF r
<1>8. Sound(r, {}) /\ Follows(called, r)
  <2>1. "yes" \in Ballot /\ called.link[c] # "down" /\ \E v \in called.votes : v.no = w.no
    BY <1>1, <1>4, <1>5 DEF Ballot
  <2>2. /\ Sound(CastVote(called, c, w.no, "yes"), {})
        /\ Follows(called, CastVote(called, c, w.no, "yes"))
    BY <1>5, <2>1, CastVoteKeeps
  <2> QED BY <1>7, <2>2
<1>9. \A d \in r.resolved : d.passed /\ d.tally.kind \in NoPassAlone => d.tally.voters = 1
  <2>1. \A d \in CastVote(called, c, w.no, "yes").resolved :
          \/ d \in Now.resolved
          \/ (d.passed /\ d.tally.kind \in NoPassAlone => d.tally.voters = 1)
    BY <1>1, <1>3, <1>5, CallDecides
  <2> QED BY <1>1, <1>7, <2>1
<1>10. \A x \in r.votes : (\E v \in votes : SameMotion(v, x)) \/ x.no > lastNo
  <2>1. ASSUME NEW x \in r.votes PROVE (\E v \in votes : SameMotion(v, x)) \/ x.no > lastNo
    <3>1. PICK v \in called.votes : SameMotion(v, x)
      BY <1>8 DEF Follows
    <3>2. CASE v \in KeptBy(Now, c)
      BY <1>1, <3>1, <3>2 DEF KeptBy
    <3>3. CASE v = w
      <4>1. x.no = lastNo + 1 /\ lastNo \in Nat
        BY <1>1, <1>3, <3>1, <3>3, BoundAssumption DEF SameMotion, NewMotion, State
      <4> QED BY <4>1
    <3> QED BY <1>4, <3>2, <3>3
  <2> QED BY <2>1
<1> QED BY <1>1, <1>8, <1>9, <1>10 DEF Taken, Continued

LEMMA CastStep ==
    ASSUME VoteInv, NEW c \in Conns, NEW v \in votes, NEW cast \in {"yes", "no", "abstain"},
           Cast(c, v, cast)
    PROVE  \E r : Taken(r)
<1> DEFINE r == CastVote(Now, c, v.no, cast)
<1>1. Become(r) /\ Now.link[c] # "down" /\ cast \in Ballot /\ v \in Now.votes
  BY NowSound DEF Cast, Ballot
<1>2. Sound(r, {}) /\ Follows(Now, r)
  <2>1. \E u \in Now.votes : u.no = v.no
    BY <1>1
  <2> QED BY <1>1, <2>1, NowSound, CastVoteKeeps
<1> HIDE DEF r
<1> QED BY <1>1, <1>2, FollowsNow DEF Taken

\* cancelvote, of one vote or of all
LEMMA FewerStep ==
    ASSUME VoteInv, NEW V \in SUBSET votes, Become([Now EXCEPT !.votes = V])
    PROVE  \E r : Taken(r)
<1>1. V \in SUBSET Now.votes /\ Sound(Now, {})
  BY NowSound
<1> DEFINE r == [Now EXCEPT !.votes = V]
<1>2. Sound(r, {}) /\ Follows(Now, r)
  BY <1>1, FewerVotes
<1> HIDE DEF r
<1>3. Continued(r)
  BY <1>2, FollowsNow
<1> QED BY <1>2, <1>3 DEF Taken, r

LEMMA OrderStep ==
    ASSUME VoteInv, NEW kind \in Kinds, NEW target \in Conns \cup {Server}, Order(kind, target)
    PROVE  \E r : Taken(r)
<1> DEFINE r == Perform(Now, kind, target)
<1>1. Become(r)
  BY DEF Order
<1>2. Sound(r, {}) /\ Follows(Now, r)
  BY NowSound, PerformKeeps
<1> HIDE DEF r
<1> QED BY <1>1, <1>2, FollowsNow DEF Taken

\* A turn older, a vote is the same motion with the same casts.
LEMMA AgedKeeps ==
    ASSUME VoteInv, NEW forgiven \in SUBSET muted
    PROVE  Sound(Aged(forgiven), {}) /\ Follows(Now, Aged(forgiven))
<1> DEFINE Older(v) == [v EXCEPT !.turns = IF @ = 2 THEN 2 ELSE @ + 1]
           all == {Older(v) : v \in votes}
           t == Aged(forgiven)
<1>1. ASSUME NEW v \in votes
      PROVE  /\ Older(v) \in Motion /\ SameMotion(v, Older(v))
             /\ Older(v).need = v.need /\ Older(v).casts = v.casts
  <2>1. v \in Motion
    BY NowSound DEF State
  <2> DEFINE n == IF v.turns = 2 THEN 2 ELSE v.turns + 1
  <2>2. n \in 0..2
    BY <2>1 DEF Motion
  <2>3. Older(v) = [v EXCEPT !.turns = n]
    OBVIOUS
  <2> HIDE DEF n, Older
  <2> QED BY <2>1, <2>2, <2>3 DEF Motion, SameMotion
<1>2. t = [Now EXCEPT !.muted = @ \ forgiven, !.votes = all]
  BY NowSound DEF Aged
<1>3. all \subseteq Motion
  BY <1>1
<1>4. \A w \in all : \E v \in votes :
        w = Older(v) /\ SameMotion(v, w) /\ w.need = v.need /\ w.casts = v.casts
  BY <1>1
<1> HIDE DEF all
<1>5. /\ t \in State /\ t.votes = all /\ t.lastNo = Now.lastNo /\ t.serverNo = Now.serverNo
      /\ t.link = Now.link /\ t.resolved = Now.resolved
  BY <1>2, <1>3, NowSound DEF State
<1> HIDE DEF t, Older
<1>6. Sound(Now, {}) /\ Now.votes = votes
  BY NowSound
<1>7. ListSound(t)
  <2>1. ASSUME NEW w \in t.votes, NEW x \in t.votes,
               w.no = x.no \/ (w.caller = x.caller /\ w.caller # Server)
        PROVE  w = x
    <3>1. PICK v \in votes : w = Older(v) /\ SameMotion(v, w)
      BY <1>4, <1>5
    <3>2. PICK u \in votes : x = Older(u) /\ SameMotion(u, x)
      BY <1>4, <1>5
    <3>3. v.no = u.no \/ (v.caller = u.caller /\ v.caller # Server)
      BY <2>1, <3>1, <3>2 DEF SameMotion
    <3>4. v = u
      BY <1>6, <3>3 DEF Sound, ListSound
    <3> QED BY <3>1, <3>2, <3>4
  <2>2. \A w \in t.votes : /\ 1 <= w.no /\ w.no <= t.lastNo /\ w.need[1] <= w.need[2]
                           /\ w.caller = Server => w.no = t.serverNo
    BY <1>4, <1>5, <1>6 DEF SameMotion, Sound, ListSound
  <2> QED BY <2>1, <2>2 DEF ListSound
<1>8. NoTrace(t, {}) /\ DecisionsSound(t)
  BY <1>4, <1>5, <1>6 DEF SameMotion, Sound, NoTrace, DecisionsSound
<1>9. Sound(t, {})
  BY <1>5, <1>6, <1>7, <1>8 DEF Sound
<1>10. Follows(Now, t)
  BY <1>4, <1>5, <1>6 DEF Follows
<1> QED BY <1>9, <1>10 DEF t

LEMMA TurnStep ==
    ASSUME VoteInv, VotingTurn
    PROVE  \E r : Taken(r)
<1>1. PICK forgiven \in SUBSET muted : Become(CheckVotes(Aged(forgiven)))
  BY DEF VotingTurn
<1> DEFINE s == Aged(forgiven)
           r == CheckVotes(s)
<1>2. Sound(s, {}) /\ Follows(Now, s)
  BY AgedKeeps
<1> HIDE DEF s
<1>3. Sound(r, {}) /\ Follows(s, r)
  BY <1>2, CheckVotesKeeps
<1> HIDE DEF r
<1>4. Follows(Now, r)
  BY <1>2, <1>3, FollowsOn
<1> QED BY <1>1, <1>3, <1>4, FollowsNow DEF Taken, r, s

\* Every step of the server
LEMMA NextStep ==
    ASSUME VoteInv, Next
    PROVE  \E r : Taken(r)
<1>0. /\ Motions \subseteq Kinds
      /\ \A kind \in Motions : \A target \in IF kind \in Aimed THEN Conns ELSE {Server} :
           target \in Conns \cup {Server}
  BY MotionsAssumption DEF Kinds
<1>1. ASSUME NEW c \in Conns, NEW p \in Players \cup {Nobody}, Connect(c, p)
      PROVE  \E r : Taken(r)
  BY <1>1, ConnectStep
<1>2. ASSUME NEW c \in Conns, NEW p \in Players, Take(c, p) PROVE \E r : Taken(r)
  BY <1>2, TakeStep
<1>3. ASSUME NEW c \in Conns, Detach(c) PROVE \E r : Taken(r)
  BY <1>3, DetachStep
<1>4. ASSUME NEW c \in Conns, Break(c) PROVE \E r : Taken(r)
  BY <1>4, BreakStep
<1>5. ASSUME NEW c \in Conns, Close(c) PROVE \E r : Taken(r)
  BY <1>5, CloseStep
<1>6. ASSUME NEW c \in Conns, NEW kind \in Motions,
             NEW target \in IF kind \in Aimed THEN Conns ELSE {Server},
             CallVote(c, kind, target)
      PROVE  \E r : Taken(r)
  BY <1>0, <1>6, CallStep
<1>7. ASSUME NEW c \in Conns, NEW v \in votes, NEW cast \in {"yes", "no", "abstain"},
             Cast(c, v, cast)
      PROVE  \E r : Taken(r)
  BY <1>7, CastStep
<1>8. ASSUME NEW v \in votes, CancelVote(v) PROVE \E r : Taken(r)
  <2>1. Become([Now EXCEPT !.votes = votes \ {v}])
    BY <1>8, NowSound DEF CancelVote
  <2> QED BY <2>1, FewerStep
<1>9. ASSUME ClearVotes PROVE \E r : Taken(r)
  BY <1>9, FewerStep DEF ClearVotes
<1>10. ASSUME NEW kind \in Motions,
              NEW target \in IF kind \in Aimed THEN Conns ELSE {Server}, Order(kind, target)
       PROVE  \E r : Taken(r)
  BY <1>0, <1>10, OrderStep
<1>11. CASE VotingTurn
  BY <1>11, TurnStep
<1> QED BY <1>1, <1>2, <1>3, <1>4, <1>5, <1>6, <1>7, <1>8, <1>9, <1>10, <1>11 DEF Next

(***************************************************************************)
(* 8. The theorems.                                                        *)
(***************************************************************************)

LEMMA InitInv == Init => VoteInv
<1> SUFFICES ASSUME Init PROVE VoteInv
  OBVIOUS
<1>1. /\ Here.votes = {} /\ Here.resolved = {} /\ Here.serverNo = 0 /\ Here.lastNo = 0
      /\ Here \in State
  <2>1. link \in [Conns -> {"down", "up", "closing"}] /\ plays \in [Conns -> Players \cup {Nobody}]
    BY DEF Init
  <2>2. /\ muted = {} /\ paused = FALSE /\ votes = {} /\ lastNo = 0 /\ serverNo = 0
        /\ resolved = {} /\ 0 \in 0..MaxNo
    BY BoundAssumption DEF Init
  <2> QED BY <2>1, <2>2 DEF Here, State
<1> QED BY <1>1 DEF VoteInv, Sound, ListSound, NoTrace, DecisionsSound

LEMMA NextInv == VoteInv /\ [Next]_vars => VoteInv'
<1>1. ASSUME VoteInv, Next PROVE VoteInv'
  BY <1>1, NextStep, BecomeSound DEF Taken
<1>2. ASSUME VoteInv, UNCHANGED vars PROVE VoteInv'
  <2>1. Here' = Here
    BY <1>2 DEF Here, vars
  <2> QED BY <1>2, <2>1 DEF VoteInv
<1> QED BY <1>1, <1>2

LEMMA AlwaysSound == Spec => []VoteInv
<1> QED BY InitInv, NextInv, PTL DEF Spec

\* What VoteInv says of the variables
LEMMA SoundVariables ==
    ASSUME VoteInv
    PROVE  /\ link \in [Conns -> {"down", "up", "closing"}]
           /\ plays \in [Conns -> Players \cup {Nobody}]
           /\ muted \in SUBSET Conns /\ paused \in BOOLEAN /\ votes \in SUBSET Motion
           /\ lastNo \in 0..MaxNo /\ serverNo \in Nat /\ serverNo <= lastNo
           /\ resolved \in SUBSET Decision
           /\ \A v, w \in votes :
                v.no = w.no \/ (v.caller = w.caller /\ v.caller # Server) => v = w
           /\ \A v \in votes : 1 <= v.no /\ v.no <= lastNo
           /\ \A v \in votes : v.caller = Server => v.no = serverNo
           /\ \A v \in votes, c \in Conns :
                link[c] = "down" => v.caller # c /\ v.casts[c] = "none"
           /\ \A d \in resolved :
                IsTally(d.tally) /\ Decided(d.tally) /\ (d.passed <=> Passed(d.tally))
<1>1. /\ Here.link = link /\ Here.plays = plays /\ Here.muted = muted /\ Here.paused = paused
      /\ Here.votes = votes /\ Here.lastNo = lastNo /\ Here.serverNo = serverNo
      /\ Here.resolved = resolved
  BY DEF Here
<1>2. Sound(Here, {})
  BY DEF VoteInv
<1> HIDE DEF Here
<1>3. Here \in State
  BY <1>2 DEF Sound
<1>4. /\ link \in [Conns -> {"down", "up", "closing"}]
      /\ plays \in [Conns -> Players \cup {Nobody}]
      /\ muted \in SUBSET Conns /\ paused \in BOOLEAN /\ votes \in SUBSET Motion
      /\ lastNo \in 0..MaxNo /\ serverNo \in Nat /\ resolved \in SUBSET Decision
  BY <1>1, <1>3 DEF State
<1> QED BY <1>1, <1>2, <1>4 DEF Sound, ListSound, NoTrace, DecisionsSound

\* The variables of the vote list keep their types through every handler, the ones
\* that decide several votes in one step included; no vote has a number that was not
\* given out.
THEOREM VoteTypes == Spec => []TypeOK
<1>1. VoteInv => TypeOK
  <2> SUFFICES ASSUME VoteInv PROVE TypeOK
    OBVIOUS
  <2>1. \A v \in votes : /\ v.no \in 1..lastNo /\ v.caller \in Conns \cup {Server}
                         /\ v.turns \in 0..2 /\ v.casts \in [Conns -> Ballot]
    BY SoundVariables, BoundAssumption DEF Motion
  <2>2. serverNo \in 0..lastNo
    BY SoundVariables, BoundAssumption
  <2> QED BY <2>1, <2>2, SoundVariables DEF TypeOK
<1> QED BY <1>1, AlwaysSound, PTL

\* Whatever a step decides on its way, the list never holds a vote or a cast of a
\* connection that is gone, a number names one vote, and no player has two votes
\* running (vote_new, cancel_connection_votes, close_connection).
THEOREM ListStaysSound == Spec => []VotesSound
<1>1. VoteInv => VotesSound
  <2> SUFFICES ASSUME VoteInv PROVE VotesSound
    OBVIOUS
  <2>1. \A v \in votes : v.caller # Server => link[v.caller] # "down"
    BY SoundVariables DEF Motion
  <2> QED BY <2>1, SoundVariables DEF VotesSound
<1> QED BY <1>1, AlwaysSound, PTL

\* The server has one vote for a pause running at a time, however many players are
\* lost (server_request_pause_vote and last_server_vote).
THEOREM OnePauseAtATime == Spec => []OnePauseVote
<1>1. VoteInv => OnePauseVote
  <2> SUFFICES ASSUME VoteInv PROVE OnePauseVote
    OBVIOUS
  <2> DEFINE P == {v \in votes : v.caller = Server}
  <2>1. \A v, w \in P : v = w
    BY SoundVariables
  <2>2. P = {} \/ \E v : P = {v}
    BY <2>1
  <2> HIDE DEF P
  <2>3. Cardinality(P) <= 1
    <3>1. CASE P = {}
      BY <3>1, FS_EmptySet
    <3>2. CASE \E v : P = {v}
      BY <3>2, FS_Singleton
    <3> QED BY <2>2, <3>1, <3>2
  <2> QED BY <2>3 DEF OnePauseVote, P
<1> QED BY <1>1, AlwaysSound, PTL

\* Every decision that check_vote takes before the second turn is final: the votes
\* that are still missing could not have turned it, for every number of voters.
THEOREM DecisionsAreForGood == Spec => []DecidedForGood
<1>1. VoteInv => DecidedForGood
  <2> SUFFICES ASSUME VoteInv, NEW r \in resolved, r.tally.turns <= 1,
                      r.tally.kind \notin NoDissent,
                      NEW more \in 0..r.tally.rest,
                      NEW against \in 0..(r.tally.rest - more)
               PROVE  r.passed <=>
                        Exceeds(r.tally.yes + more,
                                r.tally.yes + more + r.tally.against + against,
                                r.tally.need)
    BY DEF DecidedForGood
  <2> DEFINE t == r.tally
  <2>1. IsTally(t) /\ Decided(t) /\ (r.passed <=> Passed(t)) /\ r \in Decision
    BY SoundVariables
  <2>2. t \in Tallies /\ t.turns <= 1 /\ t.kind \notin NoDissent
        /\ more \in 0..t.rest /\ against \in 0..(t.rest - more)
    BY <2>1 DEF Decision
  <2> HIDE DEF t
  <2>4. t.turns \in Nat /\ t.rest \in Nat
    BY <2>2 DEF Tallies
  <2>5. more \in Nat /\ against \in Nat /\ more + against <= t.rest
    BY <2>2, <2>4
  <2>6. Passed(t) <=> Finally(t, more, against)
    BY <2>1, <2>2, <2>4, <2>5, EarlyDecisionsAreFinal
  <2> QED BY <2>1, <2>6 DEF Finally, t
<1> QED BY <1>1, AlwaysSound, PTL

\* A number stays with its motion, and what comes later has a greater number, so a
\* cast that arrives late counts for its motion or for none (find_vote_by_number).
THEOREM NumbersStayWithMotions == Spec => NumbersNameMotions
<1> DEFINE Named == \A w \in votes' :
             \/ \E v \in votes : /\ v.no = w.no /\ v.caller = w.caller
                                 /\ v.kind = w.kind /\ v.target = w.target
             \/ w.no > lastNo
<1>1. VoteInv /\ [Next]_vars => [Named]_vars
  <2>1. ASSUME VoteInv, Next PROVE Named
    <3>1. PICK r : Continued(r) /\ Become(r)
      BY <2>1, NextStep DEF Taken
    <3>2. votes' = r.votes
      BY <3>1 DEF Become
    <3> QED BY <3>1, <3>2 DEF Continued, SameMotion
  <2> QED BY <2>1
<1> QED BY <1>1, AlwaysSound, PTL DEF Spec, NumbersNameMotions

\* No motion to mute, unmute or kick passes by the vote of its caller alone while
\* somebody else may vote, for every number of voters (NOPASSALONE in vote_new).
THEOREM NobodyEverDecidesAlone == Spec => NobodyDecidesAlone
<1> DEFINE NotAlone == \A r \in resolved' :
             r.tally.no > lastNo /\ r.passed /\ r.tally.kind \in NoPassAlone
             => r.tally.voters = 1
<1>1. VoteInv /\ [Next]_vars => [NotAlone]_vars
  <2>1. ASSUME VoteInv, Next PROVE NotAlone
    <3>1. PICK r : Continued(r) /\ Become(r)
      BY <2>1, NextStep DEF Taken
    <3>2. resolved' = r.resolved
      BY <3>1 DEF Become
    <3> QED BY <3>1, <3>2 DEF Continued
  <2> QED BY <2>1
<1> QED BY <1>1, AlwaysSound, PTL DEF Spec, NobodyDecidesAlone
=============================================================================
