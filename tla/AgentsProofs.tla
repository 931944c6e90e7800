---------------------------- MODULE AgentsProofs ----------------------------
(***************************************************************************)
(* The requests and the freezes of the client: for every number of cities, *)
(* tiles and tries, every number where request numbers wrap, and however   *)
(* long the news and the requests that are under way get.                  *)
(*                                                                         *)
(* Two facts hold at every moment of a connection.  The number that the    *)
(* client has used last is the number that the server will have counted to *)
(* when it has served the requests under way.  And the news under way are  *)
(* a path from what the client counts, is frozen for and has been shown to *)
(* a client that is in no bracket, has counted as far as the server and is *)
(* shown what the server has.  What the properties say is read off from    *)
(* the two; for the promises of the agent, section 9 adds what the news    *)
(* that answer its requests may say.                                       *)
(***************************************************************************)
EXTENDS Agents, TLAPS, FiniteSetTheorems, SequenceTheorems, WellFoundedInduction

(***************************************************************************)
(* 1. Induction over the numbers up to a number.                           *)
(***************************************************************************)

LEMMA LeastNumber ==
    ASSUME NEW T, T \subseteq Nat, T # {}
    PROVE  \E i \in T : \A j \in T : i <= j
<1>1. \E i \in T : \A j \in T : ~(<<j, i>> \in OpToRel(<, Nat))
  BY WFMin, NatLessThanWellFounded, Zenon
<1>2. PICK i \in T : \A j \in T : ~(<<j, i>> \in OpToRel(<, Nat))
  BY <1>1
<1>3. ASSUME NEW j \in T PROVE i <= j
  <2>1. ~(j < i)
    BY <1>2 DEF OpToRel
  <2> QED BY <2>1
<1> QED BY <1>3

\* A set that holds 0 and with every number the next holds all the numbers.
LEMMA UpTo ==
    ASSUME NEW N \in Nat, NEW P, 0 \in P, \A n \in 1..N : n - 1 \in P => n \in P
    PROVE  \A n \in 0..N : n \in P
<1> DEFINE T == {n \in 0..N : n \notin P}
<1> SUFFICES ASSUME T # {} PROVE FALSE
  OBVIOUS
<1>1. T \subseteq Nat
  OBVIOUS
<1>2. PICK i \in T : \A j \in T : i <= j
  BY <1>1, LeastNumber
<1>3. i \in 1..N /\ i - 1 \in 0..N /\ ~(i <= i - 1)
  BY <1>2
<1>4. i - 1 \notin T
  BY <1>2, <1>3
<1> QED BY <1>2, <1>3, <1>4

(***************************************************************************)
(* 2. Request numbers.                                                     *)
(***************************************************************************)

Ids == 0..(IdMod - 1)

\* The number after a number is a number, and never 0.
LEMMA NextIdIsId ==
    ASSUME NEW i \in Ids
    PROVE  NextId(i) \in Ids /\ NextId(i) # 0
<1>1. i + 1 \in 1..IdMod /\ IdMod \in Nat /\ IdMod > 2
  BY AgentsAssumption DEF Ids
<1>2. CASE i + 1 = IdMod
  <2>1. IdMod % IdMod = 0
    BY <1>1
  <2> QED BY <1>1, <1>2, <2>1 DEF NextId, Ids
<1>3. CASE i + 1 # IdMod
  <2>1. (i + 1) % IdMod = i + 1
    BY <1>1, <1>3
  <2> QED BY <1>1, <1>3, <2>1 DEF NextId, Ids
<1> QED BY <1>2, <1>3

\* f counts n numbers from number id.
Counting(f, id, n) ==
    /\ f \in [0..n -> Ids]
    /\ f[0] = id
    /\ \A k \in 1..n : f[k] = NextId(f[k - 1])

LEMMA CountingExists ==
    ASSUME NEW N \in Nat, NEW id \in Ids
    PROVE  \E f : Counting(f, id, N)
<1> DEFINE P == {n \in 0..N : \E f : Counting(f, id, n)}
<1>1. 0 \in P
  <2> DEFINE f == [k \in 0..0 |-> id]
  <2>1. Counting(f, id, 0)
    BY DEF Counting
  <2> QED BY <2>1
<1>2. ASSUME NEW n \in 1..N, n - 1 \in P PROVE n \in P
  <2>1. PICK f : Counting(f, id, n - 1)
    BY <1>2
  <2> DEFINE g == [k \in 0..n |-> IF k = n THEN NextId(f[n - 1]) ELSE f[k]]
  <2>2. f[n - 1] \in Ids /\ NextId(f[n - 1]) \in Ids
    BY <2>1, NextIdIsId DEF Counting
  <2>3. \A k \in 0..n : k # n => k \in 0..(n - 1)
    OBVIOUS
  <2>4. g \in [0..n -> Ids] /\ g[0] = id
    BY <2>1, <2>2, <2>3 DEF Counting
  <2>5. ASSUME NEW k \in 1..n PROVE g[k] = NextId(g[k - 1])
    <3>1. g[k - 1] = f[k - 1]
      OBVIOUS
    <3>2. CASE k = n
      BY <3>1, <3>2
    <3>3. CASE k # n
      <4>1. k \in 1..(n - 1) /\ g[k] = f[k]
        BY <3>3
      <4> QED BY <2>1, <3>1, <4>1 DEF Counting
    <3> QED BY <3>2, <3>3
  <2>6. Counting(g, id, n)
    BY <2>4, <2>5 DEF Counting
  <2> QED BY <2>6
<1>3. N \in P
  <2> HIDE DEF P
  <2>1. \A n \in 1..N : n - 1 \in P => n \in P
    BY <1>2
  <2>2. \A n \in 0..N : n \in P
    BY <1>1, <2>1, UpTo
  <2> QED BY <2>2
<1> QED BY <1>3

\* There is one way to count.
LEMMA CountingUnique ==
    ASSUME NEW n \in Nat, NEW id, NEW f, Counting(f, id, n), NEW g, Counting(g, id, n)
    PROVE  f[n] = g[n]
<1> DEFINE P == {k \in 0..n : f[k] = g[k]}
<1>1. 0 \in P
  BY DEF Counting
<1>2. ASSUME NEW k \in 1..n, k - 1 \in P PROVE k \in P
  BY <1>2 DEF Counting
<1>3. \A k \in 0..n : k \in P
  <2> HIDE DEF P
  <2>1. \A k \in 1..n : k - 1 \in P => k \in P
    BY <1>2
  <2> QED BY <1>1, <2>1, UpTo
<1> QED BY <1>3

\* LastId is where counting ends.
LEMMA LastIdCounts ==
    ASSUME NEW n \in Nat, NEW id \in Ids, NEW f, Counting(f, id, n)
    PROVE  LastId(id, n) = f[n]
<1> DEFINE number[k \in 0..n] == IF k = 0 THEN id ELSE NextId(number[k - 1])
<1>1. LastId(id, n) = number[n]
  BY DEF LastId
<1>2. f = [k \in 0..n |-> IF k = 0 THEN id ELSE NextId(f[k - 1])]
  <2>1. ASSUME NEW k \in 0..n
        PROVE  f[k] = IF k = 0 THEN id ELSE NextId(f[k - 1])
    BY DEF Counting
  <2> QED BY <2>1 DEF Counting
<1>3. number = [k \in 0..n |-> IF k = 0 THEN id ELSE NextId(number[k - 1])]
  BY <1>2
<1> HIDE DEF number
<1>4. number[0] = id /\ \A k \in 1..n : number[k] = NextId(number[k - 1])
  BY <1>3
<1> DEFINE P == {k \in 0..n : f[k] = number[k]}
<1>5. 0 \in P
  BY <1>4 DEF Counting
<1>6. ASSUME NEW k \in 1..n, k - 1 \in P PROVE k \in P
  BY <1>4, <1>6 DEF Counting
<1>7. \A k \in 0..n : k \in P
  <2> HIDE DEF P
  <2>1. \A k \in 1..n : k - 1 \in P => k \in P
    BY <1>6
  <2> QED BY <1>5, <2>1, UpTo
<1> QED BY <1>1, <1>7

\* The last of n numbers is a number; the last of none is the one before.
LEMMA LastIdIsId ==
    ASSUME NEW n \in Nat, NEW id \in Ids
    PROVE  LastId(id, n) \in Ids /\ LastId(id, 0) = id
<1>1. PICK f : Counting(f, id, n)
  BY CountingExists
<1>2. LastId(id, n) \in Ids
  BY <1>1, LastIdCounts DEF Counting
<1>3. PICK g : Counting(g, id, 0)
  BY CountingExists
<1>4. LastId(id, 0) = id
  BY <1>3, LastIdCounts DEF Counting
<1> QED BY <1>2, <1>4

\* Counting n numbers and then m is counting n + m.
LEMMA LastIdJoins ==
    ASSUME NEW n \in Nat, NEW m \in Nat, NEW id \in Ids
    PROVE  LastId(LastId(id, n), m) = LastId(id, n + m)
<1>1. PICK f : Counting(f, id, n)
  BY CountingExists
<1>2. LastId(id, n) = f[n] /\ f[n] \in Ids
  BY <1>1, LastIdCounts DEF Counting
<1>3. PICK g : Counting(g, f[n], m)
  BY <1>2, CountingExists
<1>4. LastId(f[n], m) = g[m]
  BY <1>2, <1>3, LastIdCounts
<1> DEFINE h == [k \in 0..(n + m) |-> IF k <= n THEN f[k] ELSE g[k - n]]
<1>5. \A k \in 0..(n + m) : IF k <= n THEN k \in 0..n ELSE k - n \in 1..m /\ k - n \in 0..m
  OBVIOUS
<1>6. h \in [0..(n + m) -> Ids] /\ h[0] = id
  BY <1>1, <1>3, <1>5 DEF Counting
<1>7. ASSUME NEW k \in 1..(n + m) PROVE h[k] = NextId(h[k - 1])
  <2>1. CASE k <= n
    BY <1>1, <2>1 DEF Counting
  <2>2. CASE k = n + 1
    <3>1. h[k] = g[1] /\ h[k - 1] = f[n] /\ 1 \in 1..m
      BY <2>2
    <3>2. g[1] = NextId(g[1 - 1]) /\ g[0] = f[n] /\ 1 - 1 = 0
      BY <1>3, <3>1 DEF Counting
    <3> QED BY <3>1, <3>2
  <2>3. CASE k > n + 1
    <3>1. h[k] = g[k - n] /\ h[k - 1] = g[(k - n) - 1] /\ k - n \in 1..m
      BY <2>3
    <3> QED BY <1>3, <3>1 DEF Counting
  <2> QED BY <2>1, <2>2, <2>3
<1>8. Counting(h, id, n + m)
  BY <1>6, <1>7 DEF Counting
<1>9. LastId(id, n + m) = h[n + m]
  <2> HIDE DEF h
  <2> QED BY <1>8, LastIdCounts
<1>10. h[n + m] = g[m]
  <2>1. CASE m = 0
    BY <1>3, <2>1 DEF Counting
  <2>2. CASE m # 0
    BY <2>2
  <2> QED BY <2>1, <2>2
<1> QED BY <1>2, <1>4, <1>9, <1>10

LEMMA LastIdOne ==
    ASSUME NEW id \in Ids
    PROVE  LastId(id, 1) = NextId(id)
<1>1. PICK f : Counting(f, id, 1)
  BY CountingExists
<1>2. LastId(id, 1) = f[1]
  BY <1>1, LastIdCounts
<1>3. 1 \in 1..1 /\ 1 - 1 = 0
  OBVIOUS
<1>4. f[1] = NextId(f[0]) /\ f[0] = id
  BY <1>1, <1>3 DEF Counting
<1> QED BY <1>2, <1>4

(***************************************************************************)
(* 3. The news under way as a path.                                        *)
(***************************************************************************)

\* What the packets are
Packets ==
    [kind : {"city"}, city : Cities, data : ShownData \cup {NoCity}, id : Ids]
      \cup [kind : {"remove"}, city : Cities, data : {NoCity}, id : Ids]
      \cup [kind : {"managers"}, city : {NoCity}, data : SUBSET Cities, id : Ids]
      \cup [kind : {"started", "finished", "freeze", "thaw", "running"}, city : {NoCity},
            data : {NoCity}, id : Ids]

\* The packets that tell about a city
Tells(p) == p.kind \in {"city", "remove"}

\* What a client can be shown
Views == [Cities -> ShownData \cup {NoCity}]

\* What a client is at between two packets: the number of the answer it got last,
\* whether it is still getting it, how often it is frozen, whether the game is running
\* for it, and what it has been shown of the cities
Fronts == [id : Ids, open : BOOLEAN, depth : Nat, running : BOOLEAN, shown : Views]

\* A packet makes sense where a client is, and takes it further.  As long as the game
\* is not running, everything comes within the freeze of a join.
Fits(x, p) ==
    /\ p.kind = "started" => ~x.open /\ p.id = NextId(x.id)
    /\ p.kind = "finished" => x.open
    /\ p.kind = "managers" => ~x.running
    /\ Closing(p) => x.depth > 0
    /\ ~Opening(p) /\ ~x.running => x.depth > 1

After(x, p) ==
    [id |-> IF p.kind = "started" THEN NextId(x.id) ELSE x.id,
     open |-> IF p.kind = "started" THEN TRUE
              ELSE IF p.kind = "finished" THEN FALSE ELSE x.open,
     depth |-> IF Opening(p) THEN x.depth + 1
               ELSE IF Closing(p) THEN x.depth - 1 ELSE x.depth,
     running |-> IF p.kind = "running" THEN TRUE ELSE x.running,
     shown |-> IF Tells(p) THEN [x.shown EXCEPT ![p.city] = p.data] ELSE x.shown]

\* w are the places where the packets s take a client, each of which comes where E
\* allows it to.
Path(w, s, E) ==
    /\ w \in [0..Len(s) -> Fronts]
    /\ \A k \in 1..Len(s) :
         Fits(w[k - 1], s[k]) /\ w[k] = After(w[k - 1], s[k]) /\ <<w[k - 1], s[k]>> \in E

\* The packets s take a client from x to y.
Through(x, s, y, E) == \E w : Path(w, s, E) /\ w[0] = x /\ w[Len(s)] = y

\* Any packet may come anywhere.
Anywhere == Fronts \X Packets

LEMMA AfterIsFront ==
    ASSUME NEW x \in Fronts, NEW p \in Packets, Fits(x, p)
    PROVE  After(x, p) \in Fronts
<1>1. /\ NextId(x.id) \in Ids /\ x.depth \in Nat /\ x.open \in BOOLEAN /\ x.id \in Ids
      /\ x.running \in BOOLEAN /\ x.shown \in Views
  BY NextIdIsId DEF Fronts
<1>2. (IF Tells(p) THEN [x.shown EXCEPT ![p.city] = p.data] ELSE x.shown) \in Views
  <2>1. Tells(p) => p.city \in Cities /\ p.data \in ShownData \cup {NoCity}
    BY DEF Tells, Packets
  <2> QED BY <1>1, <2>1 DEF Views
<1>3. /\ (IF p.kind = "started" THEN NextId(x.id) ELSE x.id) \in Ids
      /\ (IF p.kind = "started" THEN TRUE ELSE IF p.kind = "finished" THEN FALSE ELSE x.open)
           \in BOOLEAN
      /\ (x.running \/ p.kind = "running") \in BOOLEAN
  BY <1>1
<1>4. (IF Opening(p) THEN x.depth + 1 ELSE IF Closing(p) THEN x.depth - 1 ELSE x.depth) \in Nat
  BY <1>1 DEF Fits
<1> QED BY <1>2, <1>3, <1>4 DEF After, Fronts

\* No packets lead nowhere, ...
LEMMA ThroughNone ==
    ASSUME NEW x \in Fronts, NEW E
    PROVE  Through(x, <<>>, x, E)
<1> DEFINE w == [k \in 0..0 |-> x]
<1>1. Len(<<>>) = 0
  OBVIOUS
<1>2. Path(w, <<>>, E) /\ w[0] = x
  BY <1>1 DEF Path
<1> QED BY <1>1, <1>2 DEF Through

\* ... one packet leads to what is after it, ...
LEMMA ThroughOne ==
    ASSUME NEW x \in Fronts, NEW p \in Packets, NEW E, Fits(x, p), <<x, p>> \in E
    PROVE  Through(x, <<p>>, After(x, p), E)
<1> DEFINE y == After(x, p)
           w == [k \in 0..1 |-> IF k = 0 THEN x ELSE y]
           s == <<p>>
<1>1. Len(s) = 1 /\ s[1] = p
  OBVIOUS
<1>2. y \in Fronts
  BY AfterIsFront
<1>3. w \in [0..1 -> Fronts] /\ w[0] = x /\ w[1] = y
  BY <1>2
<1> HIDE DEF s, w
<1>4. ASSUME NEW k \in 1..1
      PROVE  Fits(w[k - 1], s[k]) /\ w[k] = After(w[k - 1], s[k]) /\ <<w[k - 1], s[k]>> \in E
  <2>1. k = 1 /\ k - 1 = 0
    OBVIOUS
  <2> QED BY <1>1, <1>3, <2>1
<1>5. Path(w, s, E)
  BY <1>1, <1>3, <1>4 DEF Path
<1>6. Through(x, s, y, E)
  BY <1>1, <1>3, <1>5 DEF Through
<1> QED BY <1>6 DEF s

\* ... two sequences lead where the second leads from where the first has led, ...
LEMMA ThroughJoin ==
    ASSUME NEW s \in Seq(Packets), NEW t \in Seq(Packets), NEW x, NEW y, NEW z, NEW E,
           Through(x, s, y, E), Through(y, t, z, E)
    PROVE  Through(x, s \o t, z, E)
<1> DEFINE n == Len(s)
           m == Len(t)
           u == s \o t
<1>1. PICK v : Path(v, s, E) /\ v[0] = x /\ v[n] = y
  BY DEF Through
<1>2. PICK w : Path(w, t, E) /\ w[0] = y /\ w[m] = z
  BY DEF Through
<1>3. /\ n \in Nat /\ m \in Nat /\ u \in Seq(Packets) /\ Len(u) = n + m
      /\ \A i \in 1..(n + m) : u[i] = IF i <= n THEN s[i] ELSE t[i - n]
  BY ConcatProperties, LenProperties
<1> HIDE DEF u, n, m
<1> DEFINE h == [k \in 0..(n + m) |-> IF k <= n THEN v[k] ELSE w[k - n]]
<1>4. v \in [0..n -> Fronts] /\ w \in [0..m -> Fronts]
  BY <1>1, <1>2 DEF Path, n, m
<1>5. h \in [0..(n + m) -> Fronts]
  <2>1. \A k \in 0..(n + m) : IF k <= n THEN k \in 0..n ELSE k - n \in 0..m
    BY <1>3
  <2> QED BY <1>4, <2>1
<1>6. h[0] = x /\ h[n + m] = z
  <2>1. h[0] = x
    BY <1>1, <1>3
  <2>2. CASE m = 0
    BY <1>1, <1>2, <1>3, <2>2
  <2>3. CASE m # 0
    <3>1. n + m \in 0..(n + m) /\ ~(n + m <= n) /\ (n + m) - n = m
      BY <1>3, <2>3
    <3> QED BY <1>2, <2>1, <3>1
  <2> QED BY <2>1, <2>2, <2>3
<1>7. ASSUME NEW k \in 1..(n + m)
      PROVE  Fits(h[k - 1], u[k]) /\ h[k] = After(h[k - 1], u[k]) /\ <<h[k - 1], u[k]>> \in E
  <2>1. CASE k <= n
    <3>1. h[k] = v[k] /\ h[k - 1] = v[k - 1] /\ u[k] = s[k] /\ k \in 1..n
      BY <1>3, <2>1
    <3> QED BY <1>1, <3>1 DEF Path, n
  <2>2. CASE k > n
    <3>1. k - n \in 1..m /\ h[k] = w[k - n] /\ u[k] = t[k - n]
      BY <1>3, <2>2
    <3>2. h[k - 1] = w[(k - n) - 1]
      <4>1. CASE k = n + 1
        <5>1. h[k - 1] = v[n] /\ (k - n) - 1 = 0
          BY <1>3, <4>1
        <5> QED BY <1>1, <1>2, <5>1
      <4>2. CASE k # n + 1
        BY <1>3, <2>2, <4>2
      <4> QED BY <4>1, <4>2
    <3> HIDE DEF h
    <3>3. /\ Fits(w[(k - n) - 1], t[k - n]) /\ w[k - n] = After(w[(k - n) - 1], t[k - n])
          /\ <<w[(k - n) - 1], t[k - n]>> \in E
      BY <1>2, <3>1 DEF Path, m
    <3> QED BY <3>1, <3>2, <3>3
  <2>3. k \in Int /\ n \in Int
    BY <1>3
  <2> QED BY <2>1, <2>2, <2>3
<1> HIDE DEF h
<1>8. Path(h, u, E)
  BY <1>3, <1>5, <1>7 DEF Path
<1> QED BY <1>3, <1>6, <1>8 DEF Through, u

\* ... and what a sequence leads to is led to by its tail from behind its head.
LEMMA ThroughTail ==
    ASSUME NEW s \in Seq(Packets), s # <<>>, NEW x, NEW y, NEW E,
           Through(x, s, y, E)
    PROVE  /\ Fits(x, Head(s)) /\ <<x, Head(s)>> \in E
           /\ Through(After(x, Head(s)), Tail(s), y, E)
<1> DEFINE n == Len(s)
           t == Tail(s)
<1>1. PICK w : Path(w, s, E) /\ w[0] = x /\ w[n] = y
  BY DEF Through
<1>2. /\ n \in Nat \ {0} /\ t \in Seq(Packets) /\ Len(t) = n - 1
      /\ \A i \in 1..(n - 1) : t[i] = s[i + 1]
      /\ Head(s) = s[1]
  BY HeadTailProperties, EmptySeq, LenProperties
<1> HIDE DEF n, t
<1>3. /\ w \in [0..n -> Fronts]
      /\ \A k \in 1..n :
           Fits(w[k - 1], s[k]) /\ w[k] = After(w[k - 1], s[k]) /\ <<w[k - 1], s[k]>> \in E
  BY <1>1 DEF Path, n
<1>4. Fits(x, Head(s)) /\ w[1] = After(x, Head(s)) /\ <<x, Head(s)>> \in E
  <2>1. 1 \in 1..n /\ 1 - 1 = 0
    BY <1>2
  <2>2. Fits(w[1 - 1], s[1]) /\ w[1] = After(w[1 - 1], s[1]) /\ <<w[1 - 1], s[1]>> \in E
    BY <1>3, <2>1
  <2> QED BY <1>1, <1>2, <2>1, <2>2
<1> DEFINE v == [k \in 0..(n - 1) |-> w[k + 1]]
<1>5. v \in [0..(n - 1) -> Fronts] /\ v[0] = w[1] /\ v[n - 1] = y
  <2>1. \A k \in 0..(n - 1) : k + 1 \in 0..n
    BY <1>2
  <2> QED BY <1>1, <1>2, <1>3, <2>1
<1>6. ASSUME NEW k \in 1..(n - 1)
      PROVE  Fits(v[k - 1], t[k]) /\ v[k] = After(v[k - 1], t[k]) /\ <<v[k - 1], t[k]>> \in E
  <2>1. v[k - 1] = w[(k + 1) - 1] /\ v[k] = w[k + 1] /\ t[k] = s[k + 1] /\ k + 1 \in 1..n
    BY <1>2
  <2> HIDE DEF v
  <2> QED BY <1>3, <2>1
<1> HIDE DEF v
<1>7. Path(v, t, E)
  BY <1>2, <1>5, <1>6 DEF Path
<1>8. Through(After(x, Head(s)), t, y, E)
  BY <1>2, <1>4, <1>5, <1>7 DEF Through
<1> QED BY <1>4, <1>8 DEF t

LEMMA ThroughTwo ==
    ASSUME NEW x \in Fronts, NEW p \in Packets, NEW q \in Packets, NEW E,
           Fits(x, p), Fits(After(x, p), q),
           <<x, p>> \in E, <<After(x, p), q>> \in E
    PROVE  Through(x, <<p, q>>, After(After(x, p), q), E)
<1>1. <<p>> \in Seq(Packets) /\ <<q>> \in Seq(Packets) /\ <<p, q>> \in Seq(Packets)
  OBVIOUS
<1>4. <<p>> \o <<q>> = <<p, q>>
  <2>1. Len(<<p>>) = 1 /\ Len(<<q>>) = 1 /\ Len(<<p, q>>) = 2
    OBVIOUS
  <2> DEFINE s == <<p>> \o <<q>>
             t == <<p, q>>
  <2>2. s \in Seq(Packets) /\ Len(s) = 2 /\ s[1] = p /\ s[2] = q
    BY <1>1, <2>1, ConcatProperties
  <2>3. t \in Seq(Packets) /\ Len(t) = 2 /\ t[1] = p /\ t[2] = q
    BY <1>1, <2>1
  <2> HIDE DEF s, t
  <2>4. \A i \in 1..Len(s) : s[i] = t[i]
    BY <2>2, <2>3
  <2>5. s = t
    BY <2>2, <2>3, <2>4, SeqEqual
  <2> QED BY <2>5 DEF s, t
<1>2. Through(x, <<p>>, After(x, p), E) /\ Through(After(x, p), <<q>>, After(After(x, p), q), E)
  BY AfterIsFront, ThroughOne
<1>3. Through(x, <<p>> \o <<q>>, After(After(x, p), q), E)
  BY <1>1, <1>2, ThroughJoin
<1> QED BY <1>3, <1>4

LEMMA ThroughThree ==
    ASSUME NEW x \in Fronts, NEW p \in Packets, NEW q \in Packets, NEW r \in Packets, NEW E,
           Fits(x, p), Fits(After(x, p), q), Fits(After(After(x, p), q), r),
           <<x, p>> \in E, <<After(x, p), q>> \in E, <<After(After(x, p), q), r>> \in E
    PROVE  Through(x, <<p, q, r>>, After(After(After(x, p), q), r), E)
<1>1. <<p, q>> \in Seq(Packets) /\ <<r>> \in Seq(Packets)
  OBVIOUS
<1>5. <<p, q>> \o <<r>> = <<p, q, r>>
  <2>1. Len(<<p, q>>) = 2 /\ Len(<<r>>) = 1 /\ Len(<<p, q, r>>) = 3
    OBVIOUS
  <2> DEFINE s == <<p, q>> \o <<r>>
             t == <<p, q, r>>
  <2>2. s \in Seq(Packets) /\ Len(s) = 3 /\ s[1] = p /\ s[2] = q /\ s[3] = r
    BY <1>1, <2>1, ConcatProperties
  <2>3. t \in Seq(Packets) /\ Len(t) = 3 /\ t[1] = p /\ t[2] = q /\ t[3] = r
    BY <1>1, <2>1
  <2> HIDE DEF s, t
  <2>4. \A i \in 1..Len(s) : s[i] = t[i]
    BY <2>2, <2>3
  <2>5. s = t
    BY <2>2, <2>3, <2>4, SeqEqual
  <2> QED BY <2>5 DEF s, t
<1>2. After(After(x, p), q) \in Fronts
  BY AfterIsFront
<1>3. /\ Through(x, <<p, q>>, After(After(x, p), q), E)
      /\ Through(After(After(x, p), q), <<r>>, After(After(After(x, p), q), r), E)
  BY <1>2, ThroughTwo, ThroughOne
<1>4. Through(x, <<p, q>> \o <<r>>, After(After(After(x, p), q), r), E)
  BY <1>1, <1>3, ThroughJoin
<1> QED BY <1>4, <1>5
LEMMA ThroughFour ==
    ASSUME NEW x \in Fronts, NEW p \in Packets, NEW q \in Packets, NEW r \in Packets,
           NEW s \in Packets, NEW E,
           Fits(x, p), Fits(After(x, p), q), Fits(After(After(x, p), q), r),
           Fits(After(After(After(x, p), q), r), s),
           <<x, p>> \in E, <<After(x, p), q>> \in E, <<After(After(x, p), q), r>> \in E,
           <<After(After(After(x, p), q), r), s>> \in E
    PROVE  Through(x, <<p, q, r, s>>, After(After(After(After(x, p), q), r), s), E)
<1>1. <<p, q>> \in Seq(Packets) /\ <<r, s>> \in Seq(Packets)
  OBVIOUS
<1>2. <<p, q>> \o <<r, s>> = <<p, q, r, s>>
  <2>1. Len(<<p, q>>) = 2 /\ Len(<<r, s>>) = 2 /\ Len(<<p, q, r, s>>) = 4
    OBVIOUS
  <2> DEFINE t == <<p, q>> \o <<r, s>>
             u == <<p, q, r, s>>
  <2>2. t \in Seq(Packets) /\ Len(t) = 4 /\ t[1] = p /\ t[2] = q /\ t[3] = r /\ t[4] = s
    BY <1>1, <2>1, ConcatProperties
  <2>3. u \in Seq(Packets) /\ Len(u) = 4 /\ u[1] = p /\ u[2] = q /\ u[3] = r /\ u[4] = s
    BY <1>1, <2>1
  <2> HIDE DEF t, u
  <2>4. \A i \in 1..Len(t) : t[i] = u[i]
    BY <2>2, <2>3
  <2>5. t = u
    BY <2>2, <2>3, <2>4, SeqEqual
  <2> QED BY <2>5 DEF t, u
<1> DEFINE y == After(After(x, p), q)
<1>3. y \in Fronts
  BY AfterIsFront
<1>4. Through(x, <<p, q>>, y, E)
  BY ThroughTwo
<1> HIDE DEF y
<1>5. Through(y, <<r, s>>, After(After(y, r), s), E)
  <2>1. Fits(y, r) /\ Fits(After(y, r), s) /\ <<y, r>> \in E /\ <<After(y, r), s>> \in E
    BY DEF y
  <2> QED BY <1>3, <2>1, ThroughTwo
<1>6. Through(x, <<p, q>> \o <<r, s>>, After(After(y, r), s), E)
  BY <1>1, <1>4, <1>5, ThroughJoin
<1> QED BY <1>2, <1>6 DEF y

\* Along a path every bracket is closed that was opened, but for the depth.
LEMMA PathBalanced ==
    ASSUME NEW s \in Seq(Packets), NEW x, NEW y, NEW E, Through(x, s, y, E)
    PROVE  /\ Cardinality({i \in DOMAIN s : Opening(s[i])}) \in Nat
           /\ Cardinality({i \in DOMAIN s : Closing(s[i])}) \in Nat
           /\ x.depth + Cardinality({i \in DOMAIN s : Opening(s[i])})
                = y.depth + Cardinality({i \in DOMAIN s : Closing(s[i])})
<1> DEFINE n == Len(s)
           O(k) == {i \in 1..k : Opening(s[i])}
           C(k) == {i \in 1..k : Closing(s[i])}
<1>1. PICK w : Path(w, s, E) /\ w[0] = x /\ w[n] = y
  BY DEF Through
<1>2. n \in Nat /\ DOMAIN s = 1..n
  BY LenProperties
<1> DEFINE Balanced(k) == x.depth + Cardinality(O(k)) = w[k].depth + Cardinality(C(k))
           B == {k \in 0..n : Balanced(k)}
<1>3. ASSUME NEW k \in 0..n
      PROVE  /\ IsFiniteSet(O(k)) /\ Cardinality(O(k)) \in Nat
             /\ IsFiniteSet(C(k)) /\ Cardinality(C(k)) \in Nat
  <2>1. IsFiniteSet(1..k)
    BY FS_Interval
  <2>2. O(k) \in SUBSET (1..k) /\ C(k) \in SUBSET (1..k)
    OBVIOUS
  <2>3. IsFiniteSet(O(k)) /\ IsFiniteSet(C(k))
    BY <2>1, <2>2, FS_Subset
  <2> QED BY <2>3, FS_CardinalityType
<1>4. 0 \in B
  <2>1. O(0) = {} /\ C(0) = {}
    OBVIOUS
  <2>2. Balanced(0)
    BY <1>1, <2>1
  <2> QED BY <1>2, <2>2
<1>5. ASSUME NEW k \in 1..n, k - 1 \in B PROVE k \in B
  <2>1. Fits(w[k - 1], s[k]) /\ w[k] = After(w[k - 1], s[k])
    BY <1>1 DEF Path
  <2>2. w[k - 1].depth \in Nat /\ x.depth \in Nat /\ k - 1 \in 0..n /\ k \in 0..n
    <3>1. k - 1 \in 0..n /\ k \in 0..n /\ 0 \in 0..n
      BY <1>2
    <3>2. w[k - 1] \in Fronts /\ w[0] \in Fronts
      BY <1>1, <3>1 DEF Path
    <3> QED BY <1>1, <3>1, <3>2 DEF Fronts
  <2>3. O(k) = (IF Opening(s[k]) THEN O(k - 1) \cup {k} ELSE O(k - 1)) /\ k \notin O(k - 1)
    <3>1. 1..k = (1..(k - 1)) \cup {k}
      OBVIOUS
    <3> QED BY <3>1
  <2>4. C(k) = (IF Closing(s[k]) THEN C(k - 1) \cup {k} ELSE C(k - 1)) /\ k \notin C(k - 1)
    <3>1. 1..k = (1..(k - 1)) \cup {k}
      OBVIOUS
    <3> QED BY <3>1
  <2>5. /\ IsFiniteSet(O(k - 1)) /\ Cardinality(O(k - 1)) \in Nat
        /\ IsFiniteSet(C(k - 1)) /\ Cardinality(C(k - 1)) \in Nat
    BY <1>3, <2>2
  <2> DEFINE opened == Cardinality(O(k - 1))
             closed == Cardinality(C(k - 1))
             depth == w[k - 1].depth
  <2>6. x.depth + opened = depth + closed
    BY <1>5
  <2> HIDE DEF O, C
  <2>7. Cardinality(O(k)) = IF Opening(s[k]) THEN opened + 1 ELSE opened
    BY <2>3, <2>5, FS_AddElement
  <2>8. Cardinality(C(k)) = IF Closing(s[k]) THEN closed + 1 ELSE closed
    BY <2>4, <2>5, FS_AddElement
  <2> HIDE DEF opened, closed
  <2>9. x.depth + Cardinality(O(k)) = w[k].depth + Cardinality(C(k))
    <3>1. opened \in Nat /\ closed \in Nat /\ depth \in Nat /\ x.depth \in Nat
      BY <2>2, <2>5 DEF opened, closed
    <3>2. CASE Opening(s[k])
      <4>1. w[k].depth = depth + 1 /\ Cardinality(O(k)) = opened + 1 /\ Cardinality(C(k)) = closed
        BY <2>1, <2>7, <2>8, <3>2 DEF After, Opening, Closing
      <4> HIDE DEF depth
      <4>2. x.depth + (opened + 1) = (depth + 1) + closed
        BY <2>6, <3>1
      <4> QED BY <4>1, <4>2
    <3>3. CASE Closing(s[k])
      <4>1. w[k].depth = depth - 1 /\ Cardinality(O(k)) = opened /\ Cardinality(C(k)) = closed + 1
        BY <2>1, <2>7, <2>8, <3>3 DEF After, Opening, Closing
      <4> HIDE DEF depth
      <4>2. x.depth + opened = (depth - 1) + (closed + 1)
        BY <2>6, <3>1
      <4> QED BY <4>1, <4>2
    <3>4. CASE ~Opening(s[k]) /\ ~Closing(s[k])
      <4>1. w[k].depth = depth /\ Cardinality(O(k)) = opened /\ Cardinality(C(k)) = closed
        BY <2>1, <2>7, <2>8, <3>4 DEF After
      <4> QED BY <2>6, <4>1
    <3> QED BY <3>2, <3>3, <3>4
  <2> QED BY <2>2, <2>9
<1>6. n \in B
  <2> HIDE DEF B
  <2>1. \A k \in 1..n : k - 1 \in B => k \in B
    BY <1>5
  <2>2. \A k \in 0..n : k \in B
    BY <1>2, <1>4, <2>1, UpTo
  <2> QED BY <1>2, <2>2
<1>7. Balanced(n) /\ Cardinality(O(n)) \in Nat /\ Cardinality(C(n)) \in Nat
  BY <1>2, <1>3, <1>6
<1> QED BY <1>1, <1>2, <1>7

\* Along a path the number changes where an answer starts, and only there.
LEMMA PathNumbers ==
    ASSUME NEW s \in Seq(Packets), NEW x, NEW y, NEW E, Through(x, s, y, E),
           NEW i \in 0..Len(s), \A k \in 1..i : s[k].kind # "started"
    PROVE  /\ i = Len(s) => y.id = x.id
           /\ i + 1 \in DOMAIN s /\ s[i + 1].kind = "started" => s[i + 1].id = NextId(x.id)
<1>1. PICK w : Path(w, s, E) /\ w[0] = x /\ w[Len(s)] = y
  BY DEF Through
<1>2. Len(s) \in Nat /\ DOMAIN s = 1..Len(s)
  BY LenProperties
<1> DEFINE P == {k \in 0..i : w[k].id = x.id}
<1>3. 0 \in P
  BY <1>1
<1>4. ASSUME NEW k \in 1..i, k - 1 \in P PROVE k \in P
  <2>1. k \in 1..Len(s) /\ s[k].kind # "started"
    BY <1>2
  <2>2. w[k] = After(w[k - 1], s[k])
    BY <1>1, <2>1 DEF Path
  <2>3. w[k].id = w[k - 1].id
    BY <2>1, <2>2 DEF After
  <2> QED BY <1>4, <2>3
<1>5. w[i].id = x.id
  <2>1. i \in Nat
    BY <1>2
  <2>2. \A k \in 0..i : k \in P
    <3> HIDE DEF P
    <3>1. \A k \in 1..i : k - 1 \in P => k \in P
      BY <1>4
    <3> QED BY <1>3, <2>1, <3>1, UpTo
  <2> QED BY <2>1, <2>2
<1>6. ASSUME i + 1 \in DOMAIN s, s[i + 1].kind = "started" PROVE s[i + 1].id = NextId(x.id)
  <2>1. i + 1 \in 1..Len(s) /\ (i + 1) - 1 = i
    BY <1>2, <1>6
  <2>2. Fits(w[(i + 1) - 1], s[i + 1])
    BY <1>1, <2>1 DEF Path
  <2> QED BY <1>5, <1>6, <2>1, <2>2 DEF Fits
<1> QED BY <1>1, <1>5, <1>6

(***************************************************************************)
(* 4. The invariant.                                                       *)
(***************************************************************************)

Requests ==
    [city : Cities, tile : Tiles, to : {"specialist", "worker"}]
      \cup [city : Cities, to : {"param", "release"}]

Typed ==
    /\ city \in [Cities -> CityData \cup {NoCity}]
    /\ view \in Views
    /\ managed \subseteq Cities /\ ignored \subseteq Cities
    /\ up \in BOOLEAN /\ running \in BOOLEAN
    /\ requests \in Seq(Requests) /\ news \in Seq(Packets)
    /\ calls \subseteq [city : Cities, callback : {"change", "remove"}]
    /\ frozen \in Nat
    /\ counted \in Ids /\ used \in Ids /\ seen \in Ids /\ handled \in Ids
    /\ awaited \in Ids \X Ids
    /\ pc \in {"main", "loop", "try", "wait", "judge"}
    /\ fault \in {"none", "assert", "dangling"}

\* What the agent is at is about a city.
Shaped ==
    /\ job = [city |-> job.city, try |-> job.try, goal |-> job.goal, fresh |-> job.fresh]
    /\ putting = [city |-> putting.city, fresh |-> putting.fresh]
    /\ putting.city \in Cities \cup {NoCity}
    /\ pc \in {"try", "wait", "judge"} => job.city \in Cities

\* Where the client is, and where the news lead it
Here ==
    [id |-> IF handled = 0 THEN seen ELSE handled, open |-> handled # 0, depth |-> frozen,
     running |-> running, shown |-> view]

ShownAll(cities) == [c \in Cities |-> Shown(cities, c)]
Settled(id, cities) ==
    [id |-> id, open |-> FALSE, depth |-> 0, running |-> TRUE, shown |-> ShownAll(cities)]

InTouch ==
    IF up THEN /\ used = LastId(counted, Len(requests))
               /\ Through(Here, news, Settled(counted, city), Anywhere)
    ELSE /\ requests = <<>> /\ news = <<>> /\ frozen = 0 /\ running = FALSE
         /\ view = [c \in Cities |-> NoCity]

NoCallLeft == pc = "main" /\ frozen = 0 => calls = {}

Sound == Typed /\ Shaped /\ InTouch /\ NoCallLeft

\* What the invariant says
LEMMA SoundIsTyped ==
    ASSUME Sound
    PROVE  TypeOK
<1>1. /\ \A c \in Cities : city[c] = NoCity \/ city[c] \in CityData
      /\ \A c \in Cities : view[c] = NoCity \/ view[c] \in ShownData
  BY DEF Sound, Typed, Views
<1>2. {counted, used, seen, handled} \cup {awaited[1], awaited[2]} \subseteq 0..(IdMod - 1)
  BY DEF Sound, Typed, Ids
<1> QED BY <1>1, <1>2 DEF Sound, Typed, TypeOK, Exists

LEMMA SoundFreezesEnd ==
    ASSUME Sound
    PROVE  FreezesEnd
<1> DEFINE O == {i \in DOMAIN news : Opening(news[i])}
           C == {i \in DOMAIN news : Closing(news[i])}
<1>1. frozen = Cardinality(C) - Cardinality(O)
  <2>1. CASE up
    <3>1. /\ Through(Here, news, Settled(counted, city), Anywhere)
          /\ news \in Seq(Packets) /\ frozen \in Nat
      BY <2>1 DEF Sound, InTouch, Typed
    <3>2. Here.depth = frozen /\ Settled(counted, city).depth = 0
      BY DEF Here, Settled
    <3>3. /\ Cardinality(O) \in Nat /\ Cardinality(C) \in Nat
          /\ Here.depth + Cardinality(O) = Settled(counted, city).depth + Cardinality(C)
      BY <3>1, PathBalanced
    <3> HIDE DEF O, C
    <3> QED BY <3>1, <3>2, <3>3
  <2>2. CASE ~up
    <3>1. news = <<>> /\ frozen = 0
      BY <2>2 DEF Sound, InTouch
    <3>2. O = {} /\ C = {}
      BY <3>1
    <3> HIDE DEF O, C
    <3> QED BY <3>1, <3>2, FS_EmptySet
  <2> QED BY <2>1, <2>2
<1> QED BY <1>1 DEF Sound, NoCallLeft, FreezesEnd

LEMMA SoundIdsInStep ==
    ASSUME Sound
    PROVE  IdsInStep
<1> DEFINE started == {i \in DOMAIN news : news[i].kind = "started"}
           taken == IF handled = 0 THEN seen ELSE handled
<1> SUFFICES ASSUME up
    PROVE  /\ \A i \in started : (\A j \in started : i <= j) => news[i].id = NextId(taken)
           /\ started = {} /\ requests = <<>> => counted = used /\ used = taken
  BY DEF IdsInStep
<1>1. /\ news \in Seq(Packets) /\ requests \in Seq(Requests) /\ counted \in Ids
      /\ used = LastId(counted, Len(requests))
      /\ Through(Here, news, Settled(counted, city), Anywhere)
  BY DEF Sound, Typed, InTouch
<1>2. Here.id = taken /\ Settled(counted, city).id = counted
  BY DEF Here, Settled
<1>3. Len(news) \in Nat /\ DOMAIN news = 1..Len(news)
  BY <1>1, LenProperties
<1>4. ASSUME NEW i \in started, \A j \in started : i <= j PROVE news[i].id = NextId(taken)
  <2> DEFINE before == i - 1
  <2>1. before \in 0..Len(news) /\ before + 1 = i
    BY <1>3
  <2>2. \A k \in 1..before : news[k].kind # "started"
    BY <1>3, <1>4
  <2>3. i \in DOMAIN news /\ news[i].kind = "started"
    OBVIOUS
  <2> HIDE DEF taken, before
  <2> QED BY <1>1, <1>2, <2>1, <2>2, <2>3, PathNumbers
<1>5. ASSUME started = {}, requests = <<>> PROVE counted = used /\ used = taken
  <2>1. Len(news) \in 0..Len(news) /\ \A k \in 1..Len(news) : news[k].kind # "started"
    BY <1>3, <1>5
  <2>2. counted = taken
    <3> HIDE DEF taken
    <3> QED BY <1>1, <1>2, <2>1, PathNumbers
  <2>3. Len(requests) = 0
    BY <1>5
  <2>4. used = counted
    BY <1>1, <2>3, LastIdIsId
  <2> QED BY <2>2, <2>4
<1> QED BY <1>4, <1>5

(***************************************************************************)
(* 5. Sequences that are sent.                                             *)
(***************************************************************************)

LEMMA SetToSeqIsSeq ==
    ASSUME NEW T, IsFiniteSet(T)
    PROVE  SetToSeq(T) \in Seq(T) /\ Len(SetToSeq(T)) = Cardinality(T)
<1>1. Cardinality(T) \in Nat /\ ExistsBijection(1..Cardinality(T), T)
  BY FS_CardinalityType
<1>2. \E f \in [1..Cardinality(T) -> T] : IsInjective(f)
  BY <1>1 DEF ExistsBijection, Bijection, Injection
<1>3. SetToSeq(T) \in [1..Cardinality(T) -> T]
  BY <1>2 DEF SetToSeq
<1> QED BY <1>1, <1>3

\* A set made a sequence has every element once.
LEMMA SetToSeqIsBijection ==
    ASSUME NEW T, IsFiniteSet(T)
    PROVE  /\ \A x \in T : \E i \in DOMAIN SetToSeq(T) : SetToSeq(T)[i] = x
           /\ \A i, j \in DOMAIN SetToSeq(T) : SetToSeq(T)[i] = SetToSeq(T)[j] => i = j
<1> DEFINE n == Cardinality(T)
           f == SetToSeq(T)
<1>1. n \in Nat /\ ExistsBijection(1..n, T)
  BY FS_CardinalityType
<1>2. \E g \in [1..n -> T] : IsInjective(g)
  BY <1>1 DEF ExistsBijection, Bijection, Injection
<1>3. f \in [1..n -> T] /\ IsInjective(f)
  BY <1>2 DEF SetToSeq
<1> HIDE DEF f, n
<1>4. f \in Injection(1..n, T)
  BY <1>3 DEF Injection
<1>5. IsFiniteSet(1..n) /\ Cardinality(1..n) = n
  <2>1. Cardinality(1..n) = (IF 1 > n THEN 0 ELSE n - 1 + 1) /\ IsFiniteSet(1..n)
    BY <1>1, FS_Interval
  <2> QED BY <1>1, <2>1
<1>6. f \in Surjection(1..n, T)
  BY <1>4, <1>5, FS_Injection DEF n
<1>7. \A x \in T : \E i \in DOMAIN f : f[i] = x
  BY <1>6 DEF Surjection
<1>8. \A i, j \in DOMAIN f : f[i] = f[j] => i = j
  BY <1>3 DEF IsInjective
<1> QED BY <1>7, <1>8 DEF f

LEMMA OrderedIsSeq ==
    ASSUME NEW c \in Cities, NEW T, T \subseteq Tiles, NEW to \in {"specialist", "worker"}
    PROVE  Ordered(c, T, to) \in Seq(Requests) /\ Len(Ordered(c, T, to)) = Cardinality(T)
<1>1. IsFiniteSet(T)
  BY AgentsAssumption, FS_Subset
<1>2. Cardinality(T) \in Nat
  BY <1>1, FS_CardinalityType
<1>3. SetToSeq(T) \in Seq(T) /\ Len(SetToSeq(T)) = Cardinality(T)
  BY <1>1, SetToSeqIsSeq
<1> DEFINE n == Cardinality(T)
<1>4. ASSUME NEW i \in 1..n
      PROVE  [city |-> c, tile |-> SetToSeq(T)[i], to |-> to] \in Requests
  <2>1. SetToSeq(T)[i] \in T
    BY <1>3, ElementOfSeq
  <2> QED BY <2>1 DEF Requests
<1>5. Ordered(c, T, to) \in [1..n -> Requests]
  BY <1>4 DEF Ordered
<1> HIDE DEF n
<1>6. n \in Nat
  BY <1>2 DEF n
<1>7. Ordered(c, T, to) \in Seq(Requests) /\ Len(Ordered(c, T, to)) = n
  BY <1>5, <1>6
<1> QED BY <1>7 DEF n

LEMMA OrderedOne ==
    ASSUME NEW c \in Cities, NEW t \in Tiles, NEW to \in {"specialist", "worker"}
    PROVE  Ordered(c, {t}, to) \in Seq(Requests) /\ Len(Ordered(c, {t}, to)) = 1
<1>1. Cardinality({t}) = 1
  BY FS_Singleton
<1>2. {t} \subseteq Tiles
  OBVIOUS
<1> QED BY <1>1, <1>2, OrderedIsSeq

\* One request that tells what the agent does
LEMMA ToldIsSeq ==
    ASSUME NEW c \in Cities, NEW S
    PROVE  Told(c, S) \in Requests /\ <<Told(c, S)>> \in Seq(Requests)
<1>1. Told(c, S) \in Requests
  BY DEF Told, Requests
<1> QED BY <1>1

LEMMA MarkIsPacket ==
    ASSUME NEW kind \in {"started", "finished", "freeze", "thaw", "running"}, NEW id \in Ids
    PROVE  Mark(kind, id) \in Packets /\ Mark(kind, id).kind = kind /\ Mark(kind, id).id = id
BY DEF Mark, Packets

LEMMA SmallIds ==
    /\ 0 \in Ids /\ 1 \in Ids
    /\ NextId(0) = 1
<1>1. 0 \in Ids /\ 1 \in Ids
  BY AgentsAssumption DEF Ids
<1>2. (0 + 1) % IdMod = 1
  BY AgentsAssumption
<1> QED BY <1>1, <1>2 DEF NextId

\* What is open to a city
LEMMA InOpen ==
    ASSUME NEW cities, NEW c \in Cities, NEW t
    PROVE  t \in Open(cities, c)
             <=> t \in Near[c] /\ \A d \in Cities \ {c} : Exists(cities, d) => t \notin cities[d].work
BY DEF Open

\* What the client is shown
LEMMA ShownIsData ==
    ASSUME NEW cities \in [Cities -> CityData \cup {NoCity}]
    PROVE  /\ \A c \in Cities : Shown(cities, c) \in ShownData \cup {NoCity}
           /\ \A c \in Cities : ~Exists(cities, c) => Shown(cities, c) = NoCity
           /\ ShownAll(cities) \in Views
<1>1. ASSUME NEW c \in Cities
      PROVE  /\ Shown(cities, c) \in ShownData \cup {NoCity}
             /\ ~Exists(cities, c) => Shown(cities, c) = NoCity
  <2>1. Open(cities, c) \subseteq Tiles
    <3>1. Near[c] \subseteq Tiles
      BY AgentsAssumption
    <3> QED BY <3>1, InOpen
  <2>2. CASE Own(cities, c)
    <3>1. cities[c] \in CityData
      BY <2>2 DEF Own, Exists
    <3>2. cities[c].setting \in Settings /\ cities[c].work \in SUBSET Tiles
      BY <3>1 DEF CityData
    <3> QED BY <2>1, <2>2, <3>2 DEF Shown, ShownData, Own
  <2>3. CASE ~Own(cities, c) /\ Exists(cities, c)
    <3>1. Abroad \in ShownData
      BY AgentsAssumption DEF Abroad, ShownData
    <3> QED BY <2>3, <3>1 DEF Shown
  <2>4. CASE ~Exists(cities, c)
    BY <2>4 DEF Shown, Own
  <2> QED BY <2>2, <2>3, <2>4
<1> QED BY <1>1 DEF ShownAll, Views

\* The packet of a city
News(c) ==
    [kind |-> IF Exists(city', c) THEN "city" ELSE "remove", city |-> c,
     data |-> Shown(city', c), id |-> 0]

LEMMA NewsIsPacket ==
    ASSUME city' \in [Cities -> CityData \cup {NoCity}], NEW c \in Cities
    PROVE  /\ News(c) \in Packets /\ Tells(News(c)) /\ News(c).city = c
           /\ News(c).data = Shown(city', c)
<1>1. Shown(city', c) \in ShownData \cup {NoCity} /\ (~Exists(city', c) => Shown(city', c) = NoCity)
  BY ShownIsData
<1> QED BY <1>1, SmallIds DEF News, Packets, Tells

At(x, v) == [id |-> x.id, open |-> x.open, depth |-> x.depth, running |-> x.running, shown |-> v]

\* The news of some cities show a client what has become of them.
LEMMA InfosPath ==
    ASSUME city' \in [Cities -> CityData \cup {NoCity}], NEW C, C \subseteq Cities,
           NEW x \in Fronts, x.running \/ x.depth > 1, NEW E,
           \A c \in C, v \in Views : v[c] = x.shown[c] => <<At(x, v), News(c)>> \in E
    PROVE  /\ Infos(C) \in Seq(Packets)
           /\ LET v == [c \in Cities |-> IF c \in C THEN Shown(city', c) ELSE x.shown[c]]
              IN  Through(x, Infos(C), At(x, v), E)
<1> DEFINE n == Cardinality(C)
           q == SetToSeq(C)
<1>1. IsFiniteSet(C)
  BY AgentsAssumption, FS_Subset
<1>2. n \in Nat
  BY <1>1, FS_CardinalityType
<1>3. q \in Seq(C) /\ Len(q) = n /\ DOMAIN q = 1..n /\ \A i \in 1..n : q[i] \in C
  BY <1>1, SetToSeqIsSeq, LenProperties, ElementOfSeq
<1>4. /\ \A c \in C : \E i \in 1..n : q[i] = c
      /\ \A i, j \in 1..n : q[i] = q[j] => i = j
  BY <1>1, <1>3, SetToSeqIsBijection
<1>5. Infos(C) = [i \in 1..n |-> News(q[i])]
  BY DEF Infos, News
<1> HIDE DEF n, q
<1>6. \A i \in 1..n : News(q[i]) \in Packets
  BY <1>3, NewsIsPacket
<1>7. Infos(C) \in Seq(Packets) /\ Len(Infos(C)) = n /\ \A i \in 1..n : Infos(C)[i] = News(q[i])
  <2> DEFINE s == [i \in 1..n |-> News(q[i])]
  <2>1. s \in [1..n -> Packets]
    BY <1>6
  <2>2. \A i \in 1..n : s[i] = News(q[i])
    OBVIOUS
  <2> HIDE DEF s
  <2>3. s \in Seq(Packets) /\ Len(s) = n
    BY <1>2, <2>1
  <2> QED BY <1>5, <2>2, <2>3 DEF s
<1> DEFINE told(k) == {q[i] : i \in 1..k}
           shown(k) == [c \in Cities |-> IF c \in told(k) THEN Shown(city', c) ELSE x.shown[c]]
           w == [k \in 0..n |-> At(x, shown(k))]
<1>8. x.shown \in Views /\ x = At(x, x.shown) /\ x.id \in Ids /\ x.open \in BOOLEAN
      /\ x.depth \in Nat /\ x.running \in BOOLEAN
  BY DEF Fronts, At
<1>9. \A k \in 0..n : shown(k) \in Views
  BY <1>8, ShownIsData DEF Views
<1>10. \A k \in 0..n : w[k] \in Fronts
  BY <1>8, <1>9 DEF At, Fronts
<1>11. w[0] = x
  <2>1. told(0) = {}
    OBVIOUS
  <2>2. shown(0) = x.shown
    BY <1>8, <2>1 DEF Views
  <2> QED BY <1>2, <1>8, <2>2
<1>12. w[n] = At(x, [c \in Cities |-> IF c \in C THEN Shown(city', c) ELSE x.shown[c]])
  <2>1. told(n) = C
    BY <1>3, <1>4
  <2> QED BY <1>2, <2>1
<1>13. ASSUME NEW k \in 1..n
       PROVE  /\ Fits(w[k - 1], News(q[k])) /\ w[k] = After(w[k - 1], News(q[k]))
              /\ <<w[k - 1], News(q[k])>> \in E
  <2> DEFINE c == q[k]
             p == News(c)
             y == w[k - 1]
  <2>1. k - 1 \in 0..n /\ k \in 0..n /\ c \in C /\ c \in Cities
    BY <1>2, <1>3
  <2>2. y = At(x, shown(k - 1)) /\ w[k] = At(x, shown(k))
    BY <2>1
  <2>3. Tells(p) /\ p.city = c /\ p.data = Shown(city', c)
    BY <2>1, NewsIsPacket
  <2>4. c \notin told(k - 1)
    <3>1. ASSUME NEW i \in 1..(k - 1) PROVE q[i] # c
      <4>1. i \in 1..n /\ i # k
        BY <1>2
      <4> QED BY <1>4, <4>1
    <3> QED BY <3>1
  <2>5. told(k) = told(k - 1) \cup {c}
    <3>1. 1..k = (1..(k - 1)) \cup {k}
      OBVIOUS
    <3> QED BY <3>1
  <2>6. shown(k - 1)[c] = x.shown[c]
    BY <2>1, <2>4
  <2>7. shown(k) = [shown(k - 1) EXCEPT ![c] = Shown(city', c)]
    <3> HIDE DEF told
    <3> QED BY <2>1, <2>5
  <2>8. shown(k - 1) \in Views
    BY <1>9, <2>1
  <2> HIDE DEF shown, p, c, w, y
  <2>9. <<y, p>> \in E
    BY <2>1, <2>2, <2>6, <2>8 DEF p
  <2>10. ~Opening(p) /\ ~Closing(p) /\ p.kind \notin {"started", "finished", "managers", "running"}
    BY <2>3 DEF Tells, Opening, Closing
  <2>11. Fits(y, p)
    BY <2>2, <2>10 DEF Fits, At
  <2>12. After(y, p) = At(x, shown(k))
    BY <1>8, <2>2, <2>3, <2>7, <2>10 DEF After, At
  <2> QED BY <2>2, <2>9, <2>11, <2>12 DEF p, c, y
<1> HIDE DEF w
<1>14. w \in [0..n -> Fronts]
  BY <1>10 DEF w
<1>15. Path(w, Infos(C), E)
  BY <1>7, <1>13, <1>14 DEF Path
<1> QED BY <1>7, <1>11, <1>12, <1>15 DEF Through

\* The news of all that is not up to date show what the server has.
LEMMA UnsyncedPath ==
    ASSUME city' \in [Cities -> CityData \cup {NoCity}], NEW x \in Fronts, x.running,
           x.shown = ShownAll(city), NEW E,
           \A c \in Cities, v \in Views :
             Shown(city', c) # Shown(city, c) /\ v[c] = x.shown[c] => <<At(x, v), News(c)>> \in E
    PROVE  /\ Unsynced \in Seq(Packets)
           /\ Through(x, Unsynced, At(x, ShownAll(city')), E)
<1> DEFINE C == {c \in Cities : Shown(city', c) # Shown(city, c)}
           v == [c \in Cities |-> IF c \in C THEN Shown(city', c) ELSE x.shown[c]]
<1>1. C \subseteq Cities /\ \A c \in C, u \in Views : u[c] = x.shown[c] => <<At(x, u), News(c)>> \in E
  OBVIOUS
<1>2. v = ShownAll(city')
  BY DEF ShownAll
<1>3. Infos(C) \in Seq(Packets) /\ Through(x, Infos(C), At(x, v), E)
  <2> HIDE DEF C
  <2> QED BY <1>1, InfosPath
<1> QED BY <1>2, <1>3 DEF Unsynced

\* A client inside an answer
Answering(id, cities) ==
    [id |-> id, open |-> TRUE, depth |-> 1, running |-> TRUE, shown |-> ShownAll(cities)]

\* An answer leads a client that has counted as far as the server one further.
LEMMA AnswerPath ==
    ASSUME city \in [Cities -> CityData \cup {NoCity}],
           city' \in [Cities -> CityData \cup {NoCity}],
           NEW id \in Ids, NEW s \in Seq(Packets), NEW E,
           <<Settled(id, city), Mark("started", NextId(id))>> \in E,
           Through(Answering(NextId(id), city), s, Answering(NextId(id), city'), E),
           <<Answering(NextId(id), city'), Mark("finished", NextId(id))>> \in E
    PROVE  /\ Answer(s, NextId(id)) \in Seq(Packets)
           /\ Through(Settled(id, city), Answer(s, NextId(id)), Settled(NextId(id), city'), E)
<1> DEFINE p == Mark("started", NextId(id))
           q == Mark("finished", NextId(id))
           x == Settled(id, city)
           y == Answering(NextId(id), city)
           z == Answering(NextId(id), city')
           x2 == Settled(NextId(id), city')
<1>1. p \in Packets /\ q \in Packets /\ NextId(id) \in Ids
  BY NextIdIsId, MarkIsPacket
<1>2. /\ p.kind = "started" /\ p.id = NextId(id) /\ q.kind = "finished"
      /\ Opening(p) /\ ~Opening(q) /\ ~Closing(p) /\ Closing(q) /\ ~Tells(p) /\ ~Tells(q)
  BY <1>1 DEF Mark, Opening, Closing, Tells
<1>3. <<x, p>> \in E /\ <<z, q>> \in E /\ Through(y, s, z, E)
  OBVIOUS
<1>4. ShownAll(city) \in Views /\ ShownAll(city') \in Views
  BY ShownIsData
<1>5. Answer(s, NextId(id)) = <<p>> \o s \o <<q>>
  BY DEF Answer
<1> HIDE DEF p, q
<1>6. x \in Fronts /\ y \in Fronts /\ z \in Fronts
  BY <1>1, <1>4 DEF Settled, Fronts, Answering
<1>7. Fits(x, p) /\ After(x, p) = y
  BY <1>2 DEF Fits, After, Settled, Answering
<1>8. Fits(z, q) /\ After(z, q) = x2
  BY <1>2 DEF Fits, After, Settled, Answering
<1> HIDE DEF x, y, z, x2
<1>9. Through(x, <<p>>, y, E) /\ Through(z, <<q>>, x2, E)
  BY <1>1, <1>3, <1>6, <1>7, <1>8, ThroughOne
<1>10. <<p>> \in Seq(Packets) /\ <<q>> \in Seq(Packets) /\ <<p>> \o s \in Seq(Packets)
  BY <1>1
<1>11. Through(x, <<p>> \o s, z, E)
  BY <1>3, <1>9, <1>10, ThroughJoin
<1>12. Through(x, <<p>> \o s \o <<q>>, x2, E)
  BY <1>9, <1>10, <1>11, ThroughJoin
<1>13. <<p>> \o s \o <<q>> \in Seq(Packets)
  BY <1>10
<1> QED BY <1>5, <1>12, <1>13 DEF x, x2

\* Other news show what the server has, alone or in a freeze.
LEMMA TellPath ==
    ASSUME city \in [Cities -> CityData \cup {NoCity}],
           city' \in [Cities -> CityData \cup {NoCity}],
           NEW id \in Ids, NEW E,
           \A x \in Fronts, q \in Packets : ~x.open /\ q.kind # "started" => <<x, q>> \in E,
           news \in Seq(Packets), Tell(Unsynced)
    PROVE  \E s \in Seq(Packets) :
             news' = news \o s /\ Through(Settled(id, city), s, Settled(id, city'), E)
<1> DEFINE f == Mark("freeze", 0)
           g == Mark("thaw", 0)
           x == Settled(id, city)
           x2 == Settled(id, city')
           y == [id |-> id, open |-> FALSE, depth |-> 1, running |-> TRUE, shown |-> ShownAll(city)]
           z == [id |-> id, open |-> FALSE, depth |-> 1, running |-> TRUE, shown |-> ShownAll(city')]
           s == Unsynced
<1>1. f \in Packets /\ g \in Packets
  BY SmallIds, MarkIsPacket
<1>2. /\ Opening(f) /\ ~Closing(f) /\ f.kind = "freeze" /\ ~Tells(f)
      /\ Closing(g) /\ ~Opening(g) /\ g.kind = "thaw" /\ ~Tells(g)
  BY DEF Mark, Opening, Closing, Tells
<1>3. news' = news \o s \/ news' = news \o <<f>> \o s \o <<g>>
  BY DEF Tell
<1> HIDE DEF f, g
<1>4. ShownAll(city) \in Views /\ ShownAll(city') \in Views
  BY ShownIsData
<1>5. x \in Fronts /\ y \in Fronts /\ z \in Fronts
  BY <1>4 DEF Settled, Fronts
<1>6. ~x.open /\ ~y.open /\ ~z.open
  BY DEF Settled
<1>7. ASSUME NEW u \in {x, y}
      PROVE  s \in Seq(Packets) /\ Through(u, s, At(u, ShownAll(city')), E)
  <2>1. u \in Fronts /\ u.running /\ u.shown = ShownAll(city) /\ ~u.open
    <3>1. x.running /\ x.shown = ShownAll(city) /\ y.running /\ y.shown = ShownAll(city)
      BY DEF Settled
    <3> HIDE DEF x, y
    <3> QED BY <1>5, <1>6, <3>1
  <2>2. ASSUME NEW c \in Cities, NEW v \in Views PROVE <<At(u, v), News(c)>> \in E
    <3>1. At(u, v) \in Fronts /\ ~At(u, v).open
      BY <2>1 DEF At, Fronts
    <3>2. News(c) \in Packets /\ News(c).kind # "started"
      BY NewsIsPacket DEF Tells
    <3> QED BY <3>1, <3>2
  <2> HIDE DEF x, y, s
  <2> QED BY <2>1, <2>2, UnsyncedPath DEF s
<1>8. At(x, ShownAll(city')) = x2 /\ At(y, ShownAll(city')) = z
  BY DEF At, Settled
<1>9. Fits(x, f) /\ After(x, f) = y
  BY <1>2 DEF Fits, After, Settled
<1>10. Fits(z, g) /\ After(z, g) = x2
  BY <1>2 DEF Fits, After, Settled
<1>11. <<x, f>> \in E /\ <<z, g>> \in E
  BY <1>1, <1>2, <1>5, <1>6
<1> HIDE DEF x, x2, y, z, s
<1>12. s \in Seq(Packets) /\ Through(x, s, x2, E) /\ Through(y, s, z, E)
  BY <1>7, <1>8
<1>13. Through(x, <<f>>, y, E) /\ Through(z, <<g>>, x2, E)
  BY <1>1, <1>5, <1>9, <1>10, <1>11, ThroughOne
<1>14. /\ <<f>> \in Seq(Packets) /\ <<g>> \in Seq(Packets) /\ <<f>> \o s \in Seq(Packets)
       /\ <<f>> \o s \o <<g>> \in Seq(Packets)
  BY <1>1, <1>12
<1>15. Through(x, <<f>> \o s, z, E)
  BY <1>12, <1>13, <1>14, ThroughJoin
<1>16. Through(x, <<f>> \o s \o <<g>>, x2, E)
  BY <1>13, <1>14, <1>15, ThroughJoin
<1>17. news \o <<f>> \o s \o <<g>> = news \o (<<f>> \o s \o <<g>>)
  BY <1>12, <1>14, <1>1, ConcatAssociative
<1> QED BY <1>3, <1>12, <1>14, <1>16, <1>17 DEF x, x2

\* A client that has nothing yet
Blank == [id |-> 0, open |-> FALSE, depth |-> 0, running |-> FALSE, shown |-> [c \in Cities |-> NoCity]]

\* The game that a client is sent when it joins leads from nothing to request 1.
LEMMA JoinPath ==
    ASSUME city' \in [Cities -> CityData \cup {NoCity}], NEW S \in SUBSET Cities,
           NEW E, <<Blank, Mark("started", 1)>> \in E,
           \A x \in Fronts, q \in Packets :
             q.kind # "started" => <<x, q>> \in E
    PROVE  LET t == <<Mark("started", 1), Mark("freeze", 0)>>
                      \o Infos({c \in Cities : Exists(city', c)})
                      \o <<[kind |-> "managers", city |-> NoCity, data |-> S, id |-> 0],
                           Mark("running", 0), Mark("thaw", 0), Mark("finished", 1)>>
           IN  t \in Seq(Packets) /\ Through(Blank, t, Settled(1, city'), E)
<1> DEFINE C == {c \in Cities : Exists(city', c)}
           p == Mark("started", 1)
           f == Mark("freeze", 0)
           s == Infos(C)
           a == [kind |-> "managers", city |-> NoCity, data |-> S, id |-> 0]
           h == Mark("running", 0)
           g == Mark("thaw", 0)
           q == Mark("finished", 1)
           none == [c \in Cities |-> NoCity]
           all == ShownAll(city')
           b == Blank
           x == [id |-> 1, open |-> TRUE, depth |-> 1, running |-> FALSE, shown |-> none]
           y == [id |-> 1, open |-> TRUE, depth |-> 2, running |-> FALSE, shown |-> none]
           z == [id |-> 1, open |-> TRUE, depth |-> 2, running |-> FALSE, shown |-> all]
           z1 == [id |-> 1, open |-> TRUE, depth |-> 2, running |-> TRUE, shown |-> all]
           z2 == [id |-> 1, open |-> TRUE, depth |-> 1, running |-> TRUE, shown |-> all]
           e == Settled(1, city')
<1>1. /\ p \in Packets /\ f \in Packets /\ g \in Packets /\ q \in Packets /\ h \in Packets
      /\ a \in Packets
  <2>1. a \in Packets
    BY SmallIds DEF Packets
  <2> QED BY <2>1, SmallIds, MarkIsPacket
<1>2. /\ Opening(p) /\ ~Closing(p) /\ p.kind = "started" /\ p.id = 1 /\ ~Tells(p)
      /\ Opening(f) /\ ~Closing(f) /\ f.kind = "freeze" /\ ~Tells(f)
      /\ Closing(g) /\ ~Opening(g) /\ g.kind = "thaw" /\ ~Tells(g)
      /\ Closing(q) /\ ~Opening(q) /\ q.kind = "finished" /\ ~Tells(q)
      /\ ~Closing(h) /\ ~Opening(h) /\ h.kind = "running" /\ ~Tells(h)
      /\ ~Closing(a) /\ ~Opening(a) /\ a.kind = "managers" /\ ~Tells(a)
  BY DEF Mark, Opening, Closing, Tells
<1>3. none \in Views /\ all \in Views
  <2>1. none \in Views
    BY DEF Views
  <2> QED BY <2>1, ShownIsData
<1>4. b \in Fronts /\ x \in Fronts /\ y \in Fronts /\ z \in Fronts /\ z1 \in Fronts /\ z2 \in Fronts
  BY <1>3, SmallIds DEF Blank, Fronts
<1>5. C \subseteq Cities /\ \A c \in Cities : c \notin C => Shown(city', c) = NoCity
  BY ShownIsData
<1>6. <<b, p>> \in E
  OBVIOUS
<1> HIDE DEF p, f, g, q, h, a, C
<1>7. Fits(b, p) /\ After(b, p) = x
  <2>1. NextId(0) = 1 /\ 0 + 1 = 1
    BY SmallIds
  <2>2. Fits(b, p)
    BY <1>2, <2>1 DEF Fits, Blank
  <2> QED BY <1>2, <2>1, <2>2 DEF After, Blank
<1>8. Fits(x, f) /\ After(x, f) = y
  BY <1>2 DEF Fits, After
<1>9. Fits(z, a) /\ After(z, a) = z
  BY <1>2 DEF Fits, After
<1>10. Fits(z, h) /\ After(z, h) = z1
  BY <1>2 DEF Fits, After
<1>11. Fits(z1, g) /\ After(z1, g) = z2
  BY <1>2 DEF Fits, After
<1>12. Fits(z2, q) /\ After(z2, q) = e
  BY <1>2 DEF Fits, After, Settled
<1>13. <<x, f>> \in E /\ <<z, a>> \in E /\ <<z, h>> \in E /\ <<z1, g>> \in E /\ <<z2, q>> \in E
  <2>1. \A k \in {f, a, h, g, q} : k \in Packets /\ k.kind # "started"
    BY <1>1, <1>2
  <2> HIDE DEF x, y, z, z1, z2
  <2> QED BY <1>4, <2>1
<1>14. s \in Seq(Packets) /\ Through(y, s, z, E)
  <2> DEFINE v == [c \in Cities |-> IF c \in C THEN Shown(city', c) ELSE y.shown[c]]
  <2>1. ASSUME NEW c \in C, NEW u \in Views PROVE <<At(y, u), News(c)>> \in E
    <3>1. At(y, u) \in Fronts
      BY <1>4 DEF At, Fronts
    <3>2. News(c) \in Packets /\ News(c).kind # "started"
      BY <1>5, NewsIsPacket DEF Tells
    <3> QED BY <3>1, <3>2
  <2>2. y.depth > 1
    OBVIOUS
  <2>3. v = all
    BY <1>5 DEF ShownAll
  <2>4. At(y, v) = z
    BY <2>3 DEF At
  <2> HIDE DEF y, v
  <2>5. s \in Seq(Packets) /\ Through(y, s, At(y, v), E)
    BY <1>4, <1>5, <2>1, <2>2, InfosPath DEF v
  <2> QED BY <2>4, <2>5
<1> HIDE DEF b, x, y, z, z1, z2, e, s
<1>15. Through(b, <<p, f>>, y, E)
  BY <1>1, <1>4, <1>6, <1>7, <1>8, <1>13, ThroughTwo
<1>16. Through(z, <<a, h, g, q>>, e, E)
  BY <1>1, <1>4, <1>9, <1>10, <1>11, <1>12, <1>13, ThroughFour
<1>17. /\ <<p, f>> \in Seq(Packets) /\ <<a, h, g, q>> \in Seq(Packets)
       /\ <<p, f>> \o s \in Seq(Packets)
  BY <1>1, <1>14
<1>18. Through(b, <<p, f>> \o s, z, E)
  BY <1>14, <1>15, <1>17, ThroughJoin
<1>19. Through(b, <<p, f>> \o s \o <<a, h, g, q>>, e, E)
  BY <1>16, <1>17, <1>18, ThroughJoin
<1>20. <<p, f>> \o s \o <<a, h, g, q>> \in Seq(Packets)
  BY <1>17
<1> QED BY <1>19, <1>20 DEF b, e, p, f, g, q, h, a, s, C


(***************************************************************************)
(* 6. The steps.                                                           *)
(***************************************************************************)

Pcs == {"main", "loop", "try", "wait", "judge"}
Calls == [city : Cities, callback : {"change", "remove"}]

LEMMA InitSound == Init => Sound
<1> SUFFICES ASSUME Init PROVE Sound
  OBVIOUS
<1>1. PICK work \in [Cities -> SUBSET Tiles] :
        city = [c \in Cities |-> [owner |-> "me", setting |-> First, work |-> work[c]]]
  BY DEF Init
<1>2. ASSUME NEW c \in Cities
      PROVE  [owner |-> "me", setting |-> First, work |-> work[c]] \in CityData
  BY AgentsAssumption DEF CityData
<1>3. city \in [Cities -> CityData \cup {NoCity}]
  BY <1>1, <1>2
<1>4. view = ShownAll(city) /\ view \in Views
  <2>1. view = ShownAll(city)
    BY DEF Init, ShownAll
  <2> QED BY <1>3, <2>1, ShownIsData
<1>5. Typed
  <2>1. /\ managed \subseteq Cities /\ calls = {} /\ ignored = {} /\ up /\ running
        /\ requests = <<>> /\ news = <<>> /\ frozen = 0 /\ counted = 1 /\ used = 1 /\ seen = 1
        /\ handled = 0 /\ awaited = <<0, 0>> /\ pc = "main" /\ fault = "none"
        /\ up \in BOOLEAN /\ running \in BOOLEAN
    BY DEF Init
  <2> QED BY <1>3, <1>4, <2>1, SmallIds DEF Typed
<1>6. Shaped
  BY DEF Shaped, Init, NoJob, NotPutting
<1>7. InTouch
  <2>1. used = LastId(counted, Len(requests))
    <3>1. used = 1 /\ counted = 1 /\ Len(requests) = 0
      BY DEF Init
    <3> QED BY <3>1, SmallIds, LastIdIsId
  <2>2. Here = Settled(counted, city) /\ news = <<>>
    <3>1. handled = 0 /\ seen = counted /\ frozen = 0 /\ running = TRUE /\ news = <<>>
      BY DEF Init
    <3> QED BY <1>4, <3>1 DEF Here, Settled
  <2>3. Settled(counted, city) \in Fronts
    <3>1. counted \in Ids
      BY SmallIds DEF Init
    <3> QED BY <1>4, <3>1 DEF Settled, Fronts
  <2>4. Through(Here, news, Settled(counted, city), Anywhere)
    BY <2>2, <2>3, ThroughNone
  <2> QED BY <2>1, <2>4 DEF InTouch, Init
<1>8. NoCallLeft
  BY DEF NoCallLeft, Init
<1> QED BY <1>5, <1>6, <1>7, <1>8 DEF Sound

\* The server's cities stay cities.
LEMMA ToggledIsWork ==
    ASSUME Typed, NEW r \in Requests, Own(city, r.city)
    PROVE  Toggled(r) \in SUBSET Tiles
<1>1. r.city \in Cities /\ (r.to \in {"specialist", "worker"} => r.tile \in Tiles)
  BY DEF Requests
<1>2. city[r.city].work \in SUBSET Tiles
  BY <1>1 DEF Typed, CityData, Own, Exists
<1> QED BY <1>1, <1>2 DEF Toggled

LEMMA ServeCities ==
    ASSUME Typed, Serve
    PROVE  city' \in [Cities -> CityData \cup {NoCity}]
<1> DEFINE r == Head(requests)
           work == Toggled(r)
<1>1. /\ requests # <<>>
      /\ city' = IF Own(city, r.city) THEN [city EXCEPT ![r.city].work = work] ELSE city
  BY DEF Serve
<1>2. requests \in Seq(Requests) /\ city \in [Cities -> CityData \cup {NoCity}]
  BY DEF Typed
<1>3. r \in Requests
  BY <1>1, <1>2, HeadTailProperties
<1>4. r.city \in Cities
  BY <1>3 DEF Requests
<1> HIDE DEF r
<1>5. CASE Own(city, r.city)
  <2>1. city[r.city] \in CityData
    BY <1>2, <1>4, <1>5 DEF Own, Exists
  <2>2. work \in SUBSET Tiles
    BY <1>3, <1>5, ToggledIsWork
  <2> HIDE DEF work
  <2>3. [city[r.city] EXCEPT !.work = work] \in CityData
    BY <2>1, <2>2 DEF CityData
  <2>4. city' = [city EXCEPT ![r.city] = [city[r.city] EXCEPT !.work = work]]
    BY <1>1, <1>5
  <2> QED BY <1>2, <1>4, <2>3, <2>4
<1>6. CASE ~Own(city, r.city)
  BY <1>1, <1>2, <1>6
<1> QED BY <1>5, <1>6

LEMMA ChangeCities ==
    ASSUME Typed, NEW c \in Cities, ChangeCity(c)
    PROVE  city' \in [Cities -> CityData \cup {NoCity}]
<1>1. city \in [Cities -> CityData \cup {NoCity}] /\ city[c] \in CityData
  BY DEF Typed, ChangeCity, Exists
<1>2. CASE \E s \in Settings, T \in Arranged :
             city' = [city EXCEPT ![c].setting = s, ![c].work = T]
  <2>1. PICK s \in Settings, T \in Arranged :
          city' = [city EXCEPT ![c].setting = s, ![c].work = T]
    BY <1>2
  <2>2. T \subseteq Tiles
    BY AgentsAssumption
  <2> DEFINE new == [[city[c] EXCEPT !.setting = s] EXCEPT !.work = T]
  <2>3. new \in CityData
    BY <1>1, <2>2 DEF CityData
  <2>4. city' = [city EXCEPT ![c] = new]
    BY <1>1, <2>1
  <2> HIDE DEF new
  <2> QED BY <1>1, <2>3, <2>4
<1>3. CASE city' = [city EXCEPT ![c].owner = IF @ = "me" THEN "other" ELSE "me"]
  <2> DEFINE new == [city[c] EXCEPT !.owner = IF @ = "me" THEN "other" ELSE "me"]
  <2>1. new \in CityData
    BY <1>1 DEF CityData
  <2>2. city' = [city EXCEPT ![c] = new]
    BY <1>1, <1>3
  <2> HIDE DEF new
  <2> QED BY <1>1, <2>1, <2>2
<1> QED BY <1>2, <1>3 DEF ChangeCity

LEMMA ServeSound ==
    ASSUME Sound, Serve
    PROVE  Sound'
<1> DEFINE t == Answer(Unsynced, NextId(counted))
<1>1. /\ requests # <<>> /\ counted' = NextId(counted) /\ news' = news \o t
      /\ requests' = Tail(requests) /\ UNCHANGED <<up, client, spent>>
  BY DEF Serve
<1>2. Typed /\ InTouch /\ Shaped /\ NoCallLeft
  BY DEF Sound
<1>3. /\ requests \in Seq(Requests) /\ news \in Seq(Packets) /\ counted \in Ids
      /\ city \in [Cities -> CityData \cup {NoCity}]
  BY <1>2 DEF Typed
<1>4. requests' \in Seq(Requests) /\ Len(requests') = Len(requests) - 1
  BY <1>1, <1>3, HeadTailProperties
<1>5. city' \in [Cities -> CityData \cup {NoCity}]
  BY <1>2, ServeCities
<1>6. t \in Seq(Packets) /\ Through(Settled(counted, city), t, Settled(NextId(counted), city'), Anywhere)
  <2> DEFINE x == Answering(NextId(counted), city)
             y == Answering(NextId(counted), city')
             a == Settled(counted, city)
  <2>1. NextId(counted) \in Ids
    BY <1>3, NextIdIsId
  <2>2. ShownAll(city) \in Views /\ ShownAll(city') \in Views
    BY <1>3, <1>5, ShownIsData
  <2>3. x \in Fronts /\ y \in Fronts /\ a \in Fronts
    BY <1>3, <2>1, <2>2 DEF Settled, Answering, Fronts
  <2>4. x.running /\ x.shown = ShownAll(city) /\ At(x, ShownAll(city')) = y
    BY DEF Answering, At
  <2>5. /\ Mark("started", NextId(counted)) \in Packets
        /\ Mark("finished", NextId(counted)) \in Packets
    BY <2>1, MarkIsPacket
  <2>6. ASSUME NEW c \in Cities, NEW v \in Views PROVE <<At(x, v), News(c)>> \in Anywhere
    <3>1. At(x, v) \in Fronts
      BY <2>3 DEF At, Fronts
    <3> HIDE DEF x
    <3> QED BY <1>5, <3>1, NewsIsPacket DEF Anywhere
  <2>7. <<a, Mark("started", NextId(counted))>> \in Anywhere
        /\ <<y, Mark("finished", NextId(counted))>> \in Anywhere
    BY <2>3, <2>5 DEF Anywhere
  <2> HIDE DEF x, y, a
  <2>8. Unsynced \in Seq(Packets) /\ Through(x, Unsynced, y, Anywhere)
    BY <1>5, <2>3, <2>4, <2>6, UnsyncedPath
  <2> QED BY <1>3, <1>5, <2>7, <2>8, AnswerPath DEF x, y, a
<1> HIDE DEF t
<1>7. Typed'
  <2>1. news' \in Seq(Packets)
    BY <1>1, <1>3, <1>6, ConcatProperties
  <2>2. counted' \in Ids
    BY <1>1, <1>3, NextIdIsId
  <2> QED BY <1>1, <1>2, <1>4, <1>5, <2>1, <2>2 DEF Typed, client, ids
<1>8. up /\ up' /\ Here' = Here /\ used' = used
  BY <1>1, <1>2 DEF InTouch, client, ids, Here
<1>9. InTouch'
  <2>1. used = LastId(counted, Len(requests)) /\ Through(Here, news, Settled(counted, city), Anywhere)
    BY <1>2, <1>8 DEF InTouch
  <2>2. Through(Here, news \o t, Settled(NextId(counted), city'), Anywhere)
    BY <1>3, <1>6, <2>1, ThroughJoin
  <2>3. Len(requests) \in Nat /\ Len(requests') \in Nat /\ Len(requests) = 1 + Len(requests')
    BY <1>3, <1>4, LenProperties
  <2>4. used = LastId(LastId(counted, 1), Len(requests'))
    BY <1>3, <2>1, <2>3, LastIdJoins
  <2>5. used = LastId(NextId(counted), Len(requests'))
    BY <1>3, <2>4, LastIdOne
  <2> QED BY <1>1, <1>8, <2>2, <2>5 DEF InTouch
<1>10. NoCallLeft' /\ Shaped'
  BY <1>1, <1>2 DEF NoCallLeft, Shaped, client
<1> QED BY <1>7, <1>9, <1>10 DEF Sound

\* A step of the server that only tells something
LEMMA TellSound ==
    ASSUME Sound, up, city' \in [Cities -> CityData \cup {NoCity}], Tell(Unsynced),
           UNCHANGED <<counted, up, requests, client>>
    PROVE  Sound'
<1>1. Typed /\ InTouch /\ Shaped /\ NoCallLeft
  BY DEF Sound
<1>2. news \in Seq(Packets) /\ counted \in Ids /\ city \in [Cities -> CityData \cup {NoCity}]
  BY <1>1 DEF Typed
<1>3. PICK t \in Seq(Packets) :
        /\ news' = news \o t
        /\ Through(Settled(counted, city), t, Settled(counted, city'), Anywhere)
  <2>1. \A x \in Fronts, q \in Packets : ~x.open /\ q.kind # "started" => <<x, q>> \in Anywhere
    BY DEF Anywhere
  <2> QED BY <1>2, <2>1, TellPath
<1>4. Typed'
  <2>1. news' \in Seq(Packets)
    BY <1>2, <1>3, ConcatProperties
  <2> QED BY <1>1, <2>1 DEF Typed, client, ids
<1>5. InTouch'
  <2>1. Through(Here, news \o t, Settled(counted, city'), Anywhere)
    BY <1>1, <1>2, <1>3, ThroughJoin DEF InTouch
  <2>2. Here' = Here
    BY DEF Here, client, ids
  <2> QED BY <1>1, <1>3, <2>1, <2>2 DEF InTouch, client, ids
<1>6. NoCallLeft' /\ Shaped'
  BY <1>1 DEF NoCallLeft, Shaped, client
<1> QED BY <1>4, <1>5, <1>6 DEF Sound

LEMMA ChangeCitySound ==
    ASSUME Sound, NEW c \in Cities, ChangeCity(c)
    PROVE  Sound'
<1>1. up /\ Tell(Unsynced) /\ UNCHANGED <<counted, up, requests, client>>
  BY DEF ChangeCity
<1>2. city' \in [Cities -> CityData \cup {NoCity}]
  BY ChangeCities DEF Sound
<1> QED BY <1>1, <1>2, TellSound

LEMMA RemoveCities ==
    ASSUME Typed, NEW c \in Cities, RemoveCity(c)
    PROVE  city' \in [Cities -> CityData \cup {NoCity}]
BY DEF Typed, RemoveCity

LEMMA RemoveCitySound ==
    ASSUME Sound, NEW c \in Cities, RemoveCity(c)
    PROVE  Sound'
<1>1. up /\ Tell(Unsynced) /\ UNCHANGED <<counted, up, requests, client>>
  BY DEF RemoveCity
<1>2. city' \in [Cities -> CityData \cup {NoCity}]
  BY RemoveCities DEF Sound
<1> QED BY <1>1, <1>2, TellSound

\* What is sent is counted.
Sending ==
    /\ requests' \in Seq(Requests) /\ used' \in Ids
    /\ up => used' = LastId(counted, Len(requests'))
    /\ ~up => requests' = requests

LEMMA SendsNothing ==
    ASSUME Sound, UNCHANGED <<requests, used>>
    PROVE  Sending
BY DEF Sound, Typed, InTouch, Sending

LEMMA SendSends ==
    ASSUME Sound, NEW sent \in Seq(Requests), Send(sent)
    PROVE  Sending
<1>1. requests \in Seq(Requests) /\ used \in Ids /\ counted \in Ids
  BY DEF Sound, Typed
<1>2. /\ requests' = (IF up THEN requests \o sent ELSE requests)
      /\ used' = LastId(used, Len(sent))
  BY DEF Send
<1>3. Len(sent) \in Nat /\ Len(requests) \in Nat
  BY <1>1, LenProperties
<1>4. used' \in Ids
  BY <1>1, <1>2, <1>3, LastIdIsId
<1>5. ASSUME up PROVE used' = LastId(counted, Len(requests'))
  <2>1. used = LastId(counted, Len(requests))
    BY <1>5 DEF Sound, InTouch
  <2>2. Len(requests') = Len(requests) + Len(sent)
    BY <1>1, <1>2, <1>5, ConcatProperties
  <2>3. LastId(LastId(counted, Len(requests)), Len(sent))
          = LastId(counted, Len(requests) + Len(sent))
    BY <1>1, <1>3, LastIdJoins
  <2> QED BY <1>2, <2>1, <2>2, <2>3
<1>6. requests' \in Seq(Requests) /\ (~up => requests' = requests)
  BY <1>1, <1>2, ConcatProperties
<1> QED BY <1>4, <1>5, <1>6 DEF Sending

LEMMA SendNothing ==
    ASSUME Sound, Send(<<>>)
    PROVE  UNCHANGED <<requests, used>>
<1>1. requests \in Seq(Requests) /\ used \in Ids
  BY DEF Sound, Typed
<1>2. requests \o <<>> = requests /\ Len(<<>>) = 0
  BY <1>1
<1> QED BY <1>1, <1>2, LastIdIsId DEF Send

LEMMA ReleaseCitySends ==
    ASSUME Sound, NEW c \in Cities, ReleaseCity(c)
    PROVE  Sending /\ managed' \subseteq managed
BY SendSends, ToldIsSeq DEF ReleaseCity

LEMMA CheckCitySends ==
    ASSUME Sound, NEW c \in Cities, CheckCity(c)
    PROVE  Sending /\ managed' \subseteq managed
BY ReleaseCitySends, SendsNothing DEF CheckCity

\* A step of the client that takes no packet
LEMMA QuietStepSound ==
    ASSUME Sound, UNCHANGED <<server, up, news, running, view, frozen, seen, handled>>,
           Sending, managed' \subseteq Cities, ignored' \subseteq Cities,
           calls' \subseteq Calls, awaited' \in Ids \X Ids, pc' \in Pcs,
           fault' \in {"none", "assert", "dangling"}, Shaped', NoCallLeft'
    PROVE  Sound'
<1>1. Typed /\ InTouch
  BY DEF Sound
<1>2. Typed'
  BY <1>1 DEF Typed, Sending, server, Calls, Pcs
<1>3. InTouch'
  <2>1. Here' = Here /\ counted' = counted /\ city' = city
    BY DEF Here, server
  <2> QED BY <1>1, <2>1 DEF InTouch, Sending
<1> QED BY <1>2, <1>3 DEF Sound

\* One call, taken from the list
Executed(k) ==
    /\ calls' = calls \ {k} /\ ignored' = ignored \ {k.city}
    /\ \/ /\ k.callback = "remove"
          /\ managed' = managed \ {k.city} /\ UNCHANGED <<pc, job>>
       \/ /\ k.callback = "change" /\ ~Exists(view, k.city)
          /\ UNCHANGED <<managed, pc, job>>
       \/ /\ pc' = "try" /\ UNCHANGED managed
          /\ job' = [city |-> k.city, try |-> 1, goal |-> {}, fresh |-> TRUE]

LEMMA ExecuteCallDoes ==
    ASSUME ExecuteCall
    PROVE  /\ pc = "loop"
           /\ UNCHANGED <<server, network, running, view, frozen, ids, awaited, putting, fault,
                          spent>>
           /\ \E k \in calls : Executed(k)
<1>1. PICK k \in calls :
         /\ calls' = calls \ {k}
         /\ ignored' = ignored \ {k.city}
         /\ CASE k.callback = "remove" ->
                   managed' = managed \ {k.city} /\ UNCHANGED <<pc, job>>
              [] k.callback = "change" /\ view[k.city] = NoCity ->
                   UNCHANGED <<managed, pc, job>>
              [] OTHER ->
                   /\ pc' = "try"
                   /\ job' = [city |-> k.city, try |-> 1, goal |-> {}, fresh |-> TRUE]
                   /\ UNCHANGED managed
  BY DEF ExecuteCall
<1>2. ASSUME k.callback = "remove"
      PROVE  Executed(k)
  BY <1>1, <1>2 DEF Executed
<1>3. ASSUME k.callback # "remove" /\ k.callback = "change" /\ view[k.city] = NoCity
      PROVE  Executed(k)
  BY <1>1, <1>3 DEF Executed, Exists
<1>4. ASSUME k.callback # "remove" /\ ~(k.callback = "change" /\ view[k.city] = NoCity)
      PROVE  Executed(k)
  BY <1>1, <1>4 DEF Executed
<1>5. Executed(k)
  BY <1>2, <1>3, <1>4
<1> QED BY <1>5 DEF ExecuteCall

LEMMA ExecuteCallSound ==
    ASSUME Sound, ExecuteCall
    PROVE  Sound'
<1>1. /\ pc = "loop"
      /\ UNCHANGED <<server, network, running, view, frozen, ids, awaited, putting, fault, spent>>
  BY ExecuteCallDoes
<1>2. PICK k \in calls : Executed(k)
  BY ExecuteCallDoes
<1>3. Typed /\ Shaped
  BY DEF Sound
<1>4. k.city \in Cities
  BY <1>3 DEF Typed
<1>5. /\ calls' \subseteq Calls /\ managed' \subseteq Cities /\ ignored' \subseteq Cities
      /\ pc' \in {"loop", "try"}
  BY <1>1, <1>2, <1>3 DEF Typed, Executed, Calls
<1>6. Shaped'
  <2>1. CASE UNCHANGED <<pc, job>>
    BY <1>1, <1>3, <2>1 DEF Shaped
  <2>2. CASE job' = [city |-> k.city, try |-> 1, goal |-> {}, fresh |-> TRUE]
    <3>1. job'.city = k.city /\ job'.try = 1 /\ job'.goal = {} /\ job'.fresh = TRUE
      BY <2>2
    <3> QED BY <1>1, <1>3, <1>4, <2>2, <3>1 DEF Shaped
  <2> QED BY <1>2, <2>1, <2>2 DEF Executed
<1>7. NoCallLeft'
  BY <1>5 DEF NoCallLeft
<1>8. Sending
  BY <1>1, SendsNothing DEF network, ids
<1>9. awaited' \in Ids \X Ids /\ fault' \in {"none", "assert", "dangling"} /\ pc' \in Pcs
  BY <1>1, <1>3, <1>5 DEF Typed, Pcs
<1> QED BY <1>1, <1>5, <1>6, <1>7, <1>8, <1>9, QuietStepSound DEF network, ids

LEMMA ReturnSound ==
    ASSUME Sound, Return
    PROVE  Sound'
<1>1. /\ pc = "loop" /\ calls = {}
      /\ UNCHANGED <<server, up, news, running, view, managed, calls, frozen, seen, handled,
                     awaited, job, ignored, spent>>
  BY DEF Return
<1>2. Typed /\ Shaped
  BY DEF Sound
<1>3. CASE /\ pc' = "main" /\ putting' = NotPutting /\ UNCHANGED fault
           /\ Send(IF putting.city = NoCity THEN <<>> ELSE <<Told(putting.city, managed)>>)
  <2>1. (IF putting.city = NoCity THEN <<>> ELSE <<Told(putting.city, managed)>>) \in Seq(Requests)
    <3>1. CASE putting.city = NoCity
      BY <3>1
    <3>2. CASE putting.city # NoCity
      BY <1>2, <3>2, ToldIsSeq DEF Shaped
    <3> QED BY <3>1, <3>2
  <2>2. Sending
    BY <1>3, <2>1, SendSends
  <2>3. Shaped'
    BY <1>1, <1>2, <1>3 DEF Shaped, NotPutting
  <2>4. NoCallLeft'
    BY <1>1 DEF NoCallLeft
  <2>5. /\ managed' \subseteq Cities /\ ignored' \subseteq Cities /\ calls' \subseteq Calls
        /\ awaited' \in Ids \X Ids /\ pc' \in Pcs /\ fault' \in {"none", "assert", "dangling"}
    BY <1>1, <1>2, <1>3 DEF Typed, Calls, Pcs
  <2> QED BY <1>1, <2>2, <2>3, <2>4, <2>5, QuietStepSound
<1>4. CASE fault' = "dangling" /\ UNCHANGED <<pc, requests, used, putting>>
  <2>1. Sending
    BY <1>4, SendsNothing
  <2>2. Shaped' /\ NoCallLeft'
    BY <1>1, <1>2, <1>4 DEF Shaped, NoCallLeft
  <2>3. /\ managed' \subseteq Cities /\ ignored' \subseteq Cities /\ calls' \subseteq Calls
        /\ awaited' \in Ids \X Ids /\ pc' \in Pcs /\ fault' \in {"none", "assert", "dangling"}
    BY <1>1, <1>2, <1>4 DEF Typed, Calls, Pcs
  <2> QED BY <1>1, <2>1, <2>2, <2>3, QuietStepSound
<1> QED BY <1>3, <1>4 DEF Return

\* What the agent orders is sent.
LEMMA ApplySends ==
    ASSUME Sound, NEW c \in Cities, NEW goal, goal \subseteq Tiles, Exists(view, c),
           Apply(c, goal)
    PROVE  /\ Sending /\ awaited' \in Ids \X Ids
           /\ pc' \in {"wait", pc} /\ fault' \in {"assert", fault}
           /\ job' = [job EXCEPT !.goal = [work |-> goal, setting |-> view[c].setting]]
<1> DEFINE off == Ordered(c, view[c].work \ goal, "specialist")
           on == Ordered(c, goal \ view[c].work, "worker")
           sent == off \o on
<1>1. view[c] \in ShownData /\ used \in Ids
  BY DEF Sound, Typed, Views, Exists
<1>2. view[c].work \in SUBSET Tiles
  BY <1>1 DEF ShownData
<1>3. off \in Seq(Requests) /\ on \in Seq(Requests)
  BY <1>2, OrderedIsSeq
<1>4. /\ Send(sent) /\ awaited' = <<NextId(used), used'>>
      /\ pc' \in {"wait", pc} /\ fault' \in {"assert", fault}
      /\ job' = [job EXCEPT !.goal = [work |-> goal, setting |-> view[c].setting]]
  BY DEF Apply
<1> HIDE DEF off, on
<1>5. sent \in Seq(Requests)
  BY <1>3, ConcatProperties
<1> HIDE DEF sent
<1>6. Sending
  BY <1>4, <1>5, SendSends
<1>7. awaited' \in Ids \X Ids
  BY <1>1, <1>4, <1>6, NextIdIsId DEF Sending
<1> QED BY <1>4, <1>6, <1>7

LEMMA TrySound ==
    ASSUME Sound, Try
    PROVE  Sound'
<1> DEFINE c == job.city
<1>1. /\ pc = "try"
      /\ UNCHANGED <<server, up, news, running, view, calls, frozen, seen, handled, putting,
                     ignored, spent>>
  BY DEF Try
<1>2. Typed /\ Shaped
  BY DEF Sound
<1>3. c \in Cities
  BY <1>1, <1>2 DEF Shaped
<1>4. /\ Sending /\ awaited' \in Ids \X Ids /\ managed' \subseteq managed
      /\ pc' \in {"wait", "loop", "try"} /\ fault' \in {"none", "assert", "dangling"}
      /\ \/ job' = job
         \/ \E g : job' = [job EXCEPT !.goal = g]
  <2>1. awaited \in Ids \X Ids /\ fault \in {"none", "assert", "dangling"}
    BY <1>2 DEF Typed
  <2>2. CASE /\ ReleaseCity(c) /\ pc' = "loop" /\ UNCHANGED <<awaited, job, fault>>
    <3> HIDE DEF c
    <3>1. Sending /\ managed' \subseteq managed
      BY <1>3, <2>2, ReleaseCitySends
    <3> QED BY <2>1, <2>2, <3>1
  <2>3. CASE /\ CheckCity(c) /\ pc' = "loop" /\ UNCHANGED <<awaited, job, fault>>
    <3> HIDE DEF c
    <3>1. Sending /\ managed' \subseteq managed
      BY <1>3, <2>3, CheckCitySends
    <3> QED BY <2>1, <2>3, <3>1
  <2>4. CASE fault' = "dangling" /\ UNCHANGED <<requests, used, awaited, job, managed, pc>>
    BY <1>1, <2>1, <2>4, SendsNothing
  <2>5. CASE /\ Valid(c)
             /\ LET goal == Best[view[c].setting][view[c].open] IN
                IF goal = NoResult
                  THEN ReleaseCity(c) /\ pc' = "loop" /\ UNCHANGED <<awaited, job, fault>>
                ELSE IF goal = view[c].work
                  THEN pc' = "loop" /\ UNCHANGED <<requests, used, awaited, job, managed, fault>>
                ELSE Apply(c, goal) /\ UNCHANGED managed
    <3> DEFINE goal == Best[view[c].setting][view[c].open]
    <3>1. CASE goal = NoResult
      BY <2>2, <2>5, <3>1
    <3>2. CASE goal # NoResult /\ goal = view[c].work
      BY <2>1, <2>5, <3>2, SendsNothing
    <3>3. CASE goal # NoResult /\ goal # view[c].work
      <4>1. Apply(c, goal) /\ UNCHANGED managed /\ Exists(view, c)
        BY <2>5, <3>3 DEF Valid, Own
      <4>2. view[c] \in ShownData
        BY <1>2, <1>3, <4>1 DEF Typed, Views, Exists
      <4>3. view[c].setting \in Settings /\ view[c].open \in SUBSET Tiles
        BY <4>2 DEF ShownData
      <4>4. goal \subseteq Tiles
        <5>1. goal = NoResult \/ goal \subseteq view[c].open
          BY <4>3, AgentsAssumption
        <5> HIDE DEF goal
        <5> QED BY <3>3, <4>3, <5>1
      <4> HIDE DEF goal, c
      <4>5. /\ Sending /\ awaited' \in Ids \X Ids
            /\ pc' \in {"wait", pc} /\ fault' \in {"assert", fault}
            /\ \E g : job' = [job EXCEPT !.goal = g]
        BY <1>3, <4>1, <4>4, ApplySends
      <4> QED BY <1>1, <2>1, <4>1, <4>5
    <3> QED BY <3>1, <3>2, <3>3
  <2> QED BY <2>2, <2>3, <2>4, <2>5 DEF Try
<1>5. Shaped'
  <2>1. CASE job' = job
    BY <1>1, <1>2, <1>3, <2>1 DEF Shaped
  <2>2. CASE \E g : job' = [job EXCEPT !.goal = g]
    <3>1. PICK g : job' = [job EXCEPT !.goal = g]
      BY <2>2
    <3>2. job' = [city |-> job.city, try |-> job.try, goal |-> g, fresh |-> job.fresh]
      BY <1>2, <3>1 DEF Shaped
    <3>3. job'.city = job.city
      BY <3>2
    <3>4. job' = [city |-> job'.city, try |-> job'.try, goal |-> job'.goal, fresh |-> job'.fresh]
      BY <3>2
    <3> QED BY <1>1, <1>2, <1>3, <3>3, <3>4 DEF Shaped
  <2> QED BY <1>4, <2>1, <2>2
<1>6. NoCallLeft'
  BY <1>4 DEF NoCallLeft
<1>7. managed' \subseteq Cities /\ ignored' \subseteq Cities /\ calls' \subseteq Calls /\ pc' \in Pcs
  BY <1>1, <1>2, <1>4 DEF Typed, Calls, Pcs
<1> QED BY <1>1, <1>4, <1>5, <1>6, <1>7, QuietStepSound

LEMMA JudgeSound ==
    ASSUME Sound, Judge
    PROVE  Sound'
<1> DEFINE c == job.city
<1>1. /\ pc = "judge"
      /\ UNCHANGED <<server, up, news, running, view, calls, frozen, seen, handled, awaited,
                     putting, ignored, spent>>
  BY DEF Judge
<1>2. Typed /\ Shaped
  BY DEF Sound
<1>3. c \in Cities
  BY <1>1, <1>2 DEF Shaped
<1>4. /\ Sending /\ managed' \subseteq managed
      /\ pc' \in {"try", "loop", "judge"} /\ fault' \in {"none", "assert", "dangling"}
      /\ job' = job \/ job' = [job EXCEPT !.try = @ + 1]
  <2>1. fault \in {"none", "assert", "dangling"}
    BY <1>2 DEF Typed
  <2>2. CASE CheckCity(c) /\ pc' = "try" /\ job' = [job EXCEPT !.try = @ + 1] /\ UNCHANGED fault
    <3>1. Sending /\ managed' \subseteq managed
      <4> HIDE DEF c
      <4> QED BY <1>3, <2>2, CheckCitySends
    <3> QED BY <2>1, <2>2, <3>1
  <2>3. CASE UNCHANGED <<requests, used, managed>>
    <3>1. Sending
      BY <2>3, SendsNothing
    <3> QED BY <1>1, <2>1, <2>3, <3>1 DEF Judge
  <2> QED BY <2>2, <2>3 DEF Judge
<1>5. Shaped'
  <2>1. CASE job' = job
    BY <1>1, <1>2, <1>3, <2>1 DEF Shaped
  <2>2. CASE job' = [job EXCEPT !.try = @ + 1]
    <3>1. job' = [city |-> job.city, try |-> job.try + 1, goal |-> job.goal, fresh |-> job.fresh]
      BY <1>2, <2>2 DEF Shaped
    <3>2. job'.city = job.city
      BY <3>1
    <3>3. job' = [city |-> job'.city, try |-> job'.try, goal |-> job'.goal, fresh |-> job'.fresh]
      BY <3>1
    <3> QED BY <1>1, <1>2, <1>3, <3>2, <3>3 DEF Shaped
  <2> QED BY <1>4, <2>1, <2>2
<1>6. NoCallLeft'
  BY <1>4 DEF NoCallLeft
<1>7. /\ managed' \subseteq Cities /\ ignored' \subseteq Cities /\ calls' \subseteq Calls /\ pc' \in Pcs
      /\ awaited' \in Ids \X Ids
  BY <1>1, <1>2, <1>4 DEF Typed, Calls, Pcs
<1> QED BY <1>1, <1>4, <1>5, <1>6, <1>7, QuietStepSound

\* What call_handle_methods leaves waiting
LEMMA DispatchedLeavesNone ==
    ASSUME pc \in Pcs, NEW level, NEW waiting
    PROVE  /\ Dispatched(level, waiting) \in Pcs
           /\ Dispatched(level, waiting) = "main" /\ level = 0 => waiting = {}
           /\ \/ Dispatched(level, waiting) = pc
              \/ pc = "main" /\ Dispatched(level, waiting) = "loop" /\ level = 0
BY DEF Dispatched, Pcs

LEMMA EnqueuedTyped ==
    ASSUME calls \subseteq Calls, NEW c \in Cities, NEW callback \in {"change", "remove"}
    PROVE  Enqueued(c, callback) \subseteq Calls
BY DEF Enqueued, Calls

LEMMA PutUnderAgentSound ==
    ASSUME Sound, NEW c \in Cities, PutUnderAgent(c)
    PROVE  Sound'
<1>1. /\ pc = "main" /\ managed' = managed \cup {c}
      /\ calls' = (IF \E k \in calls : k.city = c THEN calls
                   ELSE calls \cup {[city |-> c, callback |-> "change"]})
      /\ pc' = Dispatched(frozen, calls')
      /\ IF pc' = "main" THEN Send(<<Told(c, managed')>>) /\ UNCHANGED putting
         ELSE putting' = [city |-> c, fresh |-> TRUE] /\ UNCHANGED <<requests, used>>
      /\ UNCHANGED <<server, up, news, running, view, frozen, seen, handled, awaited, job,
                     ignored, fault>>
  BY DEF PutUnderAgent, Mine
<1>2. Typed /\ Shaped
  BY DEF Sound
<1>3. pc' \in {"main", "loop"} /\ NoCallLeft'
  BY <1>1 DEF Dispatched, NoCallLeft
<1>4. calls' \subseteq Calls
  BY <1>1, <1>2 DEF Typed, Calls
<1>5. Sending
  BY <1>1, ToldIsSeq, SendSends, SendsNothing
<1>6. Shaped'
  <2>1. CASE UNCHANGED putting
    BY <1>1, <1>2, <1>3, <2>1 DEF Shaped
  <2>2. CASE putting' = [city |-> c, fresh |-> TRUE]
    <3>1. putting'.city = c /\ putting'.fresh = TRUE
      BY <2>2
    <3> QED BY <1>1, <1>2, <1>3, <2>2, <3>1 DEF Shaped
  <2> QED BY <1>1, <2>1, <2>2
<1>7. /\ managed' \subseteq Cities /\ ignored' \subseteq Cities /\ pc' \in Pcs
      /\ awaited' \in Ids \X Ids /\ fault' \in {"none", "assert", "dangling"}
  BY <1>1, <1>2, <1>3 DEF Typed, Pcs
<1> QED BY <1>1, <1>3, <1>4, <1>5, <1>6, <1>7, QuietStepSound

LEMMA MoveWorkerSound ==
    ASSUME Sound, NEW c \in Cities, NEW t \in Tiles, MoveWorker(c, t)
    PROVE  Sound'
<1> DEFINE to == IF t \in view[c].work THEN "specialist" ELSE "worker"
           sent == Ordered(c, {t}, to)
<1>1. /\ Send(sent)
      /\ UNCHANGED <<server, up, news, running, view, managed, calls, frozen, seen, handled,
                     awaited, pc, job, putting, ignored, fault>>
  BY DEF MoveWorker
<1>2. Typed /\ Shaped /\ NoCallLeft
  BY DEF Sound
<1>3. sent \in Seq(Requests)
  <2>1. to \in {"specialist", "worker"}
    OBVIOUS
  <2> HIDE DEF to
  <2> QED BY <2>1, OrderedOne
<1> HIDE DEF sent
<1>4. Sending
  BY <1>1, <1>3, SendSends
<1>5. Shaped' /\ NoCallLeft'
  BY <1>1, <1>2 DEF Shaped, NoCallLeft
<1>6. /\ managed' \subseteq Cities /\ ignored' \subseteq Cities /\ calls' \subseteq Calls
      /\ awaited' \in Ids \X Ids /\ pc' \in Pcs /\ fault' \in {"none", "assert", "dangling"}
  BY <1>1, <1>2 DEF Typed, Calls, Pcs
<1> QED BY <1>1, <1>4, <1>5, <1>6, QuietStepSound

\* What is kept of a job, and of what is put under the agent, when objects go
LEMMA StaysShaped ==
    ASSUME Shaped, pc \in {"main", "wait"},
           job' = job \/ job' = [job EXCEPT !.fresh = FALSE],
           putting' = putting \/ putting' = [putting EXCEPT !.fresh = FALSE],
           pc' \in {"main", "loop", pc} \/ (pc = "wait" /\ pc' = "judge")
    PROVE  Shaped' /\ job'.city = job.city /\ job'.goal = job.goal
<1>1. \E f : job' = [city |-> job.city, try |-> job.try, goal |-> job.goal, fresh |-> f]
  <2>1. job = [city |-> job.city, try |-> job.try, goal |-> job.goal, fresh |-> job.fresh]
    BY DEF Shaped
  <2>2. CASE job' = [job EXCEPT !.fresh = FALSE]
    <3>1. job' = [city |-> job.city, try |-> job.try, goal |-> job.goal, fresh |-> FALSE]
      BY <2>1, <2>2
    <3> QED BY <3>1
  <2>3. CASE job' = job
    BY <2>1, <2>3
  <2> QED BY <2>2, <2>3
<1>2. \E f : putting' = [city |-> putting.city, fresh |-> f]
  <2>1. putting = [city |-> putting.city, fresh |-> putting.fresh]
    BY DEF Shaped
  <2>2. CASE putting' = [putting EXCEPT !.fresh = FALSE]
    <3>1. putting' = [city |-> putting.city, fresh |-> FALSE]
      BY <2>1, <2>2
    <3> QED BY <3>1
  <2>3. CASE putting' = putting
    BY <2>1, <2>3
  <2> QED BY <2>2, <2>3
<1>3. /\ job' = [city |-> job'.city, try |-> job'.try, goal |-> job'.goal, fresh |-> job'.fresh]
      /\ job'.city = job.city /\ job'.goal = job.goal
  BY <1>1
<1>4. putting' = [city |-> putting'.city, fresh |-> putting'.fresh] /\ putting'.city = putting.city
  BY <1>2
<1>5. pc' \in {"try", "wait", "judge"} => pc = "wait"
  OBVIOUS
<1> QED BY <1>3, <1>4, <1>5 DEF Shaped

\* What a packet does to the client: it takes it where the packet leads to.
Handled(p) ==
    /\ view' \in Views /\ running' \in BOOLEAN
    /\ managed' \subseteq Cities /\ ignored' \subseteq Cities /\ calls' \subseteq Calls
    /\ frozen' \in Nat /\ seen' \in Ids /\ handled' \in Ids /\ awaited' \in Ids \X Ids
    /\ pc' \in Pcs
    /\ Here' = After(Here, p)
    /\ Sending
    /\ Shaped' /\ NoCallLeft'

LEMMA SoundTypes ==
    ASSUME Sound
    PROVE  /\ Typed /\ Shaped
           /\ view \in Views /\ running \in BOOLEAN /\ managed \subseteq Cities
           /\ ignored \subseteq Cities /\ calls \subseteq Calls /\ frozen \in Nat
           /\ seen \in Ids /\ handled \in Ids /\ awaited \in Ids \X Ids /\ pc \in Pcs
BY DEF Sound, Typed, Calls, Pcs

LEMMA HandleCityHandles ==
    ASSUME Sound, pc \in {"main", "wait"}, NEW p \in Packets, p.kind = "city", HandleCity(p)
    PROVE  Handled(p)
<1>1. p.city \in Cities /\ p.data \in ShownData \cup {NoCity}
  BY DEF Packets
<1>2. /\ view' = [view EXCEPT ![p.city] = p.data] /\ calls' = Enqueued(p.city, "change")
      /\ job' = job \/ job' = [job EXCEPT !.fresh = FALSE]
      /\ putting' = putting \/ putting' = [putting EXCEPT !.fresh = FALSE]
      /\ ignored' \subseteq ignored \cup {p.city} /\ pc' = Dispatched(frozen, calls')
      /\ UNCHANGED <<requests, used, running, managed, frozen, seen, handled, awaited>>
  BY DEF HandleCity, Deleted
<1>3. view' \in Views /\ ignored' \subseteq Cities
  BY <1>1, <1>2, SoundTypes DEF Views
<1>4. calls' \subseteq Calls
  BY <1>1, <1>2, SoundTypes, EnqueuedTyped
<1>5. pc' \in Pcs /\ (pc' = pc \/ pc' = "loop") /\ NoCallLeft'
  BY <1>2, SoundTypes, DispatchedLeavesNone DEF NoCallLeft
<1>6. Shaped'
  BY <1>2, <1>5, StaysShaped, SoundTypes
<1>7. Here' = After(Here, p)
  <2>1. ~Opening(p) /\ ~Closing(p) /\ Tells(p)
    BY DEF Opening, Closing, Tells
  <2> QED BY <1>2, <2>1 DEF Here, After
<1>8. Sending
  BY <1>2, SendsNothing
<1> QED BY <1>2, <1>3, <1>4, <1>5, <1>6, <1>7, <1>8, SoundTypes DEF Handled

LEMMA HandleRemoveHandles ==
    ASSUME Sound, pc \in {"main", "wait"}, NEW p \in Packets, p.kind = "remove", HandleRemove(p)
    PROVE  Handled(p)
<1>1. p.city \in Cities /\ p.data = NoCity
  BY DEF Packets
<1>2. UNCHANGED <<requests, used, running, managed, frozen, seen, handled, awaited, ignored>>
  BY DEF HandleRemove
<1>3. view' = [view EXCEPT ![p.city] = NoCity] /\ view' \in Views
  <2>1. CASE Exists(view, p.city)
    BY <2>1, SoundTypes DEF HandleRemove, Views
  <2>2. CASE ~Exists(view, p.city)
    <3>1. view' = view /\ view[p.city] = NoCity
      BY <2>2 DEF HandleRemove, Exists
    <3> QED BY <1>1, <3>1, SoundTypes DEF Views
  <2> QED BY <2>1, <2>2
<1>4. Here' = After(Here, p)
  <2>1. ~Opening(p) /\ ~Closing(p) /\ Tells(p)
    BY DEF Opening, Closing, Tells
  <2> QED BY <1>1, <1>2, <1>3, <2>1 DEF Here, After
<1>5. Sending
  BY <1>2, SendsNothing
<1>6. CASE ~Exists(view, p.city)
  <2>1. UNCHANGED <<calls, pc, job, putting>>
    BY <1>6 DEF HandleRemove
  <2>2. Shaped' /\ NoCallLeft'
    BY <1>2, <2>1, SoundTypes DEF Sound, Shaped, NoCallLeft
  <2> QED BY <1>2, <1>3, <1>4, <1>5, <2>1, <2>2, SoundTypes DEF Handled
<1>7. CASE Exists(view, p.city)
  <2>1. /\ calls' = Enqueued(p.city, "remove") /\ pc' = Dispatched(frozen, calls')
        /\ job' = job \/ job' = [job EXCEPT !.fresh = FALSE]
        /\ putting' = putting \/ putting' = [putting EXCEPT !.fresh = FALSE]
    BY <1>7 DEF HandleRemove, Deleted
  <2>2. calls' \subseteq Calls
    BY <1>1, <2>1, SoundTypes, EnqueuedTyped
  <2>3. pc' \in Pcs /\ (pc' = pc \/ pc' = "loop") /\ NoCallLeft'
    BY <1>2, <2>1, SoundTypes, DispatchedLeavesNone DEF NoCallLeft
  <2>4. Shaped'
    BY <2>1, <2>3, StaysShaped, SoundTypes
  <2> QED BY <1>2, <1>3, <1>4, <1>5, <2>2, <2>3, <2>4, SoundTypes DEF Handled
<1> QED BY <1>6, <1>7

LEMMA HandleFreezeHandles ==
    ASSUME Sound, NEW p \in Packets, p.kind \in {"started", "freeze"}, Fits(Here, p),
           HandleFreeze(p)
    PROVE  Handled(p)
<1>1. /\ handled' = (IF p.kind = "started" THEN NextId(seen) ELSE handled)
      /\ frozen' = frozen + 1
      /\ UNCHANGED <<requests, used, running, view, managed, calls, seen, awaited, pc, job,
                     putting, ignored>>
  BY DEF HandleFreeze
<1>2. NextId(seen) \in Ids /\ NextId(seen) # 0
  BY NextIdIsId, SoundTypes
<1>3. Opening(p) /\ ~Closing(p) /\ p.kind # "finished" /\ p.kind # "running" /\ ~Tells(p)
  BY DEF Opening, Closing, Tells
<1>4. Here' = After(Here, p)
  <2>1. CASE p.kind = "started"
    <3>1. handled = 0
      BY <2>1 DEF Fits, Here
    <3>2. /\ handled' = NextId(seen) /\ handled' # 0
          /\ Here.id = seen /\ Here.depth = frozen /\ Here.running = running /\ Here.shown = view
      BY <1>1, <1>2, <2>1, <3>1 DEF Here
    <3>3. Here' = [id |-> NextId(seen), open |-> TRUE, depth |-> frozen + 1,
                   running |-> running, shown |-> view]
      BY <1>1, <3>2 DEF Here
    <3>4. After(Here, p) = [id |-> NextId(Here.id), open |-> TRUE, depth |-> Here.depth + 1,
                            running |-> Here.running, shown |-> Here.shown]
      BY <1>3, <2>1 DEF After
    <3> QED BY <3>2, <3>3, <3>4
  <2>2. CASE p.kind # "started"
    <3>1. handled' = handled /\ seen' = seen /\ frozen' = frozen + 1 /\ running' = running
          /\ view' = view
      BY <1>1, <2>2
    <3> QED BY <1>3, <2>2, <3>1 DEF Here, After
  <2> QED BY <2>1, <2>2
<1>5. frozen' \in Nat /\ frozen' # 0
  BY <1>1, SoundTypes
<1>6. handled' \in Ids
  BY <1>1, <1>2, SoundTypes
<1>7. NoCallLeft' /\ Shaped'
  BY <1>1, <1>5, SoundTypes DEF NoCallLeft, Shaped
<1>8. Sending
  BY <1>1, SendsNothing
<1> QED BY <1>1, <1>4, <1>5, <1>6, <1>7, <1>8, SoundTypes DEF Handled

\* After a thaw no call is left: a client that is not in its game yet stays frozen.
LEMMA ThawedLeavesNone ==
    ASSUME Sound, NEW p \in Packets, Closing(p), Fits(Here, p), frozen' = frozen - 1,
           pc' = Thawed, calls' = calls
    PROVE  pc' \in Pcs /\ (pc' = pc \/ pc' = "loop") /\ frozen' \in Nat /\ NoCallLeft'
<1>1. frozen > 0 /\ (~running => frozen > 1)
  BY DEF Fits, Here, Opening, Closing
<1>2. CASE running
  BY <1>1, <1>2, SoundTypes, DispatchedLeavesNone DEF Thawed, NoCallLeft
<1>3. CASE ~running
  BY <1>1, <1>3, SoundTypes DEF Thawed, NoCallLeft
<1> QED BY <1>2, <1>3

LEMMA HandleThawHandles ==
    ASSUME Sound, pc \in {"main", "wait"}, NEW p \in Packets, p.kind = "thaw", Fits(Here, p),
           HandleThaw(p)
    PROVE  Handled(p)
<1>1. /\ frozen' = frozen - 1 /\ pc' = Thawed
      /\ UNCHANGED <<requests, used, running, view, managed, calls, seen, handled, awaited,
                     job, putting, ignored>>
  BY DEF HandleThaw
<1>2. /\ Closing(p) /\ ~Opening(p) /\ p.kind # "started" /\ p.kind # "finished"
      /\ p.kind # "running" /\ ~Tells(p)
  BY DEF Opening, Closing, Tells
<1>3. pc' \in Pcs /\ (pc' = pc \/ pc' = "loop") /\ frozen' \in Nat /\ NoCallLeft'
  BY <1>1, <1>2, ThawedLeavesNone
<1>4. Here' = After(Here, p)
  BY <1>1, <1>2 DEF Here, After
<1>5. Shaped'
  <2>1. Shaped
    BY SoundTypes
  <2>2. job' = job /\ putting' = putting
    BY <1>1
  <2>3. pc' \in {"main", "loop", pc}
    BY <1>3
  <2> QED BY <2>1, <2>2, <2>3, StaysShaped
<1>6. Sending
  BY <1>1, SendsNothing
<1> QED BY <1>1, <1>3, <1>4, <1>5, <1>6, SoundTypes DEF Handled

LEMMA HandleFinishedHandles ==
    ASSUME Sound, pc \in {"main", "wait"}, NEW p \in Packets, p.kind = "finished",
           Fits(Here, p), HandleFinished(p)
    PROVE  Handled(p)
<1>1. /\ seen' = handled /\ handled' = 0 /\ frozen' = frozen - 1
      /\ UNCHANGED <<requests, used, running, view, managed, calls, job, putting, ignored>>
      /\ \/ pc = "wait" /\ awaited' = <<0, 0>> /\ pc' = "judge"
         \/ pc' = Thawed /\ UNCHANGED awaited
  BY DEF HandleFinished
<1>2. /\ Closing(p) /\ ~Opening(p) /\ p.kind # "started" /\ p.kind # "running" /\ ~Tells(p)
  BY DEF Opening, Closing, Tells
<1>3. frozen > 0 /\ handled # 0
  BY <1>2 DEF Fits, Here
<1>4. Here' = After(Here, p)
  <2>1. Here.id = handled /\ Here.depth = frozen /\ Here.running = running /\ Here.shown = view
    BY <1>3 DEF Here
  <2>2. Here' = [id |-> handled, open |-> FALSE, depth |-> frozen - 1, running |-> running,
                 shown |-> view]
    BY <1>1 DEF Here
  <2>3. After(Here, p) = [id |-> Here.id, open |-> FALSE, depth |-> Here.depth - 1,
                          running |-> Here.running, shown |-> Here.shown]
    BY <1>2 DEF After
  <2> QED BY <2>1, <2>2, <2>3
<1>5. pc' \in Pcs /\ frozen' \in Nat /\ NoCallLeft'
      /\ (pc' \in {"main", "loop", pc} \/ (pc = "wait" /\ pc' = "judge"))
  <2>1. CASE pc = "wait" /\ pc' = "judge"
    BY <1>1, <1>3, <2>1, SoundTypes DEF Pcs, NoCallLeft
  <2>2. CASE pc' = Thawed
    BY <1>1, <1>2, <2>2, ThawedLeavesNone
  <2> QED BY <1>1, <2>1, <2>2
<1>6. Shaped'
  BY <1>1, <1>5, StaysShaped, SoundTypes
<1>7. awaited' \in Ids \X Ids /\ seen' \in Ids /\ handled' \in Ids
  BY <1>1, SmallIds, SoundTypes
<1>8. Sending
  BY <1>1, SendsNothing
<1> QED BY <1>1, <1>4, <1>5, <1>6, <1>7, <1>8, SoundTypes DEF Handled

\* One request for each of some cities
LEMMA ToldAllIsSeq ==
    ASSUME NEW C, C \subseteq Cities, NEW S
    PROVE  [i \in 1..Len(SetToSeq(C)) |-> Told(SetToSeq(C)[i], S)] \in Seq(Requests)
<1> DEFINE q == SetToSeq(C)
           s == [i \in 1..Len(q) |-> Told(q[i], S)]
<1>1. q \in Seq(C)
  BY AgentsAssumption, FS_Subset, SetToSeqIsSeq
<1> HIDE DEF q
<1>2. Len(q) \in Nat /\ \A i \in 1..Len(q) : q[i] \in C
  BY <1>1, LenProperties, ElementOfSeq
<1>3. s \in [1..Len(q) -> Requests]
  BY <1>2, ToldIsSeq
<1> HIDE DEF s
<1>4. s \in Seq(Requests)
  BY <1>2, <1>3
<1> QED BY <1>4 DEF s, q

LEMMA HandleManagersHandles ==
    ASSUME Sound, pc \in {"main", "wait"}, NEW p \in Packets, p.kind = "managers",
           HandleManagers(p)
    PROVE  Handled(p)
<1> DEFINE C == {c \in Cities : Own(view, c)}
           s == [i \in 1..Len(SetToSeq(C)) |-> Told(SetToSeq(C)[i], managed')]
<1>1. p.data \subseteq Cities
  BY DEF Packets
<1>2. /\ managed' = managed \cup p.data /\ Send(s)
      /\ UNCHANGED <<running, view, calls, frozen, seen, handled, awaited, pc, job, putting,
                     ignored>>
  BY DEF HandleManagers
<1>3. s \in Seq(Requests)
  BY ToldAllIsSeq
<1> HIDE DEF s
<1>4. Sending
  BY <1>2, <1>3, SendSends
<1>5. Here' = After(Here, p)
  <2>1. ~Opening(p) /\ ~Closing(p) /\ ~Tells(p)
    BY DEF Opening, Closing, Tells
  <2> QED BY <1>2, <2>1 DEF Here, After
<1>6. Shaped' /\ NoCallLeft'
  BY <1>2, SoundTypes DEF Sound, Shaped, NoCallLeft
<1> QED BY <1>1, <1>2, <1>4, <1>5, <1>6, SoundTypes DEF Handled

LEMMA HandleRunningHandles ==
    ASSUME Sound, pc \in {"main", "wait"}, NEW p \in Packets, p.kind = "running",
           HandleRunning(p)
    PROVE  Handled(p)
<1>1. /\ running' = TRUE /\ pc' = Dispatched(frozen, calls)
      /\ UNCHANGED <<requests, used, view, managed, calls, frozen, seen, handled, awaited,
                     job, putting, ignored>>
  BY DEF HandleRunning
<1>2. pc' \in Pcs /\ (pc' = pc \/ pc' = "loop") /\ NoCallLeft'
  BY <1>1, SoundTypes, DispatchedLeavesNone DEF NoCallLeft
<1>3. Here' = After(Here, p)
  <2>1. ~Opening(p) /\ ~Closing(p) /\ ~Tells(p)
    BY DEF Opening, Closing, Tells
  <2> QED BY <1>1, <2>1 DEF Here, After
<1>4. Shaped'
  BY <1>1, <1>2, StaysShaped, SoundTypes
<1>5. Sending
  BY <1>1, SendsNothing
<1> QED BY <1>1, <1>2, <1>3, <1>4, <1>5, SoundTypes DEF Handled

\* What Receive does, by the kind of the packet
LEMMA ReceiveKinds ==
    ASSUME Sound, Receive
    PROVE  LET p == Head(news) IN
           /\ up /\ pc \in {"main", "wait"} /\ news # <<>> /\ news' = Tail(news)
           /\ p \in Packets /\ Fits(Here, p)
           /\ UNCHANGED <<server, up, fault>>
           /\ p.kind \in {"city", "remove", "started", "freeze", "thaw", "finished", "managers",
                          "running"}
           /\ p.kind = "city" => HandleCity(p)
           /\ p.kind = "remove" => HandleRemove(p)
           /\ p.kind \in {"started", "freeze"} => HandleFreeze(p)
           /\ p.kind = "thaw" => HandleThaw(p)
           /\ p.kind = "finished" => HandleFinished(p)
           /\ p.kind = "managers" => HandleManagers(p)
           /\ p.kind = "running" => HandleRunning(p)
<1> DEFINE p == Head(news)
<1>1. /\ pc \in {"main", "wait"} /\ news # <<>> /\ news' = Tail(news)
      /\ UNCHANGED <<server, up, fault>>
  BY DEF Receive
<1>2. up /\ news \in Seq(Packets) /\ Through(Here, news, Settled(counted, city), Anywhere)
  BY <1>1 DEF Sound, Typed, InTouch
<1>3. p \in Packets
  BY <1>1, <1>2, HeadTailProperties
<1>4. Fits(Here, p)
  BY <1>1, <1>2, ThroughTail
<1>5. /\ p.kind = "city" => HandleCity(p)
      /\ p.kind = "remove" => HandleRemove(p)
      /\ p.kind \in {"started", "freeze"} => HandleFreeze(p)
      /\ p.kind = "thaw" => HandleThaw(p)
      /\ p.kind = "finished" => HandleFinished(p)
      /\ p.kind = "managers" => HandleManagers(p)
      /\ p.kind = "running" => HandleRunning(p)
  BY DEF Receive
<1>6. p.kind \in {"city", "remove", "started", "freeze", "thaw", "finished", "managers", "running"}
  BY <1>3 DEF Packets
<1> HIDE DEF p
<1> QED BY <1>1, <1>2, <1>3, <1>4, <1>5, <1>6 DEF p

LEMMA ReceiveHandles ==
    ASSUME Sound, Receive
    PROVE  Handled(Head(news))
<1> DEFINE p == Head(news)
<1>1. /\ pc \in {"main", "wait"} /\ p \in Packets /\ Fits(Here, p)
      /\ p.kind \in {"city", "remove", "started", "freeze", "thaw", "finished", "managers",
                     "running"}
      /\ p.kind = "city" => HandleCity(p)
      /\ p.kind = "remove" => HandleRemove(p)
      /\ p.kind \in {"started", "freeze"} => HandleFreeze(p)
      /\ p.kind = "thaw" => HandleThaw(p)
      /\ p.kind = "finished" => HandleFinished(p)
      /\ p.kind = "managers" => HandleManagers(p)
      /\ p.kind = "running" => HandleRunning(p)
  BY ReceiveKinds
<1> HIDE DEF p
<1>2. Handled(p)
  <2>1. CASE p.kind = "city"
    BY <1>1, <2>1, HandleCityHandles
  <2>2. CASE p.kind = "remove"
    BY <1>1, <2>2, HandleRemoveHandles
  <2>3. CASE p.kind \in {"started", "freeze"}
    BY <1>1, <2>3, HandleFreezeHandles
  <2>4. CASE p.kind = "thaw"
    BY <1>1, <2>4, HandleThawHandles
  <2>5. CASE p.kind = "finished"
    BY <1>1, <2>5, HandleFinishedHandles
  <2>6. CASE p.kind = "managers"
    BY <1>1, <2>6, HandleManagersHandles
  <2>7. CASE p.kind = "running"
    BY <1>1, <2>7, HandleRunningHandles
  <2> QED BY <1>1, <2>1, <2>2, <2>3, <2>4, <2>5, <2>6, <2>7
<1> QED BY <1>2 DEF p

LEMMA ReceiveSound ==
    ASSUME Sound, Receive
    PROVE  Sound'
<1> DEFINE p == Head(news)
<1>1. up /\ news # <<>> /\ news' = Tail(news) /\ UNCHANGED <<server, up, fault>>
  BY ReceiveKinds
<1>2. news \in Seq(Packets) /\ Through(Here, news, Settled(counted, city), Anywhere)
  BY <1>1 DEF Sound, Typed, InTouch
<1>3. news' \in Seq(Packets)
  BY <1>1, <1>2, HeadTailProperties
<1>4. Through(After(Here, p), news', Settled(counted, city), Anywhere)
  BY <1>1, <1>2, ThroughTail
<1>5. Handled(p)
  BY ReceiveHandles
<1> HIDE DEF p
<1>6. Typed'
  BY <1>1, <1>3, <1>5 DEF Sound, Typed, Handled, Sending, server, Calls, Pcs
<1>7. InTouch'
  <2>1. Here' = After(Here, p) /\ up' /\ counted' = counted /\ city' = city
        /\ used' = LastId(counted, Len(requests'))
    BY <1>1, <1>5 DEF Handled, Sending, server
  <2> QED BY <1>4, <2>1 DEF InTouch
<1> QED BY <1>5, <1>6, <1>7 DEF Sound, Handled

LEMMA DisconnectSound ==
    ASSUME Sound, Disconnect
    PROVE  Sound'
<1>1. /\ up' = FALSE /\ requests' = <<>> /\ news' = <<>> /\ running' = FALSE
      /\ view' = [c \in Cities |-> NoCity] /\ managed' = {} /\ calls' = {} /\ ignored' = {}
      /\ frozen' = 0 /\ awaited' = <<0, 0>>
      /\ job' = [job EXCEPT !.fresh = FALSE] /\ putting' = [putting EXCEPT !.fresh = FALSE]
      /\ pc \in {"main", "wait"}
      /\ pc' \in {"main", "loop", pc} \/ (pc = "wait" /\ pc' = "judge")
      /\ UNCHANGED <<server, ids, fault>>
  BY DEF Disconnect, FrozenAfterClose
<1>2. requests' \in Seq(Requests) /\ news' \in Seq(Packets) /\ view' \in Views
  BY <1>1 DEF Views
<1>3. awaited' \in Ids \X Ids
  BY <1>1, SmallIds
<1>4. pc' \in {"main", "loop", "try", "wait", "judge"}
  BY <1>1
<1>5. Typed'
  BY <1>1, <1>2, <1>3, <1>4 DEF Sound, Typed, server, ids
<1>6. Shaped'
  BY <1>1, StaysShaped, SoundTypes
<1>7. InTouch' /\ NoCallLeft'
  BY <1>1 DEF InTouch, NoCallLeft
<1> QED BY <1>5, <1>6, <1>7 DEF Sound

LEMMA ReconnectSound ==
    ASSUME Sound, Reconnect
    PROVE  Sound'
<1>1. /\ ~up /\ up' = TRUE /\ used' = 1 /\ seen' = 0 /\ handled' = 0 /\ counted' = 1
      /\ UNCHANGED <<city, requests, running, view, managed, calls, frozen, awaited, pc, job,
                     putting, ignored, fault>>
  BY DEF Reconnect
<1>2. PICK S \in SUBSET Cities :
        news' = <<Mark("started", 1), Mark("freeze", 0)>>
                  \o Infos({c \in Cities : Exists(city, c)})
                  \o <<[kind |-> "managers", city |-> NoCity, data |-> S, id |-> 0],
                       Mark("running", 0), Mark("thaw", 0), Mark("finished", 1)>>
  BY DEF Reconnect
<1>3. requests = <<>> /\ frozen = 0 /\ running = FALSE /\ view = [c \in Cities |-> NoCity]
  BY <1>1 DEF Sound, InTouch
<1>4. news' \in Seq(Packets) /\ Through(Blank, news', Settled(1, city'), Anywhere)
  <2>1. Blank \in Fronts
    BY SmallIds DEF Blank, Fronts, Views
  <2>2. <<Blank, Mark("started", 1)>> \in Anywhere
    BY <2>1, SmallIds, MarkIsPacket DEF Anywhere
  <2>3. \A x \in Fronts, q \in Packets : q.kind # "started" => <<x, q>> \in Anywhere
    BY DEF Anywhere
  <2>4. city' \in [Cities -> CityData \cup {NoCity}] /\ city' = city
    BY <1>1 DEF Sound, Typed
  <2> QED BY <1>2, <2>2, <2>3, <2>4, JoinPath
<1>5. Typed'
  BY <1>1, <1>4, SmallIds DEF Sound, Typed
<1>6. InTouch'
  <2>1. Here' = Blank
    BY <1>1, <1>3 DEF Here, Blank
  <2>2. Settled(counted, city)' = Settled(1, city')
    BY <1>1 DEF Settled
  <2>3. Len(requests') = 0
    BY <1>1, <1>3
  <2>4. used' = LastId(counted', Len(requests'))
    BY <1>1, <2>3, SmallIds, LastIdIsId
  <2> QED BY <1>1, <1>4, <2>1, <2>2, <2>4 DEF InTouch
<1>7. NoCallLeft' /\ Shaped'
  BY <1>1 DEF Sound, NoCallLeft, Shaped
<1> QED BY <1>5, <1>6, <1>7 DEF Sound

LEMMA NextSound ==
    ASSUME Sound, [Next]_vars
    PROVE  Sound'
<1>1. CASE Serve
  BY <1>1, ServeSound
<1>2. ASSUME NEW c \in Cities, ChangeCity(c) PROVE Sound'
  BY <1>2, ChangeCitySound
<1>3. ASSUME NEW c \in Cities, RemoveCity(c) PROVE Sound'
  BY <1>3, RemoveCitySound
<1>4. CASE Receive
  BY <1>4, ReceiveSound
<1>5. CASE ExecuteCall
  BY <1>5, ExecuteCallSound
<1>6. CASE Return
  BY <1>6, ReturnSound
<1>7. CASE Try
  BY <1>7, TrySound
<1>8. CASE Judge
  BY <1>8, JudgeSound
<1>9. ASSUME NEW c \in Cities, PutUnderAgent(c) PROVE Sound'
  BY <1>9, PutUnderAgentSound
<1>10. ASSUME NEW c \in Cities, NEW t \in Tiles, MoveWorker(c, t) PROVE Sound'
  BY <1>10, MoveWorkerSound
<1>11. CASE Disconnect
  BY <1>11, DisconnectSound
<1>12. CASE Reconnect
  BY <1>12, ReconnectSound
<1>13. CASE UNCHANGED vars
  <2>1. Typed'
    BY <1>13 DEF Sound, Typed, vars, server, network, client, ids
  <2>2. InTouch'
    BY <1>13 DEF Sound, InTouch, Here, vars, server, network, client, ids
  <2>3. NoCallLeft' /\ Shaped'
    BY <1>13 DEF Sound, NoCallLeft, Shaped, vars, client
  <2> QED BY <2>1, <2>2, <2>3 DEF Sound
<1> QED BY <1>1, <1>2, <1>3, <1>4, <1>5, <1>6, <1>7, <1>8, <1>9, <1>10, <1>11, <1>12, <1>13
        DEF Next, ServerStep, ClientStep, UserStep

LEMMA AlwaysSound == Spec => []Sound
<1>1. Sound /\ [Next]_vars => Sound'
  BY NextSound
<1> QED BY <1>1, InitSound, PTL DEF Spec

(***************************************************************************)
(* 7. The theorems.                                                        *)
(***************************************************************************)

\* The variables have their types; the freeze of the client (frozen_level) never
\* goes below zero, because every thaw and every end of an answer that comes in
\* closes what was opened for it on the same connection.
THEOREM AgentsTypes == Spec => []TypeOK
<1>1. Sound => TypeOK
  BY SoundIsTyped
<1> QED BY <1>1, AlwaysSound, PTL

\* Client and server count the requests alike although only the server numbers its
\* answers and only the client its requests: for every number where they wrap, every
\* sequence of requests under way, and over lost connections.
THEOREM NumbersInStep == Spec => []IdsInStep
<1>1. Sound => IdsInStep
  BY SoundIdsInStep
<1> QED BY <1>1, AlwaysSound, PTL

\* A client is frozen for what is under way and for nothing else, and a thawed one
\* that is back in its main loop has handled every call of its agents.
THEOREM FreezesAlwaysEnd == Spec => []FreezesEnd
<1>1. Sound => FreezesEnd
  BY SoundFreezesEnd
<1> QED BY <1>1, AlwaysSound, PTL

(***************************************************************************)
(* 8. What the news are allowed to say.                                    *)
(***************************************************************************)

\* What an answer to a request about city c says: that c, which the client has been
\* shown as its own, is its own and has the tiles it had, or something of a neighbour.
Echo(x, p, c) ==
    IF p.city = c
      THEN /\ Own(x.shown, c) /\ p.data # NoCity /\ p.data.owner = "me"
           /\ p.data.open = x.shown[c].open
      ELSE Near[p.city] \cap Near[c] # {}

\* What may come where, if the requests from first to last are all about city c: no
\* number wraps, and answers to those requests echo them.
Allowed(first, last, c) ==
    {e \in Anywhere :
       /\ e[2].kind = "started" => NextId(e[1].id) = e[1].id + 1
       /\ Tells(e[2]) /\ e[1].open /\ first # 0 /\ first <= e[1].id /\ e[1].id <= last
            => Echo(e[1], e[2], c)}

\* Numbers do not fall along a path, and rise where an answer starts.
LEMMA PathRises ==
    ASSUME NEW s \in Seq(Packets), NEW x, NEW y, NEW a, NEW b, NEW c,
           NEW w, Path(w, s, Allowed(a, b, c)), w[0] = x, w[Len(s)] = y
    PROVE  /\ \A i \in 0..Len(s) : w[i].id <= y.id /\ x.id <= w[i].id
           /\ (\E i \in DOMAIN s : s[i].kind = "started") => x.id < y.id
<1> DEFINE n == Len(s)
<1>1. n \in Nat /\ DOMAIN s = 1..n
  BY LenProperties
<1>2. \A k \in 0..n : w[k].id \in Nat
  BY AgentsAssumption DEF Path, Fronts, Ids
<1>3. ASSUME NEW k \in 1..n
      PROVE  /\ w[k - 1].id <= w[k].id
             /\ s[k].kind = "started" => w[k - 1].id < w[k].id
  <2>1. w[k] = After(w[k - 1], s[k]) /\ <<w[k - 1], s[k]>> \in Allowed(a, b, c)
    BY DEF Path
  <2>2. w[k].id = IF s[k].kind = "started" THEN NextId(w[k - 1].id) ELSE w[k - 1].id
    BY <2>1 DEF After
  <2>3. s[k].kind = "started" => NextId(w[k - 1].id) = w[k - 1].id + 1
    BY <2>1 DEF Allowed
  <2>4. k - 1 \in 0..n
    BY <1>1
  <2> QED BY <1>2, <2>2, <2>3, <2>4
<1>4. ASSUME NEW i \in 0..n PROVE \A k \in 0..n : i <= k => w[i].id <= w[k].id
  <2> DEFINE P == {k \in 0..n : i <= k => w[i].id <= w[k].id}
  <2>1. 0 \in P
    BY <1>1, <1>2
  <2>2. ASSUME NEW k \in 1..n, k - 1 \in P PROVE k \in P
    <3>1. k - 1 \in 0..n /\ k \in 0..n
      BY <1>1
    <3> QED BY <1>2, <1>3, <2>2, <3>1
  <2>3. \A k \in 0..n : k \in P
    <3> HIDE DEF P
    <3>1. \A k \in 1..n : k - 1 \in P => k \in P
      BY <2>2
    <3> QED BY <1>1, <2>1, <3>1, UpTo
  <2> QED BY <2>3
<1>5. 0 \in 0..n /\ n \in 0..n
  BY <1>1
<1>6. \A i \in 0..n : w[i].id <= y.id /\ x.id <= w[i].id
  BY <1>1, <1>4, <1>5
<1>7. ASSUME NEW i \in DOMAIN s, s[i].kind = "started" PROVE x.id < y.id
  <2>1. i \in 1..n /\ i - 1 \in 0..n /\ i \in 0..n
    BY <1>1
  <2>2. x.id <= w[i - 1].id /\ w[i - 1].id < w[i].id /\ w[i].id <= y.id
    BY <1>3, <1>6, <1>7, <2>1
  <2>3. x.id \in Nat /\ y.id \in Nat /\ w[i - 1].id \in Nat /\ w[i].id \in Nat
    BY <1>2, <1>5, <2>1
  <2> QED BY <2>2, <2>3
<1> QED BY <1>6, <1>7

\* What is allowed with requests that are waited for is allowed without, ...
LEMMA AllowedWithout ==
    ASSUME NEW s, NEW x, NEW y, NEW a, NEW b, NEW c, NEW d, NEW e,
           Through(x, s, y, Allowed(a, b, c))
    PROVE  Through(x, s, y, Allowed(0, d, e))
<1>1. Allowed(a, b, c) \subseteq Allowed(0, d, e)
  BY DEF Allowed
<1>2. PICK w : Path(w, s, Allowed(a, b, c)) /\ w[0] = x /\ w[Len(s)] = y
  BY DEF Through
<1>3. Path(w, s, Allowed(0, d, e))
  BY <1>1, <1>2 DEF Path
<1> QED BY <1>2, <1>3 DEF Through

\* ... and what is under way when requests are sent answers none of them.
LEMMA AllowedBefore ==
    ASSUME NEW s \in Seq(Packets), NEW x, NEW y, NEW a, NEW b, NEW c, NEW d, NEW e,
           Through(x, s, y, Allowed(0, d, e)), a \in Nat, y.id < a
    PROVE  Through(x, s, y, Allowed(a, b, c))
<1>1. PICK w : Path(w, s, Allowed(0, d, e)) /\ w[0] = x /\ w[Len(s)] = y
  BY DEF Through
<1>2. \A i \in 0..Len(s) : w[i].id <= y.id
  BY <1>1, PathRises
<1>3. Len(s) \in Nat
  BY LenProperties
<1>4. \A i \in 0..Len(s) : w[i].id \in Nat
  BY <1>1, AgentsAssumption DEF Path, Fronts, Ids
<1>5. ASSUME NEW k \in 1..Len(s) PROVE <<w[k - 1], s[k]>> \in Allowed(a, b, c)
  <2>1. <<w[k - 1], s[k]>> \in Allowed(0, d, e)
    BY <1>1 DEF Path
  <2>2. k - 1 \in 0..Len(s) /\ Len(s) \in 0..Len(s)
    BY <1>3
  <2>3. w[k - 1].id \in Nat /\ y.id \in Nat /\ w[k - 1].id <= y.id
    BY <1>1, <1>2, <1>4, <2>2
  <2>4. ~(a <= w[k - 1].id)
    BY <2>3
  <2> QED BY <2>1, <2>4 DEF Allowed
<1>6. Path(w, s, Allowed(a, b, c))
  BY <1>1, <1>5 DEF Path
<1> QED BY <1>1, <1>6 DEF Through

(***************************************************************************)
(* 9. The invariant of an agent that waits, while no number wraps.         *)
(*                                                                         *)
(* The numbers are those that were sent, the requests that are waited for  *)
(* are all about the city of the job, and the answers to them tell about   *)
(* that city, whose tiles stay as they are, and about its neighbours.      *)
(* What the client ignores nothing of is followed by a call; what it       *)
(* ignores is either of the city that is being handled or of a neighbour.  *)
(***************************************************************************)

\* No number wraps around when requests are sent: the number used last grows by as
\* many as are sent.
Unwrapped == Len(requests') > Len(requests) => used' = used + (Len(requests') - Len(requests))

Linear == up => used = counted + Len(requests)

Echoes ==
    up => Through(Here, news, Settled(counted, city), Allowed(awaited[1], awaited[2], job.city))

Waits ==
    /\ pc # "wait" => awaited = <<0, 0>>
    /\ pc = "wait" =>
         /\ up /\ used = awaited[2]
         /\ \A k \in 1..Len(requests) : awaited[1] <= counted + k => requests[k].city = job.city

Called(c) == \E k \in calls : k.city = c

\* What the agent has put to the server is the best for the tiles it is shown, or it
\* will look at the city once more.
Aimed ==
    pc \in {"wait", "judge"} /\ Own(view, job.city) =>
      Called(job.city) \/ job.goal.work = Best[job.goal.setting][view[job.city].open]

\* While a player joins the agents have seen nothing of the cities yet.
Joining == up /\ ~running => pc = "main" /\ \A c \in Cities : Exists(view, c) => Called(c)

Placed == \A c \in Cities : Exists(city, c) => city[c].work \subseteq Near[c]

Excused == \A c \in ignored : \E d \in Cities \ {c} : Near[c] \cap Near[d] # {}

\* A city under the agent that is not as it wants it is being handled, or will be, or
\* its news were ignored.
GoalsInHand ==
    \A c \in managed : Own(view, c) =>
       \/ view[c].work = Best[view[c].setting][view[c].open]
       \/ pc \in {"try", "wait", "judge"} /\ job.city = c
       \/ Called(c)
       \/ c \in ignored

InHand ==
    /\ Linear /\ Echoes /\ Waits /\ JudgedOnAnswers
    /\ Aimed /\ Joining /\ Placed /\ Excused /\ GoalsInHand

LEMMA PlainNextId ==
    ASSUME NEW i \in Ids, i + 1 \in Ids
    PROVE  NextId(i) = i + 1
<1>1. (i + 1) % IdMod = i + 1 /\ i + 1 # 0
  BY AgentsAssumption DEF Ids
<1> QED BY <1>1 DEF NextId

LEMMA InitInHand == Init => InHand
<1> SUFFICES ASSUME Init PROVE InHand
  OBVIOUS
<1>1. /\ view = [c \in Cities |-> Shown(city, c)] /\ calls = {} /\ up = TRUE /\ running = TRUE
      /\ requests = <<>> /\ news = <<>>
      /\ counted = 1 /\ used = 1 /\ seen = 1 /\ handled = 0 /\ frozen = 0
      /\ awaited = <<0, 0>> /\ pc = "main" /\ ignored = {}
  BY DEF Init
<1>2. Linear
  BY <1>1 DEF Linear
<1>3. Echoes
  <2>1. Here = Settled(counted, city)
    BY <1>1 DEF Here, Settled, ShownAll
  <2>2. Sound
    BY InitSound
  <2>3. Here \in Fronts
    BY <2>2, SoundTypes DEF Here, Fronts
  <2>4. Through(Here, <<>>, Settled(counted, city), Allowed(awaited[1], awaited[2], job.city))
    BY <2>1, <2>3, ThroughNone
  <2> QED BY <1>1, <2>4 DEF Echoes
<1>4. Waits /\ JudgedOnAnswers /\ Aimed /\ Joining /\ Excused
  BY <1>1 DEF Waits, JudgedOnAnswers, Aimed, Joining, Excused
<1>5. PICK work \in [Cities -> SUBSET Tiles] :
        /\ city = [c \in Cities |-> [owner |-> "me", setting |-> First, work |-> work[c]]]
        /\ \A c \in Cities : work[c] \subseteq Open(city, c)
  BY DEF Init
<1>6. Placed
  <2> SUFFICES ASSUME NEW c \in Cities PROVE city[c].work \subseteq Near[c]
    BY DEF Placed
  <2>1. city[c].work = work[c]
    BY <1>5
  <2> QED BY <1>5, <2>1, InOpen
<1>7. GoalsInHand
  <2> SUFFICES ASSUME NEW c \in managed, Own(view, c)
      PROVE  view[c].work = Best[view[c].setting][view[c].open]
    BY DEF GoalsInHand
  <2>1. c \in Cities
    BY DEF Init
  <2>2. city[c].work = Best[First][Open(city, c)]
    BY <2>1 DEF Init
  <2>3. city[c] = [owner |-> "me", setting |-> First, work |-> work[c]]
    BY <1>5, <2>1
  <2>4. view[c] = Shown(city, c)
    BY <1>1, <2>1
  <2>5. Own(city, c)
    <3>1. city[c] \in CityData
      BY <2>1, <2>3, AgentsAssumption DEF CityData
    <3> QED BY <2>3, <3>1, NoCityAssumption DEF Own, Exists
  <2>6. view[c] = [owner |-> "me", setting |-> city[c].setting, work |-> city[c].work,
                   open |-> Open(city, c)]
    BY <2>4, <2>5 DEF Shown
  <2> QED BY <2>2, <2>3, <2>6
<1> QED BY <1>2, <1>3, <1>4, <1>6, <1>7 DEF InHand

\* If one city changes, the tiles that are open to it do not, ...
LEMMA OpenToItself ==
    ASSUME NEW c \in Cities, \A d \in Cities \ {c} : city'[d] = city[d]
    PROVE  Open(city', c) = Open(city, c)
<1>1. \A t : t \in Open(city', c) <=> t \in Open(city, c)
  <2> TAKE t
  <2>1. \A d \in Cities \ {c} : Exists(city', d) <=> Exists(city, d)
    BY DEF Exists
  <2> QED BY <2>1, InOpen
<1> QED BY <1>1

\* ... and a city that has no tile in common with it looks as it did.
LEMMA FarLooksTheSame ==
    ASSUME NEW c \in Cities, NEW d \in Cities, c # d,
           \A e \in Cities \ {c} : city'[e] = city[e], Placed, Placed',
           Near[d] \cap Near[c] = {}
    PROVE  Shown(city', d) = Shown(city, d)
<1>1. \A e \in Cities \ {c} : Exists(city', e) <=> Exists(city, e)
  BY DEF Exists
<1>2. \A t \in Near[d] : /\ Exists(city, c) => t \notin city[c].work
                         /\ Exists(city', c) => t \notin city'[c].work
  BY DEF Placed
<1>3. \A t : t \in Open(city', d) <=> t \in Open(city, d)
  <2> TAKE t
  <2>1. t \in Open(city', d)
          <=> t \in Near[d] /\ \A e \in Cities \ {c, d} : Exists(city', e) => t \notin city'[e].work
    BY <1>2, InOpen
  <2>2. t \in Open(city, d)
          <=> t \in Near[d] /\ \A e \in Cities \ {c, d} : Exists(city, e) => t \notin city[e].work
    BY <1>2, InOpen
  <2> QED BY <1>1, <2>1, <2>2
<1>4. Open(city', d) = Open(city, d)
  BY <1>3
<1>5. city'[d] = city[d] /\ (Exists(city', d) <=> Exists(city, d)) /\ (Own(city', d) <=> Own(city, d))
  BY <1>1 DEF Own
<1> QED BY <1>4, <1>5 DEF Shown

\* A step that may send requests
Sends == UNCHANGED <<requests, used>> \/ \E sent \in Seq(Requests) : Send(sent)

LEMMA SendsLinear ==
    ASSUME Sound, Linear, Unwrapped, UNCHANGED <<counted, up>>, Sends
    PROVE  Linear'
<1> SUFFICES ASSUME up PROVE used' = counted + Len(requests')
  BY DEF Linear
<1>1. used = counted + Len(requests) /\ requests \in Seq(Requests) /\ counted \in Nat
  BY AgentsAssumption DEF Linear, Sound, Typed, Ids
<1>2. CASE UNCHANGED <<requests, used>>
  BY <1>1, <1>2
<1>3. ASSUME NEW sent \in Seq(Requests), Send(sent) PROVE used' = counted + Len(requests')
  <2>1. requests' = requests \o sent /\ used' = LastId(used, Len(sent))
    BY <1>3 DEF Send
  <2>2. /\ Len(requests') = Len(requests) + Len(sent)
        /\ Len(requests) \in Nat /\ Len(sent) \in Nat
    BY <1>1, <2>1, ConcatProperties, LenProperties
  <2>3. CASE Len(sent) = 0
    <3>1. used' = used
      BY <2>1, <2>3, LastIdIsId DEF Sound, Typed
    <3> QED BY <1>1, <2>2, <2>3, <3>1
  <2>4. CASE Len(sent) # 0
    BY <1>1, <2>2, <2>4 DEF Unwrapped
  <2> QED BY <2>3, <2>4
<1> QED BY <1>2, <1>3 DEF Sends

\* A step of the agents or the user that does not wait
LEMMA IdleInHand ==
    ASSUME Sound, InHand, Unwrapped, Sends,
           UNCHANGED <<server, up, news, running, view, frozen, seen, handled, awaited>>,
           pc # "wait", pc' \in {"main", "loop", "try"}, pc # "main" \/ running,
           ignored' \subseteq ignored, GoalsInHand'
    PROVE  InHand'
<1>1. /\ city' = city /\ counted' = counted /\ up' = up /\ news' = news /\ running' = running
      /\ view' = view /\ awaited' = awaited /\ Here' = Here
  BY DEF server, Here
<1>2. awaited = <<0, 0>>
  BY DEF InHand, Waits
<1>3. Linear'
  BY <1>1, SendsLinear DEF InHand
<1>4. Echoes'
  <2> SUFFICES ASSUME up
      PROVE  Through(Here, news, Settled(counted, city), Allowed(0, 0, job'.city))
    BY <1>1, <1>2 DEF Echoes, Settled, ShownAll, Shown, Own, Exists, Open
  <2>1. Through(Here, news, Settled(counted, city), Allowed(0, 0, job.city))
    BY <1>2 DEF InHand, Echoes
  <2> QED BY <2>1, AllowedWithout
<1>5. Waits' /\ JudgedOnAnswers' /\ Aimed'
  BY <1>1, <1>2 DEF Waits, JudgedOnAnswers, Aimed
<1>6. Joining'
  <2>1. ~(up /\ ~running)
    BY DEF InHand, Joining
  <2> QED BY <1>1, <2>1 DEF Joining
<1>7. Placed'
  BY <1>1 DEF InHand, Placed, Exists
<1>8. Excused'
  BY DEF InHand, Excused
<1> QED BY <1>3, <1>4, <1>5, <1>6, <1>7, <1>8 DEF InHand

\* What the server does for a request: its city keeps its tiles, and only cities around
\* it look different.
LEMMA ServeChanges ==
    ASSUME Sound, InHand, Serve
    PROVE  LET d == Head(requests).city IN
           /\ d \in Cities /\ Placed'
           /\ \A c \in Cities : Shown(city', c) # Shown(city, c) =>
                IF c = d THEN Own(city, c) /\ Own(city', c) /\ Open(city', c) = Open(city, c)
                ELSE Near[c] \cap Near[d] # {}
<1> DEFINE r == Head(requests)
           d == r.city
           W == Toggled(r)
<1>1. requests # <<>> /\ requests \in Seq(Requests) /\ Typed
  BY DEF Serve, Sound, Typed
<1>2. r \in Requests
  BY <1>1, HeadTailProperties
<1>3. d \in Cities
  BY <1>2 DEF Requests
<1>4. Placed
  BY DEF InHand
<1>5. CASE ~Own(city, d)
  <2>1. city' = city
    BY <1>5 DEF Serve
  <2>2. Placed'
    BY <1>4, <2>1 DEF Placed, Exists
  <2>3. \A c \in Cities : Shown(city', c) = Shown(city, c)
    BY <2>1
  <2> QED BY <1>3, <2>2, <2>3
<1>6. CASE Own(city, d)
  <2>1. city' = [city EXCEPT ![d].work = W] /\ city \in [Cities -> CityData \cup {NoCity}]
    BY <1>1, <1>6 DEF Serve, Typed
  <2>2. W \in SUBSET Tiles
    BY <1>1, <1>2, <1>6, ToggledIsWork
  <2>3. W \subseteq Near[d]
    <3>1. city[d].work \subseteq Near[d]
      BY <1>3, <1>4, <1>6 DEF Placed, Own
    <3>2. Open(city, d) \subseteq Near[d]
      BY <1>3, InOpen
    <3>3. \A t \in W : t \in city[d].work \/ t \in Open(city, d)
      BY DEF Toggled
    <3> HIDE DEF W
    <3> QED BY <3>1, <3>2, <3>3
  <2> HIDE DEF W
  <2>4. city[d] \in CityData /\ city[d].owner = "me"
    BY <1>3, <1>6, <2>1 DEF Own, Exists
  <2> HIDE DEF d
  <2>5. city'[d] = [city[d] EXCEPT !.work = W] /\ \A e \in Cities \ {d} : city'[e] = city[e]
    BY <1>3, <2>1
  <2>6. city'[d] = [owner |-> "me", setting |-> city[d].setting, work |-> W]
    BY <2>4, <2>5 DEF CityData
  <2>7. city'[d] \in CityData
    BY <2>2, <2>4, <2>6 DEF CityData
  <2>8. Own(city', d)
    BY <2>6, <2>7, NoCityAssumption DEF Own, Exists
  <2>9. Placed'
    BY <1>4, <2>3, <2>5, <2>6 DEF Placed, Exists
  <2>10. ASSUME NEW c \in Cities, c # d, Shown(city', c) # Shown(city, c)
         PROVE  Near[c] \cap Near[d] # {}
    BY <1>3, <1>4, <2>5, <2>9, <2>10, FarLooksTheSame
  <2>11. Open(city', d) = Open(city, d)
    BY <1>3, <2>5, OpenToItself
  <2> QED BY <1>3, <1>6, <2>8, <2>9, <2>10, <2>11 DEF d
<1> QED BY <1>5, <1>6

LEMMA ServeInHand ==
    ASSUME Sound, InHand, Serve
    PROVE  InHand'
<1> DEFINE d == Head(requests).city
           id == NextId(counted)
           E == Allowed(awaited[1], awaited[2], job.city)
           y == Answering(id, city)
<1>1. /\ requests # <<>>
      /\ counted' = id /\ requests' = Tail(requests) /\ news' = news \o Answer(Unsynced, id)
      /\ UNCHANGED <<up, client, spent>>
  BY DEF Serve
<1>2. /\ view' = view /\ managed' = managed /\ calls' = calls /\ frozen' = frozen
      /\ used' = used /\ seen' = seen /\ handled' = handled /\ awaited' = awaited
      /\ pc' = pc /\ job' = job /\ up' = up /\ running' = running /\ ignored' = ignored
      /\ Here' = Here
  BY <1>1 DEF client, ids, Here
<1>3. /\ requests \in Seq(Requests) /\ news \in Seq(Packets) /\ counted \in Ids /\ used \in Ids
      /\ city \in [Cities -> CityData \cup {NoCity}] /\ up
  BY <1>1 DEF Sound, Typed, InTouch
<1>4. city' \in [Cities -> CityData \cup {NoCity}]
  BY ServeCities DEF Sound
<1>5. /\ Head(requests) = requests[1]
      /\ Len(requests') = Len(requests) - 1
      /\ \A k \in 1..Len(requests') : requests'[k] = requests[k + 1]
      /\ Len(requests) \in Nat \ {0}
  BY <1>1, <1>3, HeadTailProperties, EmptySeq, LenProperties
<1>6. id = counted + 1 /\ id \in Ids /\ id # 0
  <2>1. used = counted + Len(requests)
    BY <1>3 DEF InHand, Linear
  <2>2. counted + 1 \in Ids
    BY <1>3, <1>5, <2>1, AgentsAssumption DEF Ids
  <2> QED BY <1>3, <2>2, PlainNextId, NextIdIsId
<1>7. /\ d \in Cities /\ Placed'
      /\ \A c \in Cities : Shown(city', c) # Shown(city, c) =>
           IF c = d THEN Own(city, c) /\ Own(city', c) /\ Open(city', c) = Open(city, c)
           ELSE Near[c] \cap Near[d] # {}
  BY ServeChanges
<1>8. ASSUME awaited[1] # 0, awaited[1] <= id PROVE d = job.city
  <2>1. pc = "wait"
    BY <1>8 DEF InHand, Waits
  <2>2. 1 \in 1..Len(requests) /\ awaited[1] <= counted + 1
    BY <1>5, <1>6, <1>8
  <2> QED BY <1>5, <2>1, <2>2 DEF InHand, Waits
<1> HIDE DEF d, id
<1>9. y \in Fronts /\ y.running /\ y.shown = ShownAll(city) /\ y.id = id /\ y.open
  <2>1. ShownAll(city) \in Views
    BY <1>3, ShownIsData
  <2> QED BY <1>6, <2>1 DEF Answering, Fronts
<1>10. ASSUME NEW c \in Cities, NEW v \in Views, Shown(city', c) # Shown(city, c),
              v[c] = y.shown[c]
       PROVE  <<At(y, v), News(c)>> \in E
  <2>1. /\ News(c) \in Packets /\ Tells(News(c)) /\ News(c).city = c
        /\ News(c).data = Shown(city', c) /\ News(c).kind # "started"
    BY <1>4, NewsIsPacket DEF Tells
  <2>2. At(y, v) \in Fronts /\ At(y, v).id = id /\ At(y, v).shown = v
    BY <1>9 DEF At, Fronts
  <2>3. v[c] = Shown(city, c)
    BY <1>9, <1>10 DEF ShownAll
  <2>4. ASSUME awaited[1] # 0, awaited[1] <= id PROVE Echo(At(y, v), News(c), job.city)
    <3>1. d = job.city
      BY <1>8, <2>4
    <3>2. CASE c # d
      BY <1>7, <1>10, <2>1, <3>1, <3>2 DEF Echo
    <3>3. CASE c = d
      <4>1. Own(city, c) /\ Own(city', c) /\ Open(city', c) = Open(city, c)
        BY <1>7, <1>10, <3>3
      <4>2. /\ v[c] = [owner |-> "me", setting |-> city[c].setting, work |-> city[c].work,
                       open |-> Open(city, c)]
            /\ News(c).data = [owner |-> "me", setting |-> city'[c].setting,
                               work |-> city'[c].work, open |-> Open(city', c)]
        BY <2>1, <2>3, <4>1 DEF Shown
      <4>3. city[c] \in CityData /\ city'[c] \in CityData
        BY <1>3, <1>4, <4>1 DEF Own, Exists
      <4>4. Open(city, c) \subseteq Tiles
        BY AgentsAssumption, InOpen
      <4>5. v[c] \in ShownData /\ News(c).data \in ShownData
        BY <4>1, <4>2, <4>3, <4>4 DEF CityData, ShownData
      <4>6. v[c] # NoCity /\ News(c).data # NoCity
        BY <4>5, NoCityAssumption
      <4>7. Own(v, c)
        BY <4>2, <4>6 DEF Own, Exists
      <4>8. News(c).data.owner = "me" /\ News(c).data.open = v[c].open
        BY <4>1, <4>2
      <4> QED BY <2>1, <2>2, <3>1, <3>3, <4>6, <4>7, <4>8 DEF Echo
    <3> QED BY <3>2, <3>3
  <2>5. <<At(y, v), News(c)>> \in Anywhere
    BY <2>1, <2>2 DEF Anywhere
  <2> QED BY <2>1, <2>2, <2>4, <2>5 DEF Allowed
<1>11. ASSUME NEW x \in Fronts, NEW q \in Packets, ~Tells(q), q.kind # "started"
       PROVE  <<x, q>> \in E
  <2>1. <<x, q>> \in Anywhere
    BY DEF Anywhere
  <2> QED BY <1>11, <2>1 DEF Allowed
<1>12. /\ Answer(Unsynced, id) \in Seq(Packets)
       /\ Through(Settled(counted, city), Answer(Unsynced, id), Settled(id, city'), E)
  <2>1. <<Settled(counted, city), Mark("started", id)>> \in E
    <3>1. Settled(counted, city) \in Fronts
      <4>1. ShownAll(city) \in Views
        BY <1>3, ShownIsData
      <4> QED BY <1>3, <4>1 DEF Settled, Fronts
    <3>2. Mark("started", id) \in Packets /\ Mark("started", id).kind = "started"
      BY <1>6, MarkIsPacket
    <3>3. <<Settled(counted, city), Mark("started", id)>> \in Anywhere
      BY <3>1, <3>2 DEF Anywhere
    <3>4. Settled(counted, city).id = counted
      BY DEF Settled
    <3> QED BY <1>6, <3>2, <3>3, <3>4 DEF Allowed, id, Tells
  <2>2. <<Answering(id, city'), Mark("finished", id)>> \in E
    <3>1. Answering(id, city') \in Fronts
      <4>1. ShownAll(city') \in Views
        BY <1>4, ShownIsData
      <4> QED BY <1>6, <4>1 DEF Answering, Fronts
    <3>2. Mark("finished", id) \in Packets /\ Mark("finished", id).kind = "finished"
      BY <1>6, MarkIsPacket
    <3> QED BY <1>11, <3>1, <3>2 DEF Tells
  <2>3. Unsynced \in Seq(Packets) /\ Through(y, Unsynced, At(y, ShownAll(city')), E)
    <3> HIDE DEF E, y
    <3> QED BY <1>4, <1>9, <1>10, UnsyncedPath
  <2>4. At(y, ShownAll(city')) = Answering(id, city')
    BY DEF At, Answering
  <2>5. Through(Answering(id, city), Unsynced, Answering(id, city'), E)
    BY <2>3, <2>4
  <2> HIDE DEF E
  <2> QED BY <1>3, <1>4, <2>1, <2>2, <2>3, <2>5, AnswerPath DEF id
<1>13. Linear'
  <2>1. used = counted + Len(requests)
    BY <1>3 DEF InHand, Linear
  <2>2. \A a, b, n \in Int : a = b + n => a = (b + 1) + (n - 1)
    OBVIOUS
  <2> QED BY <1>1, <1>2, <1>3, <1>5, <1>6, <2>1, <2>2 DEF Linear, Ids
<1>14. Echoes'
  <2>1. Through(Here, news, Settled(counted, city), E)
    BY <1>3 DEF InHand, Echoes
  <2>2. Through(Here, news', Settled(id, city'), E)
    <3> HIDE DEF E
    <3> QED BY <1>1, <1>3, <1>12, <2>1, ThroughJoin
  <2>3. Settled(counted, city)' = Settled(id, city')
    BY <1>1 DEF Settled, ShownAll, Shown, Own, Exists, Open
  <2> QED BY <1>2, <2>2, <2>3 DEF Echoes, E
<1>15. Waits' /\ JudgedOnAnswers'
  <2>1. ASSUME pc = "wait", NEW k \in 1..Len(requests'), awaited[1] <= counted' + k
        PROVE  requests'[k].city = job.city
    <3>1. k + 1 \in 1..Len(requests) /\ counted' + k = counted + (k + 1)
      BY <1>1, <1>3, <1>5, <1>6 DEF Ids
    <3> QED BY <1>5, <2>1, <3>1 DEF InHand, Waits
  <2>2. pc # "judge"
    BY <1>1, <1>3 DEF InHand, JudgedOnAnswers
  <2> QED BY <1>2, <2>1, <2>2 DEF InHand, Waits, JudgedOnAnswers
<1>16. Aimed' /\ Joining' /\ Excused' /\ GoalsInHand'
  BY <1>2 DEF InHand, Aimed, Joining, Excused, GoalsInHand, Called, Own, Exists
<1> QED BY <1>7, <1>13, <1>14, <1>15, <1>16 DEF InHand

\* A step of the server that only tells what has become of its cities
LEMMA TellInHand ==
    ASSUME Sound, InHand, up, city' \in [Cities -> CityData \cup {NoCity}], Placed',
           Tell(Unsynced), UNCHANGED <<counted, up, requests, client>>
    PROVE  InHand'
<1> DEFINE E == Allowed(awaited[1], awaited[2], job.city)
           x == Settled(counted, city)
           y == Settled(counted, city')
<1>1. /\ view' = view /\ managed' = managed /\ calls' = calls /\ frozen' = frozen
      /\ used' = used /\ seen' = seen /\ handled' = handled /\ awaited' = awaited
      /\ pc' = pc /\ job' = job /\ up' = up /\ running' = running /\ ignored' = ignored
      /\ Here' = Here /\ counted' = counted /\ requests' = requests
  BY DEF client, ids, Here
<1>2. news \in Seq(Packets) /\ counted \in Ids /\ city \in [Cities -> CityData \cup {NoCity}]
  BY DEF Sound, Typed
<1>3. PICK s \in Seq(Packets) : news' = news \o s /\ Through(x, s, y, E)
  <2>1. \A z \in Fronts, q \in Packets : ~z.open /\ q.kind # "started" => <<z, q>> \in E
    BY DEF Allowed, Anywhere
  <2> HIDE DEF E
  <2> QED BY <1>2, <2>1, TellPath
<1>4. Echoes'
  <2>1. Through(Here, news, x, E)
    BY DEF InHand, Echoes
  <2>2. Through(Here, news', y, E)
    <3> HIDE DEF E, x, y
    <3> QED BY <1>2, <1>3, <2>1, ThroughJoin
  <2>3. Settled(counted, city)' = y
    BY <1>1 DEF Settled, ShownAll, Shown, Own, Exists, Open
  <2> QED BY <1>1, <2>2, <2>3 DEF Echoes, E
<1>5. JudgedOnAnswers'
  <2>1. /\ Len(news) \in Nat /\ DOMAIN news = 1..Len(news)
        /\ Len(s) \in Nat /\ DOMAIN s = 1..Len(s)
        /\ DOMAIN news' = 1..(Len(news) + Len(s))
        /\ \A i \in 1..(Len(news) + Len(s)) :
             news'[i] = IF i <= Len(news) THEN news[i] ELSE s[i - Len(news)]
    BY <1>2, <1>3, ConcatProperties, LenProperties
  <2>2. \A i \in DOMAIN s : s[i].kind # "started"
    <3>1. PICK w : Path(w, s, E) /\ w[0] = x /\ w[Len(s)] = y
      BY <1>3 DEF Through
    <3>2. (\E i \in DOMAIN s : s[i].kind = "started") => x.id < y.id
      <4> HIDE DEF x, y
      <4> QED BY <1>3, <3>1, PathRises DEF E
    <3>3. x.id = counted /\ y.id = counted /\ ~(counted < counted)
      BY <1>2, AgentsAssumption DEF Settled, Ids
    <3> QED BY <3>2, <3>3
  <2>3. ASSUME pc = "judge", NEW i \in DOMAIN news' PROVE news'[i].kind # "started"
    <3>1. CASE i <= Len(news)
      <4>1. i \in DOMAIN news /\ news'[i] = news[i]
        BY <2>1, <3>1
      <4> QED BY <2>3, <4>1 DEF InHand, JudgedOnAnswers
    <3>2. CASE ~(i <= Len(news))
      <4>1. i - Len(news) \in DOMAIN s /\ news'[i] = s[i - Len(news)]
        BY <2>1, <3>2
      <4> QED BY <2>2, <4>1
    <3> QED BY <3>1, <3>2
  <2> QED BY <1>1, <2>3 DEF InHand, JudgedOnAnswers
<1>6. Linear' /\ Waits' /\ Aimed' /\ Joining' /\ Excused' /\ GoalsInHand'
  BY <1>1 DEF InHand, Linear, Waits, Aimed, Joining, Excused, GoalsInHand, Called, Own, Exists
<1> QED BY <1>4, <1>5, <1>6 DEF InHand

LEMMA ChangeCityInHand ==
    ASSUME Sound, InHand, NEW c \in Cities, ChangeCity(c)
    PROVE  InHand'
<1>1. up /\ Tell(Unsynced) /\ UNCHANGED <<counted, up, requests, client>> /\ Exists(city, c)
  BY DEF ChangeCity
<1>2. /\ city \in [Cities -> CityData \cup {NoCity}]
      /\ city' \in [Cities -> CityData \cup {NoCity}]
  BY ChangeCities DEF Sound, Typed
<1>3. Placed'
  <2>1. /\ \A d \in Cities : d # c => city'[d] = city[d]
        /\ city'[c].work = city[c].work \/ city'[c].work \subseteq Open(city, c)
    <3>1. CASE \E s \in Settings, T \in Arranged :
                 /\ T \subseteq Open(city, c)
                 /\ city' = [city EXCEPT ![c].setting = s, ![c].work = T] /\ city' # city
      <4>1. PICK s \in Settings, T \in Arranged :
              /\ T \subseteq Open(city, c)
              /\ city' = [city EXCEPT ![c].setting = s, ![c].work = T]
        BY <3>1
      <4>2. city[c] \in CityData
        BY <1>1, <1>2 DEF Exists
      <4>3. city'[c] = [[city[c] EXCEPT !.setting = s] EXCEPT !.work = T]
        BY <1>2, <4>1
      <4>4. city'[c].work = T
        BY <4>2, <4>3 DEF CityData
      <4> QED BY <1>2, <4>1, <4>4
    <3>2. CASE city' = [city EXCEPT ![c].owner = IF @ = "me" THEN "other" ELSE "me"]
      <4>1. city[c] \in CityData
        BY <1>1, <1>2 DEF Exists
      <4>2. city'[c] = [city[c] EXCEPT !.owner = IF @ = "me" THEN "other" ELSE "me"]
        BY <1>2, <3>2
      <4>3. city'[c].work = city[c].work
        BY <4>1, <4>2 DEF CityData
      <4> QED BY <1>2, <3>2, <4>3
    <3> QED BY <3>1, <3>2 DEF ChangeCity
  <2>2. Placed
    BY DEF InHand
  <2>3. city[c].work \subseteq Near[c] /\ Open(city, c) \subseteq Near[c]
    BY <1>1, <2>2, InOpen DEF Placed
  <2> QED BY <2>1, <2>2, <2>3 DEF Placed, Exists
<1> QED BY <1>1, <1>2, <1>3, TellInHand

LEMMA RemoveCityInHand ==
    ASSUME Sound, InHand, NEW c \in Cities, RemoveCity(c)
    PROVE  InHand'
<1>1. up /\ Tell(Unsynced) /\ UNCHANGED <<counted, up, requests, client>>
  BY DEF RemoveCity
<1>2. city' = [city EXCEPT ![c] = NoCity] /\ city \in [Cities -> CityData \cup {NoCity}]
  BY DEF RemoveCity, Sound, Typed
<1>3. city' \in [Cities -> CityData \cup {NoCity}]
  BY RemoveCities DEF Sound
<1>4. Placed'
  BY <1>2 DEF InHand, Placed, Exists
<1> QED BY <1>1, <1>3, <1>4, TellInHand

LEMMA ExecuteCallInHand ==
    ASSUME Sound, InHand, ExecuteCall, Unwrapped
    PROVE  InHand'
<1>1. /\ pc = "loop"
      /\ UNCHANGED <<server, network, running, view, frozen, ids, awaited, putting, fault, spent>>
  BY ExecuteCallDoes
<1>2. PICK k \in calls : Executed(k)
  BY ExecuteCallDoes
<1>3. /\ UNCHANGED <<server, up, news, running, view, frozen, seen, handled, awaited>>
      /\ UNCHANGED <<requests, used>>
  BY <1>1 DEF network, ids
<1>4. /\ pc' \in {"loop", "try"}
      /\ calls' = calls \ {k} /\ ignored' = ignored \ {k.city}
      /\ managed' \subseteq managed
      /\ \/ k.city \notin managed'
         \/ ~Exists(view, k.city)
         \/ pc' = "try" /\ job'.city = k.city
  BY <1>1, <1>2 DEF Executed
<1>5. GoalsInHand'
  <2> SUFFICES ASSUME NEW c \in managed', Own(view, c)
      PROVE  \/ view[c].work = Best[view[c].setting][view[c].open]
             \/ pc' \in {"try", "wait", "judge"} /\ job'.city = c
             \/ \E l \in calls' : l.city = c
             \/ c \in ignored'
    BY <1>3 DEF GoalsInHand, Called, Own, Exists
  <2>1. \/ view[c].work = Best[view[c].setting][view[c].open]
        \/ \E l \in calls : l.city = c
        \/ c \in ignored
    BY <1>1, <1>4 DEF InHand, GoalsInHand, Called
  <2>2. k.city = c => pc' = "try" /\ job'.city = c
    BY <1>4 DEF Own
  <2>3. ASSUME NEW l \in calls, l.city = c
        PROVE  (pc' = "try" /\ job'.city = c) \/ l \in calls'
    BY <1>4, <2>2, <2>3
  <2>4. c \in ignored => (pc' = "try" /\ job'.city = c) \/ c \in ignored'
    BY <1>4, <2>2
  <2> QED BY <2>1, <2>3, <2>4
<1> QED BY <1>1, <1>3, <1>4, <1>5, IdleInHand DEF Sends

LEMMA ReturnInHand ==
    ASSUME Sound, InHand, Return, Unwrapped, fault' = "none"
    PROVE  InHand'
<1>1. /\ pc = "loop" /\ pc' = "main"
      /\ Send(IF putting.city = NoCity THEN <<>> ELSE <<Told(putting.city, managed)>>)
      /\ UNCHANGED <<server, up, news, running, view, managed, calls, frozen, seen, handled,
                     awaited, job, ignored>>
  BY DEF Return
<1>2. Sends
  <2>1. CASE putting.city = NoCity
    BY <1>1, <2>1, SendNothing DEF Sends
  <2>2. CASE putting.city # NoCity
    <3>1. putting.city \in Cities
      BY <2>2 DEF Sound, Shaped
    <3> QED BY <1>1, <2>2, <3>1, ToldIsSeq DEF Sends
  <2> QED BY <2>1, <2>2
<1>3. GoalsInHand'
  BY <1>1 DEF InHand, GoalsInHand, Called, Own, Exists
<1> QED BY <1>1, <1>2, <1>3, IdleInHand

LEMMA PutUnderAgentInHand ==
    ASSUME Sound, InHand, NEW c \in Cities, PutUnderAgent(c), Unwrapped
    PROVE  InHand'
<1>1. /\ pc = "main" /\ running
      /\ managed' = managed \cup {c}
      /\ calls' = (IF \E k \in calls : k.city = c THEN calls
                   ELSE calls \cup {[city |-> c, callback |-> "change"]})
      /\ pc' = Dispatched(frozen, calls')
      /\ Send(<<Told(c, managed')>>) \/ UNCHANGED <<requests, used>>
      /\ UNCHANGED <<server, up, news, running, view, frozen, seen, handled, awaited, job,
                     ignored, fault>>
  BY DEF PutUnderAgent, Mine
<1>2. calls \subseteq calls' /\ \E k \in calls' : k.city = c
  <2>1. [city |-> c, callback |-> "change"].city = c
    OBVIOUS
  <2> QED BY <1>1, <2>1
<1>3. pc' \in {"main", "loop"}
  BY <1>1 DEF Dispatched
<1>4. Sends
  BY <1>1, ToldIsSeq DEF Sends
<1>5. GoalsInHand'
  <2> SUFFICES ASSUME NEW d \in managed', Own(view, d)
      PROVE  \/ view[d].work = Best[view[d].setting][view[d].open]
             \/ \E k \in calls' : k.city = d
             \/ d \in ignored
    BY <1>1 DEF GoalsInHand, Called, Own, Exists
  <2>1. d = c \/ d \in managed
    BY <1>1
  <2> QED BY <1>1, <1>2, <2>1 DEF InHand, GoalsInHand, Called
<1> QED BY <1>1, <1>3, <1>4, <1>5, IdleInHand

LEMMA MoveWorkerInHand ==
    ASSUME Sound, InHand, NEW c \in Cities, NEW t \in Tiles, MoveWorker(c, t), Unwrapped
    PROVE  InHand'
<1> DEFINE to == IF t \in view[c].work THEN "specialist" ELSE "worker"
<1>1. /\ pc = "main" /\ running /\ Send(Ordered(c, {t}, to))
      /\ UNCHANGED <<server, up, news, running, view, managed, calls, frozen, seen, handled,
                     awaited, pc, job, putting, ignored, fault>>
  BY DEF MoveWorker, Mine
<1>2. to \in {"specialist", "worker"}
  OBVIOUS
<1> HIDE DEF to
<1>3. Sends
  BY <1>1, <1>2, OrderedOne DEF Sends
<1>4. GoalsInHand'
  BY <1>1 DEF InHand, GoalsInHand, Called, Own, Exists
<1> QED BY <1>1, <1>3, <1>4, IdleInHand

LEMMA DisconnectInHand ==
    ASSUME Sound, InHand, Disconnect
    PROVE  InHand'
<1>1. /\ up' = FALSE /\ city' = city
      /\ view' = [c \in Cities |-> NoCity] /\ managed' = {} /\ ignored' = {}
      /\ awaited' = <<0, 0>>
      /\ pc \in {"main", "wait"} /\ pc' = IF pc = "wait" THEN "judge" ELSE pc
  BY DEF Disconnect, server
<1>2. job' = [city |-> job.city, try |-> job.try, goal |-> job.goal, fresh |-> FALSE]
  BY DEF Disconnect, Sound, Shaped
<1>3. Linear' /\ Echoes' /\ Waits' /\ JudgedOnAnswers' /\ Joining' /\ Excused' /\ GoalsInHand'
  BY <1>1 DEF Linear, Echoes, Waits, JudgedOnAnswers, Joining, Excused, GoalsInHand
<1>4. Aimed'
  <2>1. pc' = "judge" => job'.city \in Cities
    BY <1>1, <1>2 DEF Sound, Shaped
  <2> QED BY <1>1, <2>1 DEF Aimed, Own, Exists
<1>5. Placed'
  BY <1>1 DEF InHand, Placed, Exists
<1> QED BY <1>3, <1>4, <1>5 DEF InHand

\* What the agent gives up
LEMMA CheckCityGivesUp ==
    ASSUME Sound, NEW c \in Cities, ReleaseCity(c) \/ (CheckCity(c) /\ ~Valid(c))
    PROVE  Sends /\ managed' \subseteq managed /\ ~(c \in managed' /\ Own(view, c))
<1>1. <<Told(c, {})>> \in Seq(Requests)
  BY ToldIsSeq
<1>2. CASE ReleaseCity(c)
  BY <1>1, <1>2 DEF ReleaseCity, Sends
<1>3. CASE CheckCity(c) /\ ~Valid(c) /\ ~ReleaseCity(c)
  <2>1. UNCHANGED <<managed, requests, used>>
    BY <1>3 DEF CheckCity
  <2> QED BY <1>3, <2>1 DEF Sends, Valid
<1> QED BY <1>2, <1>3

\* What is ordered for a city names that city.
LEMMA OrderedCity ==
    ASSUME NEW c \in Cities, NEW T, T \subseteq Tiles, NEW to \in {"specialist", "worker"}
    PROVE  \A i \in 1..Len(Ordered(c, T, to)) : Ordered(c, T, to)[i].city = c
<1>1. Len(Ordered(c, T, to)) = Cardinality(T)
  BY OrderedIsSeq
<1> QED BY <1>1 DEF Ordered

\* The requests that take off surplus workers and set the others
Sent(c, T, U) == Ordered(c, T, "specialist") \o Ordered(c, U, "worker")

About(c) == {r \in Requests : r.city = c}

LEMMA SentProperties ==
    ASSUME NEW c \in Cities, NEW T, T \subseteq Tiles, NEW U, U \subseteq Tiles,
           T # {} \/ U # {}
    PROVE  /\ Sent(c, T, U) \in Seq(Requests) /\ Len(Sent(c, T, U)) \in Nat \ {0}
           /\ Sent(c, T, U) \in Seq(About(c))
<1> DEFINE off == Ordered(c, T, "specialist")
           on == Ordered(c, U, "worker")
           M == About(c)
<1>1. /\ off \in Seq(Requests) /\ Len(off) = Cardinality(T)
      /\ on \in Seq(Requests) /\ Len(on) = Cardinality(U)
  BY OrderedIsSeq
<1>2. /\ \A i \in 1..Len(off) : off[i].city = c
      /\ \A i \in 1..Len(on) : on[i].city = c
  BY OrderedCity
<1>3. ~(Len(off) = 0 /\ Len(on) = 0)
  <2>1. IsFiniteSet(T) /\ IsFiniteSet(U)
    BY AgentsAssumption, FS_Subset
  <2> HIDE DEF off, on
  <2> QED BY <1>1, <2>1, FS_EmptySet
<1> HIDE DEF off, on
<1>4. off \in Seq(M) /\ on \in Seq(M)
  <2>1. /\ Len(off) \in Nat /\ off \in [1..Len(off) -> Requests]
        /\ Len(on) \in Nat /\ on \in [1..Len(on) -> Requests]
    BY <1>1, LenProperties
  <2>2. off \in [1..Len(off) -> M] /\ on \in [1..Len(on) -> M]
    BY <1>2, <2>1 DEF About
  <2> HIDE DEF M
  <2> QED BY <2>1, <2>2
<1> HIDE DEF M
<1>5. off \o on \in Seq(M) /\ Len(off \o on) = Len(off) + Len(on)
  BY <1>4, ConcatProperties
<1>6. Len(off) \in Nat /\ Len(on) \in Nat
  BY <1>4, LenProperties
<1>7. Len(off \o on) \in Nat \ {0}
  BY <1>3, <1>5, <1>6
<1>8. off \o on \in Seq(Requests)
  BY <1>1, ConcatProperties
<1> QED BY <1>5, <1>7, <1>8 DEF M, off, on, Sent

\* The requests of the agent are new, and all about the city of the job.
LEMMA ApplyInHand ==
    ASSUME Sound, InHand, up, pc = "try", NEW c \in Cities, c = job.city, Exists(view, c),
           NEW goal, goal = Best[view[c].setting][view[c].open], goal \subseteq Tiles,
           goal # view[c].work, Apply(c, goal), Unwrapped, fault = "none", fault' = "none",
           UNCHANGED <<server, up, news, running, view, managed, calls, frozen, seen, handled,
                       ignored>>
    PROVE  InHand'
<1> DEFINE sent == Sent(c, view[c].work \ goal, goal \ view[c].work)
           n == Len(requests)
           m == Len(sent)
           first == NextId(used)
<1>1. /\ view[c] \in ShownData /\ requests \in Seq(Requests) /\ used \in Ids /\ counted \in Ids
      /\ news \in Seq(Packets)
  BY DEF Sound, Typed, Views, Exists
<1>2. view[c].work \in SUBSET Tiles
  BY <1>1 DEF ShownData
<1>3. sent \in Seq(Requests) /\ m \in Nat \ {0} /\ \A i \in 1..m : sent[i].city = c
  <2> DEFINE T == view[c].work \ goal
             U == goal \ view[c].work
  <2>1. T # {} \/ U # {}
    BY <1>2
  <2>2. T \subseteq Tiles /\ U \subseteq Tiles
    BY <1>2
  <2> HIDE DEF T, U
  <2>3. /\ Sent(c, T, U) \in Seq(Requests) /\ Len(Sent(c, T, U)) \in Nat \ {0}
        /\ Sent(c, T, U) \in Seq(About(c))
    BY <2>1, <2>2, SentProperties
  <2>4. \A i \in 1..Len(Sent(c, T, U)) : Sent(c, T, U)[i].city = c
    BY <2>3, ElementOfSeq DEF About
  <2> QED BY <2>3, <2>4 DEF T, U
<1>4. /\ Send(sent) /\ awaited' = <<first, used'>> /\ pc' = "wait"
      /\ job' = [job EXCEPT !.goal = [work |-> goal, setting |-> view[c].setting]]
  BY DEF Apply, Sent
<1> HIDE DEF sent
<1>5. requests' = requests \o sent /\ used' = LastId(used, m)
  BY <1>4 DEF Send
<1>6. /\ n \in Nat /\ Len(requests') = n + m
      /\ \A i \in 1..(n + m) : requests'[i] = IF i <= n THEN requests[i] ELSE sent[i - n]
  <2>1. n \in Nat
    BY <1>1, LenProperties
  <2>2. /\ Len(requests \o sent) = Len(requests) + Len(sent)
        /\ \A i \in 1..(Len(requests) + Len(sent)) :
             (requests \o sent)[i] = IF i <= Len(requests) THEN requests[i]
                                     ELSE sent[i - Len(requests)]
    BY <1>1, <1>3, ConcatProperties
  <2> QED BY <1>5, <2>1, <2>2
<1>7. used' \in Ids
  BY <1>1, <1>3, <1>5, LastIdIsId
<1> HIDE DEF n, m
<1>8. used' = used + m /\ used = counted + n /\ first = used + 1
  <2>1. used = counted + n
    BY DEF InHand, Linear, n
  <2>2. Len(requests') > Len(requests) /\ Len(requests') - Len(requests) = m
    BY <1>3, <1>6 DEF n
  <2>3. used' = used + m
    BY <2>2 DEF Unwrapped
  <2>4. used + 1 \in Ids
    BY <1>1, <1>3, <1>7, <2>3, AgentsAssumption DEF Ids
  <2> QED BY <1>1, <2>1, <2>3, <2>4, PlainNextId
<1>9. job' = [city |-> job.city, try |-> job.try, fresh |-> job.fresh,
              goal |-> [work |-> goal, setting |-> view[c].setting]]
  BY <1>4 DEF Sound, Shaped
<1> HIDE DEF first
<1>10. Linear'
  BY <1>3, <1>4, SendsLinear DEF InHand, Sends, server
<1>11. Echoes'
  <2>1. Through(Here, news, Settled(counted, city), Allowed(0, 0, job.city))
    BY DEF InHand, Echoes, Waits
  <2>2. Settled(counted, city).id < first /\ first \in Nat
    BY <1>1, <1>6, <1>8, AgentsAssumption DEF Settled, Ids
  <2>3. Through(Here, news, Settled(counted, city), Allowed(first, used', c))
    BY <1>1, <2>1, <2>2, AllowedBefore
  <2>4. /\ Here' = Here /\ news' = news /\ job'.city = c
        /\ awaited'[1] = first /\ awaited'[2] = used'
    BY <1>4, <1>9 DEF Here
  <2>5. Settled(counted, city)' = Settled(counted, city)
    BY DEF server, Settled, ShownAll, Shown, Own, Exists, Open
  <2> QED BY <2>3, <2>4, <2>5 DEF Echoes
<1>12. Waits' /\ JudgedOnAnswers'
  <2>1. ASSUME NEW k \in 1..(n + m), first <= counted + k PROVE requests'[k].city = c
    <3>1. counted \in Int /\ n \in Int /\ m \in Int /\ k \in Int
      BY <1>1, <1>3, <1>6, AgentsAssumption DEF Ids
    <3>2. first = counted + n + 1
      BY <1>8, <3>1
    <3>3. n < k /\ k <= n + m
      BY <2>1, <3>1, <3>2
    <3>4. ~(k <= n) /\ k - n \in 1..m
      BY <3>1, <3>3
    <3> QED BY <1>3, <1>6, <3>4
  <2>2. counted' = counted /\ up' = up /\ job'.city = c
    BY <1>9 DEF server
  <2> QED BY <1>4, <1>6, <2>1, <2>2 DEF Waits, JudgedOnAnswers
<1>13. Aimed'
  <2>1. job'.goal.work = Best[job'.goal.setting][view[c].open] /\ job'.city = c /\ view' = view
    BY <1>9
  <2> QED BY <2>1 DEF Aimed
<1>14. Joining'
  <2>1. running
    BY DEF InHand, Joining
  <2> QED BY <2>1 DEF Joining
<1>15. Placed' /\ Excused'
  BY DEF InHand, Placed, Excused, Exists, server
<1>16. GoalsInHand'
  BY <1>4, <1>9 DEF InHand, GoalsInHand, Called, Own, Exists
<1> QED BY <1>10, <1>11, <1>12, <1>13, <1>14, <1>15, <1>16 DEF InHand

LEMMA TryInHand ==
    ASSUME Sound, InHand, Try, Unwrapped, fault' = "none"
    PROVE  InHand'
<1> DEFINE c == job.city
           goal == Best[view[c].setting][view[c].open]
<1>1. /\ pc = "try" /\ fault = "none"
      /\ UNCHANGED <<server, up, news, running, view, calls, frozen, seen, handled, putting,
                     ignored, spent>>
  BY DEF Try
<1>2. c \in Cities
  BY <1>1 DEF Sound, Shaped
<1>3. ASSUME Sends, UNCHANGED <<awaited, job>>, pc' = "loop", managed' \subseteq managed,
             c \in managed' /\ Own(view, c) => view[c].work = goal
      PROVE  InHand'
  <2>1. view' = view /\ calls' = calls /\ ignored' = ignored
    BY <1>1
  <2>2. GoalsInHand'
    BY <1>3, <2>1 DEF InHand, GoalsInHand, Called, Own, Exists
  <2> QED BY <1>1, <1>3, <2>2, IdleInHand
<1>4. CASE ReleaseCity(c) /\ pc' = "loop" /\ UNCHANGED <<awaited, job, fault>>
  <2>1. Sends /\ managed' \subseteq managed /\ ~(c \in managed' /\ Own(view, c))
    <3> HIDE DEF c
    <3> QED BY <1>2, <1>4, CheckCityGivesUp
  <2> QED BY <1>3, <1>4, <2>1
<1>5. CASE ~Valid(c) /\ CheckCity(c) /\ pc' = "loop" /\ UNCHANGED <<awaited, job, fault>>
  <2>1. Sends /\ managed' \subseteq managed /\ ~(c \in managed' /\ Own(view, c))
    <3> HIDE DEF c
    <3> QED BY <1>2, <1>5, CheckCityGivesUp
  <2> QED BY <1>3, <1>5, <2>1
<1>6. CASE fault' = "dangling"
  BY <1>6
<1>7. CASE /\ Valid(c)
           /\ IF goal = NoResult
                THEN ReleaseCity(c) /\ pc' = "loop" /\ UNCHANGED <<awaited, job, fault>>
              ELSE IF goal = view[c].work
                THEN pc' = "loop" /\ UNCHANGED <<requests, used, awaited, job, managed, fault>>
              ELSE Apply(c, goal) /\ UNCHANGED managed
  <2>1. CASE goal = NoResult
    BY <1>4, <1>7, <2>1
  <2>2. CASE goal # NoResult /\ goal = view[c].work
    BY <1>3, <1>7, <2>2 DEF Sends
  <2>3. CASE goal # NoResult /\ goal # view[c].work
    <3>1. Apply(c, goal) /\ UNCHANGED managed /\ Exists(view, c)
      BY <1>7, <2>3 DEF Valid, Own
    <3>2. view[c] \in ShownData /\ up
      BY <1>2, <3>1 DEF Sound, Typed, Views, Exists, InTouch
    <3>3. view[c].setting \in Settings /\ view[c].open \in SUBSET Tiles
      BY <3>2 DEF ShownData
    <3>4. goal \subseteq Tiles
      <4>1. goal = NoResult \/ goal \subseteq view[c].open
        BY <3>3, AgentsAssumption
      <4> HIDE DEF goal
      <4> QED BY <2>3, <3>3, <4>1
    <3>5. UNCHANGED <<server, up, news, running, view, managed, calls, frozen, seen, handled,
                      ignored>>
      BY <1>1, <3>1
    <3> QED BY <1>1, <1>2, <2>3, <3>1, <3>2, <3>4, <3>5, ApplyInHand
  <2> QED BY <2>1, <2>2, <2>3
<1> QED BY <1>4, <1>5, <1>6, <1>7 DEF Try

LEMMA JudgeInHand ==
    ASSUME Sound, InHand, Judge, Unwrapped, fault' = "none"
    PROVE  InHand'
<1> DEFINE c == job.city
           again == pc' = "try" /\ job' = [job EXCEPT !.try = @ + 1]
<1>1. /\ pc = "judge" /\ fault = "none"
      /\ UNCHANGED <<server, up, news, running, view, calls, frozen, seen, handled, awaited,
                     putting, ignored, spent>>
  BY DEF Judge
<1>2. c \in Cities
  BY <1>1 DEF Sound, Shaped
<1>3. ASSUME Sends, job'.city = c, managed' \subseteq managed,
             \/ pc' = "try"
             \/ pc' = "loop" /\ (view[c].work = Best[view[c].setting][view[c].open] \/ Called(c))
      PROVE  InHand'
  <2>1. view' = view /\ calls' = calls /\ ignored' = ignored
    BY <1>1
  <2>2. GoalsInHand'
    BY <1>1, <1>3, <2>1 DEF InHand, GoalsInHand, Called, Own, Exists
  <2> QED BY <1>1, <1>3, <2>2, IdleInHand
<1>4. ASSUME again PROVE job'.city = c /\ pc' = "try"
  <2>1. job' = [city |-> job.city, try |-> job.try + 1, goal |-> job.goal, fresh |-> job.fresh]
    BY <1>4 DEF Sound, Shaped
  <2> QED BY <1>4, <2>1
<1> HIDE DEF again
<1>5. CASE ~Valid(c) /\ CheckCity(c) /\ again /\ UNCHANGED fault
  <2>1. Sends /\ managed' \subseteq managed
    <3> HIDE DEF c
    <3> QED BY <1>2, <1>5, CheckCityGivesUp
  <2> QED BY <1>3, <1>4, <1>5, <2>1
<1>6. CASE fault' = "dangling"
  BY <1>6
<1>7. CASE /\ Valid(c) /\ job.fresh
           /\ IF job.goal = [work |-> view[c].work, setting |-> view[c].setting]
                THEN pc' = "loop" /\ UNCHANGED job ELSE again
           /\ UNCHANGED <<requests, used, managed, fault>>
  <2>1. Sends
    BY <1>7 DEF Sends
  <2>2. CASE job.goal = [work |-> view[c].work, setting |-> view[c].setting]
    <3>1. Called(c) \/ job.goal.work = Best[job.goal.setting][view[c].open]
      BY <1>1, <1>7 DEF InHand, Aimed, Valid
    <3>2. Called(c) \/ view[c].work = Best[view[c].setting][view[c].open]
      BY <2>2, <3>1
    <3> QED BY <1>3, <1>7, <2>1, <2>2, <3>2
  <2>3. CASE job.goal # [work |-> view[c].work, setting |-> view[c].setting]
    BY <1>3, <1>4, <1>7, <2>1, <2>3
  <2> QED BY <2>2, <2>3
<1> QED BY <1>5, <1>6, <1>7 DEF Judge, again

\* What a packet does to what the client knows, to its calls and to the agent
Received(p) ==
    /\ \A c \in Cities : view'[c] = IF Tells(p) /\ p.city = c THEN p.data ELSE view[c]
    /\ job'.city = job.city /\ job'.goal = job.goal
    /\ managed' = IF p.kind = "managers" THEN managed \cup p.data ELSE managed
    /\ calls \subseteq calls'
    /\ p.kind = "city" => IsOutstanding(handled) \/ \E k \in calls' : k.city = p.city
    /\ ignored' = IF p.kind = "city" /\ IsOutstanding(handled) /\ p.city # job.city
                    THEN ignored \cup {p.city} ELSE ignored
    /\ IF p.kind = "managers" THEN Sends ELSE UNCHANGED <<requests, used>>
    /\ \/ awaited' = awaited /\ pc' = pc
       \/ awaited' = awaited /\ pc = "main" /\ pc' = "loop" /\ frozen' = 0
       \/ /\ p.kind = "finished" /\ pc = "wait" /\ awaited[2] <= handled
          /\ awaited' = <<0, 0>> /\ pc' = "judge"

LEMMA DispatchedDoes ==
    ASSUME NEW level, NEW waiting
    PROVE  \/ Dispatched(level, waiting) = pc
           \/ pc = "main" /\ Dispatched(level, waiting) = "loop" /\ level = 0
BY DEF Dispatched

LEMMA DeletedKeeps ==
    ASSUME Shaped, NEW c, job' = Deleted(job, c) \/ job' = job
    PROVE  job'.city = job.city /\ job'.goal = job.goal
<1>1. CASE job' = [job EXCEPT !.fresh = FALSE]
  <2>1. job' = [city |-> job.city, try |-> job.try, goal |-> job.goal, fresh |-> FALSE]
    BY <1>1 DEF Shaped
  <2> QED BY <2>1
<1>2. CASE job' = job
  BY <1>2
<1> QED BY <1>1, <1>2 DEF Deleted

LEMMA EnqueuedDoes ==
    ASSUME NEW c, NEW callback
    PROVE  /\ calls \subseteq Enqueued(c, callback)
           /\ IsOutstanding(handled) \/ \E k \in Enqueued(c, callback) : k.city = c
<1>1. [city |-> c, callback |-> callback].city = c
  OBVIOUS
<1> QED BY <1>1 DEF Enqueued

LEMMA ReceiveDoes ==
    ASSUME Sound, Receive
    PROVE  Received(Head(news))
<1> DEFINE p == Head(news)
<1>1. /\ p \in Packets /\ pc \in {"main", "wait"}
      /\ p.kind \in {"city", "remove", "started", "freeze", "thaw", "finished", "managers",
                     "running"}
      /\ p.kind = "city" => HandleCity(p)
      /\ p.kind = "remove" => HandleRemove(p)
      /\ p.kind \in {"started", "freeze"} => HandleFreeze(p)
      /\ p.kind = "thaw" => HandleThaw(p)
      /\ p.kind = "finished" => HandleFinished(p)
      /\ p.kind = "managers" => HandleManagers(p)
      /\ p.kind = "running" => HandleRunning(p)
  BY ReceiveKinds
<1>2. view \in Views /\ Shaped /\ handled \in Int /\ awaited \in Ids \X Ids
  BY AgentsAssumption DEF Sound, Typed, Ids
<1> SUFFICES Received(p)
  OBVIOUS
<1> HIDE DEF p
<1>3. CASE p.kind = "city"
  <2>1. /\ view' = [view EXCEPT ![p.city] = p.data]
        /\ job' = Deleted(job, p.city) \/ job' = job
        /\ calls' = Enqueued(p.city, "change") /\ pc' = Dispatched(frozen, calls')
        /\ ignored' = (IF IsOutstanding(handled) /\ p.city # job.city THEN ignored \cup {p.city}
                       ELSE ignored)
        /\ UNCHANGED <<requests, used, managed, frozen, awaited>>
    BY <1>1, <1>3 DEF HandleCity
  <2>2. \A c \in Cities : view'[c] = IF p.city = c THEN p.data ELSE view[c]
    BY <1>2, <2>1 DEF Views
  <2>3. job'.city = job.city /\ job'.goal = job.goal
    BY <1>2, <2>1, DeletedKeeps
  <2>4. calls \subseteq calls' /\ (IsOutstanding(handled) \/ \E k \in calls' : k.city = p.city)
    BY <2>1, EnqueuedDoes
  <2>5. pc' = pc \/ (pc = "main" /\ pc' = "loop" /\ frozen' = 0)
    BY <2>1, DispatchedDoes
  <2> QED BY <1>3, <2>1, <2>2, <2>3, <2>4, <2>5 DEF Received, Tells
<1>4. CASE p.kind = "remove"
  <2>1. /\ p.data = NoCity
        /\ UNCHANGED <<requests, used, managed, frozen, awaited, ignored>>
    BY <1>1, <1>4 DEF Packets, HandleRemove
  <2>2. CASE ~Exists(view, p.city)
    <3>1. view' = view /\ job' = job /\ calls' = calls /\ pc' = pc
      BY <1>1, <1>4, <2>2 DEF HandleRemove
    <3>2. \A c \in Cities : view'[c] = IF p.city = c THEN p.data ELSE view[c]
      BY <2>1, <2>2, <3>1 DEF Exists
    <3> QED BY <1>4, <2>1, <3>1, <3>2 DEF Received, Tells
  <2>3. CASE Exists(view, p.city)
    <3>1. /\ view' = [view EXCEPT ![p.city] = NoCity] /\ job' = Deleted(job, p.city)
          /\ calls' = Enqueued(p.city, "remove") /\ pc' = Dispatched(frozen, calls')
      BY <1>1, <1>4, <2>3 DEF HandleRemove
    <3>2. \A c \in Cities : view'[c] = IF p.city = c THEN p.data ELSE view[c]
      BY <1>2, <2>1, <3>1 DEF Views
    <3>3. job'.city = job.city /\ job'.goal = job.goal
      BY <1>2, <3>1, DeletedKeeps
    <3>4. calls \subseteq calls'
      BY <3>1, EnqueuedDoes
    <3>5. pc' = pc \/ (pc = "main" /\ pc' = "loop" /\ frozen' = 0)
      BY <2>1, <3>1, DispatchedDoes
    <3> QED BY <1>4, <2>1, <3>2, <3>3, <3>4, <3>5 DEF Received, Tells
  <2> QED BY <2>2, <2>3
<1>5. CASE p.kind \in {"started", "freeze"}
  <2>1. UNCHANGED <<requests, used, view, managed, calls, awaited, pc, job, ignored>>
    BY <1>1, <1>5 DEF HandleFreeze
  <2> QED BY <1>5, <2>1 DEF Received, Tells
<1>6. CASE p.kind = "thaw"
  <2>1. pc' = Thawed /\ UNCHANGED <<requests, used, view, managed, calls, awaited, job, ignored>>
    BY <1>1, <1>6 DEF HandleThaw
  <2>2. pc' = pc \/ (pc = "main" /\ pc' = "loop" /\ frozen' = 0)
    BY <2>1, DispatchedDoes DEF Thawed
  <2> QED BY <1>6, <2>1, <2>2 DEF Received, Tells
<1>7. CASE p.kind = "finished"
  <2>1. /\ seen' = handled /\ UNCHANGED <<requests, used, view, managed, calls, job, ignored>>
        /\ IF pc = "wait" /\ Enough(seen')
             THEN awaited' = <<0, 0>> /\ pc' = "judge"
             ELSE pc' = Thawed /\ UNCHANGED awaited
    BY <1>1, <1>7 DEF HandleFinished
  <2>2. CASE pc = "wait" /\ Enough(seen')
    <3>1. awaited[2] <= handled
      BY <1>2, AgentsAssumption, <2>1, <2>2 DEF Enough, Ids
    <3> QED BY <1>7, <2>1, <2>2, <3>1 DEF Received, Tells
  <2>3. CASE ~(pc = "wait" /\ Enough(seen'))
    <3>1. pc' = pc \/ (pc = "main" /\ pc' = "loop" /\ frozen' = 0)
      BY <2>1, <2>3, DispatchedDoes DEF Thawed
    <3> QED BY <1>7, <2>1, <2>3, <3>1 DEF Received, Tells
  <2> QED BY <2>2, <2>3
<1>8. CASE p.kind = "managers"
  <2>1. UNCHANGED <<view, calls, awaited, pc, job, ignored>> /\ managed' = managed \cup p.data
    BY <1>1, <1>8 DEF HandleManagers
  <2>2. Sends
    <3> DEFINE C == {c \in Cities : Own(view, c)}
               sent == [i \in 1..Len(SetToSeq(C)) |-> Told(SetToSeq(C)[i], managed')]
    <3>1. Send(sent)
      BY <1>1, <1>8 DEF HandleManagers
    <3>2. C \subseteq Cities
      OBVIOUS
    <3> HIDE DEF C
    <3>3. sent \in Seq(Requests)
      BY <3>2, ToldAllIsSeq
    <3> QED BY <3>1, <3>3 DEF Sends
  <2> QED BY <1>8, <2>1, <2>2 DEF Received, Tells
<1>9. CASE p.kind = "running"
  <2>1. /\ UNCHANGED <<requests, used, view, managed, calls, awaited, job, ignored, frozen>>
        /\ pc' = Dispatched(frozen, calls)
    BY <1>1, <1>9 DEF HandleRunning
  <2>2. pc' = pc \/ (pc = "main" /\ pc' = "loop" /\ frozen' = 0)
    BY <2>1, DispatchedDoes
  <2> QED BY <1>9, <2>1, <2>2 DEF Received, Tells
<1> QED BY <1>1, <1>3, <1>4, <1>5, <1>6, <1>7, <1>8, <1>9

LEMMA ReceiveInHand ==
    ASSUME Sound, InHand, Receive, Unwrapped
    PROVE  InHand'
<1> DEFINE p == Head(news)
           E == Allowed(awaited[1], awaited[2], job.city)
<1>1. /\ up /\ pc \in {"main", "wait"} /\ news # <<>> /\ news' = Tail(news)
      /\ p \in Packets /\ Fits(Here, p)
      /\ UNCHANGED <<server, up, fault>>
  BY ReceiveKinds
<1>2. city' = city /\ counted' = counted /\ up' = up
  BY <1>1 DEF server
<1>3. /\ news \in Seq(Packets) /\ frozen \in Nat /\ requests \in Seq(Requests)
      /\ counted \in Nat /\ handled \in Nat /\ awaited \in Ids \X Ids
  BY AgentsAssumption DEF Sound, Typed, Ids
<1>4. Received(p) /\ Handled(p)
  BY ReceiveDoes, ReceiveHandles
<1>5. Through(Here, news, Settled(counted, city), E)
  BY <1>1 DEF InHand, Echoes
<1>6. <<Here, p>> \in E /\ Through(After(Here, p), news', Settled(counted, city), E)
  <2> HIDE DEF E
  <2> QED BY <1>1, <1>3, <1>5, ThroughTail
<1> HIDE DEF p
<1>7. Here' = After(Here, p) /\ Through(Here', news', Settled(counted, city), E)
  BY <1>4, <1>6 DEF Handled
<1>8. pc = "main" => awaited = <<0, 0>> /\ ~IsOutstanding(handled)
  BY DEF InHand, Waits, IsOutstanding
<1>9. p.kind = "managers" => ~running /\ pc = "main"
  BY <1>1 DEF Fits, Here, InHand, Joining
<1>10. ASSUME IsOutstanding(handled), Tells(p)
       PROVE  pc = "wait" /\ Echo(Here, p, job.city)
  <2>1. /\ awaited[1] # 0 /\ handled # 0
        /\ awaited[1] <= handled /\ handled <= awaited[2]
    BY <1>10 DEF IsOutstanding
  <2>2. Here.open /\ Here.id = handled
    BY <2>1 DEF Here
  <2> QED BY <1>1, <1>6, <1>8, <1>10, <2>1, <2>2 DEF Allowed
<1>11. Linear'
  <2>1. Sends
    BY <1>4 DEF Received, Sends
  <2> QED BY <1>2, <2>1, SendsLinear DEF InHand
<1>12. Echoes'
  <2>1. Settled(counted, city)' = Settled(counted, city)
    BY <1>2 DEF Settled, ShownAll, Shown, Own, Exists, Open
  <2>2. CASE awaited' = awaited
    BY <1>2, <1>4, <1>7, <2>1, <2>2 DEF Received, Echoes
  <2>3. CASE awaited' = <<0, 0>>
    <3>1. Through(Here', news', Settled(counted, city), Allowed(0, 0, job'.city))
      BY <1>7, AllowedWithout
    <3> QED BY <1>2, <2>1, <2>3, <3>1 DEF Echoes
  <2> QED BY <1>4, <2>2, <2>3 DEF Received
<1>13. Waits'
  <2>1. ASSUME pc' = "wait"
        PROVE  pc = "wait" /\ awaited' = awaited /\ UNCHANGED <<requests, used>>
    BY <1>1, <1>4, <1>9, <2>1 DEF Received
  <2>2. pc' # "wait" => awaited' = <<0, 0>>
    BY <1>1, <1>4, <1>8 DEF Received
  <2> QED BY <1>2, <1>4, <2>1, <2>2 DEF Received, InHand, Waits
<1>14. JudgedOnAnswers'
  <2> SUFFICES ASSUME pc' = "judge"
      PROVE  requests' = <<>> /\ \A i \in DOMAIN news' : news'[i].kind # "started"
    BY DEF JudgedOnAnswers
  <2>1. /\ p.kind = "finished" /\ pc = "wait" /\ awaited[2] <= handled /\ requests' = requests
    BY <1>1, <1>4 DEF Received
  <2>2. Here'.id = handled
    <3>1. Here.open /\ ~Opening(p)
      BY <1>1, <2>1 DEF Fits, Opening
    <3>2. Here.id = handled
      BY <3>1 DEF Here
    <3> QED BY <1>7, <2>1, <3>2 DEF After
  <2>3. awaited[2] = counted + Len(requests) /\ Len(requests) \in Nat
    BY <1>1, <1>3, <2>1, LenProperties DEF InHand, Waits, Linear
  <2>4. PICK w : Path(w, news', E) /\ w[0] = Here' /\ w[Len(news')] = Settled(counted, city)
    BY <1>7 DEF Through
  <2>5. /\ Here'.id <= counted
        /\ (\E i \in DOMAIN news' : news'[i].kind = "started") => Here'.id < counted
    <3>1. news' \in Seq(Packets) /\ Len(news') \in Nat
      BY <1>1, <1>3, HeadTailProperties, LenProperties
    <3>2. Settled(counted, city).id = counted /\ Len(news') \in 0..Len(news')
      BY <3>1 DEF Settled
    <3> QED BY <2>4, <3>1, <3>2, PathRises
  <2>6. Len(requests) = 0 /\ ~(handled < counted)
    BY <1>3, <2>1, <2>2, <2>3, <2>5
  <2> QED BY <1>3, <2>1, <2>2, <2>5, <2>6, EmptySeq
<1>15. Aimed'
  <2> DEFINE c == job.city
  <2> SUFFICES ASSUME pc' \in {"wait", "judge"}, Own(view', c)
      PROVE  \/ \E k \in calls' : k.city = c
             \/ job.goal.work = Best[job.goal.setting][view'[c].open]
    BY <1>4 DEF Received, Aimed, Called, Own, Exists
  <2>1. pc = "wait"
    BY <1>1, <1>4 DEF Received
  <2>2. c \in Cities
    BY <2>1 DEF Sound, Shaped
  <2>3. view'[c] = IF Tells(p) /\ p.city = c THEN p.data ELSE view[c]
    BY <1>4, <2>2 DEF Received
  <2>4. Own(view, c) => \/ \E k \in calls : k.city = c
                        \/ job.goal.work = Best[job.goal.setting][view[c].open]
    BY <2>1 DEF InHand, Aimed, Called
  <2> HIDE DEF c
  <2>5. CASE ~(Tells(p) /\ p.city = c)
    BY <1>4, <2>3, <2>4, <2>5 DEF Received, Own, Exists
  <2>6. CASE Tells(p) /\ p.city = c /\ ~IsOutstanding(handled)
    <3>1. p.data # NoCity
      BY <2>3, <2>6 DEF Own, Exists
    <3>2. p.kind = "city"
      BY <1>1, <2>6, <3>1 DEF Tells, Packets
    <3> QED BY <1>4, <2>6, <3>2 DEF Received
  <2>7. CASE Tells(p) /\ p.city = c /\ IsOutstanding(handled)
    <3>1. Echo(Here, p, c)
      BY <1>10, <2>7 DEF c
    <3>2. Own(view, c) /\ p.data.open = view[c].open
      BY <2>7, <3>1 DEF Echo, Here
    <3>3. view'[c].open = view[c].open
      BY <2>3, <2>7, <3>2
    <3> QED BY <1>4, <2>4, <3>2, <3>3 DEF Received
  <2> QED BY <2>5, <2>6, <2>7
<1>16. Joining'
  <2> SUFFICES ASSUME ~running'
      PROVE  pc' = "main" /\ \A c \in Cities : Exists(view', c) => \E k \in calls' : k.city = c
    BY DEF Joining, Called, Exists
  <2>1. ~running /\ p.kind # "running" /\ frozen' = Here'.depth /\ frozen = Here.depth
    <3>1. Here'.running = running' /\ Here.running = running
      BY DEF Here
    <3>2. Here'.running = IF p.kind = "running" THEN TRUE ELSE Here.running
      BY <1>7 DEF After
    <3> QED BY <3>1, <3>2 DEF Here
  <2>2. /\ pc = "main" /\ \A c \in Cities : Exists(view, c) => \E k \in calls : k.city = c
    BY <1>1, <2>1 DEF InHand, Joining, Called
  <2>3. frozen' # 0
    <3>1. ~Opening(p) => frozen > 1
      BY <1>1, <2>1 DEF Fits, Here
    <3>2. frozen' = IF Opening(p) THEN frozen + 1 ELSE IF Closing(p) THEN frozen - 1 ELSE frozen
      BY <1>7, <2>1 DEF After
    <3> QED BY <1>3, <3>1, <3>2
  <2>4. pc' = "main"
    BY <1>4, <2>2, <2>3 DEF Received
  <2>5. ASSUME NEW c \in Cities, Exists(view', c) PROVE \E k \in calls' : k.city = c
    <3>1. CASE Tells(p) /\ p.city = c
      <4>1. p.data # NoCity
        BY <1>4, <2>5, <3>1 DEF Received, Exists
      <4>2. p.kind = "city"
        BY <1>1, <3>1, <4>1 DEF Tells, Packets
      <4> QED BY <1>4, <1>8, <2>2, <3>1, <4>2 DEF Received
    <3>2. CASE ~(Tells(p) /\ p.city = c)
      BY <1>4, <2>2, <2>5, <3>2 DEF Received, Exists
    <3> QED BY <3>1, <3>2
  <2> QED BY <2>4, <2>5
<1>17. Placed'
  BY <1>2 DEF InHand, Placed, Exists
<1>18. Excused'
  <2>1. CASE p.kind = "city" /\ IsOutstanding(handled) /\ p.city # job.city
    <3>1. pc = "wait" /\ Echo(Here, p, job.city)
      BY <1>10, <2>1 DEF Tells
    <3>2. job.city \in Cities /\ Near[p.city] \cap Near[job.city] # {}
      BY <2>1, <3>1 DEF Sound, Shaped, Echo
    <3>3. ignored' = ignored \cup {p.city}
      BY <1>4, <2>1 DEF Received
    <3> QED BY <2>1, <3>2, <3>3 DEF InHand, Excused
  <2>2. CASE ~(p.kind = "city" /\ IsOutstanding(handled) /\ p.city # job.city)
    BY <1>4, <2>2 DEF Received, InHand, Excused
  <2> QED BY <2>1, <2>2
<1>19. GoalsInHand'
  <2> SUFFICES ASSUME NEW c \in managed', Own(view', c)
      PROVE  \/ view'[c].work = Best[view'[c].setting][view'[c].open]
             \/ pc' \in {"try", "wait", "judge"} /\ job'.city = c
             \/ \E k \in calls' : k.city = c
             \/ c \in ignored'
    BY DEF GoalsInHand, Called, Own, Exists
  <2>1. c \in Cities /\ view'[c] = IF Tells(p) /\ p.city = c THEN p.data ELSE view[c]
    BY <1>4 DEF Received, Handled
  <2>2. calls \subseteq calls' /\ ignored \subseteq ignored'
    BY <1>4 DEF Received
  <2>3. pc = "wait" => pc' \in {"wait", "judge"} /\ job'.city = job.city
    BY <1>4 DEF Received
  <2>4. CASE Tells(p) /\ p.city = c
    <3>1. p.data # NoCity
      BY <2>1, <2>4 DEF Own, Exists
    <3>2. p.kind = "city"
      BY <1>1, <2>4, <3>1 DEF Tells, Packets
    <3>3. CASE IsOutstanding(handled)
      <4>1. pc = "wait"
        BY <1>10, <2>4, <3>3
      <4>2. c # job.city => c \in ignored'
        BY <1>4, <2>4, <3>2, <3>3 DEF Received
      <4> QED BY <2>3, <4>1, <4>2
    <3>4. CASE ~IsOutstanding(handled)
      BY <1>4, <2>4, <3>2, <3>4 DEF Received
    <3> QED BY <3>3, <3>4
  <2>5. CASE ~(Tells(p) /\ p.city = c) /\ c \in managed
    <3>1. Own(view, c) /\ view'[c] = view[c]
      BY <2>1, <2>5 DEF Own, Exists
    <3>2. \/ view[c].work = Best[view[c].setting][view[c].open]
          \/ pc = "wait" /\ job.city = c
          \/ \E k \in calls : k.city = c
          \/ c \in ignored
      BY <1>1, <2>5, <3>1 DEF InHand, GoalsInHand, Called
    <3> QED BY <2>2, <2>3, <3>1, <3>2
  <2>6. CASE ~(Tells(p) /\ p.city = c) /\ c \notin managed
    <3>1. p.kind = "managers"
      BY <1>4, <2>6 DEF Received
    <3>2. ~running /\ Exists(view, c)
      BY <1>9, <2>1, <2>6, <3>1 DEF Own, Exists
    <3>3. \E k \in calls : k.city = c
      BY <1>1, <2>1, <3>2 DEF InHand, Joining, Called
    <3> QED BY <2>2, <3>3
  <2> QED BY <2>4, <2>5, <2>6
<1> QED BY <1>11, <1>12, <1>13, <1>14, <1>15, <1>16, <1>17, <1>18, <1>19 DEF InHand

\* A client that joins is told all there is, before it runs.
LEMMA ReconnectInHand ==
    ASSUME Sound, InHand, Reconnect
    PROVE  InHand'
<1> DEFINE E == Allowed(0, 0, job.city)
<1>1. /\ ~up /\ pc = "main"
      /\ up' = TRUE /\ used' = 1 /\ seen' = 0 /\ handled' = 0 /\ counted' = 1
      /\ UNCHANGED <<city, requests, running, view, managed, calls, frozen, awaited, pc, job,
                     putting, ignored, fault>>
  BY DEF Reconnect
<1>2. PICK S \in SUBSET Cities :
        news' = <<Mark("started", 1), Mark("freeze", 0)>>
                  \o Infos({c \in Cities : Exists(city, c)})
                  \o <<[kind |-> "managers", city |-> NoCity, data |-> S, id |-> 0],
                       Mark("running", 0), Mark("thaw", 0), Mark("finished", 1)>>
  BY DEF Reconnect
<1>3. /\ requests = <<>> /\ frozen = 0 /\ running = FALSE /\ view = [c \in Cities |-> NoCity]
      /\ awaited = <<0, 0>>
  BY <1>1 DEF Sound, InTouch, InHand, Waits
<1>4. Echoes'
  <2>1. <<Blank, Mark("started", 1)>> \in E
    <3>1. Blank \in Fronts /\ Blank.id = 0
      BY SmallIds DEF Blank, Fronts, Views
    <3>2. Mark("started", 1) \in Packets /\ Mark("started", 1).kind = "started"
      BY SmallIds, MarkIsPacket
    <3>3. NextId(0) = 0 + 1
      BY SmallIds
    <3> QED BY <3>1, <3>2, <3>3 DEF Allowed, Anywhere, Tells
  <2>2. \A x \in Fronts, q \in Packets : q.kind # "started" => <<x, q>> \in E
    BY DEF Allowed, Anywhere
  <2>3. city' \in [Cities -> CityData \cup {NoCity}] /\ city' = city
    BY <1>1 DEF Sound, Typed
  <2> HIDE DEF E
  <2>4. Through(Blank, news', Settled(1, city'), E)
    BY <1>2, <2>1, <2>2, <2>3, JoinPath
  <2>5. Here' = Blank
    BY <1>1, <1>3 DEF Here, Blank
  <2>6. Settled(counted, city)' = Settled(1, city')
    BY <1>1 DEF Settled
  <2> QED BY <1>1, <1>3, <2>4, <2>5, <2>6 DEF Echoes, E
<1>5. Linear'
  <2>1. Len(requests') = 0
    BY <1>1, <1>3
  <2> QED BY <1>1, <2>1 DEF Linear
<1>6. Joining'
  BY <1>1, <1>3 DEF Joining, Exists
<1>7. Waits' /\ JudgedOnAnswers' /\ Aimed' /\ Placed' /\ Excused' /\ GoalsInHand'
  BY <1>1, <1>3 DEF InHand, Waits, JudgedOnAnswers, Aimed, Placed, Excused, GoalsInHand, Called,
                    Own, Exists
<1> QED BY <1>4, <1>5, <1>6, <1>7 DEF InHand

\* The agent judges on answers, and as long as the client is not done for the rest holds.
Steady == JudgedOnAnswers /\ (fault = "none" => InHand)

LEMMA NextSteady ==
    ASSUME Sound, Steady, [Next]_vars, [Unwrapped]_vars
    PROVE  Steady'
<1>1. CASE UNCHANGED vars
  <2>1. /\ city' = city /\ counted' = counted /\ up' = up /\ requests' = requests
        /\ news' = news /\ view' = view /\ managed' = managed /\ calls' = calls
        /\ used' = used /\ awaited' = awaited /\ pc' = pc /\ job' = job /\ running' = running
        /\ ignored' = ignored /\ fault' = fault /\ Here' = Here
    BY <1>1 DEF vars, server, network, client, ids, Here
  <2>2. JudgedOnAnswers'
    BY <2>1 DEF Steady, JudgedOnAnswers
  <2>3. ASSUME InHand PROVE InHand'
    <3>1. Settled(counted, city)' = Settled(counted, city)
      BY <2>1 DEF Settled, ShownAll, Shown, Own, Exists, Open
    <3>2. Linear' /\ Echoes' /\ Waits' /\ Aimed'
      BY <2>1, <2>3, <3>1 DEF InHand, Linear, Echoes, Waits, Aimed, Called, Own, Exists
    <3>3. Joining' /\ Placed' /\ Excused' /\ GoalsInHand'
      BY <2>1, <2>3 DEF InHand, Joining, Placed, Excused, GoalsInHand, Called, Own, Exists
    <3> QED BY <2>2, <3>2, <3>3 DEF InHand
  <2> QED BY <2>1, <2>2, <2>3 DEF Steady
<1>2. CASE Next /\ Unwrapped
  <2>1. InHand /\ fault = "none"
    BY <1>2 DEF Steady, Next
  <2>2. InHand' => Steady'
    BY DEF Steady, InHand
  <2>3. CASE Serve
    BY <2>1, <2>2, <2>3, ServeInHand
  <2>4. ASSUME NEW c \in Cities, ChangeCity(c) PROVE Steady'
    BY <2>1, <2>2, <2>4, ChangeCityInHand
  <2>5. ASSUME NEW c \in Cities, RemoveCity(c) PROVE Steady'
    BY <2>1, <2>2, <2>5, RemoveCityInHand
  <2>6. CASE Receive
    BY <1>2, <2>1, <2>2, <2>6, ReceiveInHand
  <2>7. CASE ExecuteCall
    BY <1>2, <2>1, <2>2, <2>7, ExecuteCallInHand
  <2>8. CASE Return
    <3>1. fault' = "none" => InHand'
      BY <1>2, <2>1, <2>8, ReturnInHand
    <3>2. pc' # "judge"
      BY <2>8 DEF Return
    <3> QED BY <3>1, <3>2 DEF Steady, JudgedOnAnswers
  <2>9. CASE Try
    <3>1. fault' = "none" => InHand'
      BY <1>2, <2>1, <2>9, TryInHand
    <3>2. pc' # "judge"
      BY <2>9 DEF Try, Apply
    <3> QED BY <3>1, <3>2 DEF Steady, JudgedOnAnswers
  <2>10. CASE Judge
    <3>1. fault' = "none" => InHand'
      BY <1>2, <2>1, <2>10, JudgeInHand
    <3>2. pc = "judge" /\ UNCHANGED <<up, news>>
      BY <2>10 DEF Judge
    <3>3. pc' = "judge" => UNCHANGED requests
      BY <2>10 DEF Judge
    <3>4. JudgedOnAnswers'
      BY <2>1, <3>2, <3>3 DEF InHand, JudgedOnAnswers
    <3> QED BY <3>1, <3>4 DEF Steady
  <2>11. ASSUME NEW c \in Cities, PutUnderAgent(c) PROVE Steady'
    BY <1>2, <2>1, <2>2, <2>11, PutUnderAgentInHand
  <2>12. ASSUME NEW c \in Cities, NEW t \in Tiles, MoveWorker(c, t) PROVE Steady'
    BY <1>2, <2>1, <2>2, <2>12, MoveWorkerInHand
  <2>13. CASE Disconnect
    BY <2>1, <2>2, <2>13, DisconnectInHand
  <2>14. CASE Reconnect
    BY <2>1, <2>2, <2>14, ReconnectInHand
  <2> QED BY <1>2, <2>3, <2>4, <2>5, <2>6, <2>7, <2>8, <2>9, <2>10, <2>11, <2>12, <2>13, <2>14
          DEF Next, ServerStep, ClientStep, UserStep
<1> QED BY <1>1, <1>2

LEMMA AlwaysSteady == Spec /\ [][Unwrapped]_vars => []Steady
<1>1. Init => Steady
  BY InitInHand DEF Steady, InHand
<1>2. Sound /\ Steady /\ [Next]_vars /\ [Unwrapped]_vars => Steady'
  BY NextSteady
<1> QED BY <1>1, <1>2, AlwaysSound, PTL DEF Spec

\* At the end of the news the client is shown what the server has, and is not frozen.
LEMMA SteadyGoalKept ==
    ASSUME Sound, Steady
    PROVE  GoalKept
<1> SUFFICES ASSUME Quiet, NEW c \in managed, Own(city, c)
    PROVE  \/ city[c].work = Best[city[c].setting][Open(city, c)]
           \/ c \in ignored /\ \E d \in Cities \ {c} : Near[c] \cap Near[d] # {}
  BY DEF GoalKept
<1>1. up /\ news = <<>> /\ pc = "main" /\ InHand
  BY DEF Quiet, Steady
<1>2. c \in Cities /\ city[c] \in CityData /\ Open(city, c) \subseteq Tiles
  BY AgentsAssumption, InOpen DEF Sound, Typed, Own, Exists
<1>3. frozen = 0 /\ view = ShownAll(city)
  <2>1. PICK w : w[0] = Here /\ w[Len(news)] = Settled(counted, city)
    BY <1>1 DEF Sound, InTouch, Through
  <2>2. Len(news) = 0
    BY <1>1
  <2>3. Here = Settled(counted, city)
    BY <2>1, <2>2
  <2>4. Here.depth = frozen /\ Here.shown = view
    BY DEF Here
  <2> QED BY <2>3, <2>4 DEF Settled
<1>4. calls = {}
  BY <1>1, <1>3 DEF Sound, NoCallLeft
<1>5. view[c] = [owner |-> "me", setting |-> city[c].setting, work |-> city[c].work,
                 open |-> Open(city, c)]
  BY <1>2, <1>3 DEF ShownAll, Shown
<1>6. Own(view, c)
  <2>1. view[c] \in ShownData
    BY <1>2, <1>5 DEF ShownData, CityData
  <2> QED BY <1>5, <2>1, NoCityAssumption DEF Own, Exists
<1>7. \/ view[c].work = Best[view[c].setting][view[c].open]
      \/ c \in ignored
  BY <1>1, <1>4, <1>6 DEF InHand, GoalsInHand, Called
<1>8. c \in ignored => \E d \in Cities \ {c} : Near[c] \cap Near[d] # {}
  BY <1>1 DEF InHand, Excused
<1> QED BY <1>5, <1>7, <1>8

(***************************************************************************)
(* 10. The theorems about the agent.                                       *)
(***************************************************************************)

\* wait_for_requests keeps its promise: the agent judges its city with every answer
\* in hand, whatever the server tells meanwhile, for every number of requests and
\* every place where numbers wrap, as long as none wraps while requests are sent.
THEOREM AnswersInHand == Spec /\ [][Unwrapped]_vars => []JudgedOnAnswers
<1>1. Steady => JudgedOnAnswers
  BY DEF Steady
<1> QED BY <1>1, AlwaysSteady, PTL

\* What handle_city promises holds but for neighbours: when nothing is under way, a
\* city under the agent has the workers that the agent wants for what the city has
\* become and for the tiles that are open to it, although it changed, was lost, changed
\* hands or was seen anew on another connection in between; unless its last news came
\* with the answers of the agent's requests for another city, and another city has a
\* tile in common with it.
THEOREM GoalsAreKept == Spec /\ [][Unwrapped]_vars => []GoalKept
<1>1. Sound /\ Steady => GoalKept
  BY SteadyGoalKept
<1> QED BY <1>1, AlwaysSound, AlwaysSteady, PTL
=============================================================================
