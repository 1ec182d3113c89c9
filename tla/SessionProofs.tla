--------------------------- MODULE SessionProofs ----------------------------
(***************************************************************************)
(* What holds of a whole session, for every number of players, looks, hit   *)
(* points and messages in flight.                                           *)
(*                                                                          *)
(* The argument is one invariant, InStep: were an endpoint to take all that *)
(* is on its way to it now, every message would find it ready (a Join finds *)
(* the player untracked, anything else finds it tracked), and its view would *)
(* be what the host has on file.  The convergence properties are this        *)
(* invariant for an empty queue.  It is kept because every handler of the    *)
(* host sends each endpoint exactly what makes up the difference between the *)
(* files before and after it, and because taking a message only moves it     *)
(* from the queue to the view.                                               *)
(*                                                                          *)
(* In the other direction, LatestLook: the look a client pushed last is on    *)
(* its way behind the hello and every other look, or on file.                  *)
(***************************************************************************)
EXTENDS Session, HostRelayProofs

-----------------------------------------------------------------------------
(* Taking a queue of messages.                                               *)

\* A message finds an endpoint ready: its first is the Join that names it, and what
\* it hears of another player afterwards starts with that player's Join.
Fits(k, m) ==
    IF k.id = NoNetId
    THEN m.type = "Join"
    ELSE m.netId # k.id => (m.type = "Join" <=> ~k.peers[m.netId].tracked)

\* What an endpoint knows after each message of a queue, every one of which fits.
IsReading(f, k, msgs) ==
    /\ f[0] = k
    /\ \A i \in 1..Len(msgs) : f[i] = Take(f[i - 1], msgs[i]) /\ Fits(f[i - 1], msgs[i])

\* Taking the queue leads from the knowledge k to the knowledge l.
Reads(k, msgs, l) == \E f : IsReading(f, k, msgs) /\ l = f[Len(msgs)]

LEMMA ReadNothing ==
    ASSUME NEW k
    PROVE  Reads(k, <<>>, k)
  <1> DEFINE f == [i \in {0} |-> k]
  <1>1. IsReading(f, k, <<>>) /\ k = f[Len(<<>>)]
    BY DEF IsReading
  <1> QED
    BY <1>1, Zenon DEF Reads

LEMMA ReadOne ==
    ASSUME NEW k, NEW m, Fits(k, m)
    PROVE  Reads(k, <<m>>, Take(k, m))
  <1> DEFINE f == [i \in 0..1 |-> IF i = 0 THEN k ELSE Take(k, m)]
             msgs == <<m>>
  <1>1. Len(msgs) = 1 /\ msgs[1] = m
    OBVIOUS
  <1>2. f[0] = k /\ f[1] = Take(k, m)
    OBVIOUS
  <1> HIDE DEF f, msgs
  <1>3. IsReading(f, k, msgs)
    BY <1>1, <1>2 DEF IsReading
  <1>4. Reads(k, msgs, Take(k, m))
    BY <1>1, <1>2, <1>3, Zenon DEF Reads
  <1> QED
    BY <1>4 DEF msgs

\* One queue after another.
LEMMA ReadThen ==
    ASSUME NEW M, NEW a \in Seq(M), NEW b \in Seq(M), NEW k, NEW l, NEW r,
           Reads(k, a, l), Reads(l, b, r)
    PROVE  Reads(k, a \o b, r)
  <1>1. PICK f : IsReading(f, k, a) /\ l = f[Len(a)]
    BY DEF Reads
  <1>2. PICK g : IsReading(g, l, b) /\ r = g[Len(b)]
    BY DEF Reads
  <1> DEFINE h == [i \in 0..(Len(a) + Len(b)) |-> IF i <= Len(a) THEN f[i] ELSE g[i - Len(a)]]
             ab == a \o b
  <1>3. Len(ab) = Len(a) + Len(b) /\ Len(a) \in Nat /\ Len(b) \in Nat
    OBVIOUS
  <1>4. /\ \A i \in 1..Len(a) : ab[i] = a[i]
        /\ \A i \in (Len(a) + 1)..(Len(a) + Len(b)) : ab[i] = b[i - Len(a)]
    OBVIOUS
  <1>5. /\ \A i \in 0..Len(a) : h[i] = f[i]
        /\ \A i \in 0..Len(b) : h[Len(a) + i] = g[i]
    <2>1. g[0] = f[Len(a)]
      BY <1>1, <1>2 DEF IsReading
    <2>2. \A i \in 0..Len(a) : h[i] = f[i]
      BY <1>3
    <2>3. ASSUME NEW i \in 1..Len(b) PROVE h[Len(a) + i] = g[i]
      BY <1>3
    <2> HIDE DEF h
    <2>4. h[Len(a) + 0] = g[0]
      BY <1>3, <2>1, <2>2
    <2>5. \A i \in 0..Len(b) : i = 0 \/ i \in 1..Len(b)
      BY <1>3
    <2>6. \A i \in 0..Len(b) : h[Len(a) + i] = g[i]
      BY <2>3, <2>4, <2>5
    <2> QED
      BY <2>2, <2>6
  <1> HIDE DEF h, ab
  <1>6. IsReading(h, k, ab)
    <2>1. h[0] = k
      BY <1>1, <1>3, <1>5 DEF IsReading
    <2>2. ASSUME NEW i \in 1..Len(a)
          PROVE  h[i] = Take(h[i - 1], ab[i]) /\ Fits(h[i - 1], ab[i])
      <3>1. i - 1 \in 0..Len(a) /\ i \in 0..Len(a)
        BY <1>3
      <3> QED
        BY <1>1, <1>4, <1>5, <3>1 DEF IsReading
    <2>3. ASSUME NEW i \in (Len(a) + 1)..(Len(a) + Len(b))
          PROVE  h[i] = Take(h[i - 1], ab[i]) /\ Fits(h[i - 1], ab[i])
      <3> DEFINE j == i - Len(a)
      <3>1. j \in 1..Len(b) /\ j - 1 \in 0..Len(b) /\ j \in 0..Len(b)
        BY <1>3
      <3>2. i = Len(a) + j /\ i - 1 = Len(a) + (j - 1)
        BY <1>3
      <3>3. h[i] = g[j] /\ h[i - 1] = g[j - 1]
        BY <1>5, <3>1, <3>2
      <3>4. ab[i] = b[j]
        BY <1>4
      <3>5. g[j] = Take(g[j - 1], b[j]) /\ Fits(g[j - 1], b[j])
        BY <1>2, <3>1 DEF IsReading
      <3> QED
        BY <3>3, <3>4, <3>5
    <2>4. \A i \in 1..Len(ab) : i \in 1..Len(a) \/ i \in (Len(a) + 1)..(Len(a) + Len(b))
      BY <1>3
    <2> QED
      BY <2>1, <2>2, <2>3, <2>4 DEF IsReading
  <1>7. r = h[Len(ab)]
    <2>1. Len(b) \in 0..Len(b)
      BY <1>3
    <2> QED
      BY <1>2, <1>3, <1>5, <2>1
  <1>8. Reads(k, ab, r)
    BY <1>6, <1>7, Zenon DEF Reads
  <1> QED
    BY <1>8 DEF ab

\* The first message of a queue fits, and the rest leads on from there.
LEMMA ReadHead ==
    ASSUME NEW M, NEW msgs \in Seq(M), msgs # <<>>, NEW k, NEW l, Reads(k, msgs, l)
    PROVE  Fits(k, Head(msgs)) /\ Reads(Take(k, Head(msgs)), Tail(msgs), l)
  <1>1. PICK f : IsReading(f, k, msgs) /\ l = f[Len(msgs)]
    BY DEF Reads
  <1> DEFINE rest == Tail(msgs)
             g == [i \in 0..Len(rest) |-> f[i + 1]]
  <1>2. /\ Len(rest) \in Nat /\ Len(msgs) = Len(rest) + 1
        /\ \A i \in 1..Len(rest) : rest[i] = msgs[i + 1]
        /\ Head(msgs) = msgs[1]
    OBVIOUS
  <1> HIDE DEF rest
  <1>3. /\ f[1] = Take(k, Head(msgs)) /\ Fits(k, Head(msgs))
    <2>1. 1 \in 1..Len(msgs) /\ 1 - 1 = 0
      BY <1>2
    <2> QED
      BY <1>1, <1>2, <2>1 DEF IsReading
  <1>4. \A i \in 0..Len(rest) : g[i] = f[i + 1]
    OBVIOUS
  <1> HIDE DEF g
  <1>5. IsReading(g, Take(k, Head(msgs)), rest)
    <2>1. g[0] = Take(k, Head(msgs))
      BY <1>2, <1>3, <1>4
    <2>2. ASSUME NEW i \in 1..Len(rest)
          PROVE  g[i] = Take(g[i - 1], rest[i]) /\ Fits(g[i - 1], rest[i])
      <3>1. /\ i \in 0..Len(rest) /\ i - 1 \in 0..Len(rest) /\ i + 1 \in 1..Len(msgs)
            /\ (i - 1) + 1 = i /\ (i + 1) - 1 = i
        BY <1>2
      <3>2. g[i] = f[i + 1] /\ g[i - 1] = f[i]
        BY <1>4, <3>1
      <3> QED
        BY <1>1, <1>2, <3>1, <3>2 DEF IsReading
    <2> QED
      BY <2>1, <2>2 DEF IsReading
  <1>6. l = g[Len(rest)]
    <2>1. Len(rest) \in 0..Len(rest)
      BY <1>2
    <2> QED
      BY <1>1, <1>2, <1>4, <2>1
  <1>7. Reads(Take(k, Head(msgs)), rest, l)
    BY <1>5, <1>6, Zenon DEF Reads
  <1> QED
    BY <1>3, <1>7 DEF rest

\* TakeAll takes a queue of messages that fit to where taking them leads.
IsTakeAll(f, k, msgs, n) ==
    f = [i \in 0..n |-> IF i = 0 THEN k ELSE Take(f[i - 1], msgs[i])]

LEMMA ReadAll ==
    ASSUME NEW M, NEW msgs \in Seq(M), NEW k, NEW l, Reads(k, msgs, l)
    PROVE  TakeAll(k, msgs) = l
  <1>1. PICK f : IsReading(f, k, msgs) /\ l = f[Len(msgs)]
    BY DEF Reads
  <1> DEFINE n == Len(msgs)
             h == [i \in 0..n |-> f[i]]
             g == CHOOSE g : IsTakeAll(g, k, msgs, n)
  <1>2. n \in Nat
    OBVIOUS
  <1>3. IsTakeAll(h, k, msgs, n)
    <2>1. ASSUME NEW i \in 0..n
          PROVE  f[i] = IF i = 0 THEN k ELSE Take(h[i - 1], msgs[i])
      <3>1. CASE i = 0
        BY <1>1, <3>1 DEF IsReading
      <3>2. CASE i # 0
        <4>1. i \in 1..n /\ i - 1 \in 0..n
          BY <1>2, <3>2
        <4>2. h[i - 1] = f[i - 1]
          BY <4>1
        <4> QED
          BY <1>1, <3>2, <4>1, <4>2 DEF IsReading
      <3> QED
        BY <3>1, <3>2
    <2> QED
      BY <2>1, Zenon DEF IsTakeAll
  <1>4. IsTakeAll(g, k, msgs, n)
    <2> HIDE DEF h
    <2> QED
      BY <1>3
  <1>5. TakeAll(k, msgs) = g[n]
    BY Zenon DEF TakeAll, IsTakeAll
  <1> HIDE DEF g, h
  <1> DEFINE S == {i \in Nat : i \in 0..n => g[i] = f[i]}
  <1>6. 0 \in S
    <2>1. 0 \in 0..n
      BY <1>2
    <2>2. g[0] = k
      BY <1>4, <2>1, Zenon DEF IsTakeAll
    <2> QED
      BY <1>1, <2>2 DEF IsReading
  <1>7. ASSUME NEW i \in 0..n, i \in S, i < n PROVE i + 1 \in S
    <2>1. i + 1 \in 0..n /\ i + 1 \in 1..n /\ i + 1 # 0 /\ (i + 1) - 1 = i /\ g[i] = f[i]
      BY <1>2, <1>7
    <2>2. g[i + 1] = Take(g[(i + 1) - 1], msgs[i + 1])
      BY <1>4, <2>1, Zenon DEF IsTakeAll
    <2>3. f[i + 1] = Take(f[i], msgs[i + 1])
      BY <1>1, <2>1 DEF IsReading
    <2> QED
      BY <2>1, <2>2, <2>3
  <1>8. \A i \in 0..n : i \in S
    <2> HIDE DEF S, n
    <2> QED
      BY <1>2, <1>6, <1>7, InductionUpTo
  <1>9. g[n] = f[n]
    BY <1>2, <1>8
  <1> QED
    BY <1>1, <1>5, <1>9

-----------------------------------------------------------------------------
(* What one message does to what an endpoint knows.                          *)

\* CyberRestPeer, and what an endpoint may know.
Peer == [tracked : BOOLEAN, hp : Health, alive : BOOLEAN,
         kills : Nat, deaths : Nat, look : Look \cup {NoLook}]
Known == [id : NetId \cup {NoNetId}, peers : [NetId -> Peer]]

LEMMA NoPeerType ==
    /\ NoPeer \in Peer
    /\ NoPeer.tracked = FALSE /\ NoPeer.hp = MaxHealth /\ NoPeer.look = NoLook
  BY HealthAssumption DEF NoPeer, Peer, Health

\* What a Join does to the entry of the player it names.
Joined(p) == [NoPeer EXCEPT !.tracked = TRUE, !.look = p.look]

LEMMA JoinedType ==
    ASSUME NEW p \in Peer
    PROVE  /\ Joined(p) \in Peer
           /\ Joined(p).tracked = TRUE /\ Joined(p).hp = MaxHealth /\ Joined(p).look = p.look
  <1>1. p.look \in Look \cup {NoLook}
    BY DEF Peer
  <1> QED
    BY <1>1, NoPeerType DEF Joined, Peer

LEMMA TakeJoin ==
    ASSUME NEW k \in Known, NEW n \in NetId
    PROVE  /\ k.id = NoNetId => Take(k, JoinMsg(n)) = [k EXCEPT !.id = n]
           /\ k.id # NoNetId /\ n # k.id /\ ~k.peers[n].tracked =>
                Take(k, JoinMsg(n)) = [k EXCEPT !.peers[n] = Joined(k.peers[n])]
           /\ Take(k, JoinMsg(n)) \in Known
  <1>1. JoinMsg(n).type = "Join" /\ JoinMsg(n).netId = n
    BY DEF JoinMsg
  <1>2. Take(k, JoinMsg(n)) = OnNetPlayerJoin(k, n)
    BY <1>1 DEF Take
  <1>3. k.peers[n] \in Peer /\ Joined(k.peers[n]) \in Peer
    BY JoinedType DEF Known
  <1>4. [k EXCEPT !.id = n] \in Known
    BY DEF Known
  <1>5. [k EXCEPT !.peers[n] = Joined(k.peers[n])] \in Known
    BY <1>3 DEF Known
  <1>6. OnNetPlayerJoin(k, n) =
          IF k.id = NoNetId THEN [k EXCEPT !.id = n]
          ELSE IF n = k.id \/ k.peers[n].tracked THEN k
          ELSE [k EXCEPT !.peers[n] = Joined(k.peers[n])]
    BY Zenon DEF OnNetPlayerJoin, Joined
  <1> QED
    BY <1>2, <1>3, <1>4, <1>5, <1>6

\* What the other messages do.
LEMMA TakeOther ==
    ASSUME NEW k \in Known, NEW m \in Message, m.type # "Join"
    PROVE  /\ m.netId \in NetId
           /\ Take(k, m) = [k EXCEPT !.peers[m.netId] =
                                Updated(k.peers[m.netId], m, m.netId = k.id)]
  <1>1. m.netId \in NetId
    BY DEF Message
  <1>2. Take(k, m) = [k EXCEPT !.peers[m.netId] =
                                Updated(k.peers[m.netId], m, m.netId = k.id)]
    BY Zenon DEF Take
  <1> QED
    BY <1>1, <1>2

WithScore(p, s) == [p EXCEPT !.kills = s.kills, !.deaths = s.deaths]
WithLife(p, alive, hp) == [p EXCEPT !.alive = alive, !.hp = hp]

LEMMA UpdatedType ==
    ASSUME NEW p \in Peer, NEW m \in Message, NEW self \in BOOLEAN
    PROVE  Updated(p, m, self) \in Peer
  <1>1. CASE m.type = "Appearance"
    <2>1. m.look \in Look
      BY <1>1 DEF Message
    <2>2. Updated(p, m, self) \in {p, [p EXCEPT !.look = m.look]}
      BY <1>1 DEF Updated
    <2> QED
      BY <2>1, <2>2 DEF Peer
  <1>2. CASE m.type = "Health"
    <2>1. m.hp \in Health
      BY <1>2 DEF Message
    <2>2. Updated(p, m, self) \in {p, [p EXCEPT !.hp = m.hp]}
      BY <1>2 DEF Updated
    <2> QED
      BY <2>1, <2>2 DEF Peer
  <1>3. CASE m.type = "Stats"
    <2>1. m.kills \in Nat /\ m.deaths \in Nat
      BY <1>3 DEF Message
    <2>2. Updated(p, m, self) \in {p, [p EXCEPT !.kills = m.kills, !.deaths = m.deaths]}
      BY <1>3 DEF Updated
    <2> QED
      BY <2>1, <2>2 DEF Peer
  <1>4. CASE m.type = "Death" \/ m.type = "Respawn"
    <2>1. 0 \in Health /\ MaxHealth \in Health
      BY HealthAssumption DEF Health
    <2>2. Updated(p, m, self) \in {p, [p EXCEPT !.alive = FALSE, !.hp = 0],
                                      [p EXCEPT !.alive = TRUE, !.hp = MaxHealth]}
      BY <1>4 DEF Updated
    <2> QED
      BY <2>1, <2>2 DEF Peer
  <1>5. CASE m.type \notin {"Appearance", "Health", "Stats", "Death", "Respawn"}
    <2>1. Updated(p, m, self) \in {p, NoPeer}
      BY <1>5 DEF Updated
    <2> QED
      BY <2>1, NoPeerType
  <1> QED
    BY <1>1, <1>2, <1>3, <1>4, <1>5

LEMMA TakeType ==
    ASSUME NEW k \in Known, NEW m \in Message
    PROVE  Take(k, m) \in Known
  <1>1. CASE m.type = "Join"
    <2>1. m = JoinMsg(m.netId) /\ m.netId \in NetId
      BY <1>1 DEF Message, JoinMsg
    <2> QED
      BY <2>1, TakeJoin
  <1>2. CASE m.type # "Join"
    <2>1. m.netId \in NetId
      BY DEF Message
    <2>2. k.peers[m.netId] \in Peer
      BY <2>1 DEF Known
    <2>3. Updated(k.peers[m.netId], m, m.netId = k.id) \in Peer
      BY <2>2, UpdatedType
    <2> QED
      BY <1>2, <2>1, <2>3, TakeOther DEF Known
  <1> QED
    BY <1>1, <1>2

LEMMA ReadsType ==
    ASSUME NEW k \in Known, NEW msgs \in Seq(Message), NEW l, Reads(k, msgs, l)
    PROVE  l \in Known
  <1>1. PICK f : IsReading(f, k, msgs) /\ l = f[Len(msgs)]
    BY DEF Reads
  <1> DEFINE S == {i \in Nat : i \in 0..Len(msgs) => f[i] \in Known}
  <1>2. 0 \in S
    BY <1>1 DEF IsReading
  <1>3. ASSUME NEW i \in 0..Len(msgs), i \in S, i < Len(msgs) PROVE i + 1 \in S
    <2>1. i + 1 \in 1..Len(msgs) /\ (i + 1) - 1 = i /\ f[i] \in Known
      BY <1>3
    <2>2. f[i + 1] = Take(f[i], msgs[i + 1]) /\ msgs[i + 1] \in Message
      BY <1>1, <2>1 DEF IsReading
    <2> QED
      BY <2>1, <2>2, TakeType
  <1>4. \A i \in 0..Len(msgs) : i \in S
    <2> HIDE DEF S
    <2>1. Len(msgs) \in Nat
      OBVIOUS
    <2> QED
      BY <1>2, <1>3, <2>1, InductionUpTo
  <1>5. f[Len(msgs)] \in Known
    BY <1>4
  <1> QED
    BY <1>1, <1>5

-----------------------------------------------------------------------------
(* What an endpoint hears of a player it tracks, or of itself.               *)

Heard(k, n) == k.id # NoNetId /\ (n = k.id \/ k.peers[n].tracked)

\* The knowledge l differs from k at most in the entry of n, and tracks the same.
OnlyOf(n, k, l) ==
    /\ l \in Known /\ l.id = k.id
    /\ l.peers[n].tracked = k.peers[n].tracked
    /\ \A x \in NetId \ {n} : l.peers[x] = k.peers[x]

\* Reading one message that is not a Join updates the entry of the player it is about.
LEMMA Hear ==
    ASSUME NEW k \in Known, NEW n \in NetId, Heard(k, n),
           NEW m \in Message, m.netId = n, m.type # "Join"
    PROVE  /\ Reads(k, <<m>>, Take(k, m))
           /\ Take(k, m) \in Known
           /\ Take(k, m).id = k.id
           /\ n = k.id => Take(k, m).peers[n] = Updated(k.peers[n], m, TRUE)
           /\ n # k.id => Take(k, m).peers[n] = Updated(k.peers[n], m, FALSE)
           /\ \A x \in NetId \ {n} : Take(k, m).peers[x] = k.peers[x]
  <1>1. Fits(k, m)
    BY DEF Fits, Heard
  <1>2. Take(k, m) = [k EXCEPT !.peers[n] = Updated(k.peers[n], m, n = k.id)]
    BY TakeOther
  <1>3. Take(k, m) \in Known
    BY TakeType
  <1> DEFINE self == n = k.id
             q == Updated(k.peers[n], m, self)
  <1>4. Take(k, m) = [k EXCEPT !.peers = [k.peers EXCEPT ![n] = q]]
    BY <1>2
  <1>6. self \in BOOLEAN /\ (self <=> n = k.id)
    OBVIOUS
  <1> HIDE DEF q, self
  <1>5. /\ Take(k, m).id = k.id
        /\ Take(k, m).peers[n] = q
        /\ \A x \in NetId \ {n} : Take(k, m).peers[x] = k.peers[x]
    BY <1>4 DEF Known
  <1>7. /\ n = k.id => Take(k, m).peers[n] = Updated(k.peers[n], m, TRUE)
        /\ n # k.id => Take(k, m).peers[n] = Updated(k.peers[n], m, FALSE)
    <2>1. (n = k.id => self = TRUE) /\ (n # k.id => self = FALSE)
      BY <1>6
    <2> QED
      BY <1>5, <2>1, Zenon DEF q
  <1>8. Reads(k, <<m>>, Take(k, m))
    BY <1>1, ReadOne
  <1> QED
    BY <1>3, <1>5, <1>7, <1>8, Zenon

LEMMA HearHealth ==
    ASSUME NEW k \in Known, NEW n \in NetId, Heard(k, n), NEW h \in Health
    PROVE  \E l : /\ Reads(k, <<HealthMsg(n, h)>>, l) /\ OnlyOf(n, k, l)
                  /\ n # k.id => l.peers[n].hp = h
                  /\ l.peers[n].look = k.peers[n].look
                  /\ l.peers[n].kills = k.peers[n].kills
                  /\ l.peers[n].deaths = k.peers[n].deaths
  <1> DEFINE m == HealthMsg(n, h)
             was == k.peers[n]
             l == Take(k, m)
  <1>1. m \in Message /\ m.netId = n /\ m.type # "Join"
    BY DEF Message, HealthMsg
  <1>2. was \in Peer /\ (was.tracked \/ n = k.id)
    BY DEF Known, Heard
  <1> HIDE DEF m, l
  <1>3. /\ Reads(k, <<m>>, l) /\ l \in Known /\ l.id = k.id
        /\ \A x \in NetId \ {n} : l.peers[x] = k.peers[x]
    BY <1>1, Hear DEF l
  <1>7. PICK self \in BOOLEAN : (self <=> n = k.id) /\ l.peers[n] = Updated(was, m, self)
    BY <1>1, Hear DEF l
  <1>4. /\ Updated(was, m, self) \in {was, [was EXCEPT !.hp = h]}
        /\ n # k.id => Updated(was, m, self) = [was EXCEPT !.hp = h]
    BY <1>2, <1>7 DEF Updated, m, HealthMsg
  <1>5. OnlyOf(n, k, l)
    BY <1>2, <1>3, <1>4, <1>7 DEF OnlyOf, Peer, WithScore, WithLife
  <1>6. /\ n # k.id => l.peers[n].hp = h
        /\ l.peers[n].look = was.look
        /\ l.peers[n].kills = was.kills
        /\ l.peers[n].deaths = was.deaths
    BY <1>2, <1>3, <1>4, <1>7 DEF Peer, WithScore, WithLife
  <1> QED
    BY <1>3, <1>5, <1>6 DEF m

LEMMA HearStats ==
    ASSUME NEW k \in Known, NEW n \in NetId, Heard(k, n),
           NEW s, s.kills \in Nat, s.deaths \in Nat
    PROVE  \E l : /\ Reads(k, <<StatsMsg(n, s)>>, l) /\ OnlyOf(n, k, l)
                  /\ l.peers[n].hp = k.peers[n].hp
                  /\ l.peers[n].look = k.peers[n].look
                  /\ l.peers[n].kills = s.kills
                  /\ l.peers[n].deaths = s.deaths
  <1> DEFINE m == StatsMsg(n, s)
             was == k.peers[n]
             l == Take(k, m)
  <1>1. m \in Message /\ m.netId = n /\ m.type # "Join"
    BY DEF Message, StatsMsg
  <1>2. was \in Peer /\ (was.tracked \/ n = k.id)
    BY DEF Known, Heard
  <1> HIDE DEF m, l
  <1>3. /\ Reads(k, <<m>>, l) /\ l \in Known /\ l.id = k.id
        /\ \A x \in NetId \ {n} : l.peers[x] = k.peers[x]
    BY <1>1, Hear DEF l
  <1>7. PICK self \in BOOLEAN : (self <=> n = k.id) /\ l.peers[n] = Updated(was, m, self)
    BY <1>1, Hear DEF l
  <1>4. Updated(was, m, self) = WithScore(was, s)
    BY <1>2, <1>7 DEF Updated, m, StatsMsg, WithScore
  <1>5. OnlyOf(n, k, l)
    BY <1>2, <1>3, <1>4, <1>7 DEF OnlyOf, Peer, WithScore, WithLife
  <1>6. /\ l.peers[n].hp = was.hp
        /\ l.peers[n].look = was.look
        /\ l.peers[n].kills = s.kills
        /\ l.peers[n].deaths = s.deaths
    BY <1>2, <1>3, <1>4, <1>7 DEF Peer, WithScore, WithLife
  <1> QED
    BY <1>3, <1>5, <1>6 DEF m

LEMMA HearLook ==
    ASSUME NEW k \in Known, NEW n \in NetId, Heard(k, n), n # k.id, NEW look \in Look
    PROVE  \E l : /\ Reads(k, <<AppearanceMsg(n, look)>>, l) /\ OnlyOf(n, k, l)
                  /\ l.peers[n].hp = k.peers[n].hp
                  /\ l.peers[n].look = look
                  /\ l.peers[n].kills = k.peers[n].kills
                  /\ l.peers[n].deaths = k.peers[n].deaths
  <1> DEFINE m == AppearanceMsg(n, look)
             was == k.peers[n]
             l == Take(k, m)
  <1>1. m \in Message /\ m.netId = n /\ m.type # "Join"
    BY DEF Message, AppearanceMsg
  <1>2. was \in Peer /\ n # k.id
    BY DEF Known
  <1> HIDE DEF m, l
  <1>3. /\ Reads(k, <<m>>, l) /\ l \in Known /\ l.id = k.id
        /\ \A x \in NetId \ {n} : l.peers[x] = k.peers[x]
    BY <1>1, Hear DEF l
  <1>7. PICK self \in BOOLEAN : (self <=> n = k.id) /\ l.peers[n] = Updated(was, m, self)
    BY <1>1, Hear DEF l
  <1>4. Updated(was, m, self) = [was EXCEPT !.look = look]
    BY <1>2, <1>7 DEF Updated, m, AppearanceMsg
  <1>5. OnlyOf(n, k, l)
    BY <1>2, <1>3, <1>4, <1>7 DEF OnlyOf, Peer, WithScore, WithLife
  <1>6. /\ l.peers[n].hp = was.hp
        /\ l.peers[n].look = look
        /\ l.peers[n].kills = was.kills
        /\ l.peers[n].deaths = was.deaths
    BY <1>2, <1>3, <1>4, <1>7 DEF Peer, WithScore, WithLife
  <1> QED
    BY <1>3, <1>5, <1>6 DEF m

\* The HP an endpoint shows a player with; its own is not a view's.
ShowsHp(k, n, h) == n # k.id => k.peers[n].hp = h

\* A death or a respawn confirms the HP that was told before it.
LEMMA HearLife ==
    ASSUME NEW k \in Known, NEW n \in NetId, Heard(k, n), NEW m, NEW h,
           \/ m = DeathMsg(n) /\ h = 0
           \/ m = RespawnMsg(n) /\ h = MaxHealth,
           ShowsHp(k, n, h)
    PROVE  \E l : /\ Reads(k, <<m>>, l) /\ OnlyOf(n, k, l)
                  /\ ShowsHp(l, n, h)
                  /\ l.peers[n].look = k.peers[n].look
                  /\ l.peers[n].kills = k.peers[n].kills
                  /\ l.peers[n].deaths = k.peers[n].deaths
  <1> DEFINE was == k.peers[n]
             l == Take(k, m)
  <1>1. m \in Message /\ m.netId = n /\ m.type # "Join"
    BY DEF Message, DeathMsg, RespawnMsg
  <1>2. was \in Peer
    BY DEF Known
  <1> HIDE DEF l
  <1>3. /\ Reads(k, <<m>>, l) /\ l \in Known /\ l.id = k.id
        /\ \A x \in NetId \ {n} : l.peers[x] = k.peers[x]
    BY <1>1, Hear DEF l
  <1>7. PICK self \in BOOLEAN : (self <=> n = k.id) /\ l.peers[n] = Updated(was, m, self)
    BY <1>1, Hear DEF l
  <1>4. Updated(was, m, self) \in {was, WithLife(was, FALSE, h), WithLife(was, TRUE, h)}
    <2>1. CASE m = DeathMsg(n) /\ h = 0
      <3>1. CASE was.tracked
        BY <2>1, <3>1 DEF Updated, DeathMsg, WithLife
      <3>2. CASE ~was.tracked
        BY <2>1, <3>2 DEF Updated, DeathMsg
      <3> QED
        BY <3>1, <3>2
    <2>2. CASE m = RespawnMsg(n) /\ h = MaxHealth
      <3>1. CASE was.tracked
        BY <2>2, <3>1 DEF Updated, RespawnMsg, WithLife
      <3>2. CASE ~was.tracked
        BY <2>2, <3>2 DEF Updated, RespawnMsg
      <3> QED
        BY <3>1, <3>2
    <2> QED
      BY <2>1, <2>2
  <1>5. OnlyOf(n, k, l)
    BY <1>2, <1>3, <1>4, <1>7 DEF OnlyOf, Peer, WithScore, WithLife
  <1>6. /\ ShowsHp(l, n, h)
        /\ l.peers[n].look = was.look
        /\ l.peers[n].kills = was.kills
        /\ l.peers[n].deaths = was.deaths
    BY <1>2, <1>3, <1>4, <1>7 DEF Peer, WithScore, WithLife, ShowsHp
  <1> QED
    BY <1>3, <1>5, <1>6

\* A position to restore moves the local player and changes no view.
LEMMA HearRestore ==
    ASSUME NEW k \in Known, NEW n \in NetId, Heard(k, n), NEW pos \in Pos
    PROVE  Reads(k, <<RestorePosMsg(n, pos)>>, k)
  <1> DEFINE m == RestorePosMsg(n, pos)
  <1>1. m \in Message /\ m.netId = n /\ m.type # "Join"
    BY DEF Message, RestorePosMsg
  <1>2. k.peers[n] \in Peer
    BY DEF Known
  <1> HIDE DEF m
  <1>3. /\ Reads(k, <<m>>, Take(k, m))
        /\ Take(k, m) \in Known /\ Take(k, m).id = k.id
        /\ \A x \in NetId \ {n} : Take(k, m).peers[x] = k.peers[x]
    BY <1>1, Hear
  <1>6. PICK self \in BOOLEAN : Take(k, m).peers[n] = Updated(k.peers[n], m, self)
    BY <1>1, Hear
  <1>4. Take(k, m).peers[n] = k.peers[n]
    BY <1>2, <1>6 DEF Updated, m, RestorePosMsg
  <1>5. Take(k, m) = k
    <2>1. Take(k, m).peers = k.peers
      BY <1>3, <1>4 DEF Known
    <2> QED
      BY <1>3, <2>1 DEF Known
  <1> QED
    BY <1>3, <1>5 DEF m

\* Hearing of a player leaves an endpoint ready to hear more of it.
LEMMA StillHeard ==
    ASSUME NEW k \in Known, NEW l \in Known, NEW n \in NetId, NEW x \in NetId,
           OnlyOf(n, k, l), Heard(k, x)
    PROVE  Heard(l, x)
  BY DEF OnlyOf, Heard

-----------------------------------------------------------------------------
(* What an endpoint should know: the files of the host.                      *)

\* The id the host knows an endpoint under.
IdOf(e) == IF e = Local THEN HostId ELSE connToNetId[e]

\* The endpoints that are told of scores, and whose scores are told apart: two
\* connections of one player share a record, and the host's own scoreboard entry is
\* not filled from the save (StatsConverge).
HasScore(me, n) == OneConnectionEach /\ IsBound(n) /\ ~(me = HostId /\ n = HostId)

\* The knowledge k of the player known as me is, about player n, what the host has
\* on file.
On(k, me, n) ==
    /\ k.peers[n].tracked <=> n \in PresentIds \ {me}
    /\ n \in PresentIds \ {me} => k.peers[n].hp = healthByNetId[n]
    /\ n # me => k.peers[n].look = appearanceByNetId[n]
    /\ HasScore(me, n) => /\ k.peers[n].kills = records[guidByNetId[n]].kills
                          /\ k.peers[n].deaths = records[guidByNetId[n]].deaths

Agrees(k, me) == k.id = me /\ \A n \in NetId : On(k, me, n)

\* A handler of the host ran and sent msgs to the player known as me, who knew k:
\* taking them brings it in agreement with the files as the handler left them.
Follows(k, msgs, me) ==
    /\ msgs \in Seq(Message)
    /\ \E l \in Known : Reads(k, msgs, l) /\ Agrees(l, me)'

\* A score the handler left as it was.
ScoreStands(n) ==
    OneConnectionEach /\ IsBound(n) =>
        /\ records'[guidByNetId[n]].kills = records[guidByNetId[n]].kills
        /\ records'[guidByNetId[n]].deaths = records[guidByNetId[n]].deaths

\* A player that was not told of, and of whom nothing changed on file.
LEMMA Unmoved ==
    ASSUME NEW k, NEW l, NEW me, NEW n \in NetId, On(k, me, n),
           l.peers[n] = k.peers[n],
           n \in PresentIds' <=> n \in PresentIds,
           healthByNetId'[n] = healthByNetId[n],
           appearanceByNetId'[n] = appearanceByNetId[n],
           guidByNetId'[n] = guidByNetId[n],
           ScoreStands(n)
    PROVE  On(l, me, n)'
  BY DEF On, HasScore, IsBound, ScoreStands

\* Who agrees with the host can be told of everybody present.
LEMMA AgreeingHear ==
    ASSUME IInv, NEW k \in Known, NEW me \in PresentIds, Agrees(k, me), NEW n \in PresentIds
    PROVE  Heard(k, n) /\ n \in NetId /\ me \in NetId /\ k.id = me
  <1>1. n \in NetId /\ me \in NetId /\ me # NoNetId
    BY IdsInUse DEF NetId, NoNetId
  <1>2. n = me \/ k.peers[n].tracked
    BY <1>1 DEF Agrees, On
  <1> QED
    BY <1>1, <1>2 DEF Heard, Agrees

\* A handler that sends nothing and changes no file.
LEMMA NothingFollows ==
    ASSUME IInv, NEW k \in Known, NEW me \in PresentIds, Agrees(k, me), UNCHANGED hostVars
    PROVE  Follows(k, <<>>, me)
  <1>1. Agrees(k, me)'
    BY DEF Agrees, On, HasScore, IsBound, PresentIds, Registered, IsRegistered,
           hostVars, presenceVars, combatVars, identityVars
  <1>2. <<>> \in Seq(Message)
    OBVIOUS
  <1> QED
    BY <1>1, <1>2, ReadNothing DEF Follows

\* HostHandleAppearance and HostSendLocalAppearance: the others are told the look.
LEMMA LookFollows ==
    ASSUME IInv, NEW n \in PresentIds, NEW look \in Look, StoreLook(n, look),
           UNCHANGED <<presenceVars, combatVars, identityVars>>,
           NEW me \in PresentIds, NEW k \in Known, Agrees(k, me), NEW msgs,
           msgs = IF me = n THEN <<>> ELSE <<AppearanceMsg(n, look)>>
    PROVE  Follows(k, msgs, me)
  <1>1. Heard(k, n) /\ n \in NetId /\ me \in NetId /\ k.id = me
    BY AgreeingHear
  <1>2. PresentIds' = PresentIds /\ UNCHANGED <<healthByNetId, guidByNetId>>
    BY DEF PresentIds, Registered, IsRegistered, presenceVars, combatVars, identityVars
  <1>3. appearanceByNetId' = [appearanceByNetId EXCEPT ![n] = look]
    BY DEF StoreLook
  <1>4. \A x \in NetId : ScoreStands(x)
    <2>1. records \in [Guid -> Record]
      BY DEF IInv, TypeOK
    <2>2. \A x \in NetId : IsBound(x) => guidByNetId[x] \in Guid
      BY DEF IsBound, IInv, TypeOK
    <2>3. \A g \in Guid : /\ records'[g].kills = records[g].kills
                          /\ records'[g].deaths = records[g].deaths
      BY <1>1, <2>1, <2>2, StoreScores DEF StoreLook
    <2> QED
      BY <2>2, <2>3 DEF ScoreStands
  <1>5. \A x \in NetId : On(k, me, x)
    BY DEF Agrees
  <1>6. ASSUME NEW l, NEW x \in NetId \ {n}, l.peers[x] = k.peers[x] PROVE On(l, me, x)'
    <2>1. appearanceByNetId'[x] = appearanceByNetId[x]
      BY <1>3 DEF IInv, TypeOK
    <2> QED
      BY <1>2, <1>4, <1>5, <1>6, <2>1, Unmoved
  <1>7. CASE me = n
    <2>1. On(k, me, n)'
      BY <1>1, <1>2, <1>4, <1>5, <1>7 DEF On, HasScore, IsBound, ScoreStands
    <2>2. Agrees(k, me)'
      BY <1>1, <1>6, <2>1 DEF Agrees
    <2>3. <<>> \in Seq(Message)
      OBVIOUS
    <2> QED
      BY <1>7, <2>2, <2>3, ReadNothing DEF Follows
  <1>8. CASE me # n
    <2>1. PICK l : /\ Reads(k, <<AppearanceMsg(n, look)>>, l) /\ OnlyOf(n, k, l)
                   /\ l.peers[n].hp = k.peers[n].hp
                   /\ l.peers[n].look = look
                   /\ l.peers[n].kills = k.peers[n].kills
                   /\ l.peers[n].deaths = k.peers[n].deaths
      BY <1>1, <1>8, HearLook
    <2>2. On(l, me, n)'
      <3>1. appearanceByNetId'[n] = look
        BY <1>1, <1>3 DEF IInv, TypeOK
      <3> QED
        BY <1>1, <1>2, <1>4, <1>5, <2>1, <3>1 DEF On, HasScore, IsBound, ScoreStands, OnlyOf
    <2>3. l \in Known /\ Agrees(l, me)'
      BY <1>1, <1>6, <2>1, <2>2 DEF Agrees, OnlyOf
    <2>4. <<AppearanceMsg(n, look)>> \in Seq(Message)
      <3>1. AppearanceMsg(n, look) \in Message
        BY <1>1, PlainMessages DEF Plain
      <3> QED
        BY <3>1
    <2> QED
      BY <1>8, <2>1, <2>3, <2>4 DEF Follows
  <1> QED
    BY <1>7, <1>8

\* Players under different ids have different records, when nobody holds two
\* connections.
Apart(n, m) == OneConnectionEach /\ IsBound(n) /\ IsBound(m) => guidByNetId[n] # guidByNetId[m]

\* The announcement of a score: nothing, or the score in the store given.
LEMMA HearScore ==
    ASSUME IInv, NEW k \in Known, NEW n \in NetId, Heard(k, n),
           NEW store \in [Guid -> Record]
    PROVE  /\ HostBroadcastStats(store, n) \in Seq(Message)
           /\ \E l : /\ Reads(k, HostBroadcastStats(store, n), l) /\ OnlyOf(n, k, l)
                     /\ l.peers[n].hp = k.peers[n].hp
                     /\ l.peers[n].look = k.peers[n].look
                     /\ IsBound(n) => /\ l.peers[n].kills = store[guidByNetId[n]].kills
                                      /\ l.peers[n].deaths = store[guidByNetId[n]].deaths
  <1> DEFINE s == StatsOf(store, n)
  <1>1. CASE IsBound(n)
    <2>1. /\ s.kills \in Nat /\ s.deaths \in Nat
          /\ s.kills = store[guidByNetId[n]].kills
          /\ s.deaths = store[guidByNetId[n]].deaths
      BY <1>1 DEF StatsOf, IsBound, IInv, TypeOK, Record
    <2> HIDE DEF s
    <2>2. PICK l : /\ Reads(k, <<StatsMsg(n, s)>>, l) /\ OnlyOf(n, k, l)
                   /\ l.peers[n].hp = k.peers[n].hp
                   /\ l.peers[n].look = k.peers[n].look
                   /\ l.peers[n].kills = s.kills
                   /\ l.peers[n].deaths = s.deaths
      BY <2>1, HearStats
    <2>3. HostBroadcastStats(store, n) = <<StatsMsg(n, s)>>
      BY <1>1 DEF HostBroadcastStats, s
    <2>4. <<StatsMsg(n, s)>> \in Seq(Message)
      <3>1. StatsMsg(n, s) \in Message
        BY <2>1, PlainMessages DEF Plain
      <3> QED
        BY <3>1
    <2> QED
      BY <2>1, <2>2, <2>3, <2>4
  <1>2. CASE ~IsBound(n)
    <2>1. HostBroadcastStats(store, n) = <<>>
      BY <1>2 DEF HostBroadcastStats
    <2>2. OnlyOf(n, k, k) /\ Reads(k, <<>>, k)
      BY ReadNothing DEF OnlyOf
    <2>3. <<>> \in Seq(Message)
      OBVIOUS
    <2> QED
      BY <1>2, <2>1, <2>2, <2>3
  <1> QED
    BY <1>1, <1>2

\* Hearing of one player, then of another.
LEMMA HearThen ==
    ASSUME NEW k \in Known, NEW l \in Known, NEW r \in Known,
           NEW a \in Seq(Message), NEW b \in Seq(Message), Reads(k, a, l), Reads(l, b, r)
    PROVE  a \o b \in Seq(Message) /\ Reads(k, a \o b, r)
  <1>1. a \o b \in Seq(Message)
    OBVIOUS
  <1> QED
    BY <1>1, ReadThen

\* A player's life changes: its HP is told, then the death or the respawn.
LEMMA HearHpAndLife ==
    ASSUME NEW k \in Known, NEW n \in NetId, Heard(k, n), NEW h \in Health, NEW m,
           \/ m = DeathMsg(n) /\ h = 0
           \/ m = RespawnMsg(n) /\ h = MaxHealth
    PROVE  /\ <<HealthMsg(n, h), m>> \in Seq(Message)
           /\ \E l : /\ Reads(k, <<HealthMsg(n, h), m>>, l) /\ OnlyOf(n, k, l)
                     /\ n # k.id => l.peers[n].hp = h
                     /\ l.peers[n].look = k.peers[n].look
                     /\ l.peers[n].kills = k.peers[n].kills
                     /\ l.peers[n].deaths = k.peers[n].deaths
  <1>1. PICK l : /\ Reads(k, <<HealthMsg(n, h)>>, l) /\ OnlyOf(n, k, l)
                 /\ n # k.id => l.peers[n].hp = h
                 /\ l.peers[n].look = k.peers[n].look
                 /\ l.peers[n].kills = k.peers[n].kills
                 /\ l.peers[n].deaths = k.peers[n].deaths
    BY HearHealth
  <1>2. l \in Known /\ Heard(l, n) /\ l.id = k.id
    BY <1>1 DEF OnlyOf, Heard
  <1>3. PICK r : /\ Reads(l, <<m>>, r) /\ OnlyOf(n, l, r)
                 /\ ShowsHp(r, n, h)
                 /\ r.peers[n].look = l.peers[n].look
                 /\ r.peers[n].kills = l.peers[n].kills
                 /\ r.peers[n].deaths = l.peers[n].deaths
    <2>1. ShowsHp(l, n, h)
      BY <1>1, <1>2 DEF ShowsHp
    <2> QED
      BY <1>2, <2>1, HearLife
  <1>4. OnlyOf(n, k, r)
    BY <1>1, <1>3 DEF OnlyOf
  <1>5. HealthMsg(n, h) \in Message /\ m \in Message
    BY PlainMessages DEF Plain
  <1>6. /\ <<HealthMsg(n, h)>> \in Seq(Message) /\ <<m>> \in Seq(Message)
        /\ <<HealthMsg(n, h), m>> = <<HealthMsg(n, h)>> \o <<m>>
    BY <1>5
  <1>7. r \in Known
    BY <1>3 DEF OnlyOf
  <1>8. <<HealthMsg(n, h), m>> \in Seq(Message) /\ Reads(k, <<HealthMsg(n, h), m>>, r)
    <2> DEFINE a == <<HealthMsg(n, h)>>
               b == <<m>>
    <2>1. a \in Seq(Message) /\ b \in Seq(Message) /\ Reads(k, a, l) /\ Reads(l, b, r)
      BY <1>1, <1>3, <1>6
    <2> HIDE DEF a, b
    <2>2. a \o b \in Seq(Message) /\ Reads(k, a \o b, r)
      BY ONLY k \in Known, <1>2, <1>7, <2>1, HearThen
    <2>3. a \o b = <<HealthMsg(n, h), m>>
      BY <1>6 DEF a, b
    <2> QED
      BY ONLY <2>2, <2>3
  <1> QED
    BY <1>1, <1>2, <1>3, <1>4, <1>8 DEF ShowsHp, OnlyOf

\* ServiceRespawn: everybody is told of the HP and the respawn.
LEMMA RespawnFollows ==
    ASSUME IInv, NEW n \in PresentIds, Revive(n),
           UNCHANGED <<presenceVars, identityVars, appearanceByNetId, records>>,
           NEW me \in PresentIds, NEW k \in Known, Agrees(k, me)
    PROVE  Follows(k, <<HealthMsg(n, MaxHealth), RespawnMsg(n)>>, me)
  <1>1. Heard(k, n) /\ n \in NetId /\ me \in NetId /\ k.id = me
    BY AgreeingHear
  <1>2. PresentIds' = PresentIds /\ UNCHANGED <<guidByNetId, appearanceByNetId, records>>
    BY DEF PresentIds, Registered, IsRegistered, presenceVars, identityVars
  <1>3. healthByNetId' = [healthByNetId EXCEPT ![n] = MaxHealth]
    BY DEF Revive
  <1>4. \A x \in NetId : On(k, me, x) /\ ScoreStands(x)
    BY <1>2 DEF Agrees, ScoreStands
  <1>5. MaxHealth \in Health
    BY HealthAssumption DEF Health
  <1>6. PICK l : /\ Reads(k, <<HealthMsg(n, MaxHealth), RespawnMsg(n)>>, l) /\ OnlyOf(n, k, l)
                 /\ n # k.id => l.peers[n].hp = MaxHealth
                 /\ l.peers[n].look = k.peers[n].look
                 /\ l.peers[n].kills = k.peers[n].kills
                 /\ l.peers[n].deaths = k.peers[n].deaths
    BY <1>1, <1>5, HearHpAndLife
  <1>7. On(l, me, n)'
    <2>1. healthByNetId'[n] = MaxHealth
      BY <1>1, <1>3 DEF IInv, TypeOK
    <2> QED
      BY <1>1, <1>2, <1>4, <1>6, <2>1 DEF On, HasScore, IsBound, OnlyOf
  <1>8. ASSUME NEW x \in NetId \ {n} PROVE On(l, me, x)'
    <2>1. healthByNetId'[x] = healthByNetId[x]
      BY <1>3 DEF IInv, TypeOK
    <2> QED
      BY <1>2, <1>4, <1>6, <2>1, Unmoved DEF OnlyOf
  <1>9. l \in Known /\ Agrees(l, me)'
    BY <1>1, <1>6, <1>7, <1>8 DEF Agrees, OnlyOf
  <1>10. <<HealthMsg(n, MaxHealth), RespawnMsg(n)>> \in Seq(Message)
    BY <1>1, <1>5, HearHpAndLife
  <1> QED
    BY <1>6, <1>9, <1>10 DEF Follows

\* HostApplyDamage, when the victim survives: everybody is told of its HP.
LEMMA WoundFollows ==
    ASSUME IInv, NEW n \in PresentIds, NEW h \in Health,
           healthByNetId' = [healthByNetId EXCEPT ![n] = h],
           UNCHANGED <<presenceVars, identityVars, appearanceByNetId, records>>,
           NEW me \in PresentIds, NEW k \in Known, Agrees(k, me)
    PROVE  Follows(k, <<HealthMsg(n, h)>>, me)
  <1>1. Heard(k, n) /\ n \in NetId /\ me \in NetId /\ k.id = me
    BY AgreeingHear
  <1>2. PresentIds' = PresentIds /\ UNCHANGED <<guidByNetId, appearanceByNetId, records>>
    BY DEF PresentIds, Registered, IsRegistered, presenceVars, identityVars
  <1>3. \A x \in NetId : On(k, me, x) /\ ScoreStands(x)
    BY <1>2 DEF Agrees, ScoreStands
  <1>4. PICK l : /\ Reads(k, <<HealthMsg(n, h)>>, l) /\ OnlyOf(n, k, l)
                 /\ n # k.id => l.peers[n].hp = h
                 /\ l.peers[n].look = k.peers[n].look
                 /\ l.peers[n].kills = k.peers[n].kills
                 /\ l.peers[n].deaths = k.peers[n].deaths
    BY <1>1, HearHealth
  <1>5. On(l, me, n)'
    <2>1. healthByNetId'[n] = h
      BY <1>1 DEF IInv, TypeOK
    <2> QED
      BY <1>1, <1>2, <1>3, <1>4, <2>1 DEF On, HasScore, IsBound, OnlyOf
  <1>6. ASSUME NEW x \in NetId \ {n} PROVE On(l, me, x)'
    <2>1. healthByNetId'[x] = healthByNetId[x]
      BY DEF IInv, TypeOK
    <2> QED
      BY <1>2, <1>3, <1>4, <2>1, Unmoved DEF OnlyOf
  <1>7. l \in Known /\ Agrees(l, me)'
    BY <1>1, <1>4, <1>5, <1>6 DEF Agrees, OnlyOf
  <1>8. HealthMsg(n, h) \in Message
    BY <1>1, PlainMessages DEF Plain
  <1>9. <<HealthMsg(n, h)>> \in Seq(Message)
    BY <1>8
  <1> QED
    BY <1>4, <1>7, <1>9 DEF Follows

\* What a death does to the store: the victim's deaths, the shooter's kills, and
\* nobody else's score.
LEMMA KillScores ==
    ASSUME IInv, NEW v \in NetId, NEW s \in NetId, v # s, Apart(v, s),
           records' = StoreAfterKill(v, s)
    PROVE  /\ StoreAfterDeath(v) \in [Guid -> Record] /\ records' \in [Guid -> Record]
           /\ OneConnectionEach /\ IsBound(v) =>
                /\ records'[guidByNetId[v]].kills = StoreAfterDeath(v)[guidByNetId[v]].kills
                /\ records'[guidByNetId[v]].deaths = StoreAfterDeath(v)[guidByNetId[v]].deaths
           /\ \A x \in NetId \ {v, s} : Apart(x, v) /\ Apart(x, s) => ScoreStands(x)
  <1> DEFINE G(x) == guidByNetId[x]
  <1>1. \A x \in NetId : IsBound(x) => G(x) \in Guid
    BY DEF IsBound, IInv, TypeOK
  <1>2. records \in [Guid -> Record]
    BY DEF IInv, TypeOK
  <1>3. StoreAfterDeath(v) \in [Guid -> Record]
    BY <1>1, <1>2, StoreTypes DEF StoreAfterDeath
  <1>4. records' \in [Guid -> Record]
    BY <1>1, <1>3, StoreTypes DEF StoreAfterKill
  <1>5. \A g \in Guid : g # G(v) \/ ~IsBound(v) =>
           /\ StoreAfterDeath(v)[g].kills = records[g].kills
           /\ StoreAfterDeath(v)[g].deaths = records[g].deaths
    <2>1. CASE IsBound(v)
      <3>1. \A g \in Guid : records[g].deaths \in Nat
        BY <1>2 DEF Record
      <3> QED
        BY <1>1, <1>2, <2>1, <3>1, StoreScores DEF StoreAfterDeath
    <2>2. CASE ~IsBound(v)
      BY <2>2 DEF StoreAfterDeath
    <2> QED
      BY <2>1, <2>2
  <1>6. \A g \in Guid : g # G(s) \/ ~IsBound(s) =>
           /\ records'[g].kills = StoreAfterDeath(v)[g].kills
           /\ records'[g].deaths = StoreAfterDeath(v)[g].deaths
    <2>1. CASE IsBound(s)
      <3>1. \A g \in Guid : StoreAfterDeath(v)[g].kills \in Nat
        BY <1>3 DEF Record
      <3> QED
        BY <1>1, <1>3, <2>1, <3>1, StoreScores DEF StoreAfterKill
    <2>2. CASE ~IsBound(s)
      BY <2>2 DEF StoreAfterKill
    <2> QED
      BY <2>1, <2>2
  <1> HIDE DEF G
  <1>7. OneConnectionEach /\ IsBound(v) /\ IsBound(s) => G(v) # G(s)
    BY DEF Apart, G
  <1>8. OneConnectionEach /\ IsBound(v) =>
          /\ records'[G(v)].kills = StoreAfterDeath(v)[G(v)].kills
          /\ records'[G(v)].deaths = StoreAfterDeath(v)[G(v)].deaths
    BY <1>1, <1>6, <1>7
  <1>9. ASSUME NEW x \in NetId \ {v, s}, Apart(x, v), Apart(x, s) PROVE ScoreStands(x)
    <2>1. SUFFICES ASSUME OneConnectionEach, IsBound(x)
                   PROVE  /\ records'[G(x)].kills = records[G(x)].kills
                          /\ records'[G(x)].deaths = records[G(x)].deaths
      BY DEF ScoreStands, G
    <2>2. (IsBound(v) => G(x) # G(v)) /\ (IsBound(s) => G(x) # G(s))
      BY <1>9, <2>1 DEF Apart, G
    <2> QED
      BY <1>1, <1>5, <1>6, <2>1, <2>2
  <1> QED
    BY <1>3, <1>4, <1>8, <1>9 DEF G

\* HostApplyDamage, when the victim dies: everybody is told of its HP and death, of
\* its score and of the shooter's.
LEMMA KillFollows ==
    ASSUME IInv, NEW v \in PresentIds, NEW s \in PresentIds, v # s,
           \A x, y \in PresentIds : x # y => Apart(x, y),
           Kill(v, s), healthByNetId' = [healthByNetId EXCEPT ![v] = 0],
           UNCHANGED <<presenceVars, identityVars, appearanceByNetId>>,
           NEW me \in PresentIds, NEW k \in Known, Agrees(k, me), NEW msgs,
           msgs = <<HealthMsg(v, 0), DeathMsg(v)>>
                    \o HostBroadcastStats(StoreAfterDeath(v), v)
                    \o HostBroadcastStats(StoreAfterKill(v, s), s)
    PROVE  Follows(k, msgs, me)
  <1>1. /\ Heard(k, v) /\ Heard(k, s) /\ v \in NetId /\ s \in NetId
        /\ me \in NetId /\ k.id = me
    BY AgreeingHear
  <1>2. PresentIds' = PresentIds /\ UNCHANGED <<guidByNetId, appearanceByNetId>>
    BY DEF PresentIds, Registered, IsRegistered, presenceVars, identityVars
  <1>3. records' = StoreAfterKill(v, s)
    BY DEF Kill
  <1>4. /\ StoreAfterDeath(v) \in [Guid -> Record] /\ records' \in [Guid -> Record]
        /\ OneConnectionEach /\ IsBound(v) =>
             /\ records'[guidByNetId[v]].kills = StoreAfterDeath(v)[guidByNetId[v]].kills
             /\ records'[guidByNetId[v]].deaths = StoreAfterDeath(v)[guidByNetId[v]].deaths
        /\ \A x \in NetId \ {v, s} : Apart(x, v) /\ Apart(x, s) => ScoreStands(x)
    BY <1>1, <1>3, KillScores
  <1>5. \A x \in NetId \ {v, s} : ScoreStands(x)
    <2>1. \A x \in NetId : x \in PresentIds \/ ~IsBound(x)
      BY DEF IInv, OnlyPresentOnFile, IsBound
    <2> QED
      BY <1>4, <2>1 DEF Apart
  <1>6. 0 \in Health
    BY HealthAssumption DEF Health
  <1>7. PICK l1 : /\ Reads(k, <<HealthMsg(v, 0), DeathMsg(v)>>, l1) /\ OnlyOf(v, k, l1)
                  /\ v # k.id => l1.peers[v].hp = 0
                  /\ l1.peers[v].look = k.peers[v].look
                  /\ l1.peers[v].kills = k.peers[v].kills
                  /\ l1.peers[v].deaths = k.peers[v].deaths
    BY <1>1, <1>6, HearHpAndLife
  <1>8. l1 \in Known /\ Heard(l1, v)
    BY <1>1, <1>7 DEF OnlyOf, Heard
  <1>9. PICK l2 : /\ Reads(l1, HostBroadcastStats(StoreAfterDeath(v), v), l2) /\ OnlyOf(v, l1, l2)
                  /\ l2.peers[v].hp = l1.peers[v].hp
                  /\ l2.peers[v].look = l1.peers[v].look
                  /\ IsBound(v) =>
                       /\ l2.peers[v].kills = StoreAfterDeath(v)[guidByNetId[v]].kills
                       /\ l2.peers[v].deaths = StoreAfterDeath(v)[guidByNetId[v]].deaths
    BY <1>1, <1>4, <1>8, HearScore
  <1>10. l2 \in Known /\ Heard(l2, s)
    BY <1>1, <1>7, <1>9 DEF OnlyOf, Heard
  <1>11. PICK l : /\ Reads(l2, HostBroadcastStats(StoreAfterKill(v, s), s), l) /\ OnlyOf(s, l2, l)
                  /\ l.peers[s].hp = l2.peers[s].hp
                  /\ l.peers[s].look = l2.peers[s].look
                  /\ IsBound(s) =>
                       /\ l.peers[s].kills = records'[guidByNetId[s]].kills
                       /\ l.peers[s].deaths = records'[guidByNetId[s]].deaths
    <2> DEFINE store == StoreAfterKill(v, s)
    <2>1. store \in [Guid -> Record] /\ store = records'
      BY <1>3, <1>4
    <2> HIDE DEF store
    <2>2. \E l : /\ Reads(l2, HostBroadcastStats(store, s), l) /\ OnlyOf(s, l2, l)
                 /\ l.peers[s].hp = l2.peers[s].hp
                 /\ l.peers[s].look = l2.peers[s].look
                 /\ IsBound(s) => /\ l.peers[s].kills = store[guidByNetId[s]].kills
                                  /\ l.peers[s].deaths = store[guidByNetId[s]].deaths
      BY <1>1, <1>10, <2>1, HearScore
    <2> QED
      BY <2>1, <2>2 DEF store
  <1>12. l \in Known
    BY <1>11 DEF OnlyOf
  <1>13. msgs \in Seq(Message) /\ Reads(k, msgs, l)
    <2>1. <<HealthMsg(v, 0), DeathMsg(v)>> \in Seq(Message)
      BY <1>1, <1>6, HearHpAndLife
    <2>2. HostBroadcastStats(StoreAfterDeath(v), v) \in Seq(Message)
      BY <1>1, <1>4, <1>8, HearScore
    <2>3. HostBroadcastStats(StoreAfterKill(v, s), s) \in Seq(Message)
      BY <1>1, <1>3, <1>4, <1>10, HearScore
    <2> DEFINE ab == <<HealthMsg(v, 0), DeathMsg(v)>> \o HostBroadcastStats(StoreAfterDeath(v), v)
    <2>4. ab \in Seq(Message) /\ Reads(k, ab, l2)
      BY <1>7, <1>8, <1>9, <1>10, <2>1, <2>2, HearThen
    <2> HIDE DEF ab
    <2>5. /\ ab \o HostBroadcastStats(StoreAfterKill(v, s), s) \in Seq(Message)
          /\ Reads(k, ab \o HostBroadcastStats(StoreAfterKill(v, s), s), l)
      BY <1>10, <1>11, <1>12, <2>3, <2>4, HearThen
    <2> QED
      BY <2>5 DEF ab
  <1>14. \A x \in NetId : On(k, me, x)
    BY DEF Agrees
  <1>15. On(l, me, v)'
    <2>1. healthByNetId'[v] = 0
      BY <1>1 DEF IInv, TypeOK
    <2>2. l.peers[v] = l2.peers[v]
      BY <1>1, <1>11 DEF OnlyOf
    <2>3. l2.peers[v].tracked = k.peers[v].tracked
      BY <1>7, <1>9 DEF OnlyOf
    <2> QED
      BY <1>1, <1>2, <1>4, <1>7, <1>9, <1>14, <2>1, <2>2, <2>3 DEF On, HasScore, IsBound
  <1>16. On(l, me, s)'
    <2>1. healthByNetId'[s] = healthByNetId[s]
      BY <1>1 DEF IInv, TypeOK
    <2>2. l2.peers[s] = k.peers[s]
      BY <1>1, <1>7, <1>9 DEF OnlyOf
    <2>3. l.peers[s].tracked = k.peers[s].tracked
      BY <1>11, <2>2 DEF OnlyOf
    <2> QED
      BY <1>1, <1>2, <1>11, <1>14, <2>1, <2>2, <2>3 DEF On, HasScore, IsBound
  <1>17. ASSUME NEW x \in NetId \ {v, s} PROVE On(l, me, x)'
    <2>1. healthByNetId'[x] = healthByNetId[x]
      BY DEF IInv, TypeOK
    <2>2. l.peers[x] = k.peers[x]
      BY <1>7, <1>9, <1>11 DEF OnlyOf
    <2> QED
      BY <1>2, <1>5, <1>14, <2>1, <2>2, Unmoved
  <1>18. Agrees(l, me)'
    <2>1. l.id = me
      BY <1>1, <1>7, <1>9, <1>11 DEF OnlyOf
    <2> QED
      BY <1>15, <1>16, <1>17, <2>1 DEF Agrees
  <1> QED
    BY <1>12, <1>13, <1>18 DEF Follows

\* HostOnClientGone: everybody left is told that the player is gone.
LEMMA LeaveFollows ==
    ASSUME IInv, NEW c \in Conn, HostOnClientGone(c), NEW n, n = connToNetId[c],
           NEW me \in PresentIds \ {n}, NEW k \in Known, Agrees(k, me)
    PROVE  Follows(k, <<LeaveMsg(n)>>, me)
  <1>1. PresentIds' = PresentIds \ {n} /\ n \in NetId /\ n \in PresentIds
    BY LeavePresence, RegisteredArePresent DEF HostOnClientGone
  <1>2. Heard(k, n) /\ me \in NetId /\ k.id = me
    BY <1>1, AgreeingHear
  <1>3. /\ appearanceByNetId' = [appearanceByNetId EXCEPT ![n] = NoLook]
        /\ healthByNetId' = [healthByNetId EXCEPT ![n] = NoHealth]
        /\ guidByNetId' = [guidByNetId EXCEPT ![n] = NoGuid]
        /\ records' = records
    BY DEF HostOnClientGone, Forget
  <1> DEFINE m == LeaveMsg(n)
             l == Take(k, m)
  <1>4. m \in Message /\ m.netId = n /\ m.type # "Join"
    BY <1>1 DEF Message, LeaveMsg
  <1>5. Updated(k.peers[n], m, FALSE) = NoPeer
    BY DEF Updated, LeaveMsg
  <1>6. <<m>> \in Seq(Message)
    BY <1>4
  <1> HIDE DEF m, l
  <1>7. /\ Reads(k, <<m>>, l) /\ l \in Known /\ l.id = k.id
        /\ l.peers[n] = NoPeer
        /\ \A x \in NetId \ {n} : l.peers[x] = k.peers[x]
    BY <1>1, <1>2, <1>4, <1>5, Hear DEF l
  <1>8. On(l, me, n)'
    <2>1. appearanceByNetId'[n] = NoLook /\ guidByNetId'[n] = NoGuid /\ n \notin PresentIds'
      BY <1>1, <1>3 DEF IInv, TypeOK
    <2> QED
      BY <1>7, <2>1, NoPeerType DEF On, HasScore, IsBound
  <1>9. ASSUME NEW x \in NetId \ {n} PROVE On(l, me, x)'
    <2>1. /\ healthByNetId'[x] = healthByNetId[x] /\ guidByNetId'[x] = guidByNetId[x]
          /\ appearanceByNetId'[x] = appearanceByNetId[x]
      BY <1>3 DEF IInv, TypeOK
    <2>2. x \in PresentIds' <=> x \in PresentIds
      BY <1>1
    <2>3. ScoreStands(x)
      BY <1>3 DEF ScoreStands
    <2>4. On(k, me, x)
      BY DEF Agrees
    <2> QED
      BY <1>7, <2>1, <2>2, <2>3, <2>4, Unmoved
  <1>10. Agrees(l, me)'
    BY <1>2, <1>7, <1>8, <1>9 DEF Agrees
  <1>11. Follows(k, <<m>>, me)
    BY <1>6, <1>7, <1>10 DEF Follows
  <1> QED
    BY <1>11 DEF m

\* HostOnClientConnected, for those who were there: a new player, at full HP.
LEMMA JoinFollows ==
    ASSUME IInv, NEW c \in Conn, HostOnClientConnected(c), NEW n, n = nextNetId,
           NEW me \in PresentIds, NEW k \in Known, Agrees(k, me), NEW rest,
           rest \in {<<>>, <<HealthMsg(n, EnsuredHealth(n))>>}
    PROVE  Follows(k, <<JoinMsg(n)>> \o rest, me)
  <1>1. PresentIds' = PresentIds \cup {n} /\ n \in NetId /\ n \notin PresentIds
    BY JoinPresence
  <1>2. me \in NetId /\ me # NoNetId /\ k.id = me /\ me # n
    BY <1>1, IdsInUse DEF Agrees, NetId, NoNetId
  <1>3. /\ healthByNetId' = [healthByNetId EXCEPT ![n] = MaxHealth]
        /\ EnsuredHealth(n) = MaxHealth
    BY JoinHealth
  <1>4. UNCHANGED <<guidByNetId, appearanceByNetId, records>>
    BY DEF HostOnClientConnected, identityVars
  <1>5. appearanceByNetId[n] = NoLook /\ guidByNetId[n] = NoGuid
    BY <1>1 DEF IInv, OnlyPresentOnFile
  <1>6. /\ ~k.peers[n].tracked
        /\ k.peers[n].look = NoLook
        /\ k.peers[n] \in Peer
    BY <1>1, <1>2, <1>5 DEF Agrees, On, Known
  <1> DEFINE j == Take(k, JoinMsg(n))
             entry == Joined(k.peers[n])
  <1>7. /\ entry.tracked = TRUE /\ entry.hp = MaxHealth /\ entry.look = NoLook
    BY <1>6, JoinedType
  <1>8. JoinMsg(n).type = "Join" /\ JoinMsg(n).netId = n /\ JoinMsg(n) \in Message
    BY <1>1, PlainMessages DEF JoinMsg, Plain
  <1>9. Reads(k, <<JoinMsg(n)>>, j) /\ j = [k EXCEPT !.peers[n] = entry] /\ j \in Known
    <2>1. Fits(k, JoinMsg(n))
      BY <1>2, <1>6, <1>8 DEF Fits
    <2> QED
      BY <1>1, <1>2, <1>6, <2>1, TakeJoin, ReadOne
  <1> HIDE DEF j, entry
  <1>10. j = [k EXCEPT !.peers = [k.peers EXCEPT ![n] = entry]]
    BY <1>9
  <1>11. /\ j.id = me /\ j.peers[n] = entry
         /\ \A x \in NetId \ {n} : j.peers[x] = k.peers[x]
    BY <1>1, <1>2, <1>10 DEF Known
  <1>12. PICK l \in Known : /\ Reads(j, rest, l) /\ l.id = me
                            /\ l.peers[n].tracked = TRUE
                            /\ n # k.id => l.peers[n].hp = MaxHealth
                            /\ l.peers[n].look = NoLook
                            /\ \A x \in NetId \ {n} : l.peers[x] = k.peers[x]
    <2>1. CASE rest = <<>>
      BY <1>7, <1>9, <1>11, <2>1, ReadNothing
    <2>2. CASE rest = <<HealthMsg(n, EnsuredHealth(n))>>
      <3>1. Heard(j, n) /\ MaxHealth \in Health /\ j \in Known /\ n \in NetId
        BY <1>1, <1>2, <1>7, <1>9, <1>11, HealthAssumption DEF Heard, Health
      <3>2. PICK l : /\ Reads(j, <<HealthMsg(n, MaxHealth)>>, l) /\ OnlyOf(n, j, l)
                     /\ n # j.id => l.peers[n].hp = MaxHealth
                     /\ l.peers[n].look = j.peers[n].look
                     /\ l.peers[n].kills = j.peers[n].kills
                     /\ l.peers[n].deaths = j.peers[n].deaths
        BY ONLY <3>1, HearHealth
      <3>3. /\ l \in Known /\ l.id = me /\ l.peers[n].tracked = TRUE
            /\ l.peers[n].look = NoLook /\ j.id = k.id
            /\ \A x \in NetId \ {n} : l.peers[x] = k.peers[x]
        BY <1>2, <1>7, <1>11, <3>2 DEF OnlyOf
      <3> QED
        BY <1>3, <2>2, <3>2, <3>3
    <2> QED
      BY <2>1, <2>2
  <1>13. <<JoinMsg(n)>> \o rest \in Seq(Message) /\ Reads(k, <<JoinMsg(n)>> \o rest, l)
    <2>1. <<JoinMsg(n)>> \in Seq(Message)
      BY <1>8
    <2>2. rest \in Seq(Message)
      <3>1. HealthMsg(n, EnsuredHealth(n)) \in Message
        BY <1>1, <1>3, HealthAssumption, PlainMessages DEF Plain, Health
      <3>2. <<>> \in Seq(Message) /\ <<HealthMsg(n, EnsuredHealth(n))>> \in Seq(Message)
        BY <3>1
      <3> QED
        BY <3>2
    <2> QED
      BY <1>9, <1>12, <2>1, <2>2, HearThen
  <1>14. On(l, me, n)'
    <2>1. healthByNetId'[n] = MaxHealth /\ n \in PresentIds'
      BY <1>1, <1>3 DEF IInv, TypeOK
    <2> QED
      BY <1>2, <1>4, <1>5, <1>12, <2>1 DEF On, HasScore, IsBound
  <1>15. ASSUME NEW x \in NetId \ {n} PROVE On(l, me, x)'
    <2>1. healthByNetId'[x] = healthByNetId[x]
      BY <1>3 DEF IInv, TypeOK
    <2>2. x \in PresentIds' <=> x \in PresentIds
      BY <1>1
    <2>3. ScoreStands(x) /\ On(k, me, x)
      BY <1>4 DEF ScoreStands, Agrees
    <2> QED
      BY <1>4, <1>12, <2>1, <2>2, <2>3, Unmoved
  <1>16. Agrees(l, me)'
    BY <1>12, <1>14, <1>15 DEF Agrees
  <1> QED
    BY <1>12, <1>13, <1>16 DEF Follows

\* HostHandleHello: everybody is told the score, the others the look, and the
\* player alone where it was.
LEMMA HelloFollows ==
    ASSUME IInv, NEW c \in Conn, NEW g \in Guid, HostHandleHello(c, g),
           NEW n, n = connToNetId[c], NEW rec, rec = EnsureRecord(records, g)[g],
           NEW me \in PresentIds, NEW k \in Known, Agrees(k, me), NEW looks, NEW places,
           looks = IF me = n \/ rec.look = NoLook THEN <<>>
                                                 ELSE <<AppearanceMsg(n, rec.look)>>,
           places = IF me # n \/ rec.pos = NoPos THEN <<>>
                                                 ELSE <<RestorePosMsg(n, rec.pos)>>
    PROVE  Follows(k, <<StatsMsg(n, rec)>> \o (looks \o places), me)
  <1>1. n \in PresentIds
    BY RegisteredArePresent DEF HostHandleHello
  <1>2. Heard(k, n) /\ n \in NetId /\ me \in NetId /\ k.id = me
    BY <1>1, AgreeingHear
  <1>3. /\ guidByNetId' = [guidByNetId EXCEPT ![n] = g]
        /\ records' = EnsureRecord(records, g)
        /\ appearanceByNetId' = IF rec.look = NoLook
                                THEN appearanceByNetId
                                ELSE [appearanceByNetId EXCEPT ![n] = rec.look]
        /\ UNCHANGED <<connToNetId, healthByNetId>>
    BY DEF HostHandleHello, presenceVars, combatVars
  <1>4. PresentIds' = PresentIds
    BY <1>3 DEF PresentIds, Registered, IsRegistered
  <1>5. records' \in [Guid -> Record] /\ rec \in Record /\ rec = records'[g]
    <2>1. records \in [Guid -> Record]
      BY DEF IInv, TypeOK
    <2>2. EnsureRecord(records, g) \in [Guid -> Record]
      BY <2>1, StoreTypes
    <2> QED
      BY <1>3, <2>2
  <1>6. /\ rec.kills \in Nat /\ rec.deaths \in Nat
        /\ rec.look \in Look \cup {NoLook} /\ rec.pos \in Pos \cup {NoPos}
    BY <1>5 DEF Record
  <1>7. PICK s : /\ Reads(k, <<StatsMsg(n, rec)>>, s) /\ OnlyOf(n, k, s)
                 /\ s.peers[n].hp = k.peers[n].hp
                 /\ s.peers[n].look = k.peers[n].look
                 /\ s.peers[n].kills = rec.kills
                 /\ s.peers[n].deaths = rec.deaths
    BY <1>2, <1>6, HearStats
  <1>8. s \in Known /\ Heard(s, n) /\ s.id = me
    BY <1>2, <1>7 DEF OnlyOf, Heard
  <1>9. PICK l : /\ looks \in Seq(Message) /\ Reads(s, looks, l) /\ OnlyOf(n, s, l)
                 /\ l.peers[n].hp = k.peers[n].hp
                 /\ n # me => l.peers[n].look = appearanceByNetId'[n]
                 /\ l.peers[n].kills = rec.kills
                 /\ l.peers[n].deaths = rec.deaths
    <2>1. n # me => k.peers[n].look = appearanceByNetId[n]
      BY <1>2 DEF Agrees, On
    <2>2. CASE looks = <<>>
      <3>1. <<>> \in Seq(Message) /\ Reads(s, <<>>, s) /\ OnlyOf(n, s, s)
        BY <1>8, ReadNothing DEF OnlyOf
      <3>2. n # me => rec.look = NoLook
        BY <2>2
      <3>3. n # me => appearanceByNetId'[n] = appearanceByNetId[n]
        BY <1>3, <3>2
      <3> QED
        BY <1>7, <2>1, <2>2, <3>1, <3>3
    <2>3. CASE looks # <<>>
      <3>1. n # me /\ rec.look # NoLook /\ looks = <<AppearanceMsg(n, rec.look)>>
        BY <2>3
      <3>2. rec.look \in Look /\ appearanceByNetId'[n] = rec.look
        BY <1>2, <1>3, <1>6, <3>1 DEF IInv, TypeOK
      <3>3. AppearanceMsg(n, rec.look) \in Message
        BY <1>2, <3>2, PlainMessages DEF Plain
      <3>4. looks \in Seq(Message)
        BY <3>1, <3>3
      <3>5. PICK l : /\ Reads(s, <<AppearanceMsg(n, rec.look)>>, l) /\ OnlyOf(n, s, l)
                     /\ l.peers[n].hp = s.peers[n].hp
                     /\ l.peers[n].look = rec.look
                     /\ l.peers[n].kills = s.peers[n].kills
                     /\ l.peers[n].deaths = s.peers[n].deaths
        BY <1>2, <1>8, <3>1, <3>2, HearLook
      <3> QED
        BY <1>7, <3>1, <3>2, <3>4, <3>5
    <2> QED
      BY <2>2, <2>3
  <1>10. l \in Known /\ Heard(l, n) /\ l.id = me
    BY <1>8, <1>9 DEF OnlyOf, Heard
  <1>11. places \in Seq(Message) /\ Reads(l, places, l)
    <2>1. CASE places = <<>>
      BY <2>1, ReadNothing
    <2>2. CASE places # <<>>
      <3>1. places = <<RestorePosMsg(n, rec.pos)>> /\ rec.pos \in Pos
        BY <1>6, <2>2
      <3>2. RestorePosMsg(n, rec.pos) \in Message
        BY <1>2, <3>1 DEF RestorePosMsg, Message
      <3>3. places \in Seq(Message)
        BY <3>1, <3>2
      <3> QED
        BY <1>2, <1>10, <3>1, <3>3, HearRestore
    <2> QED
      BY <2>1, <2>2
  <1> DEFINE msgs == <<StatsMsg(n, rec)>> \o (looks \o places)
  <1>12. msgs \in Seq(Message) /\ Reads(k, msgs, l)
    <2>1. looks \o places \in Seq(Message) /\ Reads(s, looks \o places, l)
      BY <1>8, <1>9, <1>10, <1>11, HearThen
    <2>2. StatsMsg(n, rec) \in Message
      BY <1>2, <1>6, PlainMessages DEF Plain
    <2>3. <<StatsMsg(n, rec)>> \in Seq(Message)
      BY <2>2
    <2> QED
      BY <1>7, <1>8, <1>10, <2>1, <2>3, HearThen
  <1>13. On(l, me, n)'
    <2>1. guidByNetId'[n] = g
      BY <1>2, <1>3 DEF IInv, TypeOK
    <2>2. l.peers[n].tracked = k.peers[n].tracked
      BY <1>7, <1>9 DEF OnlyOf
    <2>3. On(k, me, n)
      BY <1>2 DEF Agrees
    <2> QED
      BY <1>3, <1>4, <1>5, <1>9, <2>1, <2>2, <2>3 DEF On, HasScore
  <1>14. ASSUME NEW x \in NetId \ {n} PROVE On(l, me, x)'
    <2>1. guidByNetId'[x] = guidByNetId[x] /\ appearanceByNetId'[x] = appearanceByNetId[x]
      BY <1>3 DEF IInv, TypeOK
    <2>2. l.peers[x] = k.peers[x]
      BY <1>7, <1>9 DEF OnlyOf
    <2>3. On(k, me, x)
      BY DEF Agrees
    <2>4. ScoreStands(x)
      <3>1. IsBound(x) => guidByNetId[x] \in Guid
        BY DEF IsBound, IInv, TypeOK
      <3>2. records \in [Guid -> Record]
        BY DEF IInv, TypeOK
      <3> QED
        BY <1>3, <3>1, <3>2, StoreScores DEF ScoreStands
    <2> QED
      BY <1>3, <1>4, <2>1, <2>2, <2>3, <2>4, Unmoved
  <1>15. Agrees(l, me)'
    BY <1>10, <1>13, <1>14 DEF Agrees
  <1> HIDE DEF msgs
  <1>16. Follows(k, msgs, me)
    BY <1>10, <1>12, <1>15 DEF Follows
  <1> QED
    BY <1>16 DEF msgs

-----------------------------------------------------------------------------
(* The welcome of a newcomer.                                                *)

\* The newcomer's view shows player n as the host has it on file.
Shown(k, n) ==
    /\ k.peers[n].tracked = TRUE
    /\ k.peers[n].hp = EnsuredHealth(n)
    /\ k.peers[n].look = appearanceByNetId[n]
    /\ k.peers[n].kills = StatsOf(records, n).kills
    /\ k.peers[n].deaths = StatsOf(records, n).deaths

\* Who goes by the id me has been told of the players in done, and of nobody else.
Briefed(k, done, me) ==
    /\ k \in Known /\ k.id = me
    /\ \A n \in NetId : IF n \in done THEN Shown(k, n) ELSE k.peers[n] = NoPeer

\* An entry of the roster makes the newcomer show one more player.
LEMMA EntryBriefs ==
    ASSUME IInv, NEW me \in NetId, NEW done, NEW n \in PresentIds \ done, n # me,
           NEW k, Briefed(k, done, me)
    PROVE  /\ RosterEntry(n) \in Seq(Message)
           /\ \E l : Reads(k, RosterEntry(n), l) /\ Briefed(l, done \cup {n}, me)
  <1>1. n \in NetId /\ EnsuredHealth(n) \in Health
    BY IdsInUse DEF IInv, TypeOK, OnlyPresentOnFile, EnsuredHealth
  <1>2. /\ k \in Known /\ k.id = me /\ me # NoNetId
        /\ k.peers[n] = NoPeer
    BY <1>1 DEF Briefed, NetId, NoNetId
  <1> DEFINE s == StatsOf(records, n)
             look == appearanceByNetId[n]
             join == <<JoinMsg(n)>>
             dress == HostSendAppearanceOnFile(n)
             tell == <<HealthMsg(n, EnsuredHealth(n)), StatsMsg(n, s)>>
             j == Take(k, JoinMsg(n))
             entry == Joined(NoPeer)
  <1>3. s.kills \in Nat /\ s.deaths \in Nat
    BY <1>1 DEF StatsOf, IInv, TypeOK, Record
  <1>4. look \in Look \cup {NoLook}
    BY <1>1 DEF IInv, TypeOK
  <1>5. /\ JoinMsg(n) \in Message /\ HealthMsg(n, EnsuredHealth(n)) \in Message
        /\ StatsMsg(n, s) \in Message
        /\ look # NoLook => AppearanceMsg(n, look) \in Message
    BY <1>1, <1>3, <1>4, PlainMessages DEF Plain
  <1>6. RosterEntry(n) = (join \o dress) \o tell
    BY DEF RosterEntry
  <1>7. dress = IF look = NoLook THEN <<>> ELSE <<AppearanceMsg(n, look)>>
    BY DEF HostSendAppearanceOnFile
  <1>8. /\ Reads(k, join, j) /\ j \in Known
        /\ j = [k EXCEPT !.peers = [k.peers EXCEPT ![n] = entry]]
    <2>1. JoinMsg(n).type = "Join" /\ JoinMsg(n).netId = n
      BY DEF JoinMsg
    <2>2. Fits(k, JoinMsg(n))
      BY <1>2, <2>1, NoPeerType DEF Fits
    <2> QED
      BY <1>1, <1>2, <2>2, NoPeerType, TakeJoin, ReadOne
  <1>9. entry.tracked = TRUE /\ entry.look = NoLook
    BY NoPeerType, JoinedType
  <1> HIDE DEF s, look, dress, j, entry
  <1>10. /\ j.id = me /\ j.peers[n].tracked = TRUE /\ j.peers[n].look = NoLook
         /\ \A x \in NetId \ {n} : j.peers[x] = k.peers[x]
    BY <1>1, <1>2, <1>8, <1>9 DEF Known
  <1>11. PICK d : /\ dress \in Seq(Message) /\ Reads(j, dress, d) /\ OnlyOf(n, j, d)
                  /\ d.peers[n].look = look
    <2>1. CASE look = NoLook
      <3>1. <<>> \in Seq(Message) /\ Reads(j, <<>>, j) /\ OnlyOf(n, j, j)
        BY <1>8, ReadNothing DEF OnlyOf
      <3> QED
        BY <1>7, <1>10, <2>1, <3>1
    <2>2. CASE look # NoLook
      <3>1. look \in Look /\ Heard(j, n) /\ n # j.id
        BY <1>2, <1>4, <1>10, <2>2 DEF Heard
      <3>2. <<AppearanceMsg(n, look)>> \in Seq(Message)
        BY <1>5, <2>2
      <3>3. PICK d : /\ Reads(j, <<AppearanceMsg(n, look)>>, d) /\ OnlyOf(n, j, d)
                     /\ d.peers[n].hp = j.peers[n].hp
                     /\ d.peers[n].look = look
                     /\ d.peers[n].kills = j.peers[n].kills
                     /\ d.peers[n].deaths = j.peers[n].deaths
        BY <1>1, <1>8, <3>1, HearLook
      <3> QED
        BY <1>7, <2>2, <3>2, <3>3
    <2> QED
      BY <2>1, <2>2
  <1>12. d \in Known /\ Heard(d, n)
    BY <1>2, <1>10, <1>11 DEF OnlyOf, Heard
  <1>13. PICK h : /\ Reads(d, <<HealthMsg(n, EnsuredHealth(n))>>, h) /\ OnlyOf(n, d, h)
                  /\ n # d.id => h.peers[n].hp = EnsuredHealth(n)
                  /\ h.peers[n].look = d.peers[n].look
                  /\ h.peers[n].kills = d.peers[n].kills
                  /\ h.peers[n].deaths = d.peers[n].deaths
    BY <1>1, <1>12, HearHealth
  <1>14. h \in Known /\ Heard(h, n)
    BY <1>12, <1>13 DEF OnlyOf, Heard
  <1>15. PICK l : /\ Reads(h, <<StatsMsg(n, s)>>, l) /\ OnlyOf(n, h, l)
                  /\ l.peers[n].hp = h.peers[n].hp
                  /\ l.peers[n].look = h.peers[n].look
                  /\ l.peers[n].kills = s.kills
                  /\ l.peers[n].deaths = s.deaths
    BY <1>1, <1>3, <1>14, HearStats
  <1>16. l \in Known
    BY <1>15 DEF OnlyOf
  <1>17. RosterEntry(n) \in Seq(Message) /\ Reads(k, RosterEntry(n), l)
    <2> DEFINE hp == <<HealthMsg(n, EnsuredHealth(n))>>
               score == <<StatsMsg(n, s)>>
    <2>1. join \in Seq(Message) /\ hp \in Seq(Message) /\ score \in Seq(Message)
      BY <1>5
    <2>2. join \o dress \in Seq(Message) /\ Reads(k, join \o dress, d)
      BY <1>2, <1>8, <1>11, <1>12, <2>1, HearThen
    <2>3. hp \o score \in Seq(Message) /\ Reads(d, hp \o score, l)
      BY <1>12, <1>13, <1>14, <1>15, <1>16, <2>1, HearThen
    <2> DEFINE a == join \o dress
               b == hp \o score
    <2>4. RosterEntry(n) = a \o b
      <3>1. tell = b
        OBVIOUS
      <3> QED
        BY <1>6, <3>1
    <2>5. a \in Seq(Message) /\ b \in Seq(Message) /\ Reads(k, a, d) /\ Reads(d, b, l)
      BY <2>2, <2>3
    <2> HIDE DEF a, b
    <2>6. a \o b \in Seq(Message) /\ Reads(k, a \o b, l)
      BY <1>2, <1>12, <1>16, <2>5, HearThen
    <2> QED
      BY <2>4, <2>6
  <1>18. Shown(l, n)
    <2>1. l.peers[n].tracked = TRUE
      BY <1>10, <1>11, <1>13, <1>15 DEF OnlyOf
    <2>2. n # d.id
      BY <1>10, <1>11 DEF OnlyOf
    <2> QED
      BY <1>11, <1>13, <1>15, <2>1, <2>2 DEF Shown, s, look
  <1>19. l.id = me /\ \A x \in NetId \ {n} : l.peers[x] = k.peers[x]
    BY <1>10, <1>11, <1>13, <1>15 DEF OnlyOf
  <1>20. Briefed(l, done \cup {n}, me)
    BY <1>16, <1>18, <1>19 DEF Briefed, Shown
  <1> QED
    BY <1>17, <1>20

\* The whole roster, in whatever order the clients come.
LEMMA RosterBriefs ==
    ASSUME IInv, NEW me \in NetId \ PresentIds, NEW k, Briefed(k, {}, me),
           NEW order \in SetToSeqs(PresentIds \ {HostId})
    PROVE  /\ Roster(order) \in Seq(Message)
           /\ \E l : Reads(k, Roster(order), l) /\ Briefed(l, PresentIds, me)
  <1> DEFINE entries == [i \in DOMAIN order |-> RosterEntry(order[i])]
             N == Len(order)
             done(i) == {HostId} \cup {order[j] : j \in 1..i}
  <1>1. /\ order \in Seq(PresentIds \ {HostId})
        /\ DOMAIN order = 1..N /\ N \in Nat
        /\ \A i, j \in 1..N : order[i] = order[j] => i = j
        /\ \A x \in PresentIds \ {HostId} : \E i \in 1..N : order[i] = x
        /\ \A i \in 1..N : order[i] \in PresentIds /\ order[i] # HostId
    <2>1. /\ order \in Seq(PresentIds \ {HostId})
          /\ DOMAIN order = 1..N
          /\ \A i, j \in DOMAIN order : order[i] = order[j] => i = j
          /\ \A x \in PresentIds \ {HostId} : \E i \in DOMAIN order : order[i] = x
      BY OrderType
    <2>2. N \in Nat /\ \A i \in 1..N : order[i] \in PresentIds \ {HostId}
      BY <2>1
    <2> QED
      BY <2>1, <2>2
  <1>2. HostId \in PresentIds /\ PresentIds \subseteq NetId
    BY IdsInUse
  <1>3. PICK h : /\ RosterEntry(HostId) \in Seq(Message)
                 /\ Reads(k, RosterEntry(HostId), h) /\ Briefed(h, {HostId}, me)
    <2>1. HostId \in PresentIds \ {} /\ HostId # me
      BY <1>2
    <2>2. PICK h : /\ RosterEntry(HostId) \in Seq(Message)
                   /\ Reads(k, RosterEntry(HostId), h) /\ Briefed(h, {} \cup {HostId}, me)
      BY <2>1, EntryBriefs
    <2>3. {} \cup {HostId} = {HostId}
      OBVIOUS
    <2> QED
      BY <2>2, <2>3
  <1>4. PICK l : /\ FlattenSeq(entries) \in Seq(Message)
                 /\ Reads(h, FlattenSeq(entries), l) /\ Briefed(l, PresentIds, me)
    <2>1. Len(entries) = N /\ \A i \in 1..N : entries[i] = RosterEntry(order[i])
      BY <1>1
    <2>2. CASE N = 0
      <3>1. FlattenSeq(entries) = <<>>
        <4>1. entries = <<>>
          BY <1>1, <2>1, <2>2
        <4> QED
          BY <2>1, <2>2, <4>1 DEF FlattenSeq
      <3>2. PresentIds = {HostId}
        BY <1>1, <1>2, <2>2
      <3>3. <<>> \in Seq(Message)
        OBVIOUS
      <3> QED
        BY <1>3, <3>1, <3>2, <3>3, ReadNothing
    <2>3. CASE N # 0
      <3> HIDE DEF entries, N
      <3>1. PICK f : IsFlatten(f, entries, N) /\ FlattenSeq(entries) = f[N]
        BY <1>1, <2>1, <2>3, FlattenRun
      <3> DEFINE Told(i) == /\ f[i] \in Seq(Message)
                            /\ \E l : Reads(h, f[i], l) /\ Briefed(l, done(i), me)
                 S == {i \in Nat : i \in 1..N => Told(i)}
      <3>2. \A i \in 1..N : f[i] = IF i = 1 THEN entries[i] ELSE f[i - 1] \o entries[i]
        BY <3>1, Zenon DEF IsFlatten
      <3>3. 0 \in S
        OBVIOUS
      <3>4. ASSUME NEW i \in 0..N, i \in S, i < N PROVE i + 1 \in S
        <4> DEFINE n == order[i + 1]
        <4>1. i + 1 \in 1..N /\ (i + 1) - 1 = i /\ i + 1 \in Nat
          BY <1>1, <3>4
        <4>2. n \in PresentIds \ done(i) /\ n # me /\ done(i + 1) = done(i) \cup {n}
          <5>1. \A j \in 1..i : j \in 1..N /\ j # i + 1
            BY <1>1, <3>4
          <5>2. n \notin done(i) /\ n \in PresentIds
            BY <1>1, <4>1, <5>1
          <5>3. \A j : j \in 1..(i + 1) <=> j \in 1..i \/ j = i + 1
            BY <3>4, <4>1
          <5>4. done(i + 1) = done(i) \cup {n}
            BY <5>3
          <5> QED
            BY <5>2, <5>4
        <4>3. entries[i + 1] = RosterEntry(n)
          BY <2>1, <4>1
        <4> HIDE DEF n, done
        <4>4. CASE i = 0
          <5>1. f[i + 1] = RosterEntry(n)
            BY <3>2, <4>1, <4>3, <4>4
          <5>2. done(i) = {HostId}
            BY <4>4 DEF done
          <5>3. /\ RosterEntry(n) \in Seq(Message)
                /\ \E l : Reads(h, RosterEntry(n), l) /\ Briefed(l, done(i) \cup {n}, me)
            BY <1>3, <4>2, <5>2, EntryBriefs
          <5>4. Told(i + 1)
            BY <4>2, <5>1, <5>3
          <5> QED
            BY <4>1, <5>4
        <4>5. CASE i # 0
          <5>1. f[i + 1] = f[i] \o RosterEntry(n)
            <6>1. f[i + 1] = IF i + 1 = 1 THEN entries[i + 1]
                                          ELSE f[(i + 1) - 1] \o entries[i + 1]
              BY <3>2, <4>1, Zenon
            <6>2. i + 1 # 1
              BY <3>4, <4>5
            <6> QED
              BY <4>1, <4>3, <6>1, <6>2, Zenon
          <5>2. i \in 1..N
            BY <1>1, <4>5
          <5>3. PICK a : f[i] \in Seq(Message) /\ Reads(h, f[i], a) /\ Briefed(a, done(i), me)
            BY <3>4, <5>2
          <5>4. PICK b : /\ RosterEntry(n) \in Seq(Message)
                         /\ Reads(a, RosterEntry(n), b) /\ Briefed(b, done(i) \cup {n}, me)
            BY <4>2, <5>3, EntryBriefs
          <5>5. h \in Known /\ a \in Known /\ b \in Known
            BY <1>3, <5>3, <5>4 DEF Briefed
          <5>6. f[i + 1] \in Seq(Message) /\ Reads(h, f[i + 1], b)
            BY <5>1, <5>3, <5>4, <5>5, HearThen
          <5>7. Told(i + 1)
            BY <4>2, <5>4, <5>6
          <5> QED
            BY <4>1, <5>7
        <4> QED
          BY <4>4, <4>5
      <3>5. \A i \in 0..N : i \in S
        <4> HIDE DEF S
        <4> QED
          BY <1>1, <3>3, <3>4, InductionUpTo
      <3>6. N \in 0..N /\ N \in 1..N
        BY <1>1, <2>3
      <3>7. Told(N)
        BY <3>5, <3>6
      <3>8. done(N) = PresentIds
        BY <1>1, <1>2
      <3> QED
        BY <3>1, <3>7, <3>8
    <2> QED
      BY <2>2, <2>3
  <1>5. k \in Known /\ h \in Known /\ l \in Known
    BY <1>3, <1>4 DEF Briefed
  <1>6. Roster(order) = RosterEntry(HostId) \o FlattenSeq(entries)
    BY DEF Roster
  <1> HIDE DEF entries
  <1>7. Roster(order) \in Seq(Message) /\ Reads(k, Roster(order), l)
    BY <1>3, <1>4, <1>5, <1>6, HearThen
  <1> QED
    BY <1>4, <1>7

\* What a client knows before it has heard anything.
Newborn == [id |-> NoNetId, peers |-> [n \in NetId |-> NoPeer]]

\* HostOnClientConnected, for the newcomer: its own id, and everybody there was.
LEMMA WelcomeFollows ==
    ASSUME IInv, NEW c \in Conn, HostOnClientConnected(c), NEW me, me = nextNetId,
           NEW order \in SetToSeqs(PresentIds \ {HostId})
    PROVE  Newborn \in Known /\ Follows(Newborn, Welcome(me, order), me)
  <1>1. PresentIds' = PresentIds \cup {me} /\ me \in NetId /\ me \notin PresentIds
    BY JoinPresence
  <1>2. /\ healthByNetId' = [healthByNetId EXCEPT ![me] = MaxHealth]
        /\ \A n \in PresentIds : EnsuredHealth(n) = healthByNetId[n]
    BY JoinHealth
  <1>3. UNCHANGED <<guidByNetId, appearanceByNetId, records>>
    BY DEF HostOnClientConnected, identityVars
  <1>4. Newborn \in Known /\ Newborn.id = NoNetId
    BY NoPeerType DEF Newborn, Known
  <1> DEFINE k == Take(Newborn, JoinMsg(me))
             join == <<JoinMsg(me)>>
  <1>5. JoinMsg(me).type = "Join" /\ JoinMsg(me) \in Message
    BY <1>1, PlainMessages DEF JoinMsg, Plain
  <1>6. join \in Seq(Message) /\ Reads(Newborn, join, k)
    <2>1. Fits(Newborn, JoinMsg(me))
      BY <1>4, <1>5 DEF Fits
    <2> QED
      BY <1>5, <2>1, ReadOne
  <1>7. Briefed(k, {}, me)
    <2>1. k = [Newborn EXCEPT !.id = me] /\ k \in Known
      BY <1>1, <1>4, TakeJoin
    <2>2. k.id = me /\ k.peers = [n \in NetId |-> NoPeer]
      BY <2>1 DEF Newborn
    <2> HIDE DEF k
    <2> QED
      BY <2>1, <2>2 DEF Briefed
  <1>8. PICK l : /\ Roster(order) \in Seq(Message)
                 /\ Reads(k, Roster(order), l) /\ Briefed(l, PresentIds, me)
    BY <1>1, <1>7, RosterBriefs
  <1>9. k \in Known /\ l \in Known /\ l.id = me
    BY <1>7, <1>8 DEF Briefed
  <1>10. Welcome(me, order) \in Seq(Message) /\ Reads(Newborn, Welcome(me, order), l)
    BY <1>4, <1>6, <1>8, <1>9, HearThen DEF Welcome
  <1>11. ASSUME NEW n \in NetId PROVE On(l, me, n)'
    <2>1. CASE n \in PresentIds
      <3>1. /\ healthByNetId'[n] = EnsuredHealth(n) /\ n # me /\ n \in PresentIds'
        BY <1>1, <1>2, <2>1 DEF IInv, TypeOK
      <3>2. Shown(l, n)
        BY <1>8, <2>1 DEF Briefed
      <3>3. IsBound(n) => /\ StatsOf(records, n).kills = records[guidByNetId[n]].kills
                          /\ StatsOf(records, n).deaths = records[guidByNetId[n]].deaths
        BY DEF StatsOf, IsBound
      <3> QED
        BY <1>3, <3>1, <3>2, <3>3 DEF On, HasScore, IsBound, Shown
    <2>2. CASE n \notin PresentIds
      <3>1. appearanceByNetId[n] = NoLook /\ guidByNetId[n] = NoGuid
        BY <2>2 DEF IInv, OnlyPresentOnFile
      <3>2. l.peers[n] = NoPeer
        BY <1>8, <2>2 DEF Briefed
      <3>3. n \in PresentIds' => n = me /\ healthByNetId'[n] = MaxHealth
        BY <1>1, <1>2, <2>2 DEF IInv, TypeOK
      <3> QED
        BY <1>3, <3>1, <3>2, <3>3, NoPeerType DEF On, HasScore, IsBound
    <2> QED
      BY <2>1, <2>2
  <1>12. Agrees(l, me)'
    BY <1>9, <1>11 DEF Agrees
  <1> QED
    BY <1>4, <1>9, <1>10, <1>12 DEF Follows

-----------------------------------------------------------------------------
(* The invariant of the session.                                             *)

\* What a client may have on its way to the host.
Request(c) ==
    {HelloReq(Player[c])}
      \cup {AppearanceReq(l) : l \in Look}
      \cup {HitReq(n, d) : n \in NetId, d \in ClaimedDamage}

SessionTypes ==
    /\ link \in [Conn -> {"idle", "accepted", "up", "closed"}]
    /\ helloSent \in [Conn -> BOOLEAN]
    /\ localNetId \in [Endpoint -> NetId \cup {NoNetId}]
    /\ localLook \in [Endpoint -> Look \cup {NoLook}]
    /\ pushes \in 0..MaxPushes
    /\ DOMAIN toHost = Conn
    /\ \A c \in Conn : toHost[c] \in Seq(Request(c))
    /\ toClient \in [Endpoint -> Seq(Message)]
    /\ view \in [Endpoint -> [NetId -> Peer]]

\* The connections the host has registered are those that are open; nothing is on
\* its way to the others, and who has not connected yet knows nothing.
Links ==
    \A c \in Conn :
        /\ IsRegistered(c) <=> link[c] \in {"accepted", "up"}
        /\ ~IsRegistered(c) => toClient[c] = <<>>
        /\ link[c] = "idle" => Knowledge(c) = Newborn

\* An id is bound to nobody or to the player it was given to.
Identities ==
    /\ guidByNetId[HostId] = HostGuid
    /\ \A c \in Registered : guidByNetId[connToNetId[c]] \in {NoGuid, Player[c]}
    /\ OneConnectionEach => \A c, d \in Registered : Player[c] = Player[d] => c = d

\* Were an endpoint to take all that is on its way to it, every message would fit
\* and the endpoint would agree with the host.
InStepAt(e) == \E k \in Known : Reads(Knowledge(e), toClient[e], k) /\ Agrees(k, IdOf(e))

InStep == \A e \in Listening : InStepAt(e)

SessionInv == IInv /\ SessionTypes /\ Links /\ Identities /\ InStep

\* Every step of the session is a step of the host's worker, if only an idle one.
LEMMA SessionStepsRelay ==
    ASSUME SessionTypes, SessionNext
    PROVE  Next
  <1> USE DEF Next
  <1>1. ASSUME NEW c \in Conn, HostAccepts(c) \/ ConnectionLost(c) PROVE Next
    BY <1>1 DEF HostAccepts, ConnectionLost, Presence
  <1>2. ASSUME NEW c \in Conn, ClientConnected(c) \/ ClientPump(c) \/ Deliver(c) PROVE Next
    BY <1>2 DEF ClientConnected, ClientPump, Deliver, Learn, Dropped
  <1>3. ASSUME NEW c \in Conn, PollMessages(c) PROVE Next
    <2> DEFINE m == Head(toHost[c])
    <2>1. m \in Request(c)
      BY <1>3 DEF PollMessages, SessionTypes
    <2>2. CASE m.type = "Hello" /\ HostHandleHello(c, m.guid)
      <3>1. m = HelloReq(Player[c])
        BY <2>1, <2>2 DEF Request, AppearanceReq, HitReq
      <3>2. m.guid \in Guid
        BY <3>1, PlayerAssumption DEF HelloReq
      <3> QED
        BY <2>2, <3>2 DEF Reports
    <2>3. CASE m.type = "Appearance" /\ HostHandleAppearance(c, m.look)
      <3>1. m.look \in Look
        BY <2>1, <2>3 DEF Request, HelloReq, AppearanceReq, HitReq
      <3> QED
        BY <2>3, <3>1 DEF Reports
    <2>4. CASE m.type = "Hit" /\ HostHandleHit(c, m.victim, m.damage)
      <3>1. m.victim \in NetId /\ m.damage \in ClaimedDamage
        BY <2>1, <2>4 DEF Request, HelloReq, AppearanceReq, HitReq
      <3> QED
        BY <2>4, <3>1 DEF Combat
    <2>5. CASE Dropped
      BY <2>5
    <2> QED
      BY <1>3, <2>2, <2>3, <2>4, <2>5 DEF PollMessages
  <1>4. CASE DrainEvents
    BY <1>4 DEF DrainEvents, Learn, Dropped
  <1>5. CASE HostPumpsLocal
    BY <1>5 DEF HostPumpsLocal, HostPlayer, Combat, Targets
  <1>6. CASE HostServesRespawn
    BY <1>6 DEF HostServesRespawn
  <1> HIDE DEF Next
  <1> QED
    BY <1>1, <1>2, <1>3, <1>4, <1>5, <1>6 DEF SessionNext

\* What an endpoint knows is well typed, and so is what it makes of what it hears.
LEMMA KnowledgeType ==
    ASSUME SessionTypes, NEW e \in Endpoint
    PROVE  /\ Knowledge(e) \in Known
           /\ Knowledge(e).id = localNetId[e] /\ Knowledge(e).peers = view[e]
  BY DEF SessionTypes, Knowledge, Known

\* Learning k makes k the endpoint's knowledge and leaves the others' as it was.
LEMMA Learns ==
    ASSUME SessionTypes, NEW e \in Endpoint, NEW k \in Known, Learn(e, k)
    PROVE  /\ Knowledge(e)' = k
           /\ \A x \in Endpoint \ {e} : Knowledge(x)' = Knowledge(x)
           /\ localNetId' \in [Endpoint -> NetId \cup {NoNetId}]
           /\ view' \in [Endpoint -> [NetId -> Peer]]
  <1>1. k.id \in NetId \cup {NoNetId} /\ k.peers \in [NetId -> Peer]
    BY DEF Known
  <1>2. k = [id |-> k.id, peers |-> k.peers]
    BY DEF Known
  <1>3. /\ localNetId' = [localNetId EXCEPT ![e] = k.id]
        /\ view' = [view EXCEPT ![e] = k.peers]
    BY DEF Learn
  <1>4. localNetId'[e] = k.id /\ view'[e] = k.peers
    BY <1>3 DEF SessionTypes
  <1>5. Knowledge(e)' = k
    BY <1>2, <1>4, Zenon DEF Knowledge
  <1>6. \A x \in Endpoint \ {e} : localNetId'[x] = localNetId[x] /\ view'[x] = view[x]
    BY <1>3 DEF SessionTypes
  <1>7. \A x \in Endpoint \ {e} : Knowledge(x)' = Knowledge(x)
    BY <1>6, Zenon DEF Knowledge
  <1>8. localNetId' \in [Endpoint -> NetId \cup {NoNetId}]
    BY <1>1, <1>3 DEF SessionTypes
  <1>9. view' \in [Endpoint -> [NetId -> Peer]]
    BY <1>1, <1>3 DEF SessionTypes
  <1> QED
    BY <1>5, <1>7, <1>8, <1>9

\* A client's requests are well typed.
LEMMA PumpType ==
    ASSUME SessionTypes, NEW c \in Conn, NEW looks \in PushedLooks(c), NEW hits \in PushedHits(c)
    PROVE  /\ PumpOrder(c, looks, hits) \in Seq(Request(c))
           /\ Len(looks) \in Nat /\ Len(hits) \in Nat
           /\ looks = <<>> \/ (looks # <<>> /\ looks[1] \in Look)
  <1>1. looks = <<>> \/ \E l \in Look : looks = <<l>>
    BY DEF PushedLooks
  <1>2. hits = <<>> \/ \E n \in NetId, d \in ClaimedDamage : hits = <<HitReq(n, d)>>
    BY DEF PushedHits, Targets
  <1>3. SendLocalHello(c) \in Seq(Request(c))
    <2>1. HelloReq(Player[c]) \in Request(c)
      BY DEF Request
    <2> QED
      BY <2>1 DEF SendLocalHello
  <1>4. SendLocalAppearance(looks) \in Seq(Request(c))
    <2>1. CASE looks = <<>>
      BY <2>1 DEF SendLocalAppearance
    <2>2. ASSUME NEW l \in Look, looks = <<l>> PROVE SendLocalAppearance(looks) \in Seq(Request(c))
      <3>1. AppearanceReq(l) \in Request(c)
        BY DEF Request
      <3>2. looks[1] = l /\ DOMAIN looks = 1..1
        BY <2>2
      <3> QED
        BY <3>1, <3>2 DEF SendLocalAppearance
    <2> QED
      BY <1>1, <2>1, <2>2
  <1>5. hits \in Seq(Request(c))
    <2>1. \A n \in NetId, d \in ClaimedDamage : HitReq(n, d) \in Request(c)
      BY DEF Request
    <2>2. CASE hits = <<>>
      BY <2>2
    <2>3. ASSUME NEW n \in NetId, NEW d \in ClaimedDamage, hits = <<HitReq(n, d)>>
          PROVE  hits \in Seq(Request(c))
      BY <2>1, <2>3
    <2> QED
      BY <1>2, <2>2, <2>3
  <1>6. PumpOrder(c, looks, hits) \in Seq(Request(c))
    BY <1>3, <1>4, <1>5 DEF PumpOrder
  <1>7. Len(looks) \in Nat /\ (looks = <<>> \/ (looks # <<>> /\ looks[1] \in Look))
    BY <1>1
  <1> QED
    BY <1>5, <1>6, <1>7

-----------------------------------------------------------------------------
(* Every step keeps the endpoints in step with the host.                     *)

\* Different players are bound to different GUIDs.
LEMMA GuidsApart ==
    ASSUME IInv, Identities, NEW x \in PresentIds, NEW y \in PresentIds, x # y
    PROVE  Apart(x, y)
  <1> SUFFICES ASSUME OneConnectionEach, IsBound(x), IsBound(y)
               PROVE  guidByNetId[x] # guidByNetId[y]
    BY DEF Apart
  <1>1. \A n \in PresentIds : n = HostId \/ \E c \in Registered : n = connToNetId[c]
    BY DEF PresentIds
  <1>2. \A c \in Registered : Player[c] # HostGuid
    BY PlayerAssumption DEF Registered
  <1>3. \A c \in Registered : IsBound(connToNetId[c]) => guidByNetId[connToNetId[c]] = Player[c]
    BY DEF Identities, IsBound
  <1>4. \A c, d \in Registered : Player[c] = Player[d] => c = d
    BY DEF Identities
  <1>5. guidByNetId[HostId] = HostGuid
    BY DEF Identities
  <1> QED
    BY <1>1, <1>2, <1>3, <1>4, <1>5

\* Who listens is in the session.
LEMMA Listeners ==
    ASSUME IInv, Links
    PROVE  /\ Listening = {Local} \cup Registered
           /\ Listening \subseteq Endpoint
           /\ \A e \in Listening : IdOf(e) \in PresentIds
           /\ \A c \in Registered : IdOf(c) = connToNetId[c] /\ c # Local
           /\ IdOf(Local) = HostId
  <1>1. Listening = {Local} \cup Registered
    BY DEF Listening, Links, Registered
  <1>2. \A c \in Registered : IdOf(c) = connToNetId[c] /\ c # Local /\ c \in Conn
    BY ConnAssumption DEF Registered, IdOf
  <1>3. \A c \in Registered : connToNetId[c] \in PresentIds
    BY DEF PresentIds
  <1>4. IdOf(Local) = HostId /\ HostId \in PresentIds
    BY IdsInUse DEF IdOf
  <1> QED
    BY <1>1, <1>2, <1>3, <1>4 DEF Endpoint

\* A handler that sent an endpoint what it was to be told keeps it in step.
LEMMA TellKeeps ==
    ASSUME SessionTypes, NEW e \in Endpoint, InStepAt(e), Knowledge(e)' = Knowledge(e),
           NEW me, IdOf(e) = me, IdOf(e)' = me,
           NEW msgs, toClient'[e] = toClient[e] \o msgs,
           \A k \in Known : Agrees(k, me) => Follows(k, msgs, me)
    PROVE  InStepAt(e)'
  <1>1. PICK k \in Known : Reads(Knowledge(e), toClient[e], k) /\ Agrees(k, me)
    BY DEF InStepAt
  <1>2. PICK l \in Known : msgs \in Seq(Message) /\ Reads(k, msgs, l) /\ Agrees(l, me)'
    BY <1>1 DEF Follows
  <1>3. toClient[e] \in Seq(Message)
    BY DEF SessionTypes
  <1>4. Reads(Knowledge(e), toClient[e] \o msgs, l)
    BY <1>1, <1>2, <1>3, ReadThen
  <1>5. Reads(Knowledge(e)', toClient'[e], l)
    BY <1>4
  <1>6. Agrees(l, IdOf(e))'
    BY <1>2 DEF Agrees, On, HasScore
  <1> QED
    BY <1>5, <1>6 DEF InStepAt

\* So does a step that leaves the endpoint and the host as they were.
LEMMA StillKeeps ==
    ASSUME IInv, SessionTypes, Links, InStep, UNCHANGED hostVars, NEW e \in Listening,
           Knowledge(e)' = Knowledge(e), toClient'[e] = toClient[e]
    PROVE  InStepAt(e)'
  <1>1. PICK me \in PresentIds : IdOf(e) = me
    BY Listeners
  <1>2. IdOf(e)' = me
    BY <1>1 DEF IdOf, hostVars, presenceVars
  <1>3. \A k \in Known : Agrees(k, me) => Follows(k, <<>>, me)
    BY NothingFollows
  <1>4. e \in Endpoint /\ InStepAt(e)
    BY Listeners DEF InStep
  <1>5. toClient[e] \in Seq(Message)
    BY <1>4 DEF SessionTypes
  <1>6. toClient'[e] = toClient[e] \o <<>>
    BY <1>5
  <1> QED
    BY <1>1, <1>2, <1>3, <1>4, <1>6, TellKeeps

\* A handler that announced the same to everybody, and changed no presence.
LEMMA AnnounceKeeps ==
    ASSUME IInv, SessionTypes, Links, InStep, HostSent, UNCHANGED <<link, viewVars, presenceVars>>,
           NEW msgs, sent' = Announce(msgs),
           \A me \in PresentIds, k \in Known : Agrees(k, me) => Follows(k, msgs, me)
    PROVE  InStep'
  <1>1. Listening' = Listening
    BY DEF Listening
  <1> SUFFICES ASSUME NEW e \in Listening PROVE InStepAt(e)'
    BY <1>1 DEF InStep
  <1>2. e \in Endpoint /\ InStepAt(e) /\ e \in {Local} \cup Registered
    BY Listeners DEF InStep
  <1>3. PICK me \in PresentIds : IdOf(e) = me
    BY Listeners
  <1>4. IdOf(e)' = me /\ Knowledge(e)' = Knowledge(e)
    BY <1>3 DEF IdOf, presenceVars, Knowledge, viewVars
  <1>5. toClient'[e] = toClient[e] \o msgs
    BY <1>2 DEF HostSent, Announce, Send
  <1> QED
    BY <1>2, <1>3, <1>4, <1>5, TellKeeps

\* A handler that told each listener something of its own, and changed no presence.
LEMMA AddressKeeps ==
    ASSUME IInv, SessionTypes, Links, InStep, HostSent, UNCHANGED <<link, viewVars, presenceVars>>,
           \A e \in Listening, me \in PresentIds, k \in Known :
             IdOf(e) = me /\ Agrees(k, me) => Follows(k, sent'[e], me)
    PROVE  InStep'
  <1>1. Listening' = Listening
    BY DEF Listening
  <1> SUFFICES ASSUME NEW e \in Listening PROVE InStepAt(e)'
    BY <1>1 DEF InStep
  <1>2. e \in Endpoint /\ InStepAt(e)
    BY Listeners DEF InStep
  <1>3. PICK me \in PresentIds : IdOf(e) = me
    BY Listeners
  <1>4. IdOf(e)' = me /\ Knowledge(e)' = Knowledge(e)
    BY <1>3 DEF IdOf, presenceVars, Knowledge, viewVars
  <1> QED
    BY <1>2, <1>3, <1>4, TellKeeps DEF HostSent

\* HostAccepts.
LEMMA AcceptsInStep ==
    ASSUME SessionInv, NEW c \in Conn, HostAccepts(c)
    PROVE  InStep'
  <1> USE DEF SessionInv
  <1>0. PICK n : n = nextNetId
    OBVIOUS
  <1> DEFINE health == <<HealthMsg(n, EnsuredHealth(n))>>
  <1>1. /\ HostOnClientConnected(c) /\ HostSent
        /\ link[c] = "idle" /\ link' = [link EXCEPT ![c] = "accepted"]
        /\ UNCHANGED <<localNetId, view>>
    BY DEF HostAccepts, viewVars
  <1>2. /\ ~IsRegistered(c)
        /\ connToNetId' = [connToNetId EXCEPT ![c] = n]
    BY <1>0, <1>1 DEF HostOnClientConnected, FreshNetId
  <1>3. PICK order \in SetToSeqs(PresentIds \ {HostId}) :
           sent' = Then(Send({c}, Welcome(n, order)),
                        Then(Relay(c, <<JoinMsg(n)>>), HostRelayToOthers(c, health)))
    BY <1>0, <1>1 DEF HostOnClientConnected, FreshNetId
  <1>4. n \in NetId /\ n \notin PresentIds
    BY <1>0, <1>1, JoinPresence
  <1>5. c # Local /\ c \in Endpoint /\ c \notin Registered
    BY <1>2, ConnAssumption DEF Endpoint, Registered
  <1>6. Listening' = Listening \cup {c}
    BY <1>1 DEF Listening, SessionTypes
  <1>7. \A x \in Endpoint : Knowledge(x)' = Knowledge(x)
    BY <1>1, Zenon DEF Knowledge
  <1>8. /\ <<JoinMsg(n)>> \in Seq(Message) /\ health \in Seq(Message)
        /\ Newborn \in Known /\ Follows(Newborn, Welcome(n, order), n)
    <2>1. JoinMsg(n) \in Message
      BY <1>4, PlainMessages DEF Plain
    <2>2. EnsuredHealth(n) \in Health
      BY <1>0, <1>1, JoinHealth, HealthAssumption DEF Health
    <2>3. HealthMsg(n, EnsuredHealth(n)) \in Message
      BY <1>4, <2>2, PlainMessages DEF Plain
    <2> QED
      BY <1>0, <1>1, <2>1, <2>3, WelcomeFollows
  <1> HIDE DEF health
  <1>9. InStepAt(c)'
    <2>1. sent'[c] = Welcome(n, order)
      <3>1. sent'[c] = Welcome(n, order) \o (<<>> \o <<>>)
        BY <1>3, <1>5 DEF Then, Send, Relay, HostRelayToOthers
      <3>2. Welcome(n, order) \in Seq(Message)
        BY <1>8 DEF Follows
      <3> QED
        BY <3>1, <3>2
    <2>2. toClient[c] = <<>> /\ Knowledge(c) = Newborn
      BY <1>1, <1>2 DEF Links
    <2>3. toClient'[c] = Welcome(n, order)
      <3>1. toClient'[c] = toClient[c] \o sent'[c]
        BY <1>1, <1>5 DEF HostSent
      <3> DEFINE w == Welcome(n, order)
      <3>2. w \in Seq(Message)
        BY <1>8 DEF Follows
      <3>3. sent'[c] = w
        BY <2>1
      <3> HIDE DEF w
      <3>4. toClient'[c] = w
        BY <2>2, <3>1, <3>2, <3>3
      <3> QED
        BY <3>4 DEF w
    <2>4. PICK l \in Known : Reads(Newborn, Welcome(n, order), l) /\ Agrees(l, n)'
      BY <1>8 DEF Follows
    <2>5. IdOf(c)' = n
      BY <1>2, <1>5 DEF IdOf, IInv, TypeOK
    <2>6. Agrees(l, IdOf(c))'
      BY <2>4, <2>5 DEF Agrees, On, HasScore
    <2>7. Knowledge(c)' = Newborn
      BY <1>5, <1>7, <2>2
    <2>8. Reads(Knowledge(c)', toClient'[c], l)
      BY <2>3, <2>4, <2>7
    <2> QED
      BY <2>6, <2>8 DEF InStepAt
  <1>10. ASSUME NEW e \in Listening PROVE InStepAt(e)'
    <2>1. e \in Endpoint /\ InStepAt(e) /\ e \in {Local} \cup Registered /\ e # c
      BY <1>5, Listeners DEF InStep
    <2>2. PICK me \in PresentIds : IdOf(e) = me
      BY Listeners
    <2>3. IdOf(e)' = me
      BY <1>2, <2>1, <2>2 DEF IdOf, IInv, TypeOK, Registered
    <2> DEFINE rest == IF e \in Registered THEN health ELSE <<>>
    <2>4. sent'[e] = <<JoinMsg(n)>> \o rest
      <3>1. sent'[e] = <<>> \o (<<JoinMsg(n)>> \o rest)
        BY <1>3, <1>5, <2>1 DEF Then, Send, Relay, HostRelayToOthers
      <3>2. <<JoinMsg(n)>> \o rest \in Seq(Message)
        BY <1>8
      <3> HIDE DEF rest
      <3> QED
        BY <3>1, <3>2
    <2>5. rest \in {<<>>, <<HealthMsg(n, EnsuredHealth(n))>>}
      BY DEF health
    <2> HIDE DEF rest
    <2>6. \A k \in Known : Agrees(k, me) => Follows(k, <<JoinMsg(n)>> \o rest, me)
      BY <1>0, <1>1, <2>5, JoinFollows
    <2>7. toClient'[e] = toClient[e] \o (<<JoinMsg(n)>> \o rest)
      BY <1>1, <2>1, <2>4 DEF HostSent
    <2> QED
      BY <1>7, <2>1, <2>2, <2>3, <2>6, <2>7, TellKeeps
  <1> QED
    BY <1>6, <1>9, <1>10 DEF InStep

\* ConnectionLost.
LEMMA LostInStep ==
    ASSUME SessionInv, NEW c \in Conn, ConnectionLost(c)
    PROVE  InStep'
  <1> USE DEF SessionInv
  <1> DEFINE n == connToNetId[c]
  <1>1. /\ HostOnClientGone(c)
        /\ link' = [link EXCEPT ![c] = "closed"]
        /\ \A e \in Endpoint : e # c => toClient'[e] = toClient[e] \o sent'[e]
        /\ UNCHANGED <<localNetId, view>>
    BY DEF ConnectionLost, viewVars
  <1>2. /\ n \in NetId /\ n # HostId /\ c \in Registered
        /\ connToNetId' = [connToNetId EXCEPT ![c] = NoNetId]
        /\ sent' = Relay(c, <<LeaveMsg(n)>>)
    BY <1>1, LeavePresence DEF HostOnClientGone, Registered
  <1>3. Listening' = Listening \ {c}
    BY <1>1, ConnAssumption DEF Listening, SessionTypes
  <1> SUFFICES ASSUME NEW e \in Listening, e # c PROVE InStepAt(e)'
    BY <1>3 DEF InStep
  <1>4. e \in Endpoint /\ InStepAt(e) /\ e \in {Local} \cup (Registered \ {c})
    BY Listeners DEF InStep
  <1>5. PICK me \in PresentIds : IdOf(e) = me
    BY Listeners
  <1>6. me # n
    <2>1. \A d \in Registered : connToNetId[d] = n => d = c
      BY <1>2 DEF IInv, NetIdsAreUnique
    <2> QED
      BY <1>2, <1>4, <1>5, <2>1, Listeners
  <1>7. IdOf(e)' = me /\ Knowledge(e)' = Knowledge(e)
    <2>1. IdOf(e)' = me
      BY <1>2, <1>4, <1>5 DEF IdOf, IInv, TypeOK, Registered
    <2>2. Knowledge(e)' = Knowledge(e)
      BY <1>1, Zenon DEF Knowledge
    <2> QED
      BY <2>1, <2>2
  <1>8. toClient'[e] = toClient[e] \o <<LeaveMsg(n)>>
    BY <1>1, <1>2, <1>4 DEF Relay, Send
  <1>9. \A k \in Known : Agrees(k, me) => Follows(k, <<LeaveMsg(n)>>, me)
    BY <1>1, <1>6, LeaveFollows
  <1> QED
    BY <1>4, <1>5, <1>7, <1>8, <1>9, TellKeeps

\* A look that a player put on.
LEMMA LookInStep ==
    ASSUME SessionInv, HostSent, UNCHANGED <<link, viewVars, presenceVars, combatVars, identityVars>>,
           NEW n \in PresentIds, NEW look \in Look, StoreLook(n, look),
           \A e \in Listening :
             sent'[e] = IF IdOf(e) = n THEN <<>> ELSE <<AppearanceMsg(n, look)>>
    PROVE  InStep'
  <1> USE DEF SessionInv
  <1>1. ASSUME NEW e \in Listening, NEW me \in PresentIds, NEW k \in Known,
               IdOf(e) = me, Agrees(k, me)
        PROVE  Follows(k, sent'[e], me)
    <2>1. sent'[e] = IF me = n THEN <<>> ELSE <<AppearanceMsg(n, look)>>
      BY <1>1
    <2> QED
      BY <1>1, <2>1, LookFollows
  <1> QED
    BY <1>1, AddressKeeps

\* HostHandleHello.
LEMMA HelloInStep ==
    ASSUME SessionInv, HostSent, UNCHANGED <<link, viewVars>>,
           NEW c \in Conn, NEW g \in Guid, HostHandleHello(c, g)
    PROVE  InStep'
  <1> USE DEF SessionInv
  <1> DEFINE n == connToNetId[c]
             rec == EnsureRecord(records, g)[g]
             look == IF rec.look = NoLook THEN <<>> ELSE <<AppearanceMsg(n, rec.look)>>
             place == IF rec.pos = NoPos THEN <<>> ELSE <<RestorePosMsg(n, rec.pos)>>
  <1>1. /\ sent' = Then(Announce(<<StatsMsg(n, rec)>>), Then(Relay(c, look), Send({c}, place)))
        /\ c \in Registered
        /\ UNCHANGED presenceVars
    BY DEF HostHandleHello, RestoreLook, RestorePos, Registered
  <1> HIDE DEF n, rec, look, place
  <1>2. \A e \in Listening : IdOf(e) = n <=> e = c
    BY <1>1, Listeners DEF IInv, NetIdsAreUnique, HostId, n
  <1>3. ASSUME NEW e \in Listening, NEW me \in PresentIds, NEW k \in Known,
               IdOf(e) = me, Agrees(k, me)
        PROVE  Follows(k, sent'[e], me)
    <2> DEFINE looks == IF me = n \/ rec.look = NoLook THEN <<>> ELSE <<AppearanceMsg(n, rec.look)>>
               places == IF me # n \/ rec.pos = NoPos THEN <<>> ELSE <<RestorePosMsg(n, rec.pos)>>
    <2>1. e \in Endpoint /\ e \in {Local} \cup Registered /\ (me = n <=> e = c)
      BY <1>2, <1>3, Listeners
    <2>2. /\ looks = IF e \in (Registered \ {c}) \cup {Local} THEN look ELSE <<>>
          /\ places = IF e \in {c} THEN place ELSE <<>>
      <3>1. c # Local
        BY <1>1, Listeners
      <3> QED
        BY <2>1, <3>1 DEF look, place
    <2> HIDE DEF looks, places
    <2>3. sent'[e] = <<StatsMsg(n, rec)>> \o (looks \o places)
      BY <1>1, <2>1, <2>2 DEF Then, Announce, Relay, Send
    <2>4. Follows(k, <<StatsMsg(n, rec)>> \o (looks \o places), me)
      BY <1>3, HelloFollows DEF looks, places, n, rec
    <2> QED
      BY <2>3, <2>4
  <1> QED
    BY <1>1, <1>3, AddressKeeps

\* HostApplyDamage.
LEMMA DamageInStep ==
    ASSUME SessionInv, HostSent, UNCHANGED <<link, viewVars>>,
           NEW v \in NetId, NEW d \in ClaimedDamage, NEW s \in PresentIds,
           HostApplyDamage(v, d, s)
    PROVE  InStep'
  <1> USE DEF SessionInv
  <1> DEFINE hp == HealthAfter(v, d)
  <1>1. /\ v \in PresentIds /\ v # s /\ hp \in Health
        /\ healthByNetId' = [healthByNetId EXCEPT ![v] = hp]
        /\ UNCHANGED <<presenceVars, identityVars, appearanceByNetId>>
    BY HealthAfterBounds DEF HostApplyDamage, HitCounts, IInv
  <1> HIDE DEF hp
  <1>2. CASE sent' = Announce(<<HealthMsg(v, hp)>>) /\ UNCHANGED records
    <2>1. \A me \in PresentIds, k \in Known : Agrees(k, me) => Follows(k, <<HealthMsg(v, hp)>>, me)
      BY <1>1, <1>2, WoundFollows
    <2> QED
      BY <1>1, <1>2, <2>1, AnnounceKeeps
  <1>3. CASE hp = 0 /\ Kill(v, s)
    <2> DEFINE msgs == <<HealthMsg(v, 0), DeathMsg(v)>>
                         \o HostBroadcastStats(StoreAfterDeath(v), v)
                         \o HostBroadcastStats(StoreAfterKill(v, s), s)
    <2>1. sent' = Announce(msgs)
      BY <1>3 DEF Kill
    <2>2. \A x, y \in PresentIds : x # y => Apart(x, y)
      BY GuidsApart
    <2>3. \A me \in PresentIds, k \in Known : Agrees(k, me) => Follows(k, msgs, me)
      BY <1>1, <1>3, <2>2, KillFollows
    <2> HIDE DEF msgs
    <2> QED
      BY <1>1, <2>1, <2>3, AnnounceKeeps
  <1> QED
    BY <1>2, <1>3 DEF HostApplyDamage, hp

\* ServiceRespawn.
LEMMA RespawnInStep ==
    ASSUME SessionInv, HostSent, UNCHANGED <<link, viewVars>>,
           NEW n \in NetId, ServiceRespawn(n)
    PROVE  InStep'
  <1> USE DEF SessionInv
  <1> DEFINE msgs == <<HealthMsg(n, MaxHealth), RespawnMsg(n)>>
  <1>1. n \in PresentIds
    BY DEF ServiceRespawn, IInv, OnlyPresentOnFile
  <1>2. /\ Revive(n)
        /\ UNCHANGED <<presenceVars, identityVars, appearanceByNetId, records>>
    BY <1>1 DEF ServiceRespawn
  <1>3. sent' = Announce(msgs)
    BY <1>2 DEF Revive
  <1>4. \A me \in PresentIds, k \in Known : Agrees(k, me) => Follows(k, msgs, me)
    BY <1>1, <1>2, RespawnFollows
  <1> HIDE DEF msgs
  <1> QED
    BY <1>2, <1>3, <1>4, AnnounceKeeps

\* A session that has just been hosted: only the host's own game listens, and it
\* has nothing to learn.
LEMMA SessionStarts == SessionInit => SessionInv
  <1> SUFFICES ASSUME SessionInit PROVE SessionInv
    OBVIOUS
  <1>1. IInv /\ Init
    BY InitIInv DEF SessionInit
  <1>2. Registered = {} /\ PresentIds = {HostId}
    BY <1>1 DEF Init, Registered, IsRegistered, PresentIds
  <1>3. HostId \in NetId
    BY MaxNetIdAssumption DEF HostId, NetId
  <1>4. SessionTypes
    <2>1. [n \in NetId |-> NoPeer] \in [NetId -> Peer]
      BY NoPeerType
    <2>2. \A c \in Conn : toHost[c] \in Seq(Request(c))
      BY DEF SessionInit
    <2>3. toClient \in [Endpoint -> Seq(Message)] /\ view \in [Endpoint -> [NetId -> Peer]]
      BY <2>1 DEF SessionInit
    <2>4. pushes \in 0..MaxPushes
      BY BoundAssumption DEF SessionInit
    <2>5. localNetId \in [Endpoint -> NetId \cup {NoNetId}]
      BY <1>3 DEF SessionInit
    <2> QED
      BY <2>2, <2>3, <2>4, <2>5 DEF SessionInit, SessionTypes
  <1>5. Links
    <2>1. \A c \in Conn : c # Local /\ c \in Endpoint
      BY ConnAssumption DEF Endpoint
    <2>2. \A c \in Conn : localNetId[c] = NoNetId /\ view[c] = [n \in NetId |-> NoPeer]
      BY <2>1 DEF SessionInit
    <2>3. \A c \in Conn : Knowledge(c) = Newborn
      BY <2>2 DEF Knowledge, Newborn
    <2> QED
      BY <1>1, <2>1, <2>3 DEF Links, SessionInit, Init, IsRegistered
  <1>6. Identities
    BY <1>1, <1>2, <1>3 DEF Identities, Init
  <1>7. InStep
    <2>1. Listening = {Local}
      BY DEF Listening, SessionInit
    <2> DEFINE k == Knowledge(Local)
    <2>2. k \in Known /\ k.id = HostId /\ k.peers = [n \in NetId |-> NoPeer]
      <3>1. Local \in Endpoint
        BY DEF Endpoint
      <3>2. localNetId[Local] = HostId /\ view[Local] = [n \in NetId |-> NoPeer]
        BY <3>1 DEF SessionInit
      <3> QED
        BY <1>4, <3>1, <3>2, KnowledgeType
    <2>3. toClient[Local] = <<>>
      BY DEF SessionInit, Endpoint
    <2> HIDE DEF k
    <2>4. ASSUME NEW n \in NetId PROVE On(k, HostId, n)
      <3>1. k.peers[n] = NoPeer
        BY <2>2
      <3>2. n = HostId \/ guidByNetId[n] = NoGuid
        BY <1>1 DEF Init
      <3>3. n = HostId => healthByNetId[n] = MaxHealth
        BY <1>1 DEF Init
      <3>4. appearanceByNetId[n] = NoLook
        BY <1>1 DEF Init
      <3> QED
        BY <1>2, <3>1, <3>2, <3>3, <3>4, NoPeerType DEF On, HasScore, IsBound
    <2>5. Agrees(k, HostId)
      BY <2>2, <2>4 DEF Agrees
    <2>6. Reads(k, <<>>, k)
      BY ReadNothing
    <2>7. InStepAt(Local)
      BY <2>2, <2>3, <2>5, <2>6 DEF InStepAt, IdOf, k
    <2> QED
      BY <2>1, <2>7 DEF InStep
  <1> QED
    BY <1>1, <1>4, <1>5, <1>6, <1>7 DEF SessionInv

\* A client that takes the next message, and the host's game that takes them all,
\* stay in step.
LEMMA DeliverInStep ==
    ASSUME SessionInv, NEW c \in Conn, Deliver(c)
    PROVE  InStep'
  <1> USE DEF SessionInv
  <1> DEFINE m == Head(toClient[c])
             k == Take(Knowledge(c), m)
  <1>1. /\ link[c] = "up" /\ toClient[c] # <<>>
        /\ Learn(c, k)
        /\ toClient' = [toClient EXCEPT ![c] = Tail(@)]
        /\ UNCHANGED <<hostVars, link>>
    BY DEF Deliver, Learn
  <1>2. c \in Endpoint /\ c \in Listening /\ Listening' = Listening
    BY <1>1 DEF Listening, Endpoint
  <1>3. m \in Message /\ toClient[c] \in Seq(Message)
    BY <1>1, <1>2 DEF SessionTypes
  <1>4. Knowledge(c) \in Known /\ k \in Known
    BY <1>2, <1>3, KnowledgeType, TakeType
  <1>5. /\ Knowledge(c)' = k
        /\ \A x \in Endpoint \ {c} : Knowledge(x)' = Knowledge(x)
    BY <1>1, <1>2, <1>4, Learns
  <1>6. PICK l \in Known : Reads(Knowledge(c), toClient[c], l) /\ Agrees(l, IdOf(c))
    BY <1>2 DEF InStep, InStepAt
  <1>7. Reads(k, Tail(toClient[c]), l)
    BY <1>1, <1>3, <1>6, ReadHead
  <1>8. Agrees(l, IdOf(c))'
    BY <1>1, <1>6 DEF Agrees, On, HasScore, IsBound, PresentIds, Registered, IsRegistered,
          IdOf, hostVars, presenceVars, combatVars, identityVars
  <1> HIDE DEF k, m
  <1>9. InStepAt(c)'
    <2>1. toClient'[c] = Tail(toClient[c])
      BY <1>1, <1>2 DEF SessionTypes
    <2>2. Reads(Knowledge(c)', toClient'[c], l)
      BY <1>5, <1>7, <2>1
    <2> QED
      BY <1>8, <2>2 DEF InStepAt
  <1>10. ASSUME NEW e \in Listening, e # c PROVE InStepAt(e)'
    <2>1. e \in Endpoint
      BY Listeners
    <2>2. toClient'[e] = toClient[e] /\ Knowledge(e)' = Knowledge(e)
      BY <1>1, <1>5, <1>10, <2>1 DEF SessionTypes
    <2> QED
      BY <1>1, <2>2, StillKeeps
  <1> QED
    BY <1>2, <1>9, <1>10 DEF InStep

LEMMA DrainInStep ==
    ASSUME SessionInv, DrainEvents
    PROVE  /\ InStep'
           /\ TakeAll(Knowledge(Local), toClient[Local]) \in Known
  <1> USE DEF SessionInv
  <1> DEFINE k == TakeAll(Knowledge(Local), toClient[Local])
  <1>1. /\ Learn(Local, k)
        /\ toClient' = [toClient EXCEPT ![Local] = <<>>]
        /\ UNCHANGED <<hostVars, link>>
    BY DEF DrainEvents, Learn
  <1>2. Local \in Endpoint /\ Local \in Listening /\ Listening' = Listening
    BY <1>1 DEF Listening, Endpoint
  <1>3. PICK l \in Known : Reads(Knowledge(Local), toClient[Local], l) /\ Agrees(l, IdOf(Local))
    BY <1>2 DEF InStep, InStepAt
  <1>4. k = l
    <2>1. toClient[Local] \in Seq(Message)
      BY <1>2 DEF SessionTypes
    <2> QED
      BY <1>3, <2>1, ReadAll
  <1>5. k \in Known
    BY <1>4
  <1>6. /\ Knowledge(Local)' = k
        /\ \A x \in Endpoint \ {Local} : Knowledge(x)' = Knowledge(x)
    BY <1>1, <1>2, <1>5, Learns
  <1>7. Agrees(l, IdOf(Local))'
    BY <1>1, <1>3 DEF Agrees, On, HasScore, IsBound, PresentIds, Registered, IsRegistered,
          IdOf, hostVars, presenceVars, combatVars, identityVars
  <1> HIDE DEF k
  <1>8. InStepAt(Local)'
    <2>1. toClient'[Local] = <<>>
      BY <1>1, <1>2 DEF SessionTypes
    <2>2. Reads(l, <<>>, l)
      BY ReadNothing
    <2>3. Reads(Knowledge(Local)', toClient'[Local], l)
      BY <1>4, <1>6, <2>1, <2>2
    <2> QED
      BY <1>7, <2>3 DEF InStepAt
  <1>9. ASSUME NEW e \in Listening, e # Local PROVE InStepAt(e)'
    <2>1. e \in Endpoint
      BY Listeners
    <2>2. toClient'[e] = toClient[e] /\ Knowledge(e)' = Knowledge(e)
      BY <1>1, <1>6, <1>9, <2>1 DEF SessionTypes
    <2> QED
      BY <1>1, <2>2, StillKeeps
  <1>10. InStep'
    BY <1>2, <1>8, <1>9 DEF InStep
  <1> QED
    BY <1>5, <1>10 DEF k

\* The steps of a client's own threads, and stuttering.
LEMMA QuietInStep ==
    ASSUME SessionInv, UNCHANGED <<hostVars, toClient, viewVars>>, Listening' = Listening
    PROVE  InStep'
  <1> USE DEF SessionInv
  <1> SUFFICES ASSUME NEW e \in Listening PROVE InStepAt(e)'
    BY DEF InStep
  <1>1. Knowledge(e)' = Knowledge(e)
    BY DEF Knowledge, viewVars
  <1> QED
    BY <1>1, StillKeeps

\* PollMessages: whatever the host makes of a client's next message.
LEMMA PollInStep ==
    ASSUME SessionInv, NEW c \in Conn, PollMessages(c)
    PROVE  InStep'
  <1> USE DEF SessionInv
  <1> DEFINE m == Head(toHost[c])
  <1>1. HostSent /\ UNCHANGED <<link, clientVars, viewVars>>
    BY DEF PollMessages
  <1>2. m \in Request(c)
    BY DEF PollMessages, SessionTypes
  <1>3. CASE m.type = "Hello" /\ HostHandleHello(c, m.guid)
    <2>1. m = HelloReq(Player[c])
      BY <1>2, <1>3 DEF Request, AppearanceReq, HitReq
    <2>2. m.guid \in Guid
      BY <2>1, PlayerAssumption DEF HelloReq
    <2> QED
      BY <1>1, <1>3, <2>2, HelloInStep
  <1>4. CASE m.type = "Appearance" /\ HostHandleAppearance(c, m.look)
    <2> DEFINE n == connToNetId[c]
               look == m.look
    <2>1. look \in Look
      BY <1>2, <1>4 DEF Request, HelloReq, AppearanceReq, HitReq
    <2>2. /\ c \in Registered /\ n \in PresentIds
          /\ StoreLook(n, look)
          /\ sent' = Relay(c, <<AppearanceMsg(n, look)>>)
          /\ UNCHANGED <<presenceVars, combatVars, identityVars>>
      BY <1>4, RegisteredArePresent DEF HostHandleAppearance, Registered
    <2> HIDE DEF n, look
    <2>3. \A e \in Listening : IdOf(e) = n <=> e = c
      BY <2>2, Listeners DEF IInv, NetIdsAreUnique, HostId, n
    <2>4. \A e \in Listening :
             sent'[e] = IF IdOf(e) = n THEN <<>> ELSE <<AppearanceMsg(n, look)>>
      BY <2>2, <2>3, Listeners DEF Relay, Send
    <2> QED
      BY <1>1, <2>1, <2>2, <2>4, LookInStep
  <1>5. CASE m.type = "Hit" /\ HostHandleHit(c, m.victim, m.damage)
    <2>1. m.victim \in NetId /\ m.damage \in ClaimedDamage
      BY <1>2, <1>5 DEF Request, HelloReq, AppearanceReq, HitReq
    <2>2. connToNetId[c] \in PresentIds /\ HostApplyDamage(m.victim, m.damage, connToNetId[c])
      BY <1>5, RegisteredArePresent DEF HostHandleHit
    <2> QED
      BY <1>1, <2>1, <2>2, DamageInStep
  <1>6. CASE Dropped
    <2>1. UNCHANGED hostVars /\ Listening' = Listening
      BY <1>1, <1>6 DEF Dropped, Listening
    <2>2. \A e \in Endpoint : toClient'[e] = toClient[e]
      <3>1. \A e \in Endpoint : toClient'[e] = toClient[e] \o <<>>
        BY <1>1, <1>6 DEF Dropped, HostSent, Silent
      <3>2. \A e \in Endpoint : toClient[e] \in Seq(Message)
        BY DEF SessionTypes
      <3> QED
        BY <3>1, <3>2
    <2> SUFFICES ASSUME NEW e \in Listening PROVE InStepAt(e)'
      BY <2>1 DEF InStep
    <2>3. Knowledge(e)' = Knowledge(e) /\ e \in Endpoint
      BY <1>1, Listeners DEF Knowledge, viewVars
    <2> QED
      BY <2>1, <2>2, <2>3, StillKeeps
  <1> QED
    BY <1>3, <1>4, <1>5, <1>6 DEF PollMessages

\* HostPumpsLocal: the host's own player puts on a look, or hits somebody.
LEMMA PumpInStep ==
    ASSUME SessionInv, HostPumpsLocal
    PROVE  InStep'
  <1> USE DEF SessionInv
  <1>1. HostSent /\ UNCHANGED <<link, viewVars>>
    BY DEF HostPumpsLocal
  <1>2. HostId \in PresentIds
    BY IdsInUse
  <1>3. ASSUME NEW l \in Look, HostSendLocalAppearance(l) PROVE InStep'
    <2>1. /\ StoreLook(HostId, l)
          /\ sent' = HostBroadcast(<<AppearanceMsg(HostId, l)>>)
          /\ UNCHANGED <<presenceVars, combatVars, identityVars>>
      BY <1>3 DEF HostSendLocalAppearance
    <2>2. \A e \in Listening : IdOf(e) = HostId <=> e = Local
      BY Listeners DEF IInv, NetIdsAreUnique, HostId
    <2>3. Local \notin Registered
      BY ConnAssumption DEF Registered
    <2>4. \A e \in Listening :
             sent'[e] = IF IdOf(e) = HostId THEN <<>> ELSE <<AppearanceMsg(HostId, l)>>
      BY <2>1, <2>2, <2>3, Listeners DEF HostBroadcast, Send
    <2> QED
      BY <1>1, <1>2, <2>1, <2>4, LookInStep
  <1>4. ASSUME NEW v \in NetId, NEW d \in ClaimedDamage, HostSendLocalHit(v, d) PROVE InStep'
    BY <1>1, <1>2, <1>4, DamageInStep DEF HostSendLocalHit
  <1> QED
    BY <1>3, <1>4 DEF HostPumpsLocal, Targets

\* Every step of the session keeps every endpoint in step with the host.
LEMMA SessionStepsInStep ==
    ASSUME SessionInv, SessionNext
    PROVE  InStep'
  <1>1. ASSUME NEW c \in Conn, ClientConnected(c) \/ ClientPump(c) PROVE InStep'
    <2>1. UNCHANGED <<hostVars, toClient, viewVars>>
      BY <1>1 DEF ClientConnected, ClientPump, channelVars
    <2>2. Listening' = Listening
      BY <1>1 DEF ClientConnected, ClientPump, Listening, SessionInv, SessionTypes
    <2> QED
      BY <2>1, <2>2, QuietInStep
  <1>2. ASSUME NEW c \in Conn, \/ HostAccepts(c) \/ ConnectionLost(c)
                               \/ PollMessages(c) \/ Deliver(c)
        PROVE  InStep'
    BY <1>2, AcceptsInStep, LostInStep, PollInStep, DeliverInStep
  <1>3. CASE HostServesRespawn
    BY <1>3, RespawnInStep DEF HostServesRespawn, Respawns
  <1> QED
    BY <1>1, <1>2, <1>3, DrainInStep, PumpInStep DEF SessionNext

\* The values stay of their types.
LEMMA SessionStepsTyped ==
    ASSUME SessionInv, SessionNext
    PROVE  SessionTypes'
  <1> USE DEF SessionInv
  <1>1. sent' \in [Endpoint -> Seq(Message)]
    BY SessionStepsRelay, NextSends
  <1>2. HostSent => toClient' \in [Endpoint -> Seq(Message)]
    <2>1. \A e \in Endpoint : toClient[e] \o sent'[e] \in Seq(Message)
      BY <1>1 DEF SessionTypes
    <2> QED
      BY <2>1 DEF HostSent
  <1>3. \A c \in Conn : c \in Endpoint
    BY DEF Endpoint
  <1>4. ASSUME NEW c \in Conn, HostAccepts(c) PROVE SessionTypes'
    BY <1>2, <1>4 DEF HostAccepts, SessionTypes, clientVars, viewVars
  <1>5. ASSUME NEW c \in Conn, ClientConnected(c) PROVE SessionTypes'
    BY <1>5 DEF ClientConnected, SessionTypes, clientVars, channelVars, viewVars
  <1>6. ASSUME NEW c \in Conn, ConnectionLost(c) PROVE SessionTypes'
    <2>1. toClient' \in [Endpoint -> Seq(Message)]
      <3>1. \A e \in Endpoint : toClient[e] \o sent'[e] \in Seq(Message)
        BY <1>1 DEF SessionTypes
      <3>2. <<>> \in Seq(Message)
        OBVIOUS
      <3> QED
        BY <1>6, <3>1, <3>2 DEF ConnectionLost
    <2>2. DOMAIN toHost' = Conn /\ \A d \in Conn : toHost'[d] \in Seq(Request(d))
      BY <1>6 DEF ConnectionLost, SessionTypes
    <2> QED
      BY <1>6, <2>1, <2>2 DEF ConnectionLost, SessionTypes, clientVars, viewVars
  <1>7. ASSUME NEW e \in Endpoint, NEW looks, NEW hits, Pushed(e, looks, hits),
               Len(looks) \in Nat, Len(hits) \in Nat,
               looks = <<>> \/ (looks # <<>> /\ looks[1] \in Look)
        PROVE  /\ pushes' \in 0..MaxPushes
               /\ localLook' \in [Endpoint -> Look \cup {NoLook}]
    BY <1>7, BoundAssumption DEF Pushed, SessionTypes
  <1>8. ASSUME NEW c \in Conn, ClientPump(c) PROVE SessionTypes'
    <2>1. PICK looks \in PushedLooks(c), hits \in PushedHits(c) :
             /\ Pushed(c, looks, hits)
             /\ toHost' = [toHost EXCEPT ![c] = @ \o PumpOrder(c, looks, hits)]
      BY <1>8 DEF ClientPump
    <2>2. /\ PumpOrder(c, looks, hits) \in Seq(Request(c))
          /\ Len(looks) \in Nat /\ Len(hits) \in Nat
          /\ looks = <<>> \/ (looks # <<>> /\ looks[1] \in Look)
      BY PumpType
    <2>3. /\ pushes' \in 0..MaxPushes
          /\ localLook' \in [Endpoint -> Look \cup {NoLook}]
      BY <1>3, <1>7, <2>1, <2>2
    <2>4. DOMAIN toHost' = Conn /\ \A d \in Conn : toHost'[d] \in Seq(Request(d))
      <3>1. toHost[c] \o PumpOrder(c, looks, hits) \in Seq(Request(c))
        BY <2>2 DEF SessionTypes
      <3> QED
        BY <2>1, <3>1 DEF SessionTypes
    <2>5. /\ helloSent' = [helloSent EXCEPT ![c] = TRUE]
          /\ UNCHANGED <<link, toClient, localNetId, view>>
      BY <1>8 DEF ClientPump, viewVars
    <2>6. helloSent' \in [Conn -> BOOLEAN]
      BY <2>5 DEF SessionTypes
    <2> QED
      BY <2>3, <2>4, <2>5, <2>6 DEF SessionTypes
  <1>9. ASSUME NEW c \in Conn, PollMessages(c) PROVE SessionTypes'
    <2>1. /\ HostSent /\ UNCHANGED <<link, helloSent, localLook, pushes, localNetId, view>>
          /\ toHost[c] # <<>> /\ toHost' = [toHost EXCEPT ![c] = Tail(@)]
      BY <1>9 DEF PollMessages, clientVars, viewVars
    <2>2. DOMAIN toHost' = Conn /\ \A d \in Conn : toHost'[d] \in Seq(Request(d))
      <3>1. Tail(toHost[c]) \in Seq(Request(c))
        BY <2>1 DEF SessionTypes
      <3> QED
        BY <2>1, <3>1 DEF SessionTypes
    <2> QED
      BY <1>2, <2>1, <2>2 DEF SessionTypes
  <1>10. ASSUME NEW e \in Endpoint, NEW k \in Known, Learn(e, k),
                toClient' \in [Endpoint -> Seq(Message)]
         PROVE  SessionTypes'
    BY <1>10, Learns DEF Learn, SessionTypes, clientVars
  <1>11. ASSUME NEW c \in Conn, Deliver(c) PROVE SessionTypes'
    <2>1. toClient[c] \in Seq(Message) /\ toClient[c] # <<>> /\ Head(toClient[c]) \in Message
      BY <1>3, <1>11 DEF Deliver, SessionTypes
    <2>2. Take(Knowledge(c), Head(toClient[c])) \in Known
      BY <1>3, <2>1, KnowledgeType, TakeType
    <2>3. Tail(toClient[c]) \in Seq(Message)
      BY <2>1
    <2>4. toClient' \in [Endpoint -> Seq(Message)]
      BY <1>11, <2>3 DEF Deliver, SessionTypes
    <2> QED
      BY <1>3, <1>10, <1>11, <2>2, <2>4 DEF Deliver
  <1>12. CASE DrainEvents
    <2>1. TakeAll(Knowledge(Local), toClient[Local]) \in Known
      BY <1>12, DrainInStep
    <2>2. toClient' \in [Endpoint -> Seq(Message)] /\ Local \in Endpoint
      BY <1>12 DEF DrainEvents, SessionTypes, Endpoint
    <2> QED
      BY <1>10, <1>12, <2>1, <2>2 DEF DrainEvents
  <1>13. CASE HostPumpsLocal
    <2>1. /\ HostSent /\ UNCHANGED <<link, helloSent, toHost, localNetId, view>>
      BY <1>13 DEF HostPumpsLocal, viewVars
    <2>2. Local \in Endpoint
      BY DEF Endpoint
    <2>3. /\ pushes' \in 0..MaxPushes
          /\ localLook' \in [Endpoint -> Look \cup {NoLook}]
      <3>1. ASSUME NEW l \in Look, Pushed(Local, <<l>>, <<>>)
            PROVE  /\ pushes' \in 0..MaxPushes
                   /\ localLook' \in [Endpoint -> Look \cup {NoLook}]
        <4>1. <<l>> # <<>> /\ <<l>>[1] \in Look /\ Len(<<l>>) \in Nat /\ Len(<<>>) \in Nat
          OBVIOUS
        <4> QED
          BY <1>7, <2>2, <3>1, <4>1
      <3>2. ASSUME NEW h, Pushed(Local, <<>>, <<h>>)
            PROVE  /\ pushes' \in 0..MaxPushes
                   /\ localLook' \in [Endpoint -> Look \cup {NoLook}]
        <4>1. Len(<<h>>) \in Nat /\ Len(<<>>) \in Nat
          OBVIOUS
        <4> QED
          BY <1>7, <2>2, <3>2, <4>1
      <3> QED
        BY <1>13, <3>1, <3>2 DEF HostPumpsLocal
    <2> QED
      BY <1>2, <2>1, <2>3 DEF SessionTypes
  <1>14. CASE HostServesRespawn
    BY <1>2, <1>14 DEF HostServesRespawn, SessionTypes, clientVars, viewVars
  <1> QED
    BY <1>4, <1>5, <1>6, <1>8, <1>9, <1>11, <1>12, <1>13, <1>14 DEF SessionNext

\* The host sends nothing to a connection it has not registered.
LEMMA StrangersHearNothing ==
    ASSUME IInv, Next, NEW c \in Conn, ~IsRegistered(c), ~IsRegistered(c)'
    PROVE  sent'[c] = <<>>
  <1>1. c \in Endpoint /\ c # Local /\ c \notin Registered
    BY ConnAssumption DEF Endpoint, Registered
  <1>2. \A to, msgs : to \subseteq Registered \cup {Local} => Send(to, msgs)[c] = <<>>
    BY <1>1 DEF Send
  <1>3. ASSUME NEW d \in Conn, HostOnClientConnected(d) PROVE sent'[c] = <<>>
    <2>1. d # c
      <3>1. connToNetId' = [connToNetId EXCEPT ![d] = nextNetId] /\ nextNetId \in NetId
        BY <1>3 DEF HostOnClientConnected, FreshNetId
      <3> QED
        BY <3>1 DEF IInv, TypeOK, IsRegistered, NetId, NoNetId
    <2>2. PICK order : sent' = Then(Send({d}, Welcome(nextNetId, order)),
                        Then(Relay(d, <<JoinMsg(nextNetId)>>),
                             HostRelayToOthers(d, <<HealthMsg(nextNetId, EnsuredHealth(nextNetId))>>)))
      BY <1>3 DEF HostOnClientConnected, FreshNetId
    <2>3. sent'[c] = <<>> \o (<<>> \o <<>>)
      BY <1>1, <2>1, <2>2 DEF Then, Send, Relay, HostRelayToOthers
    <2> QED
      BY <2>3
  <1>4. ASSUME NEW d \in Conn, HostOnClientGone(d) PROVE sent'[c] = <<>>
    BY <1>2, <1>4 DEF HostOnClientGone, Relay
  <1>5. CASE Reports
    <2>1. ASSUME NEW d \in Conn, NEW msgs, sent' = Relay(d, msgs) PROVE sent'[c] = <<>>
      BY <1>2, <2>1 DEF Relay
    <2>2. ASSUME NEW d \in Conn, NEW g \in Guid, HostHandleHello(d, g) PROVE sent'[c] = <<>>
      <3>1. d # c
        BY <2>2 DEF HostHandleHello
      <3>2. PICK a, b, p : sent' = Then(Announce(a), Then(Relay(d, b), Send({d}, p)))
        BY <2>2 DEF HostHandleHello, RestoreLook, RestorePos
      <3>3. sent'[c] = <<>> \o (<<>> \o <<>>)
        BY <1>1, <3>1, <3>2 DEF Then, Announce, Relay, Send
      <3> QED
        BY <3>3
    <2> QED
      BY <1>5, <2>1, <2>2 DEF Reports, HostHandleTransform, HostHandleAppearance, HostHandleFire
  <1>6. ASSUME NEW msgs, sent' = Announce(msgs) \/ sent' = HostBroadcast(msgs)
        PROVE  sent'[c] = <<>>
    BY <1>2, <1>6 DEF Announce, HostBroadcast
  <1>7. CASE Combat
    BY <1>6, <1>7 DEF Combat, HostSendLocalHit, HostHandleHit, HostApplyDamage, Kill
  <1>8. CASE HostPlayer
    BY <1>6, <1>8 DEF HostPlayer, HostSendLocalAppearance, HostSendLocalTransform, HostSendLocalFire
  <1>9. CASE sent' = Silent
    BY <1>1, <1>9 DEF Silent
  <1>10. CASE Respawns
    BY <1>6, <1>9, <1>10 DEF Respawns, ServiceRespawn, Revive
  <1> QED
    BY <1>3, <1>4, <1>5, <1>7, <1>8, <1>9, <1>10 DEF Next, Presence, Dropped

\* What the links say stays true.
LEMMA SessionStepsLinked ==
    ASSUME SessionInv, SessionNext
    PROVE  Links'
  <1> USE DEF SessionInv
  <1>0. \A c \in Conn : c \in Endpoint /\ c # Local
    BY ConnAssumption DEF Endpoint
  <1>1. \A c \in Conn : ~IsRegistered(c) /\ ~IsRegistered(c)' => sent'[c] = <<>>
    BY SessionStepsRelay, StrangersHearNothing
  <1>2. ASSUME NEW c \in Conn, toClient'[c] = toClient[c] \o sent'[c],
               UNCHANGED link[c], UNCHANGED connToNetId[c], Knowledge(c)' = Knowledge(c)
        PROVE  /\ IsRegistered(c)' <=> link'[c] \in {"accepted", "up"}
               /\ ~IsRegistered(c)' => toClient'[c] = <<>>
               /\ link'[c] = "idle" => Knowledge(c)' = Newborn
    <2>1. IsRegistered(c)' <=> IsRegistered(c)
      BY <1>2 DEF IsRegistered
    <2>2. ~IsRegistered(c) => toClient[c] = <<>> /\ sent'[c] = <<>>
      BY <1>1, <2>1 DEF Links
    <2> QED
      BY <1>2, <2>1, <2>2 DEF Links
  <1>3. ASSUME HostSent, UNCHANGED <<link, viewVars, presenceVars>> PROVE Links'
    <2> SUFFICES ASSUME NEW c \in Conn
                 PROVE  /\ IsRegistered(c)' <=> link'[c] \in {"accepted", "up"}
                        /\ ~IsRegistered(c)' => toClient'[c] = <<>>
                        /\ link'[c] = "idle" => Knowledge(c)' = Newborn
      BY DEF Links
    <2>1. toClient'[c] = toClient[c] \o sent'[c]
      BY <1>0, <1>3 DEF HostSent
    <2>2. Knowledge(c)' = Knowledge(c)
      BY <1>3 DEF Knowledge, viewVars
    <2> QED
      BY <1>2, <1>3, <2>1, <2>2 DEF presenceVars
  <1>4. ASSUME NEW c \in Conn, HostAccepts(c) PROVE Links'
    <2> SUFFICES ASSUME NEW d \in Conn
                 PROVE  /\ IsRegistered(d)' <=> link'[d] \in {"accepted", "up"}
                        /\ ~IsRegistered(d)' => toClient'[d] = <<>>
                        /\ link'[d] = "idle" => Knowledge(d)' = Newborn
      BY DEF Links
    <2>1. /\ connToNetId' = [connToNetId EXCEPT ![c] = nextNetId] /\ nextNetId \in NetId
          /\ link' = [link EXCEPT ![c] = "accepted"]
          /\ HostSent /\ UNCHANGED <<localNetId, view>>
      BY <1>4 DEF HostAccepts, HostOnClientConnected, FreshNetId, viewVars
    <2>2. CASE d = c
      <3>1. connToNetId'[c] # NoNetId /\ link'[c] = "accepted"
        BY <2>1 DEF IInv, TypeOK, SessionTypes, NetId, NoNetId
      <3> QED
        BY <2>2, <3>1 DEF IsRegistered
    <2>3. CASE d # c
      <3>1. toClient'[d] = toClient[d] \o sent'[d]
        BY <1>0, <2>1 DEF HostSent
      <3>2. Knowledge(d)' = Knowledge(d)
        BY <2>1, Zenon DEF Knowledge
      <3>3. UNCHANGED link[d] /\ UNCHANGED connToNetId[d]
        BY <2>1, <2>3 DEF IInv, TypeOK, SessionTypes
      <3> QED
        BY <1>2, <3>1, <3>2, <3>3
    <2> QED
      BY <2>2, <2>3
  <1>5. ASSUME NEW c \in Conn, ConnectionLost(c) PROVE Links'
    <2> SUFFICES ASSUME NEW d \in Conn
                 PROVE  /\ IsRegistered(d)' <=> link'[d] \in {"accepted", "up"}
                        /\ ~IsRegistered(d)' => toClient'[d] = <<>>
                        /\ link'[d] = "idle" => Knowledge(d)' = Newborn
      BY DEF Links
    <2>1. /\ connToNetId' = [connToNetId EXCEPT ![c] = NoNetId]
          /\ link' = [link EXCEPT ![c] = "closed"]
          /\ toClient' = [e \in Endpoint |-> IF e = c THEN <<>> ELSE toClient[e] \o sent'[e]]
          /\ UNCHANGED <<localNetId, view>>
      BY <1>5 DEF ConnectionLost, HostOnClientGone, viewVars
    <2>2. CASE d = c
      <3>1. connToNetId'[c] = NoNetId /\ link'[c] = "closed" /\ toClient'[c] = <<>>
        BY <1>0, <2>1 DEF IInv, TypeOK, SessionTypes
      <3> QED
        BY <2>2, <3>1 DEF IsRegistered
    <2>3. CASE d # c
      <3>1. toClient'[d] = toClient[d] \o sent'[d]
        BY <1>0, <2>1, <2>3
      <3>2. Knowledge(d)' = Knowledge(d)
        BY <2>1, Zenon DEF Knowledge
      <3>3. UNCHANGED link[d] /\ UNCHANGED connToNetId[d]
        BY <2>1, <2>3 DEF IInv, TypeOK, SessionTypes
      <3> QED
        BY <1>2, <3>1, <3>2, <3>3
    <2> QED
      BY <2>2, <2>3
  <1>6. ASSUME NEW c \in Conn, ClientConnected(c) \/ ClientPump(c) PROVE Links'
    <2>1. UNCHANGED <<connToNetId, toClient, localNetId, view>>
      BY <1>6 DEF ClientConnected, ClientPump, hostVars, presenceVars, channelVars, viewVars
    <2>2. \A d \in Conn : /\ link'[d] \in {"accepted", "up"} <=> link[d] \in {"accepted", "up"}
                          /\ link'[d] = "idle" <=> link[d] = "idle"
      BY <1>6 DEF ClientConnected, ClientPump, SessionTypes
    <2>3. \A d \in Conn : Knowledge(d)' = Knowledge(d)
      BY <2>1, Zenon DEF Knowledge
    <2> QED
      BY <2>1, <2>2, <2>3 DEF Links, IsRegistered
  <1>7. ASSUME NEW e \in Endpoint, NEW k \in Known, Learn(e, k),
               e = Local \/ link[e] = "up",
               NEW rest, toClient' = [toClient EXCEPT ![e] = rest]
        PROVE  Links'
    <2>1. UNCHANGED <<link, connToNetId>>
      BY <1>7 DEF Learn, hostVars, presenceVars
    <2>2. \A d \in Conn : d # e => toClient'[d] = toClient[d] /\ Knowledge(d)' = Knowledge(d)
      BY <1>0, <1>7, Learns DEF SessionTypes
    <2>3. \A d \in Conn : d = e => link[d] = "up"
      BY <1>0, <1>7
    <2> QED
      BY <2>1, <2>2, <2>3 DEF Links, IsRegistered
  <1>8. ASSUME NEW c \in Conn, Deliver(c) PROVE Links'
    <2>1. toClient[c] \in Seq(Message) /\ toClient[c] # <<>> /\ Head(toClient[c]) \in Message
      BY <1>0, <1>8 DEF Deliver, SessionTypes
    <2>2. Take(Knowledge(c), Head(toClient[c])) \in Known
      BY <1>0, <2>1, KnowledgeType, TakeType
    <2>3. PICK rest : toClient' = [toClient EXCEPT ![c] = rest]
      BY <1>8 DEF Deliver
    <2> QED
      BY <1>0, <1>7, <1>8, <2>2, <2>3 DEF Deliver
  <1>9. CASE DrainEvents
    <2>1. TakeAll(Knowledge(Local), toClient[Local]) \in Known
      BY <1>9, DrainInStep
    <2>2. Local \in Endpoint
      BY DEF Endpoint
    <2> QED
      BY <1>7, <1>9, <2>1, <2>2 DEF DrainEvents
  <1>10. ASSUME NEW c \in Conn, PollMessages(c) PROVE Links'
    <2>1. UNCHANGED presenceVars
      BY <1>10 DEF PollMessages, HostHandleHello, HostHandleAppearance, HostHandleHit,
                   HostApplyDamage, Dropped, hostVars
    <2> QED
      BY <1>3, <1>10, <2>1 DEF PollMessages
  <1>11. CASE HostPumpsLocal
    <2>1. UNCHANGED presenceVars
      BY <1>11 DEF HostPumpsLocal, HostSendLocalAppearance, HostSendLocalHit, HostApplyDamage
    <2> QED
      BY <1>3, <1>11, <2>1 DEF HostPumpsLocal
  <1>12. CASE HostServesRespawn
    <2>1. UNCHANGED presenceVars
      BY <1>12 DEF HostServesRespawn, Respawns, ServiceRespawn
    <2> QED
      BY <1>3, <1>12, <2>1 DEF HostServesRespawn
  <1> QED
    BY <1>4, <1>5, <1>6, <1>8, <1>9, <1>10, <1>11, <1>12 DEF SessionNext

\* Every id stays bound to nobody or to the player it was given to.
LEMMA SessionStepsIdentified ==
    ASSUME SessionInv, SessionNext
    PROVE  Identities'
  <1> USE DEF SessionInv
  <1>0. /\ guidByNetId \in [NetId -> Guid \cup {NoGuid}]
        /\ connToNetId \in [Conn -> NetId \cup {NoNetId}]
        /\ HostId \in NetId
        /\ \A c \in Registered : /\ c \in Conn
                                 /\ connToNetId[c] \in NetId /\ connToNetId[c] # HostId
                                 /\ \A d \in Registered : connToNetId[c] = connToNetId[d] => c = d
    <2>1. \A c \in Registered : connToNetId[c] \in PresentIds /\ connToNetId[c] # HostId
      BY DEF PresentIds, IInv, NetIdsAreUnique, HostId
    <2> QED
      BY <2>1, IdsInUse DEF IInv, TypeOK, NetIdsAreUnique, Registered
  <1>1. ASSUME UNCHANGED <<connToNetId, guidByNetId>> PROVE Identities'
    BY <1>1 DEF Identities, Registered, IsRegistered
  <1>2. ASSUME NEW c \in Conn, HostAccepts(c) PROVE Identities'
    <2> DEFINE n == nextNetId
    <2>1. /\ connToNetId' = [connToNetId EXCEPT ![c] = n] /\ n \in NetId
          /\ guidByNetId' = guidByNetId
          /\ ~IsRegistered(c)
      BY <1>2 DEF HostAccepts, HostOnClientConnected, FreshNetId, identityVars
    <2>2. n \notin PresentIds
      BY <1>2, JoinPresence DEF HostAccepts
    <2>3. guidByNetId[n] = NoGuid
      BY <2>1, <2>2 DEF IInv, OnlyPresentOnFile
    <2>4. \A d \in Registered' : d = c \/ (d \in Registered /\ connToNetId'[d] = connToNetId[d])
      BY <1>0, <2>1 DEF Registered, IsRegistered
    <2>5. connToNetId'[c] = n
      BY <1>0, <2>1
    <2>6. OneConnectionEach => \A d \in Registered : d # c => Player[d] # Player[c]
      <3>1. \A d \in Registered : link[d] \in {"accepted", "up"}
        BY DEF Links, Registered
      <3> QED
        BY <1>0, <1>2, <3>1 DEF HostAccepts
    <2> HIDE DEF n
    <2>7. \A d \in Registered' : guidByNetId'[connToNetId'[d]] \in {NoGuid, Player[d]}
      BY <2>1, <2>3, <2>4, <2>5 DEF Identities
    <2>8. OneConnectionEach => \A d, e \in Registered' : Player[d] = Player[e] => d = e
      BY <2>4, <2>6 DEF Identities
    <2> QED
      BY <2>1, <2>7, <2>8 DEF Identities
  <1>3. ASSUME NEW c \in Conn, ConnectionLost(c) PROVE Identities'
    <2> DEFINE n == connToNetId[c]
    <2>1. /\ connToNetId' = [connToNetId EXCEPT ![c] = NoNetId]
          /\ guidByNetId' = [guidByNetId EXCEPT ![n] = NoGuid]
          /\ c \in Registered
      BY <1>3 DEF ConnectionLost, HostOnClientGone, Forget, Registered
    <2>2. \A d \in Registered' : d \in Registered /\ connToNetId'[d] = connToNetId[d]
      BY <1>0, <2>1 DEF Registered, IsRegistered
    <2>3. \A d \in Registered' : guidByNetId'[connToNetId'[d]] \in {NoGuid, Player[d]}
      BY <1>0, <2>1, <2>2 DEF Identities
    <2>4. guidByNetId'[HostId] = HostGuid
      BY <1>0, <2>1 DEF Identities
    <2> QED
      BY <2>2, <2>3, <2>4 DEF Identities
  <1>4. ASSUME NEW c \in Conn, PollMessages(c) PROVE Identities'
    <2> DEFINE m == Head(toHost[c])
    <2>1. m \in Request(c)
      BY <1>4 DEF PollMessages, SessionTypes
    <2>2. CASE m.type = "Hello" /\ HostHandleHello(c, m.guid)
      <3>1. m.guid = Player[c]
        BY <2>1, <2>2 DEF Request, HelloReq, AppearanceReq, HitReq
      <3>2. /\ c \in Registered
            /\ guidByNetId' = [guidByNetId EXCEPT ![connToNetId[c]] = Player[c]]
            /\ connToNetId' = connToNetId
        BY <2>2, <3>1 DEF HostHandleHello, Registered, presenceVars
      <3>3. Registered' = Registered
        BY <3>2 DEF Registered, IsRegistered
      <3>4. \A d \in Registered : guidByNetId'[connToNetId[d]] \in {NoGuid, Player[d]}
        BY <1>0, <3>2 DEF Identities
      <3>5. guidByNetId'[HostId] = HostGuid
        BY <1>0, <3>2 DEF Identities
      <3> QED
        BY <3>2, <3>3, <3>4, <3>5 DEF Identities
    <2>3. CASE HostHandleAppearance(c, m.look) \/ HostHandleHit(c, m.victim, m.damage) \/ Dropped
      BY <1>1, <2>3 DEF HostHandleAppearance, HostHandleHit, HostApplyDamage, Dropped, hostVars,
                        presenceVars, identityVars
    <2> QED
      BY <1>4, <2>2, <2>3 DEF PollMessages
  <1>5. ASSUME NEW c \in Conn, ClientConnected(c) \/ ClientPump(c) \/ Deliver(c) PROVE Identities'
    BY <1>1, <1>5 DEF ClientConnected, ClientPump, Deliver, Learn, hostVars, presenceVars, identityVars
  <1>6. CASE DrainEvents
    BY <1>1, <1>6 DEF DrainEvents, Learn, hostVars, presenceVars, identityVars
  <1>7. CASE HostPumpsLocal
    BY <1>1, <1>7 DEF HostPumpsLocal, HostSendLocalAppearance, HostSendLocalHit, HostApplyDamage,
                      presenceVars, identityVars
  <1>8. CASE HostServesRespawn
    BY <1>1, <1>8 DEF HostServesRespawn, Respawns, ServiceRespawn, presenceVars, identityVars
  <1> QED
    BY <1>2, <1>3, <1>4, <1>5, <1>6, <1>7, <1>8 DEF SessionNext

-----------------------------------------------------------------------------
(* The invariant holds of every session.                                     *)

LEMMA SessionKeeps == SessionInv /\ [SessionNext]_sessionVars => SessionInv'
  <1> SUFFICES ASSUME SessionInv, [SessionNext]_sessionVars PROVE SessionInv'
    OBVIOUS
  <1>1. CASE SessionNext
    <2>1. IInv'
      BY <1>1, SessionStepsRelay, NextKeepsIInv DEF SessionInv
    <2> QED
      BY <1>1, <2>1, SessionStepsTyped, SessionStepsLinked, SessionStepsIdentified,
         SessionStepsInStep DEF SessionInv
  <1>2. CASE UNCHANGED sessionVars
    <2>1. UNCHANGED <<vars, hostVars, link, clientVars, toHost, toClient, viewVars>>
      BY <1>2 DEF sessionVars, channelVars, vars
    <2>2. IInv'
      BY <2>1, NextKeepsIInv DEF SessionInv
    <2>3. SessionTypes'
      BY <2>1 DEF SessionInv, SessionTypes, clientVars, viewVars
    <2>4. Links'
      BY <2>1 DEF SessionInv, Links, IsRegistered, Knowledge, viewVars, hostVars, presenceVars
    <2>5. Identities'
      BY <2>1 DEF SessionInv, Identities, Registered, IsRegistered, hostVars, presenceVars, identityVars
    <2>6. InStep'
      BY <2>1, QuietInStep DEF Listening
    <2> QED
      BY <2>2, <2>3, <2>4, <2>5, <2>6 DEF SessionInv
  <1> QED
    BY <1>1, <1>2

LEMMA SessionInvariance == SessionSpec => []SessionInv
  BY SessionStarts, SessionKeeps, PTL DEF SessionSpec

\* The host's worker of a session is a host's worker: what is proved of the relay,
\* whatever clients send it, holds in every session.
THEOREM SessionIsRelay == SessionSpec => Spec
  <1>1. SessionInit => Init
    BY DEF SessionInit
  <1>2. SessionInv /\ [SessionNext]_sessionVars => [Next]_vars
    <2> SUFFICES ASSUME SessionInv, [SessionNext]_sessionVars PROVE [Next]_vars
      OBVIOUS
    <2>1. CASE SessionNext
      BY <2>1, SessionStepsRelay DEF SessionInv
    <2>2. CASE UNCHANGED sessionVars
      BY <2>2 DEF sessionVars
    <2> QED
      BY <2>1, <2>2
  <1> QED
    BY <1>1, <1>2, SessionInvariance, PTL DEF SessionSpec, Spec

-----------------------------------------------------------------------------
(* What the invariant says of the views.                                     *)

\* An id, once learnt, is kept: a second Join never renames an endpoint.
LEMMA TakeKeepsId ==
    ASSUME NEW k \in Known, NEW m \in Message, k.id # NoNetId
    PROVE  Take(k, m).id = k.id
  <1>1. CASE m.type = "Join"
    <2>1. Take(k, m) = OnNetPlayerJoin(k, m.netId)
      BY <1>1 DEF Take
    <2>2. OnNetPlayerJoin(k, m.netId) =
            IF m.netId = k.id \/ k.peers[m.netId].tracked THEN k
            ELSE [k EXCEPT !.peers[m.netId] = Joined(k.peers[m.netId])]
      BY Zenon DEF OnNetPlayerJoin, Joined
    <2> QED
      BY <2>1, <2>2 DEF Known
  <1>2. CASE m.type # "Join"
    BY <1>2, TakeOther DEF Known
  <1> QED
    BY <1>1, <1>2

LEMMA ReadsKeepId ==
    ASSUME NEW k \in Known, NEW msgs \in Seq(Message), NEW l, Reads(k, msgs, l), k.id # NoNetId
    PROVE  l.id = k.id
  <1>1. PICK f : IsReading(f, k, msgs) /\ l = f[Len(msgs)]
    BY DEF Reads
  <1> DEFINE S == {i \in Nat : i \in 0..Len(msgs) => f[i] \in Known /\ f[i].id = k.id}
  <1>2. 0 \in S
    BY <1>1 DEF IsReading
  <1>3. ASSUME NEW i \in 0..Len(msgs), i \in S, i < Len(msgs) PROVE i + 1 \in S
    <2>1. i + 1 \in 1..Len(msgs) /\ (i + 1) - 1 = i /\ f[i] \in Known /\ f[i].id = k.id
      BY <1>3
    <2>2. f[i + 1] = Take(f[i], msgs[i + 1]) /\ msgs[i + 1] \in Message
      BY <1>1, <2>1 DEF IsReading
    <2>3. Take(f[i], msgs[i + 1]) \in Known /\ Take(f[i], msgs[i + 1]).id = k.id
      BY <2>1, <2>2, TakeType, TakeKeepsId
    <2> QED
      BY <2>2, <2>3
  <1>4. \A i \in 0..Len(msgs) : i \in S
    <2> HIDE DEF S
    <2>1. Len(msgs) \in Nat
      OBVIOUS
    <2> QED
      BY <1>2, <1>3, <2>1, InductionUpTo
  <1>5. f[Len(msgs)].id = k.id
    BY <1>4
  <1> QED
    BY <1>1, <1>5

\* Who has read everything knows what is on file.
LEMMA CaughtUpAgrees ==
    ASSUME SessionInv, NEW e \in CaughtUp
    PROVE  /\ e \in Endpoint /\ e \in Listening
           /\ Agrees(Knowledge(e), IdOf(e))
           /\ Knowledge(e).id = localNetId[e] /\ Knowledge(e).peers = view[e]
           /\ localNetId[e] = IdOf(e)
  <1>1. e \in Listening /\ toClient[e] = <<>>
    BY DEF CaughtUp
  <1>2. e \in Endpoint
    BY <1>1, Listeners DEF SessionInv
  <1>3. PICK l \in Known : Reads(Knowledge(e), <<>>, l) /\ Agrees(l, IdOf(e))
    BY <1>1 DEF SessionInv, InStep, InStepAt
  <1>4. l = Knowledge(e)
    BY <1>3 DEF Reads, IsReading
  <1>5. Knowledge(e).id = localNetId[e] /\ Knowledge(e).peers = view[e]
    BY <1>2, KnowledgeType DEF SessionInv
  <1> QED
    BY <1>1, <1>2, <1>3, <1>4, <1>5 DEF Agrees

LEMMA TypesInv == SessionInv => SessionTypeOK
  <1> SUFFICES ASSUME SessionInv PROVE SessionTypeOK
    OBVIOUS
  <1>1. ASSUME NEW e \in Endpoint, NEW n \in NetId
        PROVE  view[e][n].hp \in Health /\ view[e][n].look \in Look \cup {NoLook}
    <2>1. view[e][n] \in Peer
      BY DEF SessionInv, SessionTypes
    <2> QED
      BY <2>1 DEF Peer
  <1> QED
    BY <1>1 DEF SessionTypeOK, SessionInv, SessionTypes

LEMMA NamesInv == SessionInv => KnowsItself
  <1> SUFFICES ASSUME SessionInv, NEW c \in Conn, link[c] \in {"accepted", "up"},
                      localNetId[c] # connToNetId[c]
               PROVE  /\ localNetId[c] = NoNetId
                      /\ toClient[c] # <<>>
                      /\ Head(toClient[c]) = JoinMsg(connToNetId[c])
    BY DEF KnowsItself
  <1> DEFINE k == Knowledge(c)
             m == Head(toClient[c])
  <1>1. c \in Listening /\ c \in Endpoint /\ c \in Registered /\ IdOf(c) = connToNetId[c]
    BY Listeners DEF SessionInv, Listening, Links, Endpoint, Registered
  <1>2. connToNetId[c] \in NetId /\ connToNetId[c] # NoNetId
    BY <1>1 DEF Registered, IsRegistered, SessionInv, IInv, TypeOK
  <1>3. k \in Known /\ k.id = localNetId[c] /\ toClient[c] \in Seq(Message)
    BY <1>1, KnowledgeType DEF SessionInv, SessionTypes
  <1>4. PICK l \in Known : Reads(k, toClient[c], l) /\ l.id = connToNetId[c]
    BY <1>1 DEF SessionInv, InStep, InStepAt, Agrees
  <1> HIDE DEF k
  <1>5. k.id = NoNetId
    BY <1>3, <1>4, ReadsKeepId
  <1>6. toClient[c] # <<>>
    <2>1. toClient[c] = <<>> => l = k
      BY <1>4 DEF Reads, IsReading
    <2> QED
      BY <1>2, <1>4, <1>5, <2>1
  <1>7. Fits(k, m) /\ Reads(Take(k, m), Tail(toClient[c]), l)
    BY <1>3, <1>4, <1>6, ReadHead
  <1>8. m \in Message /\ Tail(toClient[c]) \in Seq(Message)
    BY <1>3, <1>6
  <1> HIDE DEF m
  <1>9. m.netId \in NetId /\ m = JoinMsg(m.netId)
    BY <1>5, <1>7, <1>8 DEF Fits, Message, JoinMsg
  <1>10. Take(k, m) \in Known /\ Take(k, m).id = m.netId
    <2>1. Take(k, JoinMsg(m.netId)) = [k EXCEPT !.id = m.netId]
      BY <1>3, <1>5, <1>9, TakeJoin
    <2> QED
      BY <1>3, <1>8, <1>9, <2>1, TakeType DEF Known
  <1>11. l.id = m.netId
    <2>1. Take(k, m).id # NoNetId
      BY <1>9, <1>10 DEF NetId, NoNetId
    <2> QED
      BY <1>7, <1>8, <1>10, <2>1, ReadsKeepId
  <1> QED
    BY <1>3, <1>4, <1>5, <1>6, <1>9, <1>11 DEF m

LEMMA OrphansInv == SessionInv => NoOrphanMessage
  <1> SUFFICES ASSUME SessionInv, NEW c \in Conn, toClient[c] # <<>>, localNetId[c] # NoNetId,
                      Head(toClient[c]).netId # localNetId[c]
               PROVE  Head(toClient[c]).type = "Join" <=> ~view[c][Head(toClient[c]).netId].tracked
    BY DEF NoOrphanMessage
  <1> DEFINE k == Knowledge(c)
             m == Head(toClient[c])
  <1>1. c \in Listening /\ c \in Endpoint
    BY DEF SessionInv, Links, Listening, Endpoint
  <1>2. k.id = localNetId[c] /\ k.peers = view[c] /\ toClient[c] \in Seq(Message)
    BY <1>1, KnowledgeType DEF SessionInv, SessionTypes
  <1>3. PICK l : Reads(k, toClient[c], l)
    BY <1>1 DEF SessionInv, InStep, InStepAt
  <1> HIDE DEF k
  <1>4. Fits(k, m)
    BY <1>2, <1>3, ReadHead
  <1> QED
    BY <1>2, <1>4 DEF Fits

LEMMA RosterInv == SessionInv => RosterConverges
  <1> SUFFICES ASSUME SessionInv, NEW e \in CaughtUp
               PROVE  {n \in NetId : view[e][n].tracked} = PresentIds \ {localNetId[e]}
    BY DEF RosterConverges
  <1>1. \A n \in NetId : view[e][n].tracked <=> n \in PresentIds \ {localNetId[e]}
    BY CaughtUpAgrees DEF Agrees, On
  <1>2. PresentIds \subseteq NetId
    BY IdsInUse DEF SessionInv
  <1> QED
    BY <1>1, <1>2

LEMMA FilesInv ==
    SessionInv => HealthConverges /\ LookConverges /\ (OneConnectionEach => StatsConverge)
  <1> SUFFICES ASSUME SessionInv, NEW e \in CaughtUp, NEW n \in PresentIds
               PROVE  /\ n # localNetId[e] => view[e][n].hp = healthByNetId[n]
                      /\ n # localNetId[e] => view[e][n].look = appearanceByNetId[n]
                      /\ OneConnectionEach /\ IsBound(n) /\ ~(e = Local /\ n = HostId) =>
                           /\ view[e][n].kills = records[guidByNetId[n]].kills
                           /\ view[e][n].deaths = records[guidByNetId[n]].deaths
    BY DEF HealthConverges, LookConverges, StatsConverge
  <1>1. n \in NetId
    BY IdsInUse DEF SessionInv
  <1>2. On(Knowledge(e), IdOf(e), n) /\ Knowledge(e).peers = view[e] /\ localNetId[e] = IdOf(e)
    BY <1>1, CaughtUpAgrees DEF Agrees
  <1>3. IdOf(e) = HostId => e = Local
    <2>1. e \in {Local} \cup Registered
      BY CaughtUpAgrees, Listeners DEF SessionInv
    <2> QED
      BY <2>1, Listeners DEF SessionInv, IInv, NetIdsAreUnique, HostId
  <1> QED
    BY <1>1, <1>2, <1>3 DEF On, HasScore

\* The views, the looks and the hand-off between threads keep their types.
THEOREM SessionTypeCorrect == SessionSpec => []SessionTypeOK
  BY SessionInvariance, TypesInv, PTL

\* A client goes by the id the host knows it under: the Join that names it is on top
\* of what it is sent until it is taken (HostOnClientConnected's order, OnNetPlayerJoin).
THEOREM ClientsKnowThemselves == SessionSpec => []KnowsItself
  BY SessionInvariance, NamesInv, PTL

\* No message about a player reaches an endpoint before that player's Join or after
\* its Leave, so the reds handlers never have to ignore one.
THEOREM NoMessageIsOrphaned == SessionSpec => []NoOrphanMessage
  BY SessionInvariance, OrphansInv, PTL

\* Who has taken everything sent to it tracks exactly the other players present.
THEOREM RostersConverge == SessionSpec => []RosterConverges
  BY SessionInvariance, RosterInv, PTL

\* It shows the others with the HP the host has on file; its own is the engine's.
THEOREM HealthIsShown == SessionSpec => []HealthConverges
  BY SessionInvariance, FilesInv, PTL

\* It dresses the others in the look the host has on file.
THEOREM LooksAreShown == SessionSpec => []LookConverges
  BY SessionInvariance, FilesInv, PTL

\* Every scoreboard shows the score on file, as long as no player is in the session
\* on two connections: those share a record, and only one of them is announced.
THEOREM ScoresAreShown ==
    ASSUME OneConnectionEach
    PROVE  SessionSpec => []StatsConverge
  <1>1. SessionInv => StatsConverge
    BY FilesInv
  <1> QED
    BY <1>1, SessionInvariance, PTL

-----------------------------------------------------------------------------
(* The look pushed last wins.                                                *)

\* What a client has on its way to the host: hits and nothing else; a look, with
\* nothing but hits behind it; no hello but the very first message.
OnlyHits(q) == \A j \in 1..Len(q) : q[j].type = "Hit"
Pending(q, look) ==
    \E i \in 1..Len(q) : q[i] = AppearanceReq(look) /\ \A j \in (i + 1)..Len(q) : q[j].type = "Hit"
HelloFirst(q) == \A j \in 2..Len(q) : q[j].type # "Hello"

\* Once the host has read a client's hello the client's id is bound to its player.
\* The look the client pushed last is either still on its way, behind the hello and
\* behind every other look, or on file under the id and in the player's record.
LatestLookAt(c) ==
    /\ link[c] \in {"idle", "accepted"} => ~helloSent[c]
    /\ ~helloSent[c] => toHost[c] = <<>> /\ localLook[c] = NoLook
    /\ HelloFirst(toHost[c])
    /\ IsRegistered(c) /\ helloSent[c] /\ (toHost[c] = <<>> \/ Head(toHost[c]).type # "Hello") =>
         guidByNetId[connToNetId[c]] = Player[c]
    /\ IsRegistered(c) /\ localLook[c] # NoLook =>
         \/ Pending(toHost[c], localLook[c])
         \/ /\ OnlyHits(toHost[c])
            /\ appearanceByNetId[connToNetId[c]] = localLook[c]
            /\ records[Player[c]].look = localLook[c]

LatestLook == \A c \in Conn : LatestLookAt(c)

LEMMA Hitting ==
    ASSUME NEW M, NEW q \in Seq(M), NEW hits \in Seq(M), OnlyHits(hits), NEW look
    PROVE  /\ OnlyHits(q) => OnlyHits(q \o hits)
           /\ Pending(q, look) => Pending(q \o hits, look)
           /\ HelloFirst(q) => HelloFirst(q \o hits)
  <1>1. /\ Len(q) \in Nat /\ Len(hits) \in Nat /\ Len(q \o hits) = Len(q) + Len(hits)
        /\ \A j \in 1..Len(q) : (q \o hits)[j] = q[j]
        /\ \A j \in (Len(q) + 1)..Len(q \o hits) : (q \o hits)[j] = hits[j - Len(q)]
    OBVIOUS
  <1>2. \A j \in (Len(q) + 1)..Len(q \o hits) : (q \o hits)[j].type = "Hit"
    BY <1>1 DEF OnlyHits
  <1> DEFINE r == q \o hits
  <1> HIDE DEF r
  <1>3. OnlyHits(q) => OnlyHits(r)
    BY <1>1, <1>2 DEF OnlyHits, r
  <1>4. ASSUME Pending(q, look) PROVE Pending(r, look)
    <2>1. PICK i \in 1..Len(q) : q[i] = AppearanceReq(look) /\ \A j \in (i + 1)..Len(q) : q[j].type = "Hit"
      BY <1>4 DEF Pending
    <2>2. i \in 1..Len(r) /\ r[i] = AppearanceReq(look)
      BY <1>1, <2>1 DEF r
    <2>3. \A j \in (i + 1)..Len(r) : r[j].type = "Hit"
      <3> SUFFICES ASSUME NEW j \in (i + 1)..Len(r) PROVE r[j].type = "Hit"
        OBVIOUS
      <3>1. CASE j \in (i + 1)..Len(q)
        BY <1>1, <2>1, <3>1 DEF r
      <3>2. CASE j \in (Len(q) + 1)..Len(r)
        BY <1>2, <3>2 DEF r
      <3> QED
        BY <1>1, <3>1, <3>2
    <2> QED
      BY <2>2, <2>3 DEF Pending
  <1>5. ASSUME HelloFirst(q) PROVE HelloFirst(r)
    <2> SUFFICES ASSUME NEW j \in 2..Len(r) PROVE r[j].type # "Hello"
      BY DEF HelloFirst
    <2>1. CASE j \in 2..Len(q)
      BY <1>1, <1>5, <2>1 DEF HelloFirst, r
    <2>2. CASE j \in (Len(q) + 1)..Len(r)
      BY <1>2, <2>2 DEF r
    <2> QED
      BY <1>1, <2>1, <2>2
  <1> QED
    BY <1>3, <1>4, <1>5 DEF r

LEMMA Dressing ==
    ASSUME NEW M, NEW q \in Seq(M), NEW look, AppearanceReq(look) \in M
    PROVE  LET r == q \o <<AppearanceReq(look)>>
           IN  /\ r \in Seq(M) /\ r # <<>> /\ Len(r) = Len(q) + 1
               /\ q # <<>> => Head(r) = Head(q)
               /\ q = <<>> => Head(r) = AppearanceReq(look)
               /\ Pending(r, look)
               /\ HelloFirst(q) => HelloFirst(r)
  <1> DEFINE m == AppearanceReq(look)
             r == q \o <<m>>
  <1>1. m.type = "Appearance"
    BY DEF AppearanceReq
  <1> HIDE DEF m
  <1>2. /\ r \in Seq(M) /\ Len(q) \in Nat /\ Len(r) = Len(q) + 1 /\ r[Len(r)] = m
        /\ \A j \in 1..Len(q) : r[j] = q[j]
    BY DEF m
  <1>3. r # <<>> /\ (q # <<>> => Head(r) = Head(q)) /\ (q = <<>> => Head(r) = m)
    BY <1>2
  <1> HIDE DEF r
  <1>4. Pending(r, look)
    <2>1. Len(r) \in 1..Len(r) /\ \A j \in (Len(r) + 1)..Len(r) : FALSE
      BY <1>2
    <2> QED
      BY <1>2, <2>1 DEF Pending, m
  <1>5. HelloFirst(q) => HelloFirst(r)
    BY <1>1, <1>2 DEF HelloFirst
  <1> QED
    BY <1>2, <1>3, <1>4, <1>5 DEF r, m

LEMMA Reading ==
    ASSUME NEW M, NEW q \in Seq(M), q # <<>>, NEW look
    PROVE  /\ OnlyHits(q) => Head(q).type = "Hit" /\ OnlyHits(Tail(q))
           /\ Pending(q, look) => \/ Pending(Tail(q), look)
                                  \/ Head(q) = AppearanceReq(look) /\ OnlyHits(Tail(q))
           /\ HelloFirst(q) => /\ HelloFirst(Tail(q))
                               /\ Tail(q) # <<>> => Head(Tail(q)).type # "Hello"
  <1> DEFINE r == Tail(q)
  <1>1. /\ r \in Seq(M) /\ Len(r) \in Nat /\ Len(q) = Len(r) + 1 /\ Head(q) = q[1]
        /\ \A j \in 1..Len(r) : r[j] = q[j + 1]
    OBVIOUS
  <1>2. r # <<>> => Head(r) = r[1] /\ 1 \in 1..Len(r)
    BY <1>1
  <1> HIDE DEF r
  <1>3. OnlyHits(q) => Head(q).type = "Hit" /\ OnlyHits(r)
    BY <1>1 DEF OnlyHits
  <1>4. ASSUME Pending(q, look)
        PROVE  Pending(r, look) \/ (Head(q) = AppearanceReq(look) /\ OnlyHits(r))
    <2>1. PICK i \in 1..Len(q) : q[i] = AppearanceReq(look) /\ \A j \in (i + 1)..Len(q) : q[j].type = "Hit"
      BY <1>4 DEF Pending
    <2>2. \A j \in i..Len(r) : j \in 1..Len(r) /\ j + 1 \in (i + 1)..Len(q) /\ r[j].type = "Hit"
      BY <1>1, <2>1
    <2>3. CASE i = 1
      BY <1>1, <2>1, <2>2, <2>3 DEF OnlyHits
    <2>4. CASE i # 1
      <3>1. i - 1 \in 1..Len(r) /\ (i - 1) + 1 = i /\ r[i - 1] = AppearanceReq(look)
        BY <1>1, <2>1, <2>4
      <3> QED
        BY <2>2, <3>1, Zenon DEF Pending
    <2> QED
      BY <2>3, <2>4
  <1>5. ASSUME HelloFirst(q)
        PROVE  HelloFirst(r) /\ (r # <<>> => Head(r).type # "Hello")
    <2>1. \A j \in 1..Len(r) : j + 1 \in 2..Len(q) /\ r[j].type # "Hello"
      BY <1>1, <1>5 DEF HelloFirst
    <2>2. HelloFirst(r)
      BY <1>1, <2>1 DEF HelloFirst
    <2> QED
      BY <1>2, <2>1, <2>2
  <1> QED
    BY <1>3, <1>4, <1>5 DEF r

\* What the store's operations do to the looks on file.
LEMMA StoreLooks ==
    ASSUME NEW store \in [Guid -> Record], NEW g \in Guid, NEW h \in Guid
    PROVE  /\ EnsureRecord(store, g)[h].look = store[h].look
           /\ RecordKill(store, g)[h].look = store[h].look
           /\ RecordDeath(store, g)[h].look = store[h].look
           /\ \A l : UpsertAppearance(store, g, l)[h].look = IF h = g THEN l ELSE store[h].look
  <1>1. store[g] \in Record /\ store[h] \in Record
    OBVIOUS
  <1>2. EnsureRecord(store, g)[h].look = store[h].look
    BY <1>1 DEF EnsureRecord, Record
  <1>3. RecordKill(store, g)[h].look = store[h].look
    BY <1>1 DEF RecordKill, Record
  <1>4. RecordDeath(store, g)[h].look = store[h].look
    BY <1>1 DEF RecordDeath, Record
  <1>5. ASSUME NEW l
        PROVE  UpsertAppearance(store, g, l)[h].look = IF h = g THEN l ELSE store[h].look
    BY <1>1 DEF UpsertAppearance, Record
  <1> QED
    BY <1>2, <1>3, <1>4, <1>5

\* A step that leaves a connection's id, and the identity and look on file for it.
FileStands(c) ==
    /\ connToNetId'[c] = connToNetId[c]
    /\ IsRegistered(c) =>
         /\ guidByNetId'[connToNetId[c]] = guidByNetId[connToNetId[c]]
         /\ appearanceByNetId'[connToNetId[c]] = appearanceByNetId[connToNetId[c]]
         /\ records'[Player[c]].look = records[Player[c]].look

LEMMA FileStandsKeeps ==
    ASSUME NEW c \in Conn, LatestLookAt(c), FileStands(c),
           toHost'[c] = toHost[c], helloSent'[c] = helloSent[c], localLook'[c] = localLook[c],
           link'[c] \in {"idle", "accepted"} => link[c] \in {"idle", "accepted"}
    PROVE  LatestLookAt(c)'
  <1>1. IsRegistered(c)' <=> IsRegistered(c)
    BY DEF FileStands, IsRegistered
  <1>2. OnlyHits(toHost'[c]) <=> OnlyHits(toHost[c])
    OBVIOUS
  <1>3. Pending(toHost'[c], localLook'[c]) <=> Pending(toHost[c], localLook[c])
    OBVIOUS
  <1>4. HelloFirst(toHost'[c]) <=> HelloFirst(toHost[c])
    OBVIOUS
  <1> QED
    BY <1>1, <1>2, <1>3, <1>4 DEF LatestLookAt, FileStands

\* Registered connections have ids of their own and, under OneConnectionEach, players
\* of their own.
LEMMA IdsApart ==
    ASSUME SessionInv, NEW c \in Registered
    PROVE  /\ c \in Conn /\ connToNetId[c] \in NetId /\ connToNetId[c] # HostId
           /\ connToNetId[c] \in PresentIds /\ Player[c] \in Guid
           /\ \A d \in Registered \ {c} : connToNetId[d] # connToNetId[c]
           /\ OneConnectionEach =>
                \A n \in PresentIds \ {connToNetId[c]} : guidByNetId[n] # Player[c]
  <1>1. c \in Conn /\ connToNetId[c] \in PresentIds /\ connToNetId[c] # HostId
    BY DEF SessionInv, IInv, NetIdsAreUnique, PresentIds, Registered, HostId
  <1>2. connToNetId[c] \in NetId
    BY <1>1, IdsInUse DEF SessionInv
  <1>3. Player[c] \in Guid /\ Player[c] # HostGuid /\ Player[c] # NoGuid
    BY <1>1, PlayerAssumption, NoneAssumption
  <1>4. \A d \in Registered \ {c} : connToNetId[d] # connToNetId[c]
    BY DEF SessionInv, IInv, NetIdsAreUnique
  <1>5. ASSUME OneConnectionEach, NEW n \in PresentIds \ {connToNetId[c]}
        PROVE  guidByNetId[n] # Player[c]
    <2>1. CASE n = HostId
      BY <1>3, <2>1 DEF SessionInv, Identities
    <2>2. ASSUME NEW d \in Registered, n = connToNetId[d] PROVE guidByNetId[n] # Player[c]
      BY <1>3, <1>5, <2>2 DEF SessionInv, Identities
    <2> QED
      BY <2>1, <2>2 DEF PresentIds
  <1> QED
    BY <1>1, <1>2, <1>3, <1>4, <1>5

LEMMA CombatKeepsFile ==
    ASSUME SessionInv, NEW c \in Conn, NEW v \in NetId, NEW d, NEW s \in NetId,
           HostApplyDamage(v, d, s)
    PROVE  FileStands(c)
  <1>1. UNCHANGED <<connToNetId, guidByNetId, appearanceByNetId>>
    BY DEF HostApplyDamage, presenceVars, identityVars
  <1>2. Player[c] \in Guid
    BY PlayerAssumption
  <1>3. records'[Player[c]].look = records[Player[c]].look
    <2>1. records \in [Guid -> Record] /\ guidByNetId \in [NetId -> Guid \cup {NoGuid}]
      BY DEF SessionInv, IInv, TypeOK
    <2>2. /\ StoreAfterDeath(v) \in [Guid -> Record]
          /\ StoreAfterDeath(v)[Player[c]].look = records[Player[c]].look
      BY <1>2, <2>1, StoreTypes, StoreLooks DEF StoreAfterDeath, IsBound
    <2>3. StoreAfterKill(v, s)[Player[c]].look = records[Player[c]].look
      BY <1>2, <2>1, <2>2, StoreLooks DEF StoreAfterKill, IsBound
    <2>4. records' = records \/ records' = StoreAfterKill(v, s)
      BY DEF HostApplyDamage, Kill
    <2> QED
      BY <2>3, <2>4
  <1> QED
    BY <1>1, <1>3 DEF FileStands

LEMMA LookKeepsFile ==
    ASSUME SessionInv, OneConnectionEach, NEW c \in Conn, NEW n \in PresentIds, NEW l \in Look,
           c \in Registered => connToNetId[c] # n,
           StoreLook(n, l), UNCHANGED <<presenceVars, identityVars>>
    PROVE  FileStands(c)
  <1> SUFFICES ASSUME c \in Registered PROVE FileStands(c)
    BY DEF FileStands, Registered, presenceVars
  <1>1. /\ UNCHANGED <<connToNetId, guidByNetId>>
        /\ appearanceByNetId' = [appearanceByNetId EXCEPT ![n] = l]
        /\ records' = IF IsBound(n) THEN UpsertAppearance(records, guidByNetId[n], l) ELSE records
    BY DEF StoreLook, presenceVars, identityVars
  <1>2. /\ connToNetId[c] \in NetId /\ Player[c] \in Guid /\ guidByNetId[n] # Player[c]
        /\ n \in NetId
    BY IdsApart, IdsInUse DEF SessionInv
  <1>3. appearanceByNetId'[connToNetId[c]] = appearanceByNetId[connToNetId[c]]
    BY <1>1, <1>2 DEF SessionInv, IInv, TypeOK
  <1>4. records'[Player[c]].look = records[Player[c]].look
    <2>1. records \in [Guid -> Record] /\ guidByNetId[n] \in Guid \cup {NoGuid}
      BY <1>2 DEF SessionInv, IInv, TypeOK
    <2> QED
      BY <1>1, <1>2, <2>1, StoreLooks DEF IsBound
  <1> QED
    BY <1>1, <1>3, <1>4 DEF FileStands

LEMMA HelloKeepsFile ==
    ASSUME SessionInv, NEW c \in Conn, NEW d \in Conn, d # c, NEW g \in Guid, HostHandleHello(d, g)
    PROVE  FileStands(c)
  <1>1. UNCHANGED connToNetId
    BY DEF HostHandleHello, presenceVars
  <1> SUFFICES ASSUME c \in Registered PROVE FileStands(c)
    BY <1>1 DEF FileStands, Registered
  <1> DEFINE n == connToNetId[d]
  <1>2. connToNetId[c] \in NetId /\ connToNetId[c] # n /\ Player[c] \in Guid
    BY IdsApart DEF HostHandleHello, Registered
  <1>3. guidByNetId' = [guidByNetId EXCEPT ![n] = g] /\ records' = EnsureRecord(records, g)
    BY DEF HostHandleHello
  <1>4. \/ appearanceByNetId' = appearanceByNetId
        \/ \E l : appearanceByNetId' = [appearanceByNetId EXCEPT ![n] = l]
    BY DEF HostHandleHello
  <1> HIDE DEF n
  <1>5. guidByNetId'[connToNetId[c]] = guidByNetId[connToNetId[c]]
    BY <1>2, <1>3 DEF SessionInv, IInv, TypeOK
  <1>6. appearanceByNetId'[connToNetId[c]] = appearanceByNetId[connToNetId[c]]
    BY <1>2, <1>4 DEF SessionInv, IInv, TypeOK
  <1>7. records'[Player[c]].look = records[Player[c]].look
    BY <1>2, <1>3, StoreLooks DEF SessionInv, IInv, TypeOK
  <1> QED
    BY <1>1, <1>5, <1>6, <1>7 DEF FileStands

LEMMA ComeAndGoKeepsFile ==
    ASSUME SessionInv, NEW c \in Conn, NEW d \in Conn, d # c,
           HostOnClientConnected(d) \/ HostOnClientGone(d)
    PROVE  FileStands(c)
  <1>1. CASE HostOnClientConnected(d)
    <2>1. /\ UNCHANGED <<guidByNetId, appearanceByNetId, records>>
          /\ connToNetId' = [connToNetId EXCEPT ![d] = nextNetId]
      BY <1>1 DEF HostOnClientConnected, FreshNetId, identityVars
    <2> QED
      BY <2>1 DEF FileStands, SessionInv, IInv, TypeOK
  <1>2. CASE HostOnClientGone(d)
    <2> DEFINE n == connToNetId[d]
    <2>1. /\ records' = records
          /\ connToNetId' = [connToNetId EXCEPT ![d] = NoNetId]
          /\ guidByNetId' = [guidByNetId EXCEPT ![n] = NoGuid]
          /\ appearanceByNetId' = [appearanceByNetId EXCEPT ![n] = NoLook]
          /\ d \in Registered
      BY <1>2 DEF HostOnClientGone, Forget, Registered
    <2>2. IsRegistered(c) => connToNetId[c] \in NetId /\ connToNetId[c] # n
      BY <2>1, IdsApart DEF Registered
    <2> HIDE DEF n
    <2>3. connToNetId'[c] = connToNetId[c]
      BY <2>1 DEF SessionInv, IInv, TypeOK
    <2>4. IsRegistered(c) =>
            /\ guidByNetId'[connToNetId[c]] = guidByNetId[connToNetId[c]]
            /\ appearanceByNetId'[connToNetId[c]] = appearanceByNetId[connToNetId[c]]
      BY <2>1, <2>2 DEF SessionInv, IInv, TypeOK
    <2> QED
      BY <2>1, <2>3, <2>4 DEF FileStands
  <1> QED
    BY <1>1, <1>2

\* ClientPump: the hello goes first, then the look, then the hits.
LEMMA PumpKeepsLook ==
    ASSUME SessionInv, LatestLook, NEW c \in Conn, ClientPump(c)
    PROVE  LatestLookAt(c)'
  <1> DEFINE q == toHost[c]
             R == Request(c)
  <1>1. PICK looks \in PushedLooks(c), hits \in PushedHits(c) :
           /\ Pushed(c, looks, hits)
           /\ toHost' = [toHost EXCEPT ![c] = q \o PumpOrder(c, looks, hits)]
    BY DEF ClientPump
  <1>2. /\ link[c] = "up" /\ link' = link /\ helloSent' = [helloSent EXCEPT ![c] = TRUE]
        /\ UNCHANGED hostVars
    BY DEF ClientPump
  <1>3. q \in Seq(R) /\ DOMAIN toHost = Conn /\ c \in Endpoint
    BY DEF SessionInv, SessionTypes, Endpoint
  <1> DEFINE a == SendLocalAppearance(looks)
             q1 == q \o SendLocalHello(c)
             q2 == q1 \o a
             q3 == q2 \o hits
  <1>4. hits \in Seq(R) /\ OnlyHits(hits)
    <2>1. \A n \in NetId, d \in ClaimedDamage : HitReq(n, d) \in R /\ HitReq(n, d).type = "Hit"
      <3>1. \A n \in NetId, d \in ClaimedDamage : HitReq(n, d) \in R
        BY DEF Request
      <3>2. \A n, d : HitReq(n, d).type = "Hit"
        BY DEF HitReq
      <3> QED
        BY <3>1, <3>2
    <2>2. hits = <<>> \/ \E n \in NetId, d \in ClaimedDamage : hits = <<HitReq(n, d)>>
      BY DEF PushedHits, Targets
    <2>3. ASSUME NEW h \in R, h.type = "Hit" PROVE <<h>> \in Seq(R) /\ OnlyHits(<<h>>)
      BY <2>3 DEF OnlyHits
    <2>4. <<>> \in Seq(R) /\ OnlyHits(<<>>)
      BY DEF OnlyHits
    <2> QED
      BY <2>1, <2>2, <2>3, <2>4
  <1>5. /\ q1 \in Seq(R) /\ HelloFirst(q1)
        /\ helloSent[c] => q1 = q
        /\ ~helloSent[c] => q1 # <<>> /\ Head(q1).type = "Hello"
    <2>1. HelloReq(Player[c]) \in R /\ HelloReq(Player[c]).type = "Hello"
      BY DEF Request, HelloReq
    <2>2. HelloFirst(q) /\ (~helloSent[c] => q = <<>>)
      BY DEF LatestLook, LatestLookAt
    <2>3. CASE helloSent[c]
      BY <1>3, <2>2, <2>3 DEF SendLocalHello
    <2>4. CASE ~helloSent[c]
      <3> DEFINE h == HelloReq(Player[c])
      <3>1. q1 = <<h>>
        <4>1. SendLocalHello(c) = <<h>> /\ q = <<>>
          BY <2>2, <2>4 DEF SendLocalHello
        <4> HIDE DEF h, q
        <4> QED
          BY <4>1
      <3>2. h \in R /\ h.type = "Hello"
        BY <2>1
      <3> HIDE DEF h, q1
      <3>3. q1 \in Seq(R) /\ Len(q1) = 1 /\ q1 # <<>> /\ Head(q1) = h
        BY <3>1, <3>2
      <3>4. HelloFirst(q1)
        BY <3>3 DEF HelloFirst
      <3> QED
        BY <2>4, <3>2, <3>3, <3>4
    <2> QED
      BY <2>3, <2>4
  <1>6. a \in Seq(R)
    BY PumpType DEF SessionInv, SendLocalAppearance, PushedLooks, Request
  <1>7. /\ q2 \in Seq(R) /\ HelloFirst(q2)
        /\ q1 # <<>> => q2 # <<>> /\ Head(q2) = Head(q1)
        /\ looks = <<>> => q2 = q1
        /\ looks # <<>> => Pending(q2, looks[1])
    <2>1. CASE looks = <<>>
      <3>1. a = <<>>
        BY <2>1 DEF SendLocalAppearance
      <3> HIDE DEF a, q1
      <3> QED
        BY <1>5, <2>1, <3>1
    <2>2. ASSUME NEW l \in Look, looks = <<l>>
          PROVE  /\ q2 \in Seq(R) /\ HelloFirst(q2)
                 /\ q1 # <<>> => q2 # <<>> /\ Head(q2) = Head(q1)
                 /\ looks # <<>> /\ Pending(q2, looks[1])
      <3>1. looks[1] = l /\ DOMAIN looks = 1..1 /\ looks # <<>>
        BY <2>2
      <3>2. a = <<AppearanceReq(l)>>
        BY <3>1 DEF SendLocalAppearance
      <3>3. AppearanceReq(l) \in R
        BY DEF Request
      <3> HIDE DEF q1, a, R
      <3>4. q2 = q1 \o <<AppearanceReq(l)>>
        BY <3>2
      <3> QED
        BY <1>5, <3>1, <3>3, <3>4, Dressing
    <2> QED
      BY <2>1, <2>2 DEF PushedLooks
  <1> HIDE DEF q1, q2, a
  <1>8. /\ q3 \in Seq(R) /\ HelloFirst(q3)
        /\ q2 # <<>> => q3 # <<>> /\ Head(q3) = Head(q2)
        /\ \A l : Pending(q2, l) => Pending(q3, l)
        /\ OnlyHits(q2) => OnlyHits(q3)
    <2>1. q3 \in Seq(R) /\ (q2 # <<>> => q3 # <<>> /\ Head(q3) = Head(q2))
      BY <1>4, <1>7
    <2> QED
      BY <1>4, <1>7, <2>1, Hitting
  <1>9. toHost'[c] = q3
    <2> HIDE DEF q
    <2> DEFINE h == SendLocalHello(c)
    <2>1. h \in Seq(R)
      <3>1. HelloReq(Player[c]) \in R
        BY DEF Request
      <3> QED
        BY <3>1 DEF SendLocalHello
    <2>2. toHost'[c] = q \o PumpOrder(c, looks, hits)
      BY <1>1, <1>3
    <2>3. PumpOrder(c, looks, hits) = (h \o a) \o hits
      BY DEF PumpOrder, a
    <2> HIDE DEF h, R
    <2>4. q \o ((h \o a) \o hits) = ((q \o h) \o a) \o hits
      BY <1>3, <1>4, <1>6, <2>1
    <2> QED
      BY <2>2, <2>3, <2>4 DEF q1, q2, h
  <1> HIDE DEF q3
  <1>10. helloSent'[c] = TRUE /\ link'[c] = "up"
    BY <1>2 DEF SessionInv, SessionTypes
  <1>11. IsRegistered(c) /\ (q3 = <<>> \/ Head(q3).type # "Hello") =>
            guidByNetId[connToNetId[c]] = Player[c]
    <2>1. helloSent[c] => q = q1
      BY <1>5
    <2>2. IsRegistered(c) /\ helloSent[c] /\ (q = <<>> \/ Head(q).type # "Hello") =>
            guidByNetId[connToNetId[c]] = Player[c]
      BY DEF LatestLook, LatestLookAt
    <2> HIDE DEF q
    <2>3. (q3 = <<>> \/ Head(q3).type # "Hello") => (q1 = <<>> \/ Head(q1).type # "Hello")
      BY <1>7, <1>8
    <2> QED
      BY <1>5, <2>1, <2>2, <2>3
  <1>12. IsRegistered(c) /\ localLook'[c] # NoLook =>
         \/ Pending(q3, localLook'[c])
         \/ /\ OnlyHits(q3)
            /\ appearanceByNetId[connToNetId[c]] = localLook'[c]
            /\ records[Player[c]].look = localLook'[c]
    <2>1. CASE looks # <<>>
      <3>1. localLook'[c] = looks[1]
        BY <1>1, <1>3, <2>1 DEF Pushed, SessionInv, SessionTypes
      <3> QED
        BY <1>7, <1>8, <2>1, <3>1
    <2>2. CASE looks = <<>>
      <3>1. localLook' = localLook
        BY <1>1, <2>2 DEF Pushed
      <3>2. localLook[c] # NoLook => q2 = q
        BY <1>5, <1>7, <2>2 DEF LatestLook, LatestLookAt
      <3>3. IsRegistered(c) /\ localLook[c] # NoLook =>
              \/ Pending(q, localLook[c])
              \/ /\ OnlyHits(q)
                 /\ appearanceByNetId[connToNetId[c]] = localLook[c]
                 /\ records[Player[c]].look = localLook[c]
        BY DEF LatestLook, LatestLookAt
      <3> HIDE DEF q
      <3> QED
        BY <1>8, <3>1, <3>2, <3>3
    <2> QED
      BY <2>1, <2>2
  <1>13. UNCHANGED <<connToNetId, guidByNetId, appearanceByNetId, records>>
    BY <1>2 DEF hostVars, presenceVars, identityVars
  <1> QED
    BY <1>8, <1>9, <1>10, <1>11, <1>12, <1>13 DEF LatestLookAt, IsRegistered

\* PollMessages: the hello binds the id, a look goes on file and, the id being bound
\* by then, in the player's record, and hits change neither.
LEMMA PollKeepsLook ==
    ASSUME SessionInv, LatestLook, NEW c \in Conn, PollMessages(c)
    PROVE  LatestLookAt(c)'
  <1> DEFINE q == toHost[c]
             m == Head(q)
             r == Tail(q)
             n == connToNetId[c]
             R == Request(c)
  <1>1. /\ q # <<>> /\ toHost' = [toHost EXCEPT ![c] = r]
        /\ UNCHANGED <<link, helloSent, localLook>>
    BY DEF PollMessages, clientVars
  <1>2. q \in Seq(R) /\ toHost'[c] = r /\ m \in R
    BY <1>1 DEF SessionInv, SessionTypes
  <1>3. helloSent[c] /\ link[c] \notin {"idle", "accepted"}
    <2>1. ~helloSent[c] => q = <<>>
      BY DEF LatestLook, LatestLookAt
    <2> QED
      BY <1>1, <2>1 DEF LatestLook, LatestLookAt
  <1>4. HelloFirst(r) /\ (r # <<>> => Head(r).type # "Hello")
    <2>1. HelloFirst(q)
      BY DEF LatestLook, LatestLookAt
    <2> QED
      BY <1>1, <1>2, <2>1, Reading
  <1>5. IsRegistered(c) /\ m.type # "Hello" => guidByNetId[n] = Player[c]
    BY <1>3 DEF LatestLook, LatestLookAt
  <1>6. IsRegistered(c) /\ localLook[c] # NoLook =>
          \/ Pending(r, localLook[c])
          \/ m = AppearanceReq(localLook[c]) /\ OnlyHits(r)
          \/ /\ OnlyHits(r) /\ m.type = "Hit"
             /\ appearanceByNetId[n] = localLook[c]
             /\ records[Player[c]].look = localLook[c]
    <2>1. IsRegistered(c) /\ localLook[c] # NoLook =>
              \/ Pending(q, localLook[c])
              \/ /\ OnlyHits(q)
                 /\ appearanceByNetId[n] = localLook[c]
                 /\ records[Player[c]].look = localLook[c]
      BY DEF LatestLook, LatestLookAt
    <2> HIDE DEF q, n
    <2> QED
      BY <1>1, <1>2, <2>1, Reading
  <1> HIDE DEF q, r, n, m
  <1>7. ASSUME connToNetId' = connToNetId,
               IsRegistered(c) => guidByNetId'[n] = Player[c],
               IsRegistered(c) /\ localLook[c] # NoLook =>
                 \/ Pending(r, localLook[c])
                 \/ /\ OnlyHits(r)
                    /\ appearanceByNetId'[n] = localLook[c]
                    /\ records'[Player[c]].look = localLook[c]
        PROVE  LatestLookAt(c)'
    BY <1>1, <1>2, <1>3, <1>4, <1>7 DEF LatestLookAt, IsRegistered, n
  <1>8. CASE m.type = "Hello" /\ HostHandleHello(c, m.guid)
    <2>1. m.guid = Player[c] /\ \A l : m # AppearanceReq(l)
      BY <1>2, <1>8 DEF Request, HelloReq, AppearanceReq, HitReq
    <2>2. /\ connToNetId' = connToNetId
          /\ guidByNetId' = [guidByNetId EXCEPT ![n] = Player[c]]
          /\ IsRegistered(c)
      BY <1>8, <2>1 DEF HostHandleHello, presenceVars, n
    <2>3. guidByNetId'[n] = Player[c]
      <3>1. n \in NetId
        BY <2>2, IdsApart DEF Registered, n
      <3> QED
        BY <2>2, <3>1 DEF SessionInv, IInv, TypeOK
    <2>4. localLook[c] # NoLook => Pending(r, localLook[c])
      BY <1>6, <1>8, <2>1, <2>2
    <2> QED
      BY <1>7, <2>2, <2>3, <2>4
  <1>9. CASE m.type = "Appearance" /\ HostHandleAppearance(c, m.look)
    <2>1. /\ IsRegistered(c) /\ StoreLook(n, m.look)
          /\ UNCHANGED <<connToNetId, guidByNetId>>
      BY <1>9 DEF HostHandleAppearance, presenceVars, identityVars, n
    <2>2. guidByNetId[n] = Player[c] /\ n \in NetId /\ Player[c] \in Guid
      BY <1>5, <1>9, <2>1, IdsApart DEF Registered, n
    <2>3. IsBound(n)
      BY <2>2, NoneAssumption DEF IsBound
    <2>4. appearanceByNetId'[n] = m.look /\ records'[Player[c]].look = m.look
      BY <2>1, <2>2, <2>3, StoreLooks DEF StoreLook, SessionInv, IInv, TypeOK
    <2>5. m = AppearanceReq(localLook[c]) => m.look = localLook[c]
      BY DEF AppearanceReq
    <2> QED
      BY <1>6, <1>7, <1>9, <2>1, <2>2, <2>4, <2>5
  <1>10. ASSUME m.type = "Hit", FileStands(c), connToNetId' = connToNetId PROVE LatestLookAt(c)'
    <2>1. \A l : m # AppearanceReq(l)
      BY <1>10 DEF AppearanceReq
    <2>2. IsRegistered(c) =>
            /\ guidByNetId'[n] = guidByNetId[n]
            /\ appearanceByNetId'[n] = appearanceByNetId[n]
            /\ records'[Player[c]].look = records[Player[c]].look
      BY <1>10 DEF FileStands, n
    <2> QED
      BY <1>5, <1>6, <1>7, <1>10, <2>1, <2>2
  <1>11. CASE m.type = "Hit" /\ HostHandleHit(c, m.victim, m.damage)
    <2>1. m.victim \in NetId
      BY <1>2, <1>11 DEF Request, HelloReq, AppearanceReq, HitReq
    <2>2. connToNetId[c] \in NetId
      BY <1>11, IdsApart DEF HostHandleHit, Registered
    <2>3. FileStands(c) /\ connToNetId' = connToNetId
      BY <1>11, <2>1, <2>2, CombatKeepsFile DEF HostHandleHit, HostApplyDamage, presenceVars
    <2> QED
      BY <1>10, <1>11, <2>3
  <1>12. CASE m.type = "Hit" /\ Dropped
    <2>1. FileStands(c) /\ connToNetId' = connToNetId
      BY <1>12 DEF FileStands, Dropped, hostVars, presenceVars, identityVars
    <2> QED
      BY <1>10, <1>12, <2>1
  <1> QED
    BY <1>8, <1>9, <1>11, <1>12 DEF PollMessages, m, q

LEMMA LatestLookKept ==
    ASSUME SessionInv, LatestLook, OneConnectionEach, SessionNext
    PROVE  LatestLook'
  <1> SUFFICES ASSUME NEW c \in Conn PROVE LatestLookAt(c)'
    BY DEF LatestLook
  <1>0. /\ LatestLookAt(c) /\ c \in Endpoint /\ c # Local
        /\ link \in [Conn -> {"idle", "accepted", "up", "closed"}]
        /\ helloSent \in [Conn -> BOOLEAN] /\ DOMAIN toHost = Conn /\ DOMAIN localLook = Endpoint
        /\ connToNetId \in [Conn -> NetId \cup {NoNetId}]
    BY ConnAssumption DEF LatestLook, Endpoint, SessionInv, SessionTypes, IInv, TypeOK
  <1>1. ASSUME FileStands(c), UNCHANGED <<toHost, helloSent, localLook, link>>
        PROVE  LatestLookAt(c)'
    BY <1>0, <1>1, FileStandsKeeps
  <1>2. ASSUME UNCHANGED hostVars PROVE FileStands(c)
    BY <1>2 DEF FileStands, hostVars, presenceVars, identityVars
  <1>3. ASSUME NEW d \in Conn, HostAccepts(d) PROVE LatestLookAt(c)'
    <2>1. /\ HostOnClientConnected(d) /\ link[d] = "idle"
          /\ link' = [link EXCEPT ![d] = "accepted"]
          /\ UNCHANGED <<toHost, helloSent, localLook>>
      BY <1>3 DEF HostAccepts, clientVars
    <2>2. CASE d # c
      <3>1. FileStands(c)
        BY <2>1, <2>2, ComeAndGoKeepsFile
      <3>2. link'[c] = link[c]
        BY <1>0, <2>1, <2>2
      <3> QED
        BY <1>0, <2>1, <3>1, <3>2, FileStandsKeeps
    <2>3. CASE d = c
      <3>1. ~helloSent[c] /\ toHost[c] = <<>> /\ localLook[c] = NoLook
        BY <1>0, <2>1, <2>3 DEF LatestLookAt
      <3> QED
        BY <1>0, <2>1, <3>1 DEF LatestLookAt
    <2> QED
      BY <2>2, <2>3
  <1>4. ASSUME NEW d \in Conn, ConnectionLost(d) PROVE LatestLookAt(c)'
    <2>1. /\ HostOnClientGone(d) /\ link' = [link EXCEPT ![d] = "closed"]
          /\ toHost' = [toHost EXCEPT ![d] = <<>>]
          /\ connToNetId' = [connToNetId EXCEPT ![d] = NoNetId]
          /\ UNCHANGED <<helloSent, localLook>>
      BY <1>4 DEF ConnectionLost, HostOnClientGone, clientVars
    <2>2. CASE d # c
      <3>1. FileStands(c)
        BY <2>1, <2>2, ComeAndGoKeepsFile
      <3>2. link'[c] = link[c] /\ toHost'[c] = toHost[c]
        BY <1>0, <2>1, <2>2
      <3> QED
        BY <1>0, <2>1, <3>1, <3>2, FileStandsKeeps
    <2>3. CASE d = c
      <3>1. toHost'[c] = <<>> /\ link'[c] = "closed" /\ ~IsRegistered(c)'
        BY <1>0, <2>1, <2>3 DEF IsRegistered
      <3>2. ~helloSent[c] => localLook[c] = NoLook
        BY <1>0 DEF LatestLookAt
      <3>3. HelloFirst(<<>>)
        BY DEF HelloFirst
      <3> QED
        BY <2>1, <3>1, <3>2, <3>3 DEF LatestLookAt
    <2> QED
      BY <2>2, <2>3
  <1>5. ASSUME NEW d \in Conn, ClientConnected(d) PROVE LatestLookAt(c)'
    <2>1. /\ link[d] = "accepted" /\ link' = [link EXCEPT ![d] = "up"]
          /\ UNCHANGED <<hostVars, toHost, helloSent, localLook>>
      BY <1>5 DEF ClientConnected, clientVars, channelVars
    <2>2. link'[c] \in {"idle", "accepted"} => link[c] \in {"idle", "accepted"}
      BY <1>0, <2>1
    <2> QED
      BY <1>0, <1>2, <2>1, <2>2, FileStandsKeeps
  <1>6. ASSUME NEW d \in Conn, ClientPump(d) PROVE LatestLookAt(c)'
    <2>1. CASE d = c
      BY <1>6, <2>1, PumpKeepsLook
    <2>2. CASE d # c
      <3>1. toHost'[c] = toHost[c] /\ helloSent'[c] = helloSent[c] /\ localLook'[c] = localLook[c]
        BY <1>0, <1>6, <2>2 DEF ClientPump, Pushed
      <3>2. UNCHANGED <<hostVars, link>>
        BY <1>6 DEF ClientPump
      <3> QED
        BY <1>0, <1>2, <3>1, <3>2, FileStandsKeeps
    <2> QED
      BY <2>1, <2>2
  <1>7. ASSUME NEW d \in Conn, PollMessages(d) PROVE LatestLookAt(c)'
    <2>1. CASE d = c
      BY <1>7, <2>1, PollKeepsLook
    <2>2. CASE d # c
      <3> DEFINE m == Head(toHost[d])
      <3>1. m \in Request(d)
        BY <1>7 DEF PollMessages, SessionInv, SessionTypes
      <3>2. toHost'[c] = toHost[c] /\ UNCHANGED <<helloSent, localLook, link>>
        BY <1>0, <1>7, <2>2 DEF PollMessages, clientVars
      <3>3. CASE m.type = "Hello" /\ HostHandleHello(d, m.guid)
        <4>1. m.guid \in Guid
          BY <3>1, <3>3, PlayerAssumption DEF Request, HelloReq, AppearanceReq, HitReq
        <4>2. FileStands(c)
          BY <2>2, <3>3, <4>1, HelloKeepsFile
        <4> QED
          BY <1>0, <3>2, <4>2, FileStandsKeeps
      <3>4. CASE m.type = "Appearance" /\ HostHandleAppearance(d, m.look)
        <4>1. m.look \in Look
          BY <3>1, <3>4 DEF Request, HelloReq, AppearanceReq, HitReq
        <4> DEFINE n == connToNetId[d]
        <4>2. /\ n \in PresentIds /\ StoreLook(n, m.look)
              /\ UNCHANGED <<presenceVars, identityVars>> /\ d \in Registered
          BY <3>4, RegisteredArePresent DEF HostHandleAppearance, Registered
        <4>3. c \in Registered => connToNetId[c] # n
          BY <2>2, <4>2, IdsApart
        <4> HIDE DEF n
        <4>4. FileStands(c)
          BY <4>1, <4>2, <4>3, LookKeepsFile
        <4> QED
          BY <1>0, <3>2, <4>4, FileStandsKeeps
      <3>5. CASE m.type = "Hit" /\ HostHandleHit(d, m.victim, m.damage)
        <4>1. m.victim \in NetId
          BY <3>1, <3>5 DEF Request, HelloReq, AppearanceReq, HitReq
        <4>2. connToNetId[d] \in NetId
          BY <3>5, IdsApart DEF HostHandleHit, Registered
        <4>3. FileStands(c)
          BY <3>5, <4>1, <4>2, CombatKeepsFile DEF HostHandleHit
        <4> QED
          BY <1>0, <3>2, <4>3, FileStandsKeeps
      <3>6. CASE Dropped
        BY <1>0, <1>2, <3>2, <3>6, FileStandsKeeps DEF Dropped
      <3> QED
        BY <1>7, <3>3, <3>4, <3>5, <3>6 DEF PollMessages
    <2> QED
      BY <2>1, <2>2
  <1>8. ASSUME NEW d \in Conn, Deliver(d) PROVE LatestLookAt(c)'
    BY <1>1, <1>2, <1>8 DEF Deliver, Learn, clientVars
  <1>9. CASE DrainEvents
    BY <1>1, <1>2, <1>9 DEF DrainEvents, Learn, clientVars
  <1>10. CASE HostPumpsLocal
    <2>1. UNCHANGED <<link, helloSent, toHost>>
      BY <1>10 DEF HostPumpsLocal
    <2>2. localLook'[c] = localLook[c]
      BY <1>0, <1>10 DEF HostPumpsLocal, Pushed
    <2>3. HostId \in PresentIds /\ HostId \in NetId /\ (c \in Registered => connToNetId[c] # HostId)
      BY IdsInUse, IdsApart DEF SessionInv
    <2>4. ASSUME NEW l \in Look, HostSendLocalAppearance(l) PROVE FileStands(c)
      BY <2>3, <2>4, LookKeepsFile DEF HostSendLocalAppearance
    <2>5. ASSUME NEW v \in NetId, NEW d, HostSendLocalHit(v, d) PROVE FileStands(c)
      BY <2>3, <2>5, CombatKeepsFile DEF HostSendLocalHit
    <2>6. FileStands(c)
      BY <1>10, <2>4, <2>5 DEF HostPumpsLocal, Targets
    <2> QED
      BY <1>0, <2>1, <2>2, <2>6, FileStandsKeeps
  <1>11. CASE HostServesRespawn
    <2>1. FileStands(c)
      BY <1>11 DEF HostServesRespawn, Respawns, ServiceRespawn, FileStands, presenceVars, identityVars
    <2>2. UNCHANGED <<toHost, helloSent, localLook, link>>
      BY <1>11 DEF HostServesRespawn, clientVars
    <2> QED
      BY <1>1, <2>1, <2>2
  <1> QED
    BY <1>3, <1>4, <1>5, <1>6, <1>7, <1>8, <1>9, <1>10, <1>11 DEF SessionNext

\* Once the host has taken what a client sent, the look it has on file and in the
\* player's record is the one that player's game pushed last, although the hello
\* dressed the player from the record (SendLocalHello before SendLocalAppearance).
THEOREM TheLatestLookWins ==
    ASSUME OneConnectionEach
    PROVE  SessionSpec => []LatestLookWins
  <1>1. SessionInit => LatestLook
    <2>1. HelloFirst(<<>>)
      BY DEF HelloFirst
    <2> QED
      BY <2>1 DEF SessionInit, LatestLook, LatestLookAt, Endpoint
  <1>2. SessionInv /\ LatestLook /\ [SessionNext]_sessionVars => LatestLook'
    <2> SUFFICES ASSUME SessionInv, LatestLook, [SessionNext]_sessionVars PROVE LatestLook'
      OBVIOUS
    <2>1. CASE UNCHANGED sessionVars
      <3> SUFFICES ASSUME NEW c \in Conn PROVE LatestLookAt(c)'
        BY DEF LatestLook
      <3>1. UNCHANGED <<hostVars, link, helloSent, localLook, toHost>>
        BY <2>1 DEF sessionVars, vars, clientVars, channelVars
      <3>2. FileStands(c)
        BY <3>1 DEF FileStands, hostVars, presenceVars, identityVars
      <3> QED
        BY <3>1, <3>2, FileStandsKeeps DEF LatestLook
    <2> QED
      BY <2>1, LatestLookKept
  <1>3. SessionInv /\ LatestLook => LatestLookWins
    <2> SUFFICES ASSUME SessionInv, LatestLook,
                        NEW c \in Conn, link[c] = "up", toHost[c] = <<>>, localLook[c] # NoLook
                 PROVE  /\ appearanceByNetId[connToNetId[c]] = localLook[c]
                        /\ records[Player[c]].look = localLook[c]
      BY DEF LatestLookWins
    <2>1. IsRegistered(c)
      BY DEF SessionInv, Links
    <2>2. ~Pending(<<>>, localLook[c])
      BY DEF Pending
    <2> QED
      BY <2>1, <2>2 DEF LatestLook, LatestLookAt
  <1> QED
    BY <1>1, <1>2, <1>3, SessionInvariance, PTL DEF SessionSpec
=============================================================================
