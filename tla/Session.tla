------------------------------ MODULE Session -------------------------------
(***************************************************************************)
(* A whole session: the host's worker of HostRelay.tla, the clients'        *)
(* workers and game threads, and the connections between them.              *)
(*                                                                          *)
(* Every endpoint, the host's own game thread included, keeps a view of the *)
(* other players (the peer table of CyberRestSystem.reds) that it builds    *)
(* from what the host sends.  The properties say when these views agree     *)
(* with what the host knows.                                                *)
(*                                                                          *)
(* Reliable messages arrive once and in order on each connection.  Movement *)
(* and tracers are unreliable and change nothing a view holds here; they    *)
(* are left out of the channels.                                            *)
(***************************************************************************)
EXTENDS HostRelay

CONSTANTS
    Player,            \* the GUID of the player behind each connection
    OneConnectionEach, \* TRUE: a player reconnects only once the host saw it leave
    MaxPushes,         \* bound: the looks and hits pushed by all the game threads
    MaxLost            \* bound: the connections lost

ASSUME PlayerAssumption == Player \in [Conn -> Guid \ {HostGuid}]
ASSUME OneConnectionAssumption == OneConnectionEach \in BOOLEAN
ASSUME BoundAssumption == MaxPushes \in Nat /\ MaxLost \in Nat

VARIABLES
    link,         \* a connection's life: "idle", "accepted", "up", "closed"
    helloSent,    \* s_helloSent of each client
    localNetId,   \* s_localNetId of each endpoint
    localLook,    \* s_localAppearance of each endpoint: the look last pushed
    pushes,       \* how many looks and hits the game threads pushed (bounded)
    toHost,       \* the messages in flight from each client to the host
    toClient,     \* those from the host to each endpoint
    view          \* each endpoint's view of every player

clientVars  == <<helloSent, localLook, pushes>>
channelVars == <<toHost, toClient>>
viewVars    == <<localNetId, view>>
sessionVars == <<vars, link, clientVars, channelVars, viewVars>>

-----------------------------------------------------------------------------
(* A client's messages, and what a game thread keeps of another player.      *)

HelloReq(g)        == [type |-> "Hello", guid |-> g]
AppearanceReq(l)   == [type |-> "Appearance", look |-> l]
HitReq(n, d)       == [type |-> "Hit", victim |-> n, damage |-> d]

\* CyberRestPeer and, in look, the C++ side's m_peerAppearance.  The entry under
\* an endpoint's own id holds the local V's score.  Its HP is the engine's: a view
\* says nothing of it.
NoPeer == [tracked |-> FALSE, hp |-> MaxHealth, alive |-> TRUE,
           kills |-> 0, deaths |-> 0, look |-> NoLook]

SessionInit ==
    /\ Init
    /\ link = [c \in Conn |-> "idle"]
    /\ helloSent = [c \in Conn |-> FALSE]
    /\ localNetId = [e \in Endpoint |-> IF e = Local THEN HostId ELSE NoNetId]
    /\ localLook = [e \in Endpoint |-> NoLook]
    /\ pushes = 0
    /\ toHost = [c \in Conn |-> <<>>]
    /\ toClient = [e \in Endpoint |-> <<>>]
    /\ view = [e \in Endpoint |-> [n \in NetId |-> NoPeer]]

\* A handler of the host ran: what it sent is on its way.
HostSent == toClient' = [e \in Endpoint |-> toClient[e] \o sent'[e]]

-----------------------------------------------------------------------------
(* Connections come and go.                                                  *)

\* The host's Connected callback registers the newcomer.
HostAccepts(c) ==
    /\ link[c] = "idle"
    /\ OneConnectionEach =>
         \A d \in Conn \ {c} : Player[d] = Player[c] => link[d] \in {"idle", "closed"}
    /\ HostOnClientConnected(c)
    /\ HostSent
    /\ link' = [link EXCEPT ![c] = "accepted"]
    /\ UNCHANGED <<clientVars, toHost, viewVars>>

\* The client's own Connected callback: s_connected is set, its game thread
\* starts to capture and its worker to send.
ClientConnected(c) ==
    /\ link[c] = "accepted"
    /\ link' = [link EXCEPT ![c] = "up"]
    /\ sent' = Silent
    /\ UNCHANGED <<hostVars, clientVars, channelVars, viewVars>>

\* The connection is closed or lost; nothing in flight arrives any more.
ConnectionLost(c) ==
    /\ link[c] \in {"accepted", "up"}
    /\ Cardinality({d \in Conn : link[d] = "closed"}) < MaxLost
    /\ HostOnClientGone(c)
    /\ link' = [link EXCEPT ![c] = "closed"]
    /\ toHost' = [toHost EXCEPT ![c] = <<>>]
    /\ toClient' = [e \in Endpoint |->
          IF e = c THEN <<>> ELSE toClient[e] \o sent'[e]]
    /\ UNCHANGED <<clientVars, viewVars>>

-----------------------------------------------------------------------------
(* A client's worker: one pump sends the hello, then the look, then the hits *)
(* its game thread pushed since the pump before.                             *)

\* The players an endpoint can aim at: the live puppets in its peer table.
Targets(e) == {n \in NetId : view[e][n].tracked /\ view[e][n].alive}

\* What the game thread may have pushed: a look that differs from the last, hits.
PushedLooks(e) == {<<>>} \cup {<<l>> : l \in Look \ {localLook[e]}}
PushedHits(e) == {<<>>} \cup {<<HitReq(n, d)>> : n \in Targets(e), d \in ClaimedDamage}

SendLocalHello(c) == IF helloSent[c] THEN <<>> ELSE <<HelloReq(Player[c])>>
SendLocalAppearance(looks) == [i \in DOMAIN looks |-> AppearanceReq(looks[i])]

PumpOrder_LookFirst(c, looks, hits) ==
    SendLocalAppearance(looks) \o SendLocalHello(c) \o hits
PumpOrder(c, looks, hits) ==
    SendLocalHello(c) \o SendLocalAppearance(looks) \o hits

\* The looks and hits an endpoint's game thread pushed are counted and kept.
Pushed(e, looks, hits) ==
    /\ pushes' = pushes + Len(looks) + Len(hits)
    /\ pushes' <= MaxPushes
    /\ localLook' = IF looks = <<>> THEN localLook
                                    ELSE [localLook EXCEPT ![e] = looks[1]]

ClientPump(c) ==
    /\ link[c] = "up"
    /\ \E looks \in PushedLooks(c), hits \in PushedHits(c) :
         /\ PumpOrder(c, looks, hits) # <<>>
         /\ Pushed(c, looks, hits)
         /\ toHost' = [toHost EXCEPT ![c] = @ \o PumpOrder(c, looks, hits)]
    /\ helloSent' = [helloSent EXCEPT ![c] = TRUE]
    /\ sent' = Silent
    /\ UNCHANGED <<hostVars, link, toClient, viewVars>>

-----------------------------------------------------------------------------
(* The host's worker.                                                        *)

\* The next message of a client goes to its handler, which may drop it.
PollMessages(c) ==
    /\ toHost[c] # <<>>
    /\ LET m == Head(toHost[c]) IN
         \/ m.type = "Hello" /\ HostHandleHello(c, m.guid)
         \/ m.type = "Appearance" /\ HostHandleAppearance(c, m.look)
         \/ m.type = "Hit" /\ HostHandleHit(c, m.victim, m.damage)
         \/ m.type = "Hit" /\ ~HitCounts(m.victim, connToNetId[c]) /\ Dropped
    /\ toHost' = [toHost EXCEPT ![c] = Tail(@)]
    /\ HostSent
    /\ UNCHANGED <<link, clientVars, viewVars>>

\* What the host's own game thread pushed.
HostPumpsLocal ==
    /\ \/ \E l \in Look \ {localLook[Local]} :
            HostSendLocalAppearance(l) /\ Pushed(Local, <<l>>, <<>>)
       \/ \E n \in Targets(Local), d \in ClaimedDamage :
            HostSendLocalHit(n, d) /\ Pushed(Local, <<>>, <<HitReq(n, d)>>)
    /\ HostSent
    /\ UNCHANGED <<link, helloSent, toHost, viewVars>>

HostServesRespawn ==
    /\ Respawns
    /\ HostSent
    /\ UNCHANGED <<link, clientVars, toHost, viewVars>>

-----------------------------------------------------------------------------
(* An endpoint takes a message: the worker's PollMessages filters it, the    *)
(* game thread's OnNetUpdate dispatches it to the reds handler.  The         *)
(* endpoint's knowledge is its own id and its peer table.                    *)

Knowledge(e) == [id |-> localNetId[e], peers |-> view[e]]

\* The first Join a client ever gets is its own id; one about itself or about a
\* peer it tracks is ignored.
OnNetPlayerJoin(k, n) ==
    IF k.id = NoNetId THEN [k EXCEPT !.id = n]
    ELSE IF n = k.id \/ k.peers[n].tracked THEN k
    ELSE [k EXCEPT !.peers[n] = [NoPeer EXCEPT !.tracked = TRUE,
                                                !.look = k.peers[n].look]]

\* What the other messages make of the entry p of the player they are about.
\* There is an entry to change for a tracked peer, and for the local player's score.
\* Its own HP an endpoint hands to the engine (ApplyLocalHealth, in WorldReady.tla).
Updated(p, m, isSelf) ==
    CASE m.type = "Leave" -> NoPeer
      [] m.type = "Appearance" /\ ~isSelf -> [p EXCEPT !.look = m.look]
      [] m.type = "Health" /\ p.tracked -> [p EXCEPT !.hp = m.hp]
      [] m.type = "Stats" /\ (p.tracked \/ isSelf) ->
             [p EXCEPT !.kills = m.kills, !.deaths = m.deaths]
      [] m.type = "Death" /\ p.tracked -> [p EXCEPT !.alive = FALSE, !.hp = 0]
      [] m.type = "Respawn" /\ p.tracked -> [p EXCEPT !.alive = TRUE, !.hp = MaxHealth]
      [] OTHER -> p

Take(k, m) ==
    IF m.type = "Join"
    THEN OnNetPlayerJoin(k, m.netId)
    ELSE [k EXCEPT !.peers[m.netId] = Updated(@, m, m.netId = k.id)]

TakeAll(k, msgs) ==
    LET after[i \in 0..Len(msgs)] == IF i = 0 THEN k ELSE Take(after[i - 1], msgs[i])
    IN  after[Len(msgs)]

Learn(e, k) ==
    /\ localNetId' = [localNetId EXCEPT ![e] = k.id]
    /\ view' = [view EXCEPT ![e] = k.peers]
    /\ sent' = Silent
    /\ UNCHANGED <<hostVars, link, clientVars, toHost>>

\* A client takes the next message the network delivers; its game thread drains
\* nothing before it is connected.
Deliver(c) ==
    /\ link[c] = "up"
    /\ toClient[c] # <<>>
    /\ Learn(c, Take(Knowledge(c), Head(toClient[c])))
    /\ toClient' = [toClient EXCEPT ![c] = Tail(@)]

\* The host's game thread swaps out the whole event queue once a frame.
DrainEvents ==
    /\ toClient[Local] # <<>>
    /\ Learn(Local, TakeAll(Knowledge(Local), toClient[Local]))
    /\ toClient' = [toClient EXCEPT ![Local] = <<>>]

-----------------------------------------------------------------------------
SessionNext ==
    \/ \E c \in Conn : \/ HostAccepts(c) \/ ClientConnected(c) \/ ConnectionLost(c)
                       \/ ClientPump(c) \/ PollMessages(c) \/ Deliver(c)
    \/ DrainEvents
    \/ HostPumpsLocal
    \/ HostServesRespawn

SessionSpec == SessionInit /\ [][SessionNext]_sessionVars

\* The worker pumps and serves respawns every 10 ms, the game thread drains
\* every frame: what is due is served and what has arrived is taken.  For
\* DrainEvents, which empties the queue and is enabled while it is not empty,
\* that the queue is empty infinitely often says the same as weak fairness.
FairSessionSpec ==
    /\ SessionSpec
    /\ WF_sessionVars(HostServesRespawn)
    /\ []<>(toClient[Local] = <<>>)
    /\ \A c \in Conn : WF_sessionVars(Deliver(c))

-----------------------------------------------------------------------------
(* Properties.                                                               *)

\* The endpoints the host talks to: its own game and the clients not closed.
Listening == {Local} \cup {c \in Conn : link[c] \in {"accepted", "up"}}

\* Those that have taken everything the host sent them.
CaughtUp == {e \in Listening : toClient[e] = <<>>}

\* Every endpoint's state holds values of its type; in particular a view never
\* keeps the HP of nobody, nor a look no player can have (the OnNet* handlers).
SessionTypeOK ==
    /\ link \in [Conn -> {"idle", "accepted", "up", "closed"}]
    /\ helloSent \in [Conn -> BOOLEAN]
    /\ localNetId \in [Endpoint -> NetId \cup {NoNetId}]
    /\ localLook \in [Endpoint -> Look \cup {NoLook}]
    /\ pushes \in 0..MaxPushes
    /\ \A e \in Endpoint, n \in NetId :
         /\ view[e][n].hp \in Health
         /\ view[e][n].look \in Look \cup {NoLook}

\* "The client treats the FIRST PlayerJoin it ever receives as its own netId":
\* whatever else happened meanwhile, that message is on top until it is taken,
\* and afterwards the client goes by the id the host knows it under.
KnowsItself ==
    \A c \in Conn : link[c] \in {"accepted", "up"} =>
        \/ localNetId[c] = connToNetId[c]
        \/ /\ localNetId[c] = NoNetId
           /\ toClient[c] # <<>>
           /\ Head(toClient[c]) = JoinMsg(connToNetId[c])

\* Whatever the host says of another player arrives while the endpoint tracks
\* that player: after its Join and before its Leave.  Nothing is addressed to a
\* puppet that is not there yet or already gone, where the reds handlers would
\* ignore it and the view would stay wrong.
NoOrphanMessage ==
    \A c \in Conn :
        toClient[c] # <<>> /\ localNetId[c] # NoNetId =>
            LET m == Head(toClient[c]) IN
            m.netId # localNetId[c] =>
                (m.type = "Join" <=> ~view[c][m.netId].tracked)

\* An endpoint that has caught up tracks exactly the other players present: no
\* puppet is missing and none is a ghost.
RosterConverges ==
    \A e \in CaughtUp :
        {n \in NetId : view[e][n].tracked} = PresentIds \ {localNetId[e]}

\* It shows the others with the HP the host has on file, which joins, damage,
\* deaths and respawns change and the roster of a late joiner repeats.
HealthConverges ==
    \A e \in CaughtUp : \A n \in PresentIds \ {localNetId[e]} :
        view[e][n].hp = healthByNetId[n]

\* It dresses the others in the look the host has on file.
LookConverges ==
    \A e \in CaughtUp : \A n \in PresentIds \ {localNetId[e]} :
        view[e][n].look = appearanceByNetId[n]

\* It shows the score the host keeps for each identified player.  The host's own
\* scoreboard entry for itself is left out: nothing fills it when a save is
\* loaded.
StatsConverge ==
    \A e \in CaughtUp, n \in PresentIds :
        (IsBound(n) /\ ~(e = Local /\ n = HostId)) =>
            /\ view[e][n].kills = records[guidByNetId[n]].kills
            /\ view[e][n].deaths = records[guidByNetId[n]].deaths

\* The look a player wore last wins over the one in its record: once the host
\* has taken everything a client sent, its look on file and in the store is the
\* last one the client pushed, although the host dressed the player from its
\* record when it said hello.
LatestLookWins ==
    \A c \in Conn :
        (link[c] = "up" /\ toHost[c] = <<>> /\ localLook[c] # NoLook) =>
            /\ appearanceByNetId[connToNetId[c]] = localLook[c]
            /\ records[Player[c]].look = localLook[c]

\* Nobody looks at a corpse for ever: a puppet that was shown dying is shown
\* alive again, or goes, or its viewer's connection closes.  The respawn is
\* served by the host and then crosses the network.
DeadPuppetsReturn ==
    \A e \in Endpoint, n \in NetId :
        ~view[e][n].alive ~> (view[e][n].alive \/ e \notin Listening)

-----------------------------------------------------------------------------
(* What comments of the code say of the program and the code does not do.    *)

\* CyberRestSystem.reds: "don't drive a dead puppet (it's ragdolled/defeated
\* until it respawns)": an endpoint that has caught up marks the dead as dead.
DeadAreMarkedDead ==
    \A e \in CaughtUp : \A n \in PresentIds \ {localNetId[e]} :
        healthByNetId[n] = 0 => ~view[e][n].alive

\* NetCore.cpp, HostApplyDamage: "broadcast the updated stats for both players
\* so every scoreboard converges", when one player may hold two connections.
EveryScoreboardConverges == StatsConverge

\* NetCore.cpp, StartHost: "Restore the host's own saved stats into the
\* authoritative broadcast on first tick": the host's own scoreboard shows its
\* saved score sooner or later.
HostScoreIsRestored ==
    <>(/\ view[Local][HostId].kills = records[HostGuid].kills
       /\ view[Local][HostId].deaths = records[HostGuid].deaths)
=============================================================================
