----------------------------- MODULE HostRelay ------------------------------
(***************************************************************************)
(* The host's network worker (NetCore.cpp): the one thread that accepts     *)
(* clients, hands out net ids, owns every player's HP, look, identity and   *)
(* score, and relays what each client reports to the others.                *)
(*                                                                          *)
(* The worker is single threaded (ThreadMain): callbacks, packets and       *)
(* respawns are handled one after the other, so one handler call is one     *)
(* action.  Clients are an environment that may send any message at any     *)
(* time; Session.tla puts real clients and channels in their place.         *)
(***************************************************************************)
EXTENDS Protocol, SequencesExt

CONSTANTS
    Conn,          \* the connection handles GNS gives the host
    Local,         \* the host's own game thread, which gets its NetEvents
    HostGuid,      \* the GUID of the player who hosts
    SavedRecord,   \* the records a save file may hold when the host starts
    MaxStat        \* bound: the largest kill or death count

Stats == [kills : Nat, deaths : Nat]

\* PlayerRecord, with known = FALSE for a GUID that has no entry in s_records.
Record == [known : BOOLEAN, kills : Nat, deaths : Nat,
           look : Look \cup {NoLook}, pos : Pos \cup {NoPos}]

ASSUME ConnAssumption == Local \notin Conn
ASSUME HostGuidAssumption == HostGuid \in Guid
ASSUME SavedRecordAssumption == SavedRecord \subseteq Record
ASSUME MaxStatAssumption == MaxStat \in Nat

VARIABLES
    connToNetId,        \* s_connToNetId: NoNetId for a connection not registered
    nextNetId,          \* s_nextNetId
    healthByNetId,      \* s_healthByNetId
    respawnDueAt,       \* s_respawnDueAt: the ids that have a respawn pending
    guidByNetId,        \* s_guidByNetId
    appearanceByNetId,  \* s_appearanceByNetId
    lastPosSaveAt,      \* s_lastPosSaveAt: the ids whose position was saved before
    records,            \* HostStore::s_records
    sent                \* what the last handler sent, in order, to each endpoint

presenceVars == <<connToNetId, nextNetId>>
combatVars   == <<healthByNetId, respawnDueAt>>
identityVars == <<guidByNetId, lastPosSaveAt>>
hostVars     == <<presenceVars, combatVars, identityVars, appearanceByNetId, records>>
vars         == <<hostVars, sent>>

-----------------------------------------------------------------------------
(* Who is in the session, and sending to them.                               *)

Endpoint == Conn \cup {Local}

IsRegistered(c) == connToNetId[c] # NoNetId
Registered == {c \in Conn : IsRegistered(c)}

\* The players in the session: the host itself and every registered client.
PresentIds == {HostId} \cup {connToNetId[c] : c \in Registered}

\* What a handler sends: to every endpoint a sequence of messages.
Send(to, msgs) == [e \in Endpoint |-> IF e \in to THEN msgs ELSE <<>>]
Then(first, second) == [e \in Endpoint |-> first[e] \o second[e]]

HostBroadcast(msgs) == Send(Registered, msgs)
HostRelayToOthers(c, msgs) == Send(Registered \ {c}, msgs)

\* Broadcast to every client and surface to the host's own game thread.
Announce(msgs) == Send(Registered \cup {Local}, msgs)
\* Relay to the clients other than c and surface to the host's own game thread.
Relay(c, msgs) == Send((Registered \ {c}) \cup {Local}, msgs)

Silent == [e \in Endpoint |-> <<>>]

\* An early return: the handler drops the message and changes nothing.
Dropped == sent' = Silent /\ UNCHANGED hostVars

-----------------------------------------------------------------------------
(* HostStore's in-memory operations, as functions from store to store.  Each *)
(* one creates the record of an unknown GUID (TouchLocked).                  *)

NoRecord == [known |-> FALSE, kills |-> 0, deaths |-> 0, look |-> NoLook, pos |-> NoPos]

EnsureRecord(store, g) == [store EXCEPT ![g].known = TRUE]
UpsertPosition(store, g, p) == [store EXCEPT ![g].known = TRUE, ![g].pos = p]
UpsertAppearance(store, g, l) == [store EXCEPT ![g].known = TRUE, ![g].look = l]
RecordKill(store, g) == [store EXCEPT ![g].known = TRUE, ![g].kills = @ + 1]
RecordDeath(store, g) == [store EXCEPT ![g].known = TRUE, ![g].deaths = @ + 1]

\* GetStats of the GUID bound to an id, 0/0 while the id is not identified.
StatsOf(store, n) ==
    IF guidByNetId[n] = NoGuid
    THEN [kills |-> 0, deaths |-> 0]
    ELSE [kills |-> store[guidByNetId[n]].kills, deaths |-> store[guidByNetId[n]].deaths]

IsBound(n) == guidByNetId[n] # NoGuid

-----------------------------------------------------------------------------
(* Start: StartHost clears every map, gives the host full HP, loads the save *)
(* and binds the host's own player to its GUID.                              *)

Init ==
    /\ connToNetId = [c \in Conn |-> NoNetId]
    /\ nextNetId = HostId + 1
    /\ healthByNetId = [n \in NetId |-> IF n = HostId THEN MaxHealth ELSE NoHealth]
    /\ respawnDueAt = {}
    /\ guidByNetId = [n \in NetId |-> IF n = HostId THEN HostGuid ELSE NoGuid]
    /\ lastPosSaveAt = {}
    /\ appearanceByNetId = [n \in NetId |-> NoLook]
    /\ \E saved \in [Guid -> SavedRecord] : records = EnsureRecord(saved, HostGuid)
    /\ sent = Silent

-----------------------------------------------------------------------------
(* Presence.                                                                 *)

\* The HP of n, full when there is none on file; HostEnsureHealth files it.
EnsuredHealth(n) ==
    IF healthByNetId[n] = NoHealth THEN MaxHealth ELSE healthByNetId[n]

HostEnsureHealth(ids) ==
    [n \in NetId |-> IF n \in ids THEN EnsuredHealth(n) ELSE healthByNetId[n]]

HostSendAppearanceOnFile_Never(n) == <<>>
HostSendAppearanceOnFile(n) ==
    IF appearanceByNetId[n] = NoLook THEN <<>>
                                     ELSE <<AppearanceMsg(n, appearanceByNetId[n])>>

\* What a newcomer is told of one player who was there before it.
RosterEntry_JoinLast(n) ==
    HostSendAppearanceOnFile(n)
      \o <<HealthMsg(n, EnsuredHealth(n)), StatsMsg(n, StatsOf(records, n)), JoinMsg(n)>>
RosterEntry_FullHealth(n) ==
    <<JoinMsg(n)>> \o HostSendAppearanceOnFile(n)
      \o <<HealthMsg(n, MaxHealth), StatsMsg(n, StatsOf(records, n))>>
RosterEntry_NoStats(n) ==
    <<JoinMsg(n)>> \o HostSendAppearanceOnFile(n) \o <<HealthMsg(n, EnsuredHealth(n))>>
RosterEntry(n) ==
    <<JoinMsg(n)>> \o HostSendAppearanceOnFile(n)
      \o <<HealthMsg(n, EnsuredHealth(n)), StatsMsg(n, StatsOf(records, n))>>

\* The roster: the host first, then the clients in the order of the unordered map.
Roster_ClientsOnly(order) == FlattenSeq([i \in DOMAIN order |-> RosterEntry(order[i])])
Roster(order) ==
    RosterEntry(HostId) \o FlattenSeq([i \in DOMAIN order |-> RosterEntry(order[i])])

\* A newcomer is told its own id before anything else, then the roster.
Welcome_RosterFirst(n, order) == Roster(order) \o <<JoinMsg(n)>>
Welcome(n, order) == <<JoinMsg(n)>> \o Roster(order)

\* The id of the next newcomer: s_nextNetId, whoever left in the meantime.
FreshNetId_Recycled == CHOOSE n \in NetId \ PresentIds : \A m \in NetId \ PresentIds : n <= m
FreshNetId == nextNetId

\* A newcomer is welcomed; the others are told of it; only then is it registered.
HostOnClientConnected(c) ==
    /\ ~IsRegistered(c)
    /\ nextNetId \in NetId
    /\ LET newId == FreshNetId IN
         /\ nextNetId' = newId + 1
         /\ healthByNetId' = HostEnsureHealth({newId} \cup (PresentIds \ {HostId}))
         /\ \E order \in SetToSeqs(PresentIds \ {HostId}) :
              sent' = Then(Send({c}, Welcome(newId, order)),
                           Then(Relay(c, <<JoinMsg(newId)>>),
                                HostRelayToOthers(c, <<HealthMsg(newId, EnsuredHealth(newId))>>)))
         /\ connToNetId' = [connToNetId EXCEPT ![c] = newId]
    /\ UNCHANGED <<respawnDueAt, identityVars, appearanceByNetId, records>>

\* Everything the host keeps under a net id.
Forget_KeepsRespawn(n) ==
    /\ appearanceByNetId' = [appearanceByNetId EXCEPT ![n] = NoLook]
    /\ healthByNetId' = [healthByNetId EXCEPT ![n] = NoHealth]
    /\ guidByNetId' = [guidByNetId EXCEPT ![n] = NoGuid]
    /\ lastPosSaveAt' = lastPosSaveAt \ {n}
    /\ UNCHANGED respawnDueAt
Forget(n) ==
    /\ appearanceByNetId' = [appearanceByNetId EXCEPT ![n] = NoLook]
    /\ healthByNetId' = [healthByNetId EXCEPT ![n] = NoHealth]
    /\ respawnDueAt' = respawnDueAt \ {n}
    /\ guidByNetId' = [guidByNetId EXCEPT ![n] = NoGuid]
    /\ lastPosSaveAt' = lastPosSaveAt \ {n}

\* A client is gone: everything kept under its id is forgotten, the store is
\* flushed (HostStore.tla), and the others are told.
HostOnClientGone(c) ==
    /\ IsRegistered(c)
    /\ LET goneId == connToNetId[c] IN
         /\ connToNetId' = [connToNetId EXCEPT ![c] = NoNetId]
         /\ Forget(goneId)
         /\ sent' = Relay(c, <<LeaveMsg(goneId)>>)
    /\ UNCHANGED <<nextNetId, records>>

-----------------------------------------------------------------------------
(* What clients report.  Every handler stamps the sender's own id on what it *)
(* relays, and drops a message from a connection it does not know.           *)

\* Positions are saved for identified players, and throttled: the first sample
\* after a player is bound is always saved, a later one only when the interval
\* has elapsed.
SavePosition(n, p) ==
    \/ /\ IsBound(n)
       /\ lastPosSaveAt' = lastPosSaveAt \cup {n}
       /\ records' = UpsertPosition(records, guidByNetId[n], p)
    \/ /\ IsBound(n) => n \in lastPosSaveAt
       /\ UNCHANGED <<lastPosSaveAt, records>>

HostHandleTransform(c, p) ==
    /\ IsRegistered(c)
    /\ sent' = Relay(c, <<TransformMsg(connToNetId[c], p)>>)
    /\ SavePosition(connToNetId[c], p)
    /\ UNCHANGED <<presenceVars, combatVars, guidByNetId, appearanceByNetId>>

\* Keep a player's look for future newcomers, and under its GUID once it has one.
StoreLook(n, l) ==
    /\ appearanceByNetId' = [appearanceByNetId EXCEPT ![n] = l]
    /\ records' = IF IsBound(n) THEN UpsertAppearance(records, guidByNetId[n], l)
                                ELSE records

HostHandleAppearance(c, l) ==
    /\ IsRegistered(c)
    /\ StoreLook(connToNetId[c], l)
    /\ sent' = Relay(c, <<AppearanceMsg(connToNetId[c], l)>>)
    /\ UNCHANGED <<presenceVars, combatVars, identityVars>>

HostHandleFire(c) ==
    /\ IsRegistered(c)
    /\ sent' = Relay(c, <<FireMsg(connToNetId[c])>>)
    /\ UNCHANGED hostVars

\* Where a returning player was, for that player alone.
RestorePos_ToAll(c, n, rec) ==
    Announce(IF rec.pos = NoPos THEN <<>> ELSE <<RestorePosMsg(n, rec.pos)>>)
RestorePos(c, n, rec) ==
    Send({c}, IF rec.pos = NoPos THEN <<>> ELSE <<RestorePosMsg(n, rec.pos)>>)

\* The look a returning player had, for the others.
RestoreLook(c, n, rec) ==
    Relay(c, IF rec.look = NoLook THEN <<>> ELSE <<AppearanceMsg(n, rec.look)>>)

\* Bind the sender to its GUID; tell everyone its score; dress it from the look
\* in its record; send it back, alone, where it last was.
HostHandleHello(c, g) ==
    /\ IsRegistered(c)
    /\ g # NoGuid
    /\ LET n == connToNetId[c]
           store == EnsureRecord(records, g)
           rec == store[g]
       IN
         /\ guidByNetId' = [guidByNetId EXCEPT ![n] = g]
         /\ records' = store
         /\ appearanceByNetId' =
              IF rec.look = NoLook THEN appearanceByNetId
                                   ELSE [appearanceByNetId EXCEPT ![n] = rec.look]
         /\ sent' = Then(Announce(<<StatsMsg(n, rec)>>),
                         Then(RestoreLook(c, n, rec), RestorePos(c, n, rec)))
    /\ UNCHANGED <<presenceVars, combatVars, lastPosSaveAt>>

-----------------------------------------------------------------------------
(* Combat: the host decides every hit, death and respawn.                    *)

ClampDamage_NoFloor(d) == IF d > MaxHitDamage THEN MaxHitDamage ELSE d
ClampDamage(d) == IF d < 0 THEN 0 ELSE IF d > MaxHitDamage THEN MaxHitDamage ELSE d

HealthAfter(n, d) ==
    LET hp == EnsuredHealth(n) - ClampDamage(d) IN IF hp < 0 THEN 0 ELSE hp

\* A hit counts when its victim is in the session, is not the shooter, and lives.
HitCounts_DeadToo(victim, source) == victim \in PresentIds /\ victim # source
HitCounts(victim, source) ==
    /\ victim \in PresentIds
    /\ victim # source
    /\ EnsuredHealth(victim) > 0

\* The score of the GUID bound to n, announced; nothing while n is not bound.
HostBroadcastStats(store, n) ==
    IF IsBound(n) THEN <<StatsMsg(n, StatsOf(store, n))>> ELSE <<>>

\* The victim's GUID gets a death, then the shooter's a kill.
StoreAfterDeath(victim) ==
    IF IsBound(victim) THEN RecordDeath(records, guidByNetId[victim]) ELSE records

StoreAfterKill(victim, source) ==
    IF IsBound(source) THEN RecordKill(StoreAfterDeath(victim), guidByNetId[source])
                       ELSE StoreAfterDeath(victim)

\* Bound: no score grows past MaxStat.
RoomForStats == \A g \in Guid : records[g].kills < MaxStat /\ records[g].deaths < MaxStat

\* The victim's HP reached 0: it waits for its respawn and the score moves.
Kill(victim, source) ==
    /\ respawnDueAt' = respawnDueAt \cup {victim}
    /\ records' = StoreAfterKill(victim, source)
    /\ sent' = Announce(<<HealthMsg(victim, 0), DeathMsg(victim)>>
                          \o HostBroadcastStats(StoreAfterDeath(victim), victim)
                          \o HostBroadcastStats(StoreAfterKill(victim, source), source))

HostApplyDamage(victim, damage, source) ==
    /\ HitCounts(victim, source)
    /\ LET hp == HealthAfter(victim, damage) IN
         /\ healthByNetId' = [healthByNetId EXCEPT ![victim] = hp]
         /\ \/ /\ hp > 0
               /\ sent' = Announce(<<HealthMsg(victim, hp)>>)
               /\ UNCHANGED <<respawnDueAt, records>>
            \/ /\ hp = 0
               /\ RoomForStats
               /\ Kill(victim, source)
    /\ UNCHANGED <<presenceVars, identityVars, appearanceByNetId>>

\* The shooter is the connection the claim came on, whatever the message says.
HostHandleHit(c, victim, damage) ==
    /\ IsRegistered(c)
    /\ HostApplyDamage(victim, damage, connToNetId[c])

\* A player still in the session is back at full HP, and everyone is told.
Revive_NoHeal(n) ==
    /\ sent' = Announce(<<HealthMsg(n, MaxHealth), RespawnMsg(n)>>)
    /\ UNCHANGED healthByNetId
Revive_HealthOnly(n) ==
    /\ healthByNetId' = [healthByNetId EXCEPT ![n] = MaxHealth]
    /\ sent' = Announce(<<HealthMsg(n, MaxHealth)>>)
Revive(n) ==
    /\ healthByNetId' = [healthByNetId EXCEPT ![n] = MaxHealth]
    /\ sent' = Announce(<<HealthMsg(n, MaxHealth), RespawnMsg(n)>>)

\* One due respawn.  ServiceRespawns handles all that are due in a row; as an
\* entry may become due at any time after the death, one at a time is the same.
ServiceRespawn(n) ==
    /\ n \in respawnDueAt
    /\ respawnDueAt' = respawnDueAt \ {n}
    /\ \/ /\ n \in PresentIds
          /\ Revive(n)
       \/ /\ n \notin PresentIds
          /\ sent' = Silent
          /\ UNCHANGED healthByNetId
    /\ UNCHANGED <<presenceVars, identityVars, appearanceByNetId, records>>

-----------------------------------------------------------------------------
(* The host is a player too: the worker sends what its game thread pushed.   *)

HostSendLocalAppearance(l) ==
    /\ StoreLook(HostId, l)
    /\ sent' = HostBroadcast(<<AppearanceMsg(HostId, l)>>)
    /\ UNCHANGED <<presenceVars, combatVars, identityVars>>

HostSendLocalTransform(p) ==
    /\ SavePosition(HostId, p)
    /\ sent' = HostBroadcast(<<TransformMsg(HostId, p)>>)
    /\ UNCHANGED <<presenceVars, combatVars, guidByNetId, appearanceByNetId>>

HostSendLocalFire ==
    /\ sent' = HostBroadcast(<<FireMsg(HostId)>>)
    /\ UNCHANGED hostVars

HostSendLocalHit(victim, damage) == HostApplyDamage(victim, damage, HostId)

-----------------------------------------------------------------------------
(* The specification.                                                        *)

Presence ==
    \E c \in Conn : HostOnClientConnected(c) \/ HostOnClientGone(c)

Reports ==
    \E c \in Conn :
        \/ \E p \in Pos : HostHandleTransform(c, p)
        \/ \E l \in Look : HostHandleAppearance(c, l)
        \/ \E g \in Guid : HostHandleHello(c, g)
        \/ HostHandleFire(c)

Combat ==
    \E victim \in NetId, damage \in ClaimedDamage :
        \/ HostSendLocalHit(victim, damage)
        \/ \E c \in Conn : HostHandleHit(c, victim, damage)

HostPlayer ==
    \/ \E l \in Look : HostSendLocalAppearance(l)
    \/ \E p \in Pos : HostSendLocalTransform(p)
    \/ HostSendLocalFire

Respawns == \E n \in NetId : ServiceRespawn(n)

Next == Presence \/ Reports \/ Combat \/ HostPlayer \/ Respawns \/ Dropped

Spec == Init /\ [][Next]_vars

-----------------------------------------------------------------------------
(* Properties.                                                               *)

\* Every map holds values of its type; HP stays within 0..kMaxHealth whatever
\* damage a client claims (ClampDamage).
TypeOK ==
    /\ connToNetId \in [Conn -> NetId \cup {NoNetId}]
    /\ nextNetId \in 2..(MaxNetId + 1)
    /\ healthByNetId \in [NetId -> Health \cup {NoHealth}]
    /\ respawnDueAt \subseteq NetId
    /\ guidByNetId \in [NetId -> Guid \cup {NoGuid}]
    /\ appearanceByNetId \in [NetId -> Look \cup {NoLook}]
    /\ lastPosSaveAt \subseteq NetId
    /\ records \in [Guid -> Record]

\* A net id names one player for the whole session: no two connections share
\* one, no client has the host's, and the next id to hand out is above all of
\* them, so the id of a player who left is never given to another
\* (HostOnClientConnected, HostOnClientGone).
NetIdsAreUnique ==
    /\ \A c \in Registered : HostId < connToNetId[c] /\ connToNetId[c] < nextNetId
    /\ \A c, d \in Registered : connToNetId[c] = connToNetId[d] => c = d

\* A player in the session is dead exactly while its respawn is pending: nobody
\* stays dead with no respawn to come, and nobody alive is respawned
\* (HostApplyDamage, ServiceRespawns, and the bookkeeping of join and leave).
DeadIffRespawnPending ==
    \A n \in PresentIds : healthByNetId[n] = 0 <=> n \in respawnDueAt

\* The maps keyed by net id hold the players in the session and nobody else: a
\* player who left leaves no HP, pending respawn, identity, look ("forget its
\* look so a later newcomer isn't sent a ghost") or save throttle behind, and
\* everybody present has HP on file.
OnlyPresentOnFile ==
    \A n \in NetId :
        /\ n \in PresentIds <=> healthByNetId[n] # NoHealth
        /\ n \in respawnDueAt \cup lastPosSaveAt => n \in PresentIds
        /\ guidByNetId[n] # NoGuid => n \in PresentIds
        /\ appearanceByNetId[n] # NoLook => n \in PresentIds

\* A restored position goes to the player it was saved for, in the session under
\* that identity.
RestoresAreTheirs ==
    \A e \in Endpoint : \A i \in DOMAIN sent'[e] :
        LET m == sent'[e][i] IN
        m.type = "RestorePos" =>
            /\ e \in Registered'
            /\ m.netId = connToNetId'[e]
            /\ guidByNetId'[m.netId] \in Guid
            /\ m.pos = records[guidByNetId'[m.netId]].pos

\* A saved position is handed to the player it was saved for and to nobody else:
\* no other client, nor the host's own game, is ever told to move its player
\* there (HostHandleHello).
RestoreGoesHome == [][RestoresAreTheirs]_vars

\* A player who was alive and present before the step is dead after it.
Dies(n) == n \in PresentIds /\ healthByNetId[n] > 0 /\ healthByNetId'[n] = 0

\* A GUID's deaths grow by one when a player bound to it dies, and only then; its
\* kills grow by one, and no other's do, only when somebody dies by the hand of
\* another player, who is bound to it.
ScoreFollowsDeaths ==
    \A g \in Guid :
        LET dead == \E n \in NetId : Dies(n) /\ guidByNetId[n] = g
        IN  /\ records'[g].deaths = records[g].deaths + (IF dead THEN 1 ELSE 0)
            /\ records'[g].kills # records[g].kills =>
                 /\ records'[g].kills = records[g].kills + 1
                 /\ \A h \in Guid \ {g} : records'[h].kills = records[h].kills
                 /\ \E n, m \in PresentIds : Dies(n) /\ m # n /\ guidByNetId[m] = g

\* The score is what happened: hits on the dead, repeated or late claims and
\* respawns never count, and no death of an identified player goes uncounted
\* (HostApplyDamage's early returns).
ScoreCountsDeaths == [][ScoreFollowsDeaths]_vars

-----------------------------------------------------------------------------
(* What the host promises about lives, in abstract terms (Arena.tla).        *)

Arena == INSTANCE Arena WITH
    used <- 1..(nextNetId - 1),
    present <- PresentIds,
    dead <- {n \in PresentIds : healthByNetId[n] = 0}

\* The relay implements the arena: seen as who is in and who is dead, it only
\* admits fresh ids, only kills the living, and only revives the dead.
ImplementsArena == Arena!Spec
=============================================================================
