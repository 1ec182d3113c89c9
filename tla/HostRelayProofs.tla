-------------------------- MODULE HostRelayProofs ---------------------------
(***************************************************************************)
(* What holds of the host's worker for every number of connections, ids,    *)
(* players, looks and hit points: the type invariant, that net ids are      *)
(* unique, that only the players present are on file, that the dead are     *)
(* exactly those with a respawn pending, that scores follow deaths and saved *)
(* positions go to their owners, and that the worker implements the abstract  *)
(* arena.                                                                   *)
(*                                                                          *)
(* The four invariants are inductive only together.  A newcomer starts with *)
(* full HP because nothing is on file for its id (OnlyPresentOnFile), which *)
(* is so because the id is above every id in use (NetIdsAreUnique); and a   *)
(* respawn brings back somebody dead because of DeadIffRespawnPending.      *)
(***************************************************************************)
EXTENDS HostRelay, SequenceLemmas

IInv ==
    /\ TypeOK
    /\ NetIdsAreUnique
    /\ OnlyPresentOnFile
    /\ DeadIffRespawnPending

-----------------------------------------------------------------------------
(* The store's operations keep the store well typed.                         *)

\* What the assumptions say of the constants, in the form the provers use.
LEMMA StoreTypes ==
    ASSUME NEW store \in [Guid -> Record], NEW g \in Guid
    PROVE  /\ EnsureRecord(store, g) \in [Guid -> Record]
           /\ RecordKill(store, g) \in [Guid -> Record]
           /\ RecordDeath(store, g) \in [Guid -> Record]
           /\ \A p \in Pos : UpsertPosition(store, g, p) \in [Guid -> Record]
           /\ \A l \in Look : UpsertAppearance(store, g, l) \in [Guid -> Record]
  <1>1. store[g] \in Record
    OBVIOUS
  <1>2. EnsureRecord(store, g) \in [Guid -> Record]
    BY <1>1 DEF EnsureRecord, Record
  <1>3. RecordKill(store, g) \in [Guid -> Record]
    <2> DEFINE rec == [store[g] EXCEPT !.known = TRUE, !.kills = store[g].kills + 1]
    <2>1. store[g].kills + 1 \in Nat
      BY <1>1 DEF Record
    <2>2. rec \in Record
      BY <1>1, <2>1 DEF Record
    <2>3. RecordKill(store, g) = [store EXCEPT ![g] = rec]
      BY DEF RecordKill
    <2> QED
      BY <2>2, <2>3
  <1>4. RecordDeath(store, g) \in [Guid -> Record]
    <2> DEFINE rec == [store[g] EXCEPT !.known = TRUE, !.deaths = store[g].deaths + 1]
    <2>1. store[g].deaths + 1 \in Nat
      BY <1>1 DEF Record
    <2>2. rec \in Record
      BY <1>1, <2>1 DEF Record
    <2>3. RecordDeath(store, g) = [store EXCEPT ![g] = rec]
      BY DEF RecordDeath
    <2> QED
      BY <2>2, <2>3
  <1>5. ASSUME NEW p \in Pos PROVE UpsertPosition(store, g, p) \in [Guid -> Record]
    BY <1>1 DEF UpsertPosition, Record
  <1>6. ASSUME NEW l \in Look PROVE UpsertAppearance(store, g, l) \in [Guid -> Record]
    BY <1>1 DEF UpsertAppearance, Record
  <1> QED
    BY <1>2, <1>3, <1>4, <1>5, <1>6

\* A hit leaves between no HP and what there was, whatever the claim.
LEMMA HealthAfterBounds ==
    ASSUME TypeOK, NEW n \in NetId, NEW d \in ClaimedDamage
    PROVE  /\ EnsuredHealth(n) \in Health
           /\ HealthAfter(n, d) \in Health
           /\ HealthAfter(n, d) <= EnsuredHealth(n)
  <1>1. EnsuredHealth(n) \in Health
    BY HealthAssumption DEF TypeOK, EnsuredHealth, Health, NoHealth
  <1>2. ClampDamage(d) \in Nat
    BY HealthAssumption DEF ClampDamage
  <1> QED
    BY <1>1, <1>2, HealthAssumption DEF HealthAfter, Health

-----------------------------------------------------------------------------
(* How joining and leaving change who is present.                            *)

\* An id not yet handed out belongs to no client.
LEMMA IdsInUse ==
    ASSUME IInv
    PROVE  /\ PresentIds \subseteq NetId
           /\ \A n \in PresentIds : n < nextNetId
           /\ HostId \in PresentIds
  BY MaxNetIdAssumption
     DEF IInv, TypeOK, NetIdsAreUnique, PresentIds, Registered, IsRegistered,
         NetId, HostId, NoNetId

\* A join adds exactly the new id to the players present.
LEMMA JoinPresence ==
    ASSUME IInv, NEW c \in Conn, HostOnClientConnected(c)
    PROVE  /\ PresentIds' = PresentIds \cup {nextNetId}
           /\ nextNetId \in NetId \ PresentIds
           /\ nextNetId # HostId
  <1>1. nextNetId \in NetId /\ nextNetId # HostId /\ nextNetId # NoNetId
    BY DEF HostOnClientConnected, IInv, TypeOK, NetId, HostId, NoNetId
  <1>2. connToNetId' = [connToNetId EXCEPT ![c] = nextNetId] /\ connToNetId[c] = NoNetId
    BY DEF HostOnClientConnected, FreshNetId, IsRegistered
  <1>3. Registered' = Registered \cup {c} /\ c \notin Registered
    BY <1>1, <1>2 DEF Registered, IsRegistered, IInv, TypeOK
  <1>4. \A d \in Registered : connToNetId'[d] = connToNetId[d]
    BY <1>2, <1>3 DEF IInv, TypeOK, Registered
  <1>5. connToNetId'[c] = nextNetId
    BY <1>2 DEF IInv, TypeOK
  <1>6. PresentIds' = PresentIds \cup {nextNetId}
    BY <1>3, <1>4, <1>5 DEF PresentIds
  <1> QED
    BY <1>1, <1>6, IdsInUse DEF IInv, TypeOK

\* A join files full HP for the new id and leaves everybody's as it was.
LEMMA JoinHealth ==
    ASSUME IInv, NEW c \in Conn, HostOnClientConnected(c)
    PROVE  /\ healthByNetId' = [healthByNetId EXCEPT ![nextNetId] = MaxHealth]
           /\ EnsuredHealth(nextNetId) = MaxHealth
           /\ \A n \in PresentIds : EnsuredHealth(n) = healthByNetId[n]
  <1> DEFINE new == nextNetId
  <1>1. new \in NetId \ PresentIds
    BY JoinPresence
  <1>2. /\ EnsuredHealth(new) = MaxHealth
        /\ \A n \in PresentIds : EnsuredHealth(n) = healthByNetId[n]
    BY <1>1, IdsInUse DEF IInv, OnlyPresentOnFile, EnsuredHealth
  <1>3. healthByNetId' = HostEnsureHealth({new} \cup (PresentIds \ {HostId}))
    BY DEF HostOnClientConnected, FreshNetId
  <1> QED
    BY <1>1, <1>2, <1>3 DEF HostEnsureHealth, IInv, TypeOK

\* A leave takes exactly the leaver's id from the players present.
LEMMA LeavePresence ==
    ASSUME IInv, NEW c \in Conn, HostOnClientGone(c)
    PROVE  /\ PresentIds' = PresentIds \ {connToNetId[c]}
           /\ connToNetId[c] \in NetId /\ connToNetId[c] # HostId
           /\ Registered' = Registered \ {c}
           /\ \A d \in Registered' : connToNetId'[d] = connToNetId[d]
  <1>1. c \in Registered /\ connToNetId[c] \in NetId /\ connToNetId[c] # HostId
    BY DEF HostOnClientGone, Registered, IsRegistered, IInv, TypeOK, NetIdsAreUnique,
           HostId, NetId, NoNetId
  <1>2. connToNetId' = [connToNetId EXCEPT ![c] = NoNetId]
    BY DEF HostOnClientGone
  <1>3. Registered' = Registered \ {c}
    BY <1>2 DEF Registered, IsRegistered, IInv, TypeOK
  <1>4. \A d \in Registered' : connToNetId'[d] = connToNetId[d]
    BY <1>2, <1>3 DEF Registered, IInv, TypeOK
  <1>5. \A d \in Registered' : connToNetId[d] # connToNetId[c]
    BY <1>1, <1>3 DEF IInv, NetIdsAreUnique
  <1> QED
    BY <1>1, <1>3, <1>4, <1>5 DEF PresentIds

-----------------------------------------------------------------------------
(* The invariant holds at the start and is kept by every action.             *)

\* A session that has just been hosted satisfies the invariant.
LEMMA InitIInv == Init => IInv
  <1> SUFFICES ASSUME Init PROVE IInv
    OBVIOUS
  <1>1. Registered = {} /\ PresentIds = {HostId}
    BY DEF Init, Registered, IsRegistered, PresentIds
  <1>2. HostId \in NetId
    BY MaxNetIdAssumption DEF HostId, NetId
  <1>3. records \in [Guid -> Record]
    BY HostGuidAssumption, SavedRecordAssumption, StoreTypes DEF Init
  <1>4. TypeOK
    BY <1>2, <1>3, MaxNetIdAssumption, HealthAssumption, HostGuidAssumption
       DEF Init, TypeOK, HostId, NetId, Health
  <1>5. NetIdsAreUnique
    BY <1>1 DEF NetIdsAreUnique
  <1>6. OnlyPresentOnFile
    BY <1>1, <1>2, HealthAssumption DEF Init, OnlyPresentOnFile, NoHealth
  <1>7. DeadIffRespawnPending
    BY <1>1, <1>2, HealthAssumption DEF Init, DeadIffRespawnPending
  <1> QED
    BY <1>4, <1>5, <1>6, <1>7 DEF IInv

\* HostOnClientConnected: the new player is alive, with an id of its own.
LEMMA ConnectedKeepsIInv ==
    ASSUME IInv, NEW c \in Conn, HostOnClientConnected(c)
    PROVE  IInv'
  <1> DEFINE new == nextNetId
  <1>1. /\ PresentIds' = PresentIds \cup {new}
        /\ new \in NetId \ PresentIds
        /\ new # HostId
    BY JoinPresence
  <1>3. /\ nextNetId' = new + 1
        /\ healthByNetId' = [healthByNetId EXCEPT ![new] = MaxHealth]
    BY JoinHealth DEF HostOnClientConnected, FreshNetId
  <1>4. /\ connToNetId' = [connToNetId EXCEPT ![c] = new]
        /\ UNCHANGED <<respawnDueAt, guidByNetId, lastPosSaveAt, appearanceByNetId, records>>
    BY DEF HostOnClientConnected, FreshNetId, identityVars
  <1>5. TypeOK'
    <2>1. nextNetId' \in 2..(MaxNetId + 1)
      BY <1>1, <1>3, MaxNetIdAssumption DEF NetId, IInv, TypeOK
    <2>2. healthByNetId' \in [NetId -> Health \cup {NoHealth}]
      BY <1>1, <1>3, HealthAssumption DEF IInv, TypeOK, Health
    <2> QED
      BY <1>1, <1>4, <2>1, <2>2 DEF IInv, TypeOK
  <1>6. NetIdsAreUnique'
    <2>1. Registered' = Registered \cup {c}
      BY <1>1, <1>4 DEF IInv, TypeOK, Registered, IsRegistered, NoNetId, NetId
    <2>2. \A d \in Registered : connToNetId'[d] = connToNetId[d] \/ d = c
      BY <1>4 DEF IInv, TypeOK, Registered
    <2>3. connToNetId'[c] = new /\ new \in Nat
      BY <1>1, <1>4 DEF IInv, TypeOK, NetId
    <2>4. \A d \in Registered : connToNetId[d] \in Nat /\ connToNetId[d] < new /\ HostId < connToNetId[d]
      BY DEF IInv, TypeOK, NetIdsAreUnique, Registered, NetId, NoNetId
    <2>5. HostId < new
      BY DEF IInv, TypeOK, HostId
    <2> QED
      BY <1>3, <2>1, <2>2, <2>3, <2>4, <2>5 DEF IInv, NetIdsAreUnique, HostId
  <1>7. OnlyPresentOnFile'
    BY <1>1, <1>3, <1>4, HealthAssumption DEF IInv, TypeOK, OnlyPresentOnFile, NoHealth
  <1>8. DeadIffRespawnPending'
    <2>1. new \notin respawnDueAt /\ MaxHealth # 0
      BY <1>1, HealthAssumption DEF IInv, OnlyPresentOnFile
    <2> QED
      BY <1>1, <1>3, <1>4, <2>1, IdsInUse DEF IInv, TypeOK, DeadIffRespawnPending
  <1> QED
    BY <1>5, <1>6, <1>7, <1>8 DEF IInv

\* HostOnClientGone: the maps forget the id that is no longer present.
LEMMA GoneKeepsIInv ==
    ASSUME IInv, NEW c \in Conn, HostOnClientGone(c)
    PROVE  IInv'
  <1> DEFINE gone == connToNetId[c]
  <1>1. /\ PresentIds' = PresentIds \ {gone}
        /\ gone \in NetId /\ gone # HostId
        /\ Registered' = Registered \ {c}
        /\ \A d \in Registered' : connToNetId'[d] = connToNetId[d]
    BY LeavePresence
  <1>2. /\ connToNetId' = [connToNetId EXCEPT ![c] = NoNetId]
        /\ Forget(gone)
        /\ UNCHANGED <<nextNetId, records>>
    BY DEF HostOnClientGone
  <1>3. TypeOK'
    BY <1>1, <1>2 DEF IInv, TypeOK, Forget
  <1>4. NetIdsAreUnique'
    BY <1>1, <1>2 DEF IInv, NetIdsAreUnique
  <1>5. OnlyPresentOnFile'
    BY <1>1, <1>2 DEF IInv, TypeOK, OnlyPresentOnFile, Forget
  <1>6. DeadIffRespawnPending'
    BY <1>1, <1>2, IdsInUse DEF IInv, TypeOK, DeadIffRespawnPending, Forget
  <1> QED
    BY <1>3, <1>4, <1>5, <1>6 DEF IInv

\* A step that leaves presence and combat alone, and files things only under
\* the ids of players present.
LEMMA FilingKeepsIInv ==
    ASSUME IInv, TypeOK',
           UNCHANGED <<presenceVars, combatVars>>,
           NEW n \in PresentIds,
           lastPosSaveAt' \subseteq lastPosSaveAt \cup {n},
           \A m \in NetId \ {n} : /\ guidByNetId'[m] = guidByNetId[m]
                                  /\ appearanceByNetId'[m] = appearanceByNetId[m]
    PROVE  IInv'
  <1>1. PresentIds' = PresentIds /\ Registered' = Registered
    BY DEF PresentIds, Registered, IsRegistered, presenceVars
  <1>2. NetIdsAreUnique' /\ DeadIffRespawnPending'
    BY <1>1 DEF IInv, NetIdsAreUnique, DeadIffRespawnPending, presenceVars, combatVars
  <1>3. OnlyPresentOnFile'
    BY <1>1 DEF IInv, OnlyPresentOnFile, combatVars
  <1> QED
    BY <1>2, <1>3 DEF IInv

\* SavePosition files a record under a GUID and touches no player.
LEMMA SavePositionKeepsIInv ==
    ASSUME IInv, NEW n \in PresentIds, NEW p \in Pos, SavePosition(n, p),
           UNCHANGED <<presenceVars, combatVars, guidByNetId, appearanceByNetId>>
    PROVE  IInv'
  <1>1. n \in NetId
    BY IdsInUse
  <1>2. lastPosSaveAt' \subseteq lastPosSaveAt \cup {n}
    BY DEF SavePosition
  <1>3. records' \in [Guid -> Record]
    <2>1. IsBound(n) => guidByNetId[n] \in Guid
      BY <1>1 DEF IsBound, IInv, TypeOK
    <2> QED
      BY <2>1, StoreTypes DEF SavePosition, IInv, TypeOK
  <1>4. TypeOK'
    BY <1>1, <1>2, <1>3 DEF IInv, TypeOK, presenceVars, combatVars
  <1> QED
    BY <1>2, <1>4, FilingKeepsIInv

\* HostStoreLook files the look of a player present.
LEMMA StoreLookKeepsIInv ==
    ASSUME IInv, NEW n \in PresentIds, NEW l \in Look, StoreLook(n, l),
           UNCHANGED <<presenceVars, combatVars, identityVars>>
    PROVE  IInv'
  <1>1. n \in NetId
    BY IdsInUse
  <1>2. records' \in [Guid -> Record]
    <2>1. IsBound(n) => guidByNetId[n] \in Guid
      BY <1>1 DEF IsBound, IInv, TypeOK
    <2> QED
      BY <2>1, StoreTypes DEF StoreLook, IInv, TypeOK
  <1>3. appearanceByNetId' = [appearanceByNetId EXCEPT ![n] = l]
    BY DEF StoreLook
  <1>4. TypeOK'
    BY <1>1, <1>2, <1>3 DEF IInv, TypeOK, presenceVars, combatVars, identityVars
  <1>5. /\ lastPosSaveAt' \subseteq lastPosSaveAt \cup {n}
        /\ \A m \in NetId \ {n} : /\ guidByNetId'[m] = guidByNetId[m]
                                  /\ appearanceByNetId'[m] = appearanceByNetId[m]
    BY <1>3 DEF identityVars, IInv, TypeOK
  <1> QED
    BY <1>4, <1>5, FilingKeepsIInv

\* The player a registered client speaks for is present.
LEMMA RegisteredArePresent ==
    ASSUME NEW c \in Conn, IsRegistered(c)
    PROVE  connToNetId[c] \in PresentIds
  BY DEF PresentIds, Registered

\* The handling of a client's Hello preserves the invariant.
LEMMA HelloKeepsIInv ==
    ASSUME IInv, NEW c \in Conn, NEW g \in Guid, HostHandleHello(c, g)
    PROVE  IInv'
  <1> DEFINE n == connToNetId[c]
             rec == EnsureRecord(records, g)[g]
  <1>1. n \in PresentIds /\ n \in NetId
    BY RegisteredArePresent, IdsInUse DEF HostHandleHello
  <1>2. /\ guidByNetId' = [guidByNetId EXCEPT ![n] = g]
        /\ records' = EnsureRecord(records, g)
        /\ appearanceByNetId' =
             IF rec.look = NoLook THEN appearanceByNetId
                                  ELSE [appearanceByNetId EXCEPT ![n] = rec.look]
        /\ UNCHANGED <<presenceVars, combatVars, lastPosSaveAt>>
    BY DEF HostHandleHello
  <1>3. records' \in [Guid -> Record] /\ rec.look \in Look \cup {NoLook}
    <2>1. EnsureRecord(records, g) \in [Guid -> Record]
      BY StoreTypes DEF IInv, TypeOK
    <2> QED
      BY <1>2, <2>1 DEF Record
  <1>4. TypeOK'
    BY <1>1, <1>2, <1>3 DEF IInv, TypeOK, presenceVars, combatVars
  <1>5. \A m \in NetId \ {n} : /\ guidByNetId'[m] = guidByNetId[m]
                               /\ appearanceByNetId'[m] = appearanceByNetId[m]
    BY <1>2 DEF IInv, TypeOK
  <1> QED
    BY <1>1, <1>2, <1>4, <1>5, FilingKeepsIInv

\* A step that changes only the HP and the pending respawn of one player who is
\* present, and keeps the two in agreement.
LEMMA CombatKeepsIInv ==
    ASSUME IInv, NEW n \in PresentIds, NEW hp \in Health,
           healthByNetId' = [healthByNetId EXCEPT ![n] = hp],
           respawnDueAt' \subseteq NetId,
           \A m \in NetId \ {n} : m \in respawnDueAt' <=> m \in respawnDueAt,
           hp = 0 <=> n \in respawnDueAt',
           records' \in [Guid -> Record],
           UNCHANGED <<presenceVars, identityVars, appearanceByNetId>>
    PROVE  IInv'
  <1>1. PresentIds' = PresentIds /\ Registered' = Registered
    BY DEF PresentIds, Registered, IsRegistered, presenceVars
  <1>2. PresentIds \subseteq NetId
    BY IdsInUse
  <1>3. TypeOK'
    BY <1>2 DEF IInv, TypeOK, presenceVars, identityVars
  <1>4. NetIdsAreUnique'
    BY <1>1 DEF IInv, NetIdsAreUnique, presenceVars
  <1>5. hp # NoHealth
    BY DEF Health, NoHealth
  <1>6. OnlyPresentOnFile'
    BY <1>1, <1>2, <1>5 DEF IInv, TypeOK, OnlyPresentOnFile, identityVars
  <1>7. DeadIffRespawnPending'
    BY <1>1, <1>2 DEF IInv, TypeOK, DeadIffRespawnPending
  <1> QED
    BY <1>3, <1>4, <1>6, <1>7 DEF IInv

\* HostApplyDamage: a player dies and gets its respawn time in one step.
LEMMA ApplyDamageKeepsIInv ==
    ASSUME IInv, NEW v \in NetId, NEW d \in ClaimedDamage, NEW s \in NetId,
           HostApplyDamage(v, d, s)
    PROVE  IInv'
  <1> DEFINE hp == HealthAfter(v, d)
  <1>1. v \in PresentIds /\ hp \in Health
    BY HealthAfterBounds DEF HostApplyDamage, HitCounts, IInv
  <1>2. v \notin respawnDueAt
    <2>1. healthByNetId[v] # 0
      BY <1>1 DEF HostApplyDamage, HitCounts, EnsuredHealth, NoHealth
    <2> QED
      BY <1>1, <2>1 DEF IInv, DeadIffRespawnPending
  <1>3. /\ healthByNetId' = [healthByNetId EXCEPT ![v] = hp]
        /\ UNCHANGED <<presenceVars, identityVars, appearanceByNetId>>
    BY DEF HostApplyDamage
  <1>4. CASE hp > 0 /\ UNCHANGED <<respawnDueAt, records>>
    <2>1. respawnDueAt' \subseteq NetId /\ records' \in [Guid -> Record]
      BY <1>4 DEF IInv, TypeOK
    <2>2. hp # 0
      BY <1>4, <1>1 DEF Health
    <2> QED
      BY <1>1, <1>2, <1>3, <1>4, <2>1, <2>2, CombatKeepsIInv
  <1>5. CASE hp = 0 /\ Kill(v, s)
    <2>1. respawnDueAt' = respawnDueAt \cup {v} /\ respawnDueAt' \subseteq NetId
      BY <1>5 DEF Kill, IInv, TypeOK
    <2>2. records' = StoreAfterKill(v, s)
      BY <1>5 DEF Kill
    <2>3. /\ IsBound(v) => guidByNetId[v] \in Guid
          /\ IsBound(s) => guidByNetId[s] \in Guid
      BY DEF IsBound, IInv, TypeOK
    <2>4. StoreAfterDeath(v) \in [Guid -> Record]
      BY <2>3, StoreTypes DEF StoreAfterDeath, IInv, TypeOK
    <2>5. records' \in [Guid -> Record]
      BY <2>2, <2>3, <2>4, StoreTypes DEF StoreAfterKill
    <2> QED
      BY <1>1, <1>3, <1>5, <2>1, <2>5, CombatKeepsIInv
  <1> QED
    BY <1>4, <1>5 DEF HostApplyDamage

\* ServiceRespawns: a player returns and loses its respawn time in one step.
LEMMA RespawnKeepsIInv ==
    ASSUME IInv, NEW n \in NetId, ServiceRespawn(n)
    PROVE  IInv'
  <1>1. n \in PresentIds
    BY DEF ServiceRespawn, IInv, OnlyPresentOnFile
  <1>2. /\ healthByNetId' = [healthByNetId EXCEPT ![n] = MaxHealth]
        /\ respawnDueAt' = respawnDueAt \ {n}
        /\ UNCHANGED <<presenceVars, identityVars, appearanceByNetId, records>>
    BY <1>1 DEF ServiceRespawn, Revive
  <1>3. MaxHealth \in Health /\ MaxHealth # 0
    BY HealthAssumption DEF Health
  <1>4. records' \in [Guid -> Record] /\ respawnDueAt' \subseteq NetId
    BY <1>2 DEF IInv, TypeOK
  <1> QED
    BY <1>1, <1>2, <1>3, <1>4, CombatKeepsIInv

\* A stuttering step preserves the invariant.
LEMMA UnchangedKeepsIInv ==
    ASSUME IInv, UNCHANGED hostVars
    PROVE  IInv'
  BY DEF IInv, TypeOK, NetIdsAreUnique, OnlyPresentOnFile, DeadIffRespawnPending,
         PresentIds, Registered, IsRegistered, hostVars, presenceVars, combatVars, identityVars

\* The invariant is inductive.
LEMMA NextKeepsIInv == IInv /\ [Next]_vars => IInv'
  <1> SUFFICES ASSUME IInv, [Next]_vars PROVE IInv'
    OBVIOUS
  <1> HostId \in NetId /\ HostId \in PresentIds
    BY IdsInUse
  <1>1. CASE Presence
    BY <1>1, ConnectedKeepsIInv, GoneKeepsIInv DEF Presence
  <1>2. ASSUME NEW c \in Conn, NEW p \in Pos, HostHandleTransform(c, p) PROVE IInv'
    BY <1>2, RegisteredArePresent, SavePositionKeepsIInv DEF HostHandleTransform
  <1>3. ASSUME NEW c \in Conn, NEW l \in Look, HostHandleAppearance(c, l) PROVE IInv'
    BY <1>3, RegisteredArePresent, StoreLookKeepsIInv DEF HostHandleAppearance
  <1>4. ASSUME NEW c \in Conn, HostHandleFire(c) PROVE IInv'
    BY <1>4, UnchangedKeepsIInv DEF HostHandleFire
  <1>5. CASE Reports
    BY <1>2, <1>3, <1>4, <1>5, HelloKeepsIInv DEF Reports
  <1>6. CASE Combat
    <2>1. ASSUME NEW v \in NetId, NEW d \in ClaimedDamage, HostSendLocalHit(v, d) PROVE IInv'
      BY <2>1, ApplyDamageKeepsIInv DEF HostSendLocalHit
    <2>2. ASSUME NEW v \in NetId, NEW d \in ClaimedDamage, NEW c \in Conn,
                 HostHandleHit(c, v, d)
          PROVE  IInv'
      BY <2>2, RegisteredArePresent, IdsInUse, ApplyDamageKeepsIInv DEF HostHandleHit
    <2> QED
      BY <1>6, <2>1, <2>2 DEF Combat
  <1>7. CASE HostPlayer
    <2>1. ASSUME NEW l \in Look, HostSendLocalAppearance(l) PROVE IInv'
      BY <2>1, StoreLookKeepsIInv DEF HostSendLocalAppearance
    <2>2. ASSUME NEW p \in Pos, HostSendLocalTransform(p) PROVE IInv'
      BY <2>2, SavePositionKeepsIInv DEF HostSendLocalTransform
    <2>3. CASE HostSendLocalFire
      BY <2>3, UnchangedKeepsIInv DEF HostSendLocalFire
    <2> QED
      BY <1>7, <2>1, <2>2, <2>3 DEF HostPlayer
  <1>8. CASE Respawns
    BY <1>8, RespawnKeepsIInv DEF Respawns
  <1>9. CASE Dropped
    BY <1>9, UnchangedKeepsIInv DEF Dropped
  <1>10. CASE UNCHANGED vars
    BY <1>10, UnchangedKeepsIInv DEF vars
  <1> QED
    BY <1>1, <1>5, <1>6, <1>7, <1>8, <1>9, <1>10 DEF Next

\* Every reachable state satisfies the inductive invariant.
LEMMA Invariance == Spec => []IInv
  BY InitIInv, NextKeepsIInv, PTL DEF Spec

-----------------------------------------------------------------------------
(* The theorems.                                                             *)

\* Every map of the host keeps its type for good, and HP stays in 0..MaxHealth
\* whatever damage is claimed (HostApplyDamage's clamp).
THEOREM TypeCorrect == Spec => []TypeOK
  BY Invariance, PTL DEF IInv

\* No two connections ever share a net id, and no id in use is still to be
\* handed out (HostOnClientConnected's s_nextNetId++).
THEOREM NetIdsStayUnique == Spec => []NetIdsAreUnique
  BY Invariance, PTL DEF IInv

\* What the host keeps under a net id is kept for a player present, always
\* (HostOnClientGone forgets all five maps).
THEOREM NothingOutlivesItsPlayer == Spec => []OnlyPresentOnFile
  BY Invariance, PTL DEF IInv

\* In every reachable state the players with no HP left are those whose respawn
\* is pending (HostApplyDamage, ServiceRespawns).
THEOREM DeadAwaitRespawn == Spec => []DeadIffRespawnPending
  BY Invariance, PTL DEF IInv

-----------------------------------------------------------------------------
(* The worker implements the arena.                                          *)

DeadIds == {n \in PresentIds : healthByNetId[n] = 0}
UsedIds == 1..(nextNetId - 1)

\* A session that has just been hosted is an empty arena.
LEMMA InitRefines == Init => Arena!Init
  <1> SUFFICES ASSUME Init PROVE Arena!Init
    OBVIOUS
  <1>1. PresentIds = {HostId}
    BY DEF Init, Registered, IsRegistered, PresentIds
  <1>2. UsedIds = {HostId}
    BY DEF Init, UsedIds, HostId
  <1>3. DeadIds = {}
    <2>1. HostId \in NetId
      BY MaxNetIdAssumption DEF HostId, NetId
    <2>2. healthByNetId[HostId] # 0
      BY <2>1, HealthAssumption DEF Init
    <2> QED
      BY <1>1, <2>2 DEF DeadIds
  <1> QED
    BY <1>1, <1>2, <1>3 DEF Arena!Init, Arena!HostId, HostId, UsedIds, DeadIds

\* A step that moves neither who is present nor who is dead is a stutter.
LEMMA StutterRefines ==
    ASSUME nextNetId' = nextNetId, PresentIds' = PresentIds, DeadIds' = DeadIds
    PROVE  UNCHANGED Arena!arenaVars
  BY DEF Arena!arenaVars, DeadIds

\* HostOnClientConnected is a Join of the arena.
LEMMA JoinRefines ==
    ASSUME IInv, NEW c \in Conn, HostOnClientConnected(c)
    PROVE  Arena!Next
  <1> DEFINE new == nextNetId
  <1>1. /\ PresentIds' = PresentIds \cup {new}
        /\ new \in NetId \ PresentIds
        /\ \A n \in PresentIds : n \in NetId
    BY JoinPresence, IdsInUse
  <1>2. nextNetId' = new + 1 /\ new \in Nat \ {0}
    BY <1>1 DEF HostOnClientConnected, FreshNetId, NetId
  <1>3. UsedIds' = UsedIds \cup {new} /\ new \notin UsedIds
    BY <1>2 DEF UsedIds
  <1>4. healthByNetId'[new] = MaxHealth /\ \A n \in PresentIds : healthByNetId'[n] = healthByNetId[n]
    <2>1. healthByNetId' = HostEnsureHealth({new} \cup (PresentIds \ {HostId}))
      BY DEF HostOnClientConnected, FreshNetId
    <2>2. /\ EnsuredHealth(new) = MaxHealth
          /\ \A n \in PresentIds : EnsuredHealth(n) = healthByNetId[n]
      BY <1>1 DEF IInv, OnlyPresentOnFile, EnsuredHealth
    <2> QED
      BY <1>1, <2>1, <2>2 DEF HostEnsureHealth
  <1>5. DeadIds' = DeadIds
    BY <1>1, <1>4, HealthAssumption DEF DeadIds
  <1>6. Arena!Join(new)
    BY <1>1, <1>3, <1>5 DEF Arena!Join, Arena!NetId, NetId, DeadIds, UsedIds
  <1> QED
    BY <1>1, <1>6 DEF Arena!Next, Arena!NetId, NetId

\* HostOnClientGone is a Leave of the arena.
LEMMA LeaveRefines ==
    ASSUME IInv, NEW c \in Conn, HostOnClientGone(c)
    PROVE  Arena!Next
  <1>0. PICK gone \in NetId : gone = connToNetId[c]
    BY LeavePresence
  <1>1. /\ PresentIds' = PresentIds \ {gone}
        /\ gone \in NetId /\ gone # HostId
        /\ gone \in PresentIds
    <2>1. IsRegistered(c)
      BY DEF HostOnClientGone
    <2> QED
      BY <1>0, <2>1, LeavePresence, RegisteredArePresent
  <1>2. nextNetId' = nextNetId /\ healthByNetId' = [healthByNetId EXCEPT ![gone] = NoHealth]
    BY <1>0 DEF HostOnClientGone, Forget
  <1>3. \A n \in PresentIds' : healthByNetId'[n] = healthByNetId[n]
    BY <1>1, <1>2, IdsInUse DEF IInv, TypeOK
  <1>4. DeadIds' = DeadIds \ {gone}
    BY <1>1, <1>3 DEF DeadIds
  <1>5. Arena!Leave(gone)
    BY <1>1, <1>2, <1>4 DEF Arena!Leave, Arena!HostId, HostId, DeadIds
  <1>6. gone \in Arena!NetId
    BY <1>1 DEF Arena!NetId, NetId
  <1> QED
    BY <1>5, <1>6 DEF Arena!Next

\* A step that changes the HP of one player present kills it, revives it, or
\* leaves the arena as it is.
LEMMA HealthRefines ==
    ASSUME IInv, NEW n \in PresentIds, NEW hp \in Health,
           healthByNetId' = [healthByNetId EXCEPT ![n] = hp],
           UNCHANGED presenceVars
    PROVE  Arena!Next \/ UNCHANGED Arena!arenaVars
  <1>1. n \in NetId /\ \A m \in PresentIds : m \in NetId
    BY IdsInUse
  <1>2. PresentIds' = PresentIds /\ nextNetId' = nextNetId
    BY DEF presenceVars, PresentIds, Registered, IsRegistered
  <1>3. healthByNetId'[n] = hp /\ \A m \in PresentIds \ {n} : healthByNetId'[m] = healthByNetId[m]
    BY <1>1 DEF IInv, TypeOK
  <1>4. CASE hp = 0 /\ n \notin DeadIds
    <2>1. DeadIds' = DeadIds \cup {n}
      BY <1>2, <1>3, <1>4 DEF DeadIds
    <2>2. Arena!Die(n)
      BY <1>2, <1>4, <2>1 DEF Arena!Die, DeadIds
    <2> QED
      BY <1>1, <2>2 DEF Arena!Next, Arena!NetId, NetId
  <1>5. CASE hp # 0 /\ n \in DeadIds
    <2>1. DeadIds' = DeadIds \ {n}
      BY <1>2, <1>3, <1>5 DEF DeadIds
    <2>2. Arena!Revive(n)
      BY <1>2, <1>5, <2>1 DEF Arena!Revive, DeadIds
    <2> QED
      BY <1>1, <2>2 DEF Arena!Next, Arena!NetId, NetId
  <1>6. CASE hp = 0 <=> n \in DeadIds
    <2>1. DeadIds' = DeadIds
      BY <1>2, <1>3, <1>6 DEF DeadIds
    <2> QED
      BY <1>2, <2>1, StutterRefines
  <1> QED
    BY <1>4, <1>5, <1>6

\* HostApplyDamage is a Die of the arena, or changes nothing there.
LEMMA ApplyDamageRefines ==
    ASSUME IInv, NEW v \in NetId, NEW d \in ClaimedDamage, NEW s \in NetId,
           HostApplyDamage(v, d, s)
    PROVE  Arena!Next \/ UNCHANGED Arena!arenaVars
  <1>1. v \in PresentIds /\ HealthAfter(v, d) \in Health
    BY HealthAfterBounds DEF HostApplyDamage, HitCounts, IInv
  <1>2. /\ healthByNetId' = [healthByNetId EXCEPT ![v] = HealthAfter(v, d)]
        /\ UNCHANGED presenceVars
    BY DEF HostApplyDamage
  <1> QED
    BY <1>1, <1>2, HealthRefines

\* ServiceRespawns is a Revive of the arena.
LEMMA RespawnRefines ==
    ASSUME IInv, NEW n \in NetId, ServiceRespawn(n)
    PROVE  Arena!Next \/ UNCHANGED Arena!arenaVars
  <1>1. n \in PresentIds
    BY DEF ServiceRespawn, IInv, OnlyPresentOnFile
  <1>2. /\ healthByNetId' = [healthByNetId EXCEPT ![n] = MaxHealth]
        /\ UNCHANGED presenceVars
    BY <1>1 DEF ServiceRespawn, Revive
  <1>3. MaxHealth \in Health
    BY HealthAssumption DEF Health
  <1> QED
    BY <1>1, <1>2, <1>3, HealthRefines

\* The remaining handlers leave the arena as it is.
LEMMA QuietRefines ==
    ASSUME UNCHANGED <<presenceVars, healthByNetId>>
    PROVE  UNCHANGED Arena!arenaVars
  <1>1. PresentIds' = PresentIds
    BY DEF presenceVars, PresentIds, Registered, IsRegistered
  <1> QED
    BY <1>1, StutterRefines DEF presenceVars, DeadIds

\* Every step of the relay is a step of the arena or a stutter.
LEMMA NextRefines == IInv /\ [Next]_vars => [Arena!Next]_Arena!arenaVars
  <1> SUFFICES ASSUME IInv, [Next]_vars
               PROVE  Arena!Next \/ UNCHANGED Arena!arenaVars
    OBVIOUS
  <1>1. CASE Presence
    BY <1>1, JoinRefines, LeaveRefines DEF Presence
  <1>2. CASE Reports
    BY <1>2, QuietRefines
       DEF Reports, HostHandleTransform, HostHandleAppearance, HostHandleHello,
           HostHandleFire, combatVars, hostVars
  <1>3. CASE Combat
    <2>1. HostId \in NetId
      BY MaxNetIdAssumption DEF HostId, NetId
    <2>2. ASSUME NEW v \in NetId, NEW d \in ClaimedDamage, NEW c \in Conn,
                 HostHandleHit(c, v, d)
          PROVE  Arena!Next \/ UNCHANGED Arena!arenaVars
      BY <2>2, RegisteredArePresent, IdsInUse, ApplyDamageRefines DEF HostHandleHit
    <2> QED
      BY <1>3, <2>1, <2>2, ApplyDamageRefines DEF Combat, HostSendLocalHit
  <1>4. CASE HostPlayer
    BY <1>4, QuietRefines
       DEF HostPlayer, HostSendLocalAppearance, HostSendLocalTransform, HostSendLocalFire,
           combatVars, hostVars
  <1>5. CASE Respawns
    BY <1>5, RespawnRefines DEF Respawns
  <1>6. CASE Dropped \/ UNCHANGED vars
    BY <1>6, QuietRefines DEF Dropped, vars, hostVars, combatVars
  <1> QED
    BY <1>1, <1>2, <1>3, <1>4, <1>5, <1>6 DEF Next

\* Seen as who is present and who is dead, every behaviour of the worker is one
\* the arena allows: only fresh ids join, only the living die, only the dead
\* come back (HostOnClientConnected, HostApplyDamage, ServiceRespawns).
THEOREM RelayImplementsArena == Spec => ImplementsArena
  BY InitRefines, NextRefines, Invariance, PTL DEF Spec, ImplementsArena, Arena!Spec

-----------------------------------------------------------------------------
(* The score.                                                                *)

\* What the store's operations do to the kills and deaths on file.
LEMMA StoreScores ==
    ASSUME NEW store \in [Guid -> Record], NEW g \in Guid, NEW h \in Guid
    PROVE  /\ EnsureRecord(store, g)[h].kills = store[h].kills
           /\ EnsureRecord(store, g)[h].deaths = store[h].deaths
           /\ \A p : /\ UpsertPosition(store, g, p)[h].kills = store[h].kills
                     /\ UpsertPosition(store, g, p)[h].deaths = store[h].deaths
           /\ \A l : /\ UpsertAppearance(store, g, l)[h].kills = store[h].kills
                     /\ UpsertAppearance(store, g, l)[h].deaths = store[h].deaths
           /\ RecordKill(store, g)[h].kills = store[h].kills + (IF h = g THEN 1 ELSE 0)
           /\ RecordKill(store, g)[h].deaths = store[h].deaths
           /\ RecordDeath(store, g)[h].kills = store[h].kills
           /\ RecordDeath(store, g)[h].deaths = store[h].deaths + (IF h = g THEN 1 ELSE 0)
  <1>1. store[g] \in Record /\ store[h] \in Record
    OBVIOUS
  <1>2. store[h].kills \in Nat /\ store[h].deaths \in Nat
    BY <1>1 DEF Record
  <1>3. /\ RecordKill(store, g)[h].kills = store[h].kills + (IF h = g THEN 1 ELSE 0)
        /\ RecordKill(store, g)[h].deaths = store[h].deaths
    BY <1>1, <1>2 DEF RecordKill, Record
  <1>4. /\ RecordDeath(store, g)[h].kills = store[h].kills
        /\ RecordDeath(store, g)[h].deaths = store[h].deaths + (IF h = g THEN 1 ELSE 0)
    BY <1>1, <1>2 DEF RecordDeath, Record
  <1>5. /\ EnsureRecord(store, g)[h].kills = store[h].kills
        /\ EnsureRecord(store, g)[h].deaths = store[h].deaths
    BY <1>1 DEF EnsureRecord, Record
  <1>6. ASSUME NEW p
        PROVE  /\ UpsertPosition(store, g, p)[h].kills = store[h].kills
               /\ UpsertPosition(store, g, p)[h].deaths = store[h].deaths
    BY <1>1 DEF UpsertPosition, Record
  <1>7. ASSUME NEW l
        PROVE  /\ UpsertAppearance(store, g, l)[h].kills = store[h].kills
               /\ UpsertAppearance(store, g, l)[h].deaths = store[h].deaths
    BY <1>1 DEF UpsertAppearance, Record
  <1> QED
    BY <1>3, <1>4, <1>5, <1>6, <1>7

\* A step in which nobody dies and no score moves.
LEMMA NobodyDies ==
    ASSUME IInv,
           \A n \in PresentIds : healthByNetId'[n] = 0 => healthByNetId[n] = 0,
           \A g \in Guid : /\ records'[g].kills = records[g].kills
                           /\ records'[g].deaths = records[g].deaths
    PROVE  ScoreFollowsDeaths
  <1>1. \A n \in NetId : ~Dies(n)
    BY DEF Dies
  <1>2. \A g \in Guid : records[g].deaths \in Nat
    BY DEF IInv, TypeOK, Record
  <1> QED
    BY <1>1, <1>2 DEF ScoreFollowsDeaths

\* A fatal hit gives one death to the victim's GUID, and one kill to the
\* shooter's, of those that are bound.
LEMMA DeathIsCounted ==
    ASSUME IInv, NEW v \in PresentIds, NEW s \in PresentIds, v # s,
           healthByNetId[v] > 0,
           healthByNetId' = [healthByNetId EXCEPT ![v] = 0],
           records' = StoreAfterKill(v, s)
    PROVE  ScoreFollowsDeaths
  <1>1. v \in NetId /\ s \in NetId
    BY IdsInUse
  <1>2. \A n \in NetId : Dies(n) <=> n = v
    BY <1>1 DEF Dies, IInv, TypeOK, Health, NoHealth
  <1>3. /\ IsBound(v) => guidByNetId[v] \in Guid
        /\ IsBound(s) => guidByNetId[s] \in Guid
        /\ \A g \in Guid : \A n \in NetId : guidByNetId[n] = g => IsBound(n)
    BY <1>1, NoneAssumption DEF IsBound, IInv, TypeOK
  <1> DEFINE store == StoreAfterDeath(v)
  <1>4. store \in [Guid -> Record]
    BY <1>3, StoreTypes DEF StoreAfterDeath, IInv, TypeOK
  <1>5. ASSUME NEW g \in Guid
        PROVE  /\ store[g].deaths = records[g].deaths + (IF guidByNetId[v] = g THEN 1 ELSE 0)
               /\ store[g].kills = records[g].kills
               /\ records[g].deaths \in Nat /\ records[g].kills \in Nat
    <2>1. records[g].deaths \in Nat /\ records[g].kills \in Nat
      BY DEF IInv, TypeOK, Record
    <2>2. CASE IsBound(v)
      BY <1>3, <2>1, <2>2, StoreScores DEF StoreAfterDeath, IInv, TypeOK
    <2>3. CASE ~IsBound(v)
      BY <1>1, <1>3, <2>1, <2>3 DEF StoreAfterDeath
    <2> QED
      BY <2>1, <2>2, <2>3
  <1>6. ASSUME NEW g \in Guid
        PROVE  /\ records'[g].deaths = store[g].deaths
               /\ records'[g].kills = store[g].kills + (IF guidByNetId[s] = g THEN 1 ELSE 0)
    <2>1. store[g].kills \in Nat
      BY <1>4 DEF Record
    <2> HIDE DEF store
    <2>2. CASE IsBound(s)
      BY <1>3, <1>4, <2>2, StoreScores DEF StoreAfterKill, store
    <2>3. CASE ~IsBound(s)
      BY <1>1, <1>3, <2>1, <2>3 DEF StoreAfterKill, store
    <2> QED
      BY <2>2, <2>3
  <1> QED
    BY <1>1, <1>2, <1>5, <1>6 DEF ScoreFollowsDeaths

\* HostApplyDamage moves the score when it kills, and only then.
LEMMA ApplyDamageScores ==
    ASSUME IInv, NEW v \in NetId, NEW d \in ClaimedDamage, NEW s \in PresentIds,
           HostApplyDamage(v, d, s)
    PROVE  ScoreFollowsDeaths
  <1> DEFINE hp == HealthAfter(v, d)
  <1>1. v \in PresentIds /\ v # s /\ EnsuredHealth(v) > 0 /\ hp \in Health
    BY HealthAfterBounds DEF HostApplyDamage, HitCounts, IInv
  <1>2. healthByNetId[v] > 0
    BY <1>1 DEF IInv, OnlyPresentOnFile, EnsuredHealth
  <1>3. healthByNetId' = [healthByNetId EXCEPT ![v] = hp]
    BY DEF HostApplyDamage
  <1>4. CASE hp > 0 /\ UNCHANGED records
    <2>1. \A n \in PresentIds : healthByNetId'[n] = 0 => healthByNetId[n] = 0
      BY <1>3, <1>4, IdsInUse DEF IInv, TypeOK
    <2> QED
      BY <1>4, <2>1, NobodyDies
  <1>5. CASE hp = 0 /\ Kill(v, s)
    BY <1>1, <1>2, <1>3, <1>5, DeathIsCounted DEF Kill
  <1> QED
    BY <1>4, <1>5 DEF HostApplyDamage

\* What a player reports of itself moves no score.
LEMMA FilingKeepsScores ==
    ASSUME IInv, NEW n \in NetId, UNCHANGED healthByNetId,
           \/ UNCHANGED records
           \/ \E p : IsBound(n) /\ records' = UpsertPosition(records, guidByNetId[n], p)
           \/ \E l : IsBound(n) /\ records' = UpsertAppearance(records, guidByNetId[n], l)
           \/ \E g \in Guid : records' = EnsureRecord(records, g)
    PROVE  ScoreFollowsDeaths
  <1>1. IsBound(n) => guidByNetId[n] \in Guid
    BY DEF IsBound, IInv, TypeOK
  <1>2. records \in [Guid -> Record]
    BY DEF IInv, TypeOK
  <1>3. \A g \in Guid : /\ records'[g].kills = records[g].kills
                        /\ records'[g].deaths = records[g].deaths
    BY <1>1, <1>2, StoreScores
  <1> QED
    BY <1>3, NobodyDies

\* Every step moves the score as the deaths in it do.
LEMMA NextScores == IInv /\ [Next]_vars => ScoreFollowsDeaths
  <1> SUFFICES ASSUME IInv, [Next]_vars PROVE ScoreFollowsDeaths
    OBVIOUS
  <1> HostId \in NetId /\ HostId \in PresentIds
    BY IdsInUse
  <1>1. ASSUME NEW c \in Conn, HostOnClientConnected(c) PROVE ScoreFollowsDeaths
    <2>1. \A n \in PresentIds : healthByNetId'[n] = healthByNetId[n]
      <3>1. \A n \in PresentIds : EnsuredHealth(n) = healthByNetId[n] /\ n \in NetId
        BY IdsInUse DEF IInv, OnlyPresentOnFile, EnsuredHealth
      <3> QED
        BY <1>1, <3>1 DEF HostOnClientConnected, HostEnsureHealth
    <2> QED
      BY <1>1, <2>1, NobodyDies DEF HostOnClientConnected
  <1>2. ASSUME NEW c \in Conn, HostOnClientGone(c) PROVE ScoreFollowsDeaths
    <2>1. \A n \in PresentIds : healthByNetId'[n] = 0 => healthByNetId[n] = 0
      BY <1>2, IdsInUse DEF HostOnClientGone, Forget, IInv, TypeOK, NoHealth
    <2> QED
      BY <1>2, <2>1, NobodyDies DEF HostOnClientGone
  <1>3. CASE Presence
    BY <1>1, <1>2, <1>3 DEF Presence
  <1>4. CASE Reports
    BY <1>4, RegisteredArePresent, IdsInUse, FilingKeepsScores
       DEF Reports, HostHandleTransform, SavePosition, HostHandleAppearance, StoreLook,
           HostHandleHello, HostHandleFire, combatVars, hostVars
  <1>5. CASE Combat
    <2>1. ASSUME NEW v \in NetId, NEW d \in ClaimedDamage, NEW c \in Conn,
                 HostHandleHit(c, v, d)
          PROVE  ScoreFollowsDeaths
      BY <2>1, RegisteredArePresent, ApplyDamageScores DEF HostHandleHit
    <2> QED
      BY <1>5, <2>1, ApplyDamageScores DEF Combat, HostSendLocalHit
  <1>6. CASE HostPlayer
    BY <1>6, FilingKeepsScores
       DEF HostPlayer, HostSendLocalAppearance, StoreLook, HostSendLocalTransform,
           SavePosition, HostSendLocalFire, combatVars, hostVars
  <1>7. ASSUME NEW n \in NetId, ServiceRespawn(n) PROVE ScoreFollowsDeaths
    <2>1. n \in PresentIds
      BY <1>7 DEF ServiceRespawn, IInv, OnlyPresentOnFile
    <2>2. healthByNetId' = [healthByNetId EXCEPT ![n] = MaxHealth] /\ UNCHANGED records
      BY <1>7, <2>1 DEF ServiceRespawn, Revive
    <2>3. \A m \in PresentIds : healthByNetId'[m] = 0 => healthByNetId[m] = 0
      BY <2>2, HealthAssumption, IdsInUse DEF IInv, TypeOK
    <2> QED
      BY <2>2, <2>3, NobodyDies
  <1>8. CASE Dropped \/ UNCHANGED vars
    BY <1>8, NobodyDies DEF Dropped, vars, hostVars, combatVars
  <1> QED
    BY <1>3, <1>4, <1>5, <1>6, <1>7, <1>8 DEF Next, Respawns

\* Kills and deaths on file are those that happened: HostApplyDamage's early
\* returns let no dead, absent or own victim count, and no death is missed.
THEOREM ScoresAreEarned == Spec => ScoreCountsDeaths
  BY Invariance, NextScores, PTL DEF Spec, ScoreCountsDeaths

-----------------------------------------------------------------------------
(* What is sent, and saved positions.                                        *)

\* What the host may send.
Message ==
    [type : {"Join", "Leave", "Death", "Respawn", "Fire"}, netId : NetId]
      \cup [type : {"Appearance"}, netId : NetId, look : Look]
      \cup [type : {"Health"}, netId : NetId, hp : Health]
      \cup [type : {"Stats"}, netId : NetId, kills : Nat, deaths : Nat]
      \cup [type : {"RestorePos", "Transform"}, netId : NetId, pos : Pos]

\* Everything but a position restored.
Plain == {m \in Message : m.type # "RestorePos"}

LEMMA PlainMessages ==
    ASSUME NEW n \in NetId
    PROVE  /\ {JoinMsg(n), LeaveMsg(n), DeathMsg(n), RespawnMsg(n), FireMsg(n)} \subseteq Plain
           /\ \A l \in Look : AppearanceMsg(n, l) \in Plain
           /\ \A h \in Health : HealthMsg(n, h) \in Plain
           /\ \A s : s.kills \in Nat /\ s.deaths \in Nat => StatsMsg(n, s) \in Plain
           /\ \A p \in Pos : TransformMsg(n, p) \in Plain
  <1>1. /\ JoinMsg(n) \in Plain /\ LeaveMsg(n) \in Plain /\ DeathMsg(n) \in Plain
        /\ RespawnMsg(n) \in Plain /\ FireMsg(n) \in Plain
    BY DEF Plain, Message, JoinMsg, LeaveMsg, DeathMsg, RespawnMsg, FireMsg
  <1>2. \A l \in Look : AppearanceMsg(n, l) \in Plain
    BY DEF Plain, Message, AppearanceMsg
  <1>3. \A h \in Health : HealthMsg(n, h) \in Plain
    BY DEF Plain, Message, HealthMsg
  <1>4. \A s : s.kills \in Nat /\ s.deaths \in Nat => StatsMsg(n, s) \in Plain
    BY DEF Plain, Message, StatsMsg
  <1>5. \A p \in Pos : TransformMsg(n, p) \in Plain
    BY DEF Plain, Message, TransformMsg
  <1> QED
    BY <1>1, <1>2, <1>3, <1>4, <1>5

\* What the sending helpers send is what they were given.
LEMMA SendType ==
    ASSUME NEW M, NEW to, NEW msgs \in Seq(M)
    PROVE  Send(to, msgs) \in [Endpoint -> Seq(M)]
  <1>1. <<>> \in Seq(M)
    OBVIOUS
  <1> QED
    BY <1>1 DEF Send

LEMMA ThenType ==
    ASSUME NEW M, NEW a \in [Endpoint -> Seq(M)], NEW b \in [Endpoint -> Seq(M)]
    PROVE  Then(a, b) \in [Endpoint -> Seq(M)]
  BY DEF Then

\* A roster and a welcome are plain.
LEMMA RosterEntryType ==
    ASSUME IInv, NEW n \in PresentIds
    PROVE  RosterEntry(n) \in Seq(Plain)
  <1>1. n \in NetId /\ EnsuredHealth(n) \in Health
    BY IdsInUse DEF IInv, TypeOK, OnlyPresentOnFile, EnsuredHealth
  <1>2. /\ StatsOf(records, n).kills \in Nat /\ StatsOf(records, n).deaths \in Nat
    BY <1>1 DEF StatsOf, IInv, TypeOK, Record
  <1>3. HostSendAppearanceOnFile(n) \in Seq(Plain)
    <2>1. appearanceByNetId[n] # NoLook => AppearanceMsg(n, appearanceByNetId[n]) \in Plain
      BY <1>1, PlainMessages DEF IInv, TypeOK
    <2> QED
      BY <2>1 DEF HostSendAppearanceOnFile
  <1>4. /\ JoinMsg(n) \in Plain
        /\ HealthMsg(n, EnsuredHealth(n)) \in Plain
        /\ StatsMsg(n, StatsOf(records, n)) \in Plain
    BY <1>1, <1>2, PlainMessages
  <1> QED
    BY <1>3, <1>4 DEF RosterEntry

LEMMA WelcomeType ==
    ASSUME IInv, NEW n \in NetId, NEW order \in Seq(PresentIds)
    PROVE  Welcome(n, order) \in Seq(Plain)
  <1>1. RosterEntry(HostId) \in Seq(Plain)
    BY IdsInUse, RosterEntryType
  <1>2. FlattenSeq([i \in DOMAIN order |-> RosterEntry(order[i])]) \in Seq(Plain)
    <2> DEFINE entries == [i \in DOMAIN order |-> RosterEntry(order[i])]
    <2>1. \A i \in DOMAIN order : RosterEntry(order[i]) \in Seq(Plain)
      BY RosterEntryType
    <2>2. entries \in Seq(Seq(Plain))
      BY <2>1
    <2> QED
      BY <2>2, FlattenType
  <1>3. JoinMsg(n) \in Plain
    BY PlainMessages
  <1> QED
    BY <1>1, <1>2, <1>3 DEF Welcome, Roster

\* The order of a roster is one of the clients present.
LEMMA OrderType ==
    ASSUME IInv, NEW order \in SetToSeqs(PresentIds \ {HostId})
    PROVE  /\ order \in Seq(PresentIds \ {HostId})
           /\ DOMAIN order = 1..Len(order)
           /\ \A i, j \in DOMAIN order : order[i] = order[j] => i = j
           /\ \A x \in PresentIds \ {HostId} : \E i \in DOMAIN order : order[i] = x
  <1>1. IsFiniteSet(1..MaxNetId)
    BY MaxNetIdAssumption, FS_Interval
  <1>2. IsFiniteSet(PresentIds \ {HostId})
    BY <1>1, IdsInUse, FS_Subset DEF NetId
  <1> QED
    BY <1>2, SetToSeqsType

\* Handlers other than that of Hello send no position to restore.
LEMMA ConnectedIsPlain ==
    ASSUME IInv, NEW c \in Conn, HostOnClientConnected(c)
    PROVE  sent' \in [Endpoint -> Seq(Plain)]
  <1>1. PICK order \in SetToSeqs(PresentIds \ {HostId}) :
           sent' = Then(Send({c}, Welcome(nextNetId, order)),
                        Then(Relay(c, <<JoinMsg(nextNetId)>>),
                             HostRelayToOthers(c, <<HealthMsg(nextNetId, EnsuredHealth(nextNetId))>>)))
    BY DEF HostOnClientConnected, FreshNetId
  <1>2. nextNetId \in NetId
    BY DEF HostOnClientConnected
  <1>3. Welcome(nextNetId, order) \in Seq(Plain)
    <2>1. order \in Seq(PresentIds)
      BY OrderType, SeqMonotone
    <2> QED
      BY <1>2, <2>1, WelcomeType
  <1>4. EnsuredHealth(nextNetId) \in Health
    BY <1>2, HealthAssumption DEF EnsuredHealth, IInv, TypeOK, Health
  <1>5. /\ <<JoinMsg(nextNetId)>> \in Seq(Plain)
        /\ <<HealthMsg(nextNetId, EnsuredHealth(nextNetId))>> \in Seq(Plain)
    BY <1>2, <1>4, PlainMessages
  <1> QED
    BY <1>1, <1>3, <1>5, SendType, ThenType DEF Relay, HostRelayToOthers

LEMMA ApplyDamageIsPlain ==
    ASSUME IInv, NEW v \in NetId, NEW d \in ClaimedDamage, NEW s \in NetId,
           HostApplyDamage(v, d, s)
    PROVE  sent' \in [Endpoint -> Seq(Plain)]
  <1> DEFINE hp == HealthAfter(v, d)
  <1>1. CASE hp > 0 /\ sent' = Announce(<<HealthMsg(v, hp)>>)
    <2>1. <<HealthMsg(v, hp)>> \in Seq(Plain)
      BY HealthAfterBounds, PlainMessages DEF IInv
    <2> QED
      BY <1>1, <2>1, SendType DEF Announce
  <1>2. CASE Kill(v, s)
    <2>1. ASSUME NEW store \in [Guid -> Record], NEW n \in NetId
          PROVE  HostBroadcastStats(store, n) \in Seq(Plain)
      <3>1. StatsOf(store, n).kills \in Nat /\ StatsOf(store, n).deaths \in Nat
        BY DEF StatsOf, IInv, TypeOK, Record
      <3>2. StatsMsg(n, StatsOf(store, n)) \in Plain
        BY <3>1, PlainMessages
      <3> QED
        BY <3>2 DEF HostBroadcastStats
    <2>2. /\ IsBound(v) => guidByNetId[v] \in Guid
          /\ IsBound(s) => guidByNetId[s] \in Guid
      BY DEF IsBound, IInv, TypeOK
    <2>3. StoreAfterDeath(v) \in [Guid -> Record]
      BY <2>2, StoreTypes DEF StoreAfterDeath, IInv, TypeOK
    <2>4. StoreAfterKill(v, s) \in [Guid -> Record]
      BY <2>2, <2>3, StoreTypes DEF StoreAfterKill
    <2>5. <<HealthMsg(v, 0), DeathMsg(v)>> \in Seq(Plain)
      <3>1. HealthMsg(v, 0) \in Plain /\ DeathMsg(v) \in Plain
        BY HealthAssumption, PlainMessages DEF Health
      <3> QED
        BY <3>1
    <2> DEFINE msgs == <<HealthMsg(v, 0), DeathMsg(v)>>
                         \o HostBroadcastStats(StoreAfterDeath(v), v)
                         \o HostBroadcastStats(StoreAfterKill(v, s), s)
    <2>6. msgs \in Seq(Plain)
      BY <2>1, <2>3, <2>4, <2>5
    <2>7. sent' = Announce(msgs)
      BY <1>2 DEF Kill
    <2> QED
      BY <2>6, <2>7, SendType DEF Announce
  <1> QED
    BY <1>1, <1>2 DEF HostApplyDamage

LEMMA RespawnIsPlain ==
    ASSUME IInv, NEW n \in NetId, ServiceRespawn(n)
    PROVE  sent' \in [Endpoint -> Seq(Plain)]
  <1>1. n \in PresentIds
    BY DEF ServiceRespawn, IInv, OnlyPresentOnFile
  <1>2. sent' = Announce(<<HealthMsg(n, MaxHealth), RespawnMsg(n)>>)
    BY <1>1 DEF ServiceRespawn, Revive
  <1>3. HealthMsg(n, MaxHealth) \in Plain /\ RespawnMsg(n) \in Plain
    BY HealthAssumption, PlainMessages DEF Health
  <1>4. <<HealthMsg(n, MaxHealth), RespawnMsg(n)>> \in Seq(Plain)
    BY <1>3
  <1> QED
    BY <1>2, <1>4, SendType DEF Announce

LEMMA SilentIsPlain ==
    Silent \in [Endpoint -> Seq(Plain)]
  BY DEF Silent

\* A plain handler restores nobody.
LEMMA PlainRestoresNone ==
    ASSUME sent' \in [Endpoint -> Seq(Plain)]
    PROVE  RestoresAreTheirs
  <1> SUFFICES ASSUME NEW e \in Endpoint, NEW i \in DOMAIN sent'[e]
               PROVE  sent'[e][i].type # "RestorePos"
    BY DEF RestoresAreTheirs
  <1>1. sent'[e] \in Seq(Plain)
    OBVIOUS
  <1>2. sent'[e][i] \in Plain
    BY <1>1
  <1> QED
    BY <1>2 DEF Plain

\* HostHandleHello restores the position of its sender only.
LEMMA HelloRestoresItsSender ==
    ASSUME IInv, NEW c \in Conn, NEW g \in Guid, HostHandleHello(c, g)
    PROVE  RestoresAreTheirs
  <1> DEFINE n == connToNetId[c]
             rec == EnsureRecord(records, g)[g]
             look == IF rec.look = NoLook THEN <<>> ELSE <<AppearanceMsg(n, rec.look)>>
             place == IF rec.pos = NoPos THEN <<>> ELSE <<RestorePosMsg(n, rec.pos)>>
  <1>1. n \in NetId /\ c \in Registered
    BY RegisteredArePresent, IdsInUse DEF HostHandleHello, Registered
  <1>2. /\ guidByNetId' = [guidByNetId EXCEPT ![n] = g]
        /\ connToNetId' = connToNetId
        /\ sent' = Then(Announce(<<StatsMsg(n, rec)>>),
                        Then(Relay(c, look), Send({c}, place)))
    BY DEF HostHandleHello, RestoreLook, RestorePos, presenceVars
  <1>3. rec \in Record /\ rec.pos = records[g].pos
    <2>1. records[g] \in Record
      BY DEF IInv, TypeOK
    <2> QED
      BY <2>1, StoreTypes DEF IInv, TypeOK, EnsureRecord, Record
  <1>4. <<StatsMsg(n, rec)>> \in Seq(Plain) /\ look \in Seq(Plain)
    <2>1. StatsMsg(n, rec) \in Plain
      BY <1>1, <1>3, PlainMessages DEF Record
    <2>2. rec.look # NoLook => AppearanceMsg(n, rec.look) \in Plain
      BY <1>1, <1>3, PlainMessages DEF Record
    <2> QED
      BY <2>1, <2>2
  <1> HIDE DEF n, rec, look
  <1> SUFFICES ASSUME NEW e \in Endpoint, NEW i \in DOMAIN sent'[e],
                      sent'[e][i].type = "RestorePos"
               PROVE  e = c /\ sent'[e][i] = RestorePosMsg(n, rec.pos)
    <2>1. guidByNetId'[n] = g /\ c \in Registered' /\ connToNetId'[c] = n
      BY <1>1, <1>2 DEF n, IInv, TypeOK, Registered, IsRegistered
    <2> QED
      BY <1>3, <2>1 DEF RestoresAreTheirs, RestorePosMsg
  <1> DEFINE stats == IF e \in Registered \cup {Local} THEN <<StatsMsg(n, rec)>> ELSE <<>>
             looks == IF e \in (Registered \ {c}) \cup {Local} THEN look ELSE <<>>
             places == IF e = c THEN place ELSE <<>>
  <1>5. sent'[e] = stats \o (looks \o places)
    BY <1>2 DEF Then, Announce, Relay, Send
  <1>6. stats \in Seq(Plain) /\ looks \in Seq(Plain)
    BY <1>4
  <1>7. \/ places = <<>>
        \/ e = c /\ places = <<RestorePosMsg(n, rec.pos)>>
    OBVIOUS
  <1> HIDE DEF stats, looks, places
  <1>8. \A m \in Plain : m.type # "RestorePos"
    BY DEF Plain
  <1> DEFINE told == stats \o looks
             seq == sent'[e]
  <1>9. /\ told \in Seq(Plain)
        /\ \/ seq = told
           \/ e = c /\ seq = Append(told, RestorePosMsg(n, rec.pos))
    <2>1. told \in Seq(Plain)
      BY <1>6
    <2>2. CASE places = <<>>
      BY <1>5, <1>6, <2>2
    <2>3. CASE e = c /\ places = <<RestorePosMsg(n, rec.pos)>>
      BY <1>5, <1>6, <2>3
    <2> QED
      BY <1>7, <2>1, <2>2, <2>3
  <1> HIDE DEF told, seq
  <1>10. i \in DOMAIN seq /\ seq[i].type = "RestorePos"
    BY DEF seq
  <1>11. seq # told
    BY <1>8, <1>9, <1>10
  <1>12. e = c /\ (seq[i] = RestorePosMsg(n, rec.pos) \/ seq[i] \in Plain)
    BY <1>9, <1>10, <1>11
  <1> QED
    BY <1>8, <1>10, <1>12 DEF seq

\* Only the handling of a Hello sends anything else.
LEMMA NextIsPlain ==
    ASSUME IInv, Next, \A c \in Conn, g \in Guid : ~HostHandleHello(c, g)
    PROVE  sent' \in [Endpoint -> Seq(Plain)]
  <1> HostId \in NetId
    BY IdsInUse
  <1>1. ASSUME NEW c \in Conn, HostOnClientGone(c) PROVE sent' \in [Endpoint -> Seq(Plain)]
    <2>1. LeaveMsg(connToNetId[c]) \in Plain
      BY <1>1, LeavePresence, PlainMessages
    <2>2. <<LeaveMsg(connToNetId[c])>> \in Seq(Plain)
      BY <2>1
    <2> QED
      BY <1>1, <2>2, SendType DEF HostOnClientGone, Relay
  <1>2. CASE Presence
    BY <1>1, <1>2, ConnectedIsPlain DEF Presence
  <1>3. CASE Reports
    <2>1. ASSUME NEW n \in NetId, NEW m \in Plain, NEW to
          PROVE  Send(to, <<m>>) \in [Endpoint -> Seq(Plain)]
      <3>1. <<m>> \in Seq(Plain)
        OBVIOUS
      <3> QED
        BY <3>1, SendType
    <2>2. ASSUME NEW c \in Conn, NEW p \in Pos, HostHandleTransform(c, p)
          PROVE  sent' \in [Endpoint -> Seq(Plain)]
      BY <2>1, <2>2, RegisteredArePresent, IdsInUse, PlainMessages DEF HostHandleTransform, Relay
    <2>3. ASSUME NEW c \in Conn, NEW l \in Look, HostHandleAppearance(c, l)
          PROVE  sent' \in [Endpoint -> Seq(Plain)]
      BY <2>1, <2>3, RegisteredArePresent, IdsInUse, PlainMessages DEF HostHandleAppearance, Relay
    <2>4. ASSUME NEW c \in Conn, HostHandleFire(c)
          PROVE  sent' \in [Endpoint -> Seq(Plain)]
      <3>1. FireMsg(connToNetId[c]) \in Plain
        BY <2>4, RegisteredArePresent, IdsInUse, PlainMessages DEF HostHandleFire
      <3> QED
        BY <2>1, <2>4, <3>1 DEF HostHandleFire, Relay
    <2> QED
      BY <1>3, <2>2, <2>3, <2>4 DEF Reports
  <1>4. CASE Combat
    <2>1. ASSUME NEW v \in NetId, NEW d \in ClaimedDamage, NEW c \in Conn,
                 HostHandleHit(c, v, d)
          PROVE  sent' \in [Endpoint -> Seq(Plain)]
      BY <2>1, RegisteredArePresent, IdsInUse, ApplyDamageIsPlain DEF HostHandleHit
    <2> QED
      BY <1>4, <2>1, ApplyDamageIsPlain DEF Combat, HostSendLocalHit
  <1>5. CASE HostPlayer
    <2>1. ASSUME NEW m \in Plain PROVE HostBroadcast(<<m>>) \in [Endpoint -> Seq(Plain)]
      <3>1. <<m>> \in Seq(Plain)
        OBVIOUS
      <3> QED
        BY <3>1, SendType DEF HostBroadcast
    <2>2. /\ \A l \in Look : AppearanceMsg(HostId, l) \in Plain
          /\ \A p \in Pos : TransformMsg(HostId, p) \in Plain
          /\ FireMsg(HostId) \in Plain
      BY PlainMessages
    <2> QED
      BY <1>5, <2>1, <2>2
         DEF HostPlayer, HostSendLocalAppearance, HostSendLocalTransform, HostSendLocalFire
  <1>6. CASE Respawns
    BY <1>6, RespawnIsPlain DEF Respawns
  <1>7. CASE Dropped
    BY <1>7, SilentIsPlain DEF Dropped
  <1> QED
    BY <1>2, <1>3, <1>4, <1>5, <1>6, <1>7 DEF Next

\* Every step that sends a position to restore sends it home.
LEMMA NextRestores == IInv /\ [Next]_vars => [RestoresAreTheirs]_vars
  <1> SUFFICES ASSUME IInv, Next PROVE RestoresAreTheirs
    OBVIOUS
  <1> QED
    BY NextIsPlain, HelloRestoresItsSender, PlainRestoresNone

\* Whatever the host's handlers send are messages.
LEMMA HelloSends ==
    ASSUME IInv, NEW c \in Conn, NEW g \in Guid, HostHandleHello(c, g)
    PROVE  sent' \in [Endpoint -> Seq(Message)]
  <1> DEFINE n == connToNetId[c]
             rec == EnsureRecord(records, g)[g]
             look == IF rec.look = NoLook THEN <<>> ELSE <<AppearanceMsg(n, rec.look)>>
             place == IF rec.pos = NoPos THEN <<>> ELSE <<RestorePosMsg(n, rec.pos)>>
  <1>1. n \in NetId
    BY RegisteredArePresent, IdsInUse DEF HostHandleHello
  <1>2. sent' = Then(Announce(<<StatsMsg(n, rec)>>), Then(Relay(c, look), Send({c}, place)))
    BY DEF HostHandleHello, RestoreLook, RestorePos
  <1>3. rec \in Record
    BY StoreTypes DEF IInv, TypeOK
  <1> HIDE DEF n, rec
  <1>4. /\ StatsMsg(n, rec) \in Message
        /\ rec.look # NoLook => AppearanceMsg(n, rec.look) \in Message
        /\ rec.pos # NoPos => RestorePosMsg(n, rec.pos) \in Message
    BY <1>1, <1>3, PlainMessages DEF Plain, Record, Message, RestorePosMsg
  <1>5. /\ <<StatsMsg(n, rec)>> \in Seq(Message)
        /\ look \in Seq(Message) /\ place \in Seq(Message)
    BY <1>4
  <1> QED
    BY <1>2, <1>5, SendType, ThenType DEF Announce, Relay

LEMMA NextSends ==
    ASSUME IInv, Next
    PROVE  sent' \in [Endpoint -> Seq(Message)]
  <1>1. Plain \subseteq Message
    BY DEF Plain
  <1>2. CASE \E c \in Conn, g \in Guid : HostHandleHello(c, g)
    BY <1>2, HelloSends
  <1>3. CASE \A c \in Conn, g \in Guid : ~HostHandleHello(c, g)
    BY <1>1, <1>3, NextIsPlain, SeqMonotone
  <1> QED
    BY <1>2, <1>3

\* The position a player is sent back to is the one saved under its own GUID, and
\* nobody else is sent there (HostHandleHello).
THEOREM RestoresComeHome == Spec => RestoreGoesHome
  BY Invariance, NextRestores, PTL DEF Spec, RestoreGoesHome
=============================================================================
