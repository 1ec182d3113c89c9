--------------------------- MODULE PeerStreaming ----------------------------
(***************************************************************************)
(* The puppets one game shows for the other players (CyberRestSystem.reds): *)
(* when one is spawned, dressed, driven, killed, re-placed and despawned.    *)
(*                                                                          *)
(* Everything here is the game thread's, one handler at a time.  Between two  *)
(* handlers the engine finishes spawning entities (CreateEntity only asks     *)
(* for one), streams the ground in and out, and the local player moves.       *)
(* What hp and scores a peer has is Session.tla's business.                    *)
(***************************************************************************)
EXTENDS Integers, FiniteSets

CONSTANTS
    Peer,          \* net ids of the others; one is never used again
    Position,      \* where a player can be
    Look,          \* looks: a gender and what is worn in a slot
    Bare,          \* the slot is empty
    EntityId,      \* bound: the engine's ids
    MaxTick        \* bound: the ticks of movement samples; 1 tells none apart

ASSUME LookAssumption == \A l \in Look : DOMAIN l = {"gender", "item"}
ASSUME BoundsAssumption == EntityId \subseteq Nat \ {0} /\ MaxTick \in Nat \ {0}
\* The engine has an id for every puppet.
ASSUME IdsAssumption ==
    /\ IsFiniteSet(Peer)
    /\ IsFiniteSet(EntityId) => Cardinality(EntityId) >= Cardinality(Peer)

VARIABLES
    peers,         \* m_puppets
    cache,         \* m_peerAppearance
    entities,      \* the engine's dynamic entities
    near,          \* the positions within RELEVANCY_RADIUS of the local V
    ground,        \* the positions with streamed collision
    worldReady,    \* m_worldReady
    left           \* history: the ids that left

vars == <<peers, cache, entities, near, ground, worldReady, left>>
world == <<near, ground, worldReady, left>>

NoEntity == 0
NoCmd == 0
Nowhere == "nowhere"
NoGender == "unknown"

\* CyberRestPeer.  lastCmd is the entity the last command was sent to; spawned is
\* kept beside entityId as in the code; target is Nowhere until hasTarget.
NewPeer ==
    [entityId |-> NoEntity, spawned |-> FALSE, lastCmd |-> NoCmd, alive |-> TRUE,
     appearanceApplied |-> FALSE, target |-> Nowhere, tick |-> 0]

\* An entity the engine was asked for: the body of its record, what its slot holds,
\* whether its health pool was drained; and, as history, the look it was last asked to
\* wear and whether the item was refused.
NoLook == [gender |-> NoGender, item |-> Bare]
Undressed == [worn |-> Bare, asked |-> NoLook, refused |-> FALSE]
Entity(body) ==
    [resolved |-> FALSE, body |-> body, attire |-> Undressed, drained |-> FALSE]

Tracked == DOMAIN peers
Live == DOMAIN entities

\* GetEntity gives a puppet.
IsThere(e) == e \in Live /\ entities[e].resolved

RecordForGender(p) == IF p \in DOMAIN cache THEN cache[p].gender ELSE NoGender

\* An id the engine never gave to anything still remembered.
FreshId == CHOOSE e \in EntityId :
    /\ e \notin Live
    /\ \A p \in Tracked : e \notin {peers[p].entityId, peers[p].lastCmd}

-----------------------------------------------------------------------------
Init ==
    /\ peers = <<>> /\ cache = <<>> /\ entities = <<>>
    /\ near \in SUBSET Position /\ ground \in SUBSET Position
    /\ worldReady = FALSE /\ left = {}

(* What happens around the game thread.                                     *)

\* The local player moves, sectors are streamed in and out.
WorldChanges ==
    /\ near' \in SUBSET Position /\ ground' \in SUBSET Position
    /\ UNCHANGED <<peers, cache, entities, worldReady, left>>

\* WorldReady.tla says when m_worldReady is set and when it is re-armed.
WorldIsReady(ready) ==
    /\ ready # worldReady /\ worldReady' = ready
    /\ UNCHANGED <<peers, cache, entities, near, ground, left>>

\* The engine has spawned an entity.
Resolve(e) ==
    /\ e \in Live /\ ~entities[e].resolved
    /\ entities' = [entities EXCEPT ![e].resolved = TRUE]
    /\ UNCHANGED <<peers, cache, world>>

-----------------------------------------------------------------------------
(* The handlers.                                                            *)

With(f, x, v) == [y \in DOMAIN f \cup {x} |-> IF y = x THEN v ELSE f[y]]
Without(f, x) == [y \in DOMAIN f \ {x} |-> f[y]]

Put(p, peer) == peers' = With(peers, p, peer)

\* DespawnPeerPuppet.
Deleted(e) == Without(entities, e)

\* ApplyAppearanceToPuppet attaches the item of a slot that has one, and returns nothing:
\* there may be no TransactionSystem, and an item that cannot be given or attached is
\* skipped.
AfterDressing(attire, l) ==
    IF l.item = Bare
    THEN {[attire EXCEPT !.asked = l, !.refused = FALSE]}
    ELSE {[worn |-> l.item, asked |-> l, refused |-> FALSE],
          [attire EXCEPT !.asked = l, !.refused = TRUE]}

ApplyAppearanceToPuppet(e, l) ==
    \E attire \in AfterDressing(entities[e].attire, l) :
        entities' = [entities EXCEPT ![e].attire = attire]

OnNetPlayerJoin(p) ==
    /\ p \notin Tracked \cup left
    /\ Put(p, NewPeer)
    /\ UNCHANGED <<cache, entities, world>>

\* TrySpawnPeer of a peer that has no puppet: nothing without ground under the
\* target, or when CreateEntity fails.  The new entity is not there yet, so the look
\* is not applied here.
SpawnedAs(peer, e) ==
    [peer EXCEPT !.entityId = e, !.spawned = TRUE, !.appearanceApplied = FALSE]

Spawn(p, peer) ==
    /\ peer.target \in ground
    /\ Put(p, SpawnedAs(peer, FreshId))
    /\ entities' = With(entities, FreshId, Entity(RecordForGender(p)))

SpawnFails(p, peer) ==
    /\ Put(p, peer)
    /\ UNCHANGED entities

\* TickPeerStreaming for one peer; what it does for one it does to no other, so
\* the loop over all is any number of these.
DespawnedFrom(peer) ==
    [peer EXCEPT !.spawned = FALSE, !.entityId = NoEntity, !.appearanceApplied = FALSE,
                 !.lastCmd = NoCmd]

SweepOut_TheLiving(p) ==
    /\ worldReady /\ p \in Tracked /\ peers[p].alive
    /\ peers[p].target # Nowhere /\ peers[p].target \notin near
    /\ peers[p].spawned
    /\ Put(p, DespawnedFrom(peers[p]))
    /\ entities' = Deleted(peers[p].entityId)
    /\ UNCHANGED <<cache, world>>
SweepOut(p) ==
    /\ worldReady /\ p \in Tracked
    /\ peers[p].target # Nowhere /\ peers[p].target \notin near
    /\ peers[p].spawned
    /\ Put(p, DespawnedFrom(peers[p]))
    /\ entities' = Deleted(peers[p].entityId)
    /\ UNCHANGED <<cache, world>>

SweepIn(p) ==
    /\ worldReady /\ p \in Tracked
    /\ peers[p].target \in near
    /\ ~peers[p].spawned
    /\ Spawn(p, peers[p])
    /\ UNCHANGED <<cache, world>>

\* OnNetPlayerTransform: the target is recorded ...
Moved(p, pos, tick) == [peers[p] EXCEPT !.target = pos, !.tick = tick]

\* ... and a peer without a puppet is spawned if it is near ...
TransformSpawns(p, pos, tick) ==
    /\ p \in Tracked /\ ~peers[p].spawned
    /\ \/ pos \in near /\ Spawn(p, Moved(p, pos, tick))
       \/ SpawnFails(p, Moved(p, pos, tick))
    /\ UNCHANGED <<cache, world>>

\* ... a puppet that is not there yet, or is dead, stays as it is ...
TransformIsKept(p, pos, tick) ==
    /\ p \in Tracked /\ peers[p].spawned
    /\ ~IsThere(peers[p].entityId) \/ ~peers[p].alive
    /\ Put(p, Moved(p, pos, tick))
    /\ UNCHANGED <<cache, entities, world>>

\* ... and one that is there is dressed if it was not, with whatever success, and
\* driven: a command to move or to teleport, or none to an idle one.
TransformDrives_NoDress(p, pos, tick) ==
    /\ p \in Tracked /\ peers[p].spawned
    /\ IsThere(peers[p].entityId) /\ peers[p].alive
    /\ \E cmd \in {NoCmd, peers[p].entityId} :
         Put(p, [Moved(p, pos, tick) EXCEPT !.lastCmd = cmd])
    /\ UNCHANGED <<cache, entities, world>>
TransformDrives(p, pos, tick) ==
    /\ p \in Tracked /\ peers[p].spawned
    /\ IsThere(peers[p].entityId) /\ peers[p].alive
    /\ LET dresses == ~peers[p].appearanceApplied /\ p \in DOMAIN cache
       IN  /\ IF dresses THEN ApplyAppearanceToPuppet(peers[p].entityId, cache[p])
                         ELSE UNCHANGED entities
           /\ \E cmd \in {NoCmd, peers[p].entityId} :
                Put(p, [Moved(p, pos, tick) EXCEPT
                           !.lastCmd = cmd,
                           !.appearanceApplied = @ \/ dresses])
    /\ UNCHANGED <<cache, world>>

OnNetPlayerTransform(p, pos, tick) ==
    \/ TransformSpawns(p, pos, tick)
    \/ TransformIsKept(p, pos, tick)
    \/ TransformDrives(p, pos, tick)

\* OnNetPlayerAppearance and TryApplyAppearance: the new look is cached, and applied
\* now, with whatever success, if the puppet is there, dead or alive.  A look of a peer
\* not tracked does not come (Session!NoOrphanMessage).
OnNetPlayerAppearance_Once(p, l) ==
    /\ p \in Tracked
    /\ cache' = With(cache, p, l)
    /\ LET applies == peers[p].spawned /\ IsThere(peers[p].entityId)
                      /\ ~peers[p].appearanceApplied
       IN  /\ Put(p, [peers[p] EXCEPT !.appearanceApplied = @ \/ applies])
           /\ IF applies THEN ApplyAppearanceToPuppet(peers[p].entityId, l)
                         ELSE UNCHANGED entities
    /\ UNCHANGED world
OnNetPlayerAppearance(p, l) ==
    /\ p \in Tracked
    /\ cache' = With(cache, p, l)
    /\ LET applies == peers[p].spawned /\ IsThere(peers[p].entityId)
       IN  /\ Put(p, [peers[p] EXCEPT !.appearanceApplied = applies])
           /\ IF applies THEN ApplyAppearanceToPuppet(peers[p].entityId, l)
                         ELSE UNCHANGED entities
    /\ UNCHANGED world

\* OnNetPlayerLeave, after the bridge forgot the look.
OnNetPlayerLeave_NoDelete(p) ==
    /\ p \in Tracked
    /\ cache' = Without(cache, p)
    /\ peers' = Without(peers, p)
    /\ left' = left \cup {p}
    /\ UNCHANGED <<entities, near, ground, worldReady>>
OnNetPlayerLeave(p) ==
    /\ p \in Tracked
    /\ cache' = Without(cache, p)
    /\ entities' = Deleted(peers[p].entityId)
    /\ peers' = Without(peers, p)
    /\ left' = left \cup {p}
    /\ UNCHANGED <<near, ground, worldReady>>

\* OnNetPlayerDeath and KillPuppet: the puppet is drained if it is there.
OnNetPlayerDeath(p) ==
    /\ p \in Tracked
    /\ Put(p, [peers[p] EXCEPT !.alive = FALSE, !.lastCmd = NoCmd])
    /\ entities' = IF IsThere(peers[p].entityId)
                   THEN [entities EXCEPT ![peers[p].entityId].drained = TRUE]
                   ELSE entities
    /\ UNCHANGED <<cache, world>>

\* OnNetPlayerRespawn.  The host sends no position, so nothing is re-placed.
OnNetPlayerRespawn(p) ==
    /\ p \in Tracked
    /\ Put(p, [peers[p] EXCEPT !.alive = TRUE, !.lastCmd = NoCmd])
    /\ UNCHANGED <<cache, entities, world>>

-----------------------------------------------------------------------------
SomeTransform(p) ==
    \E pos \in Position, tick \in 1..MaxTick : OnNetPlayerTransform(p, pos, tick)

Sweep(p) == SweepOut(p) \/ SweepIn(p)

Next ==
    \/ WorldChanges \/ WorldIsReady(TRUE) \/ WorldIsReady(FALSE)
    \/ (\E e \in EntityId : Resolve(e))
    \/ \E p \in Peer :
        \/ OnNetPlayerJoin(p) \/ OnNetPlayerLeave(p)
        \/ OnNetPlayerDeath(p) \/ OnNetPlayerRespawn(p)
        \/ Sweep(p) \/ SomeTransform(p)
        \/ \E l \in Look : OnNetPlayerAppearance(p, l)

Spec == Init /\ [][Next]_vars

\* Frames go on, the engine spawns what it was asked for, and a peer that is there
\* keeps sending movement: its worker sends it in every round of its pump, and of
\* the samples sent again and again some arrive.
FairSpec ==
    /\ Spec
    /\ \A e \in EntityId : WF_vars(Resolve(e))
    /\ \A p \in Peer : WF_vars(Sweep(p)) /\ WF_vars(SomeTransform(p))

-----------------------------------------------------------------------------
(* Properties.                                                              *)

\* Every variable holds a value of its type, and spawned says whether there is an
\* entityId.
StreamingTypeOK ==
    /\ Tracked \subseteq Peer /\ DOMAIN cache \subseteq Tracked
    /\ Live \subseteq EntityId
    /\ \A p \in Tracked :
         /\ peers[p].spawned <=> peers[p].entityId \in EntityId
         /\ peers[p].target \in Position \cup {Nowhere}
         /\ peers[p].appearanceApplied => peers[p].spawned

\* Every entity the game created is the puppet of exactly one tracked peer, and
\* every puppet of a tracked peer is an entity: none is leaked or shared, whichever
\* way peers come, go and drift out of range.  A remembered command belongs to the
\* puppet of now.  (TickPeerStreaming's comment: a stale one is a "dangling /
\* wrong-entity op".)
NoGhostPuppet ==
    /\ \A e \in Live : Cardinality({p \in Tracked : peers[p].entityId = e}) = 1
    /\ \A p \in Tracked :
         /\ peers[p].spawned => peers[p].entityId \in Live
         /\ peers[p].lastCmd \in {NoCmd, peers[p].entityId}

\* A puppet counted as dressed was last asked to wear the look cached last, however looks,
\* spawns and movement were ordered; and it wears the item, unless that was refused.
AppliedMeansDressed ==
    \A p \in Tracked : peers[p].appearanceApplied =>
        LET attire == entities[peers[p].entityId].attire
        IN  /\ attire.asked = cache[p]
            /\ attire.refused \/ cache[p].item \in {attire.worn, Bare}

\* A living peer who stays near, on streamed ground, with a look on file is shown
\* in the end, and in clothes, however its join, look and movement were ordered.
PeersAppear ==
    \A p \in Peer :
        <>[](/\ p \in Tracked /\ p \in DOMAIN cache /\ peers[p].alive
             /\ worldReady /\ near = Position /\ ground = Position)
        => <>(p \in Tracked /\ peers[p].spawned /\ peers[p].appearanceApplied)

\* A peer who keeps out of range, dead or alive, is not shown in the end.
FarPeersDisappear ==
    \A p \in Peer :
        <>[](worldReady /\ near = {}) => <>[](p \in Tracked => ~peers[p].spawned)

\* The newest movement decides where a peer is.  (Protocol.hpp on tick:
\* "ordering/dedupe".)
TargetIsNewest ==
    [][\A p \in Tracked \cap DOMAIN peers' : peers'[p].tick >= peers[p].tick]_vars

\* The puppet of a dead peer lies.  (OnNetPlayerTransform: "it's ragdolled/defeated
\* until it respawns".)
DeadPuppetsLie ==
    \A p \in Tracked :
        ~peers[p].alive /\ IsThere(peers[p].entityId) => entities[peers[p].entityId].drained

\* The puppet of a living peer does not lie.  (OnNetPlayerRespawn: "Restore alive
\* state".)
LivingPuppetsStand ==
    \A p \in Tracked :
        peers[p].alive /\ peers[p].spawned => ~entities[peers[p].entityId].drained

\* A puppet counted as dressed has the body of the peer's gender.  (Protocol.hpp:
\* "everyone converges on the same look ... gender picks the base body".)
BodyFollowsLook ==
    \A p \in Tracked :
        peers[p].appearanceApplied => entities[peers[p].entityId].body = cache[p].gender

\* A puppet counted as dressed, and not refused the item, wears nothing else.
\* (Protocol.hpp on clothing: "0 = slot empty"; "everyone converges on the same look".)
NothingElseIsWorn ==
    \A p \in Tracked : peers[p].appearanceApplied =>
        LET attire == entities[peers[p].entityId].attire
        IN  attire.refused \/ attire.worn = cache[p].item

\* A puppet counted as dressed wears the item of the look.  (CyberRestSystem.reds:1348 on
\* appearanceApplied: "we've dressed the puppet in its current networked look".)
AppliedMeansWorn ==
    \A p \in Tracked : peers[p].appearanceApplied =>
        cache[p].item \in {entities[peers[p].entityId].attire.worn, Bare}
=============================================================================
