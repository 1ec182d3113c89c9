------------------------ MODULE PeerStreamingProofs -------------------------
(***************************************************************************)
(* What holds of the puppets of one game for every number of peers, places  *)
(* and looks.                                                                *)
(*                                                                          *)
(* The invariant, StreamingInv, pairs the peers that have a puppet with the  *)
(* entities of the engine, one to one.  Every handler changes one peer and at *)
(* most that peer's entity, so one lemma, PutKeeps, says what a handler must  *)
(* leave behind for the pairing to survive it.                               *)
(***************************************************************************)
EXTENDS PeerStreaming, FiniteSetTheorems, TLAPS

-----------------------------------------------------------------------------
(* The invariant.                                                            *)

PeerRecord ==
    [entityId : EntityId \cup {NoEntity}, spawned : BOOLEAN, lastCmd : EntityId \cup {NoCmd},
     alive : BOOLEAN, appearanceApplied : BOOLEAN, target : Position \cup {Nowhere},
     tick : 0..MaxTick]

Items == {l.item : l \in Look} \cup {Bare}
Bodies == {l.gender : l \in Look} \cup {NoGender}
AttireRecord == [worn : Items, asked : Look \cup {NoLook}, refused : BOOLEAN]
EntityRecord ==
    [resolved : BOOLEAN, body : Bodies, attire : AttireRecord, drained : BOOLEAN]

\* What a puppet shows that was last asked to wear l.
WearsAsAsked(attire, l) ==
    /\ attire.asked = l
    /\ attire.refused \/ l.item \in {attire.worn, Bare}

StreamingTypes ==
    /\ Tracked \subseteq Peer /\ peers \in [Tracked -> PeerRecord]
    /\ DOMAIN cache \subseteq Tracked /\ cache \in [DOMAIN cache -> Look]
    /\ Live \subseteq EntityId /\ entities \in [Live -> EntityRecord]

\* A peer has an entity or none, a command for that entity or none, and, counted as
\* dressed, an entity last asked to wear the look cached.
Paired(p) ==
    /\ peers[p].spawned <=> peers[p].entityId # NoEntity
    /\ peers[p].spawned => peers[p].entityId \in Live
    /\ peers[p].lastCmd \in {NoCmd, peers[p].entityId}
    /\ peers[p].appearanceApplied =>
         /\ peers[p].spawned /\ p \in DOMAIN cache
         /\ WearsAsAsked(entities[peers[p].entityId].attire, cache[p])

StreamingInv ==
    /\ StreamingTypes
    /\ \A p \in Tracked : Paired(p)
    /\ \A e \in Live : \E p \in Tracked : peers[p].entityId = e
    /\ \A p, q \in Tracked : peers[p].spawned /\ peers[p].entityId = peers[q].entityId => p = q

-----------------------------------------------------------------------------
(* A map with an entry more.                                                 *)

LEMMA WithTyped ==
    ASSUME NEW S, NEW D, NEW f \in [D -> S], NEW x, NEW v \in S
    PROVE  With(f, x, v) \in [D \cup {x} -> S]
  BY DEF With

-----------------------------------------------------------------------------
(* The pairing survives a handler.                                           *)

\* Peer p becomes the record v, and what is kept of the others, their looks and what
\* their puppets wear stays.
LEMMA PutKeeps ==
    ASSUME StreamingInv, NEW p \in Peer, NEW v \in PeerRecord, Put(p, v),
           cache' \in [DOMAIN cache' -> Look], DOMAIN cache' \subseteq Tracked \cup {p},
           \A q \in DOMAIN cache \ {p} : q \in DOMAIN cache' /\ cache'[q] = cache[q],
           entities' \in [Live' -> EntityRecord], Live' \subseteq EntityId,
           \A q \in Tracked \ {p} : peers[q].spawned =>
               /\ peers[q].entityId \in Live'
               /\ entities'[peers[q].entityId].attire = entities[peers[q].entityId].attire,
           v.spawned <=> v.entityId # NoEntity,
           v.spawned => v.entityId \in Live',
           v.lastCmd \in {NoCmd, v.entityId},
           v.appearanceApplied =>
               /\ v.spawned /\ p \in DOMAIN cache'
               /\ WearsAsAsked(entities'[v.entityId].attire, cache'[p]),
           \A e \in Live' : e = v.entityId \/ \E q \in Tracked \ {p} : peers[q].entityId = e,
           v.spawned => \A q \in Tracked \ {p} : peers[q].entityId # v.entityId
    PROVE  StreamingInv'
  <1>1. /\ Tracked' = Tracked \cup {p} /\ peers'[p] = v
        /\ \A q \in Tracked \ {p} : peers'[q] = peers[q]
        /\ peers' \in [Tracked' -> PeerRecord]
    <2>1. peers' = With(peers, p, v) /\ peers \in [DOMAIN peers -> PeerRecord]
      BY DEF Put, Tracked, StreamingInv, StreamingTypes
    <2>2. /\ DOMAIN With(peers, p, v) = DOMAIN peers \cup {p}
          /\ With(peers, p, v)[p] = v
          /\ \A q \in DOMAIN peers \ {p} : With(peers, p, v)[q] = peers[q]
      BY DEF With
    <2>3. With(peers, p, v) \in [DOMAIN peers \cup {p} -> PeerRecord]
      BY <2>1, WithTyped
    <2> QED
      BY <2>1, <2>2, <2>3 DEF Tracked
  <1>2. StreamingTypes'
    BY <1>1 DEF StreamingTypes, StreamingInv
  <1>3. Paired(p)'
    BY <1>1 DEF Paired
  <1>4. ASSUME NEW q \in Tracked \ {p} PROVE Paired(q)'
    <2>1. Paired(q) /\ peers'[q] = peers[q]
      BY <1>1 DEF StreamingInv
    <2> QED
      BY <2>1 DEF Paired
  <1>5. \A e \in Live' : \E q \in Tracked' : peers'[q].entityId = e
    BY <1>1
  <1>6. ASSUME NEW q \in Tracked', NEW r \in Tracked',
               peers'[q].spawned, peers'[q].entityId = peers'[r].entityId
        PROVE  q = r
    <2>1. CASE q # p /\ r # p
      BY <1>1, <1>6, <2>1 DEF StreamingInv
    <2>2. CASE q = p
      BY <1>1, <1>6, <2>2
    <2>3. CASE q # p /\ r = p
      <3>1. peers[q].spawned /\ peers[q].entityId = v.entityId /\ Paired(q)
        BY <1>1, <1>6, <2>3 DEF StreamingInv
      <3>2. v.spawned
        BY <3>1 DEF Paired
      <3> QED
        BY <1>1, <2>3, <3>1, <3>2
    <2> QED
      BY <2>1, <2>2, <2>3
  <1> QED
    BY <1>1, <1>2, <1>3, <1>4, <1>5, <1>6 DEF StreamingInv

-----------------------------------------------------------------------------
(* The engine has an id left.                                                *)

\* While a tracked peer has no puppet, the others have fewer ids than there are.
LEMMA FreshIdIsFresh ==
    ASSUME StreamingInv, NEW p \in Tracked, ~peers[p].spawned
    PROVE  /\ FreshId \in EntityId /\ FreshId \notin Live /\ FreshId # NoEntity
           /\ \A q \in Tracked : FreshId \notin {peers[q].entityId, peers[q].lastCmd}
  <1> DEFINE others == Tracked \ {p}
             idOf == [q \in others |-> peers[q].entityId]
             taken == {idOf[q] : q \in others}
  <1>1. IsFiniteSet(others) /\ Cardinality(others) < Cardinality(Peer) /\ Cardinality(Peer) \in Nat
    <2>1. others \subseteq Peer \ {p} /\ p \in Peer
      BY DEF StreamingInv, StreamingTypes
    <2>2. IsFiniteSet(Peer \ {p}) /\ Cardinality(Peer \ {p}) = Cardinality(Peer) - 1
      BY <2>1, IdsAssumption, FS_RemoveElement
    <2>3. Cardinality(Peer) \in Nat
      BY IdsAssumption, FS_CardinalityType
    <2>4. IsFiniteSet(others) /\ Cardinality(others) <= Cardinality(Peer \ {p})
      BY <2>1, <2>2, FS_Subset
    <2>5. Cardinality(others) \in Nat
      BY <2>4, FS_CardinalityType
    <2> HIDE DEF others
    <2> QED
      BY <2>2, <2>3, <2>4, <2>5
  <1>2. idOf \in Surjection(others, taken)
    BY DEF Surjection
  <1>3. IsFiniteSet(taken) /\ Cardinality(taken) <= Cardinality(others)
    <2> HIDE DEF others, idOf, taken
    <2> QED
      BY <1>1, <1>2, FS_Surjection
  <1>4. PICK e \in EntityId : e \notin taken
    <2> SUFFICES ASSUME EntityId \subseteq taken PROVE FALSE
      OBVIOUS
    <2> HIDE DEF others, idOf, taken
    <2>1. IsFiniteSet(EntityId) /\ Cardinality(EntityId) <= Cardinality(taken)
      BY <1>3, FS_Subset
    <2>2. Cardinality(EntityId) >= Cardinality(Peer)
      BY <2>1, IdsAssumption
    <2>3. /\ Cardinality(EntityId) \in Nat /\ Cardinality(taken) \in Nat
          /\ Cardinality(others) \in Nat
      BY <1>1, <1>3, <2>1, FS_CardinalityType
    <2> QED
      BY <1>1, <1>3, <2>1, <2>2, <2>3
  <1>5. e # NoEntity /\ \A q \in others : peers[q].entityId # e
    BY <1>4, BoundsAssumption DEF NoEntity
  <1>6. \A q \in Tracked : Paired(q) /\ peers[q].entityId # e
    BY <1>5 DEF StreamingInv, Paired
  <1>7. e \notin Live
    BY <1>6 DEF StreamingInv
  <1>8. \A q \in Tracked : e \notin {peers[q].entityId, peers[q].lastCmd}
    BY <1>5, <1>6 DEF Paired, NoCmd, NoEntity
  <1> HIDE DEF others, idOf, taken
  <1> QED
    BY <1>4, <1>7, <1>8, BoundsAssumption DEF FreshId, NoEntity

-----------------------------------------------------------------------------
(* The handlers, one by one.                                                 *)

LEMMA PeerFacts ==
    ASSUME StreamingInv, NEW p \in Tracked
    PROVE  /\ p \in Peer /\ peers[p] \in PeerRecord /\ Paired(p)
           /\ \A q \in Tracked \ {p} : q \in Tracked /\ Paired(q)
           /\ peers[p].spawned => \A q \in Tracked \ {p} : peers[q].entityId # peers[p].entityId
  BY DEF StreamingInv, StreamingTypes, Tracked

\* Nothing but peer p's record changes, and that keeps its entity.
LEMMA RecordKeeps ==
    ASSUME StreamingInv, NEW p \in Tracked, NEW v \in PeerRecord, Put(p, v),
           UNCHANGED <<cache, entities>>,
           v.entityId = peers[p].entityId, v.spawned = peers[p].spawned,
           v.lastCmd \in {NoCmd, v.entityId},
           v.appearanceApplied => peers[p].appearanceApplied
    PROVE  StreamingInv'
  <1>1. /\ p \in Peer /\ Paired(p)
        /\ \A q \in Tracked \ {p} : peers[q].spawned => peers[q].entityId \in Live
        /\ v.spawned => \A q \in Tracked \ {p} : peers[q].entityId # v.entityId
    BY PeerFacts DEF Paired
  <1>2. /\ cache' \in [DOMAIN cache' -> Look] /\ DOMAIN cache' \subseteq Tracked \cup {p}
        /\ entities' \in [Live' -> EntityRecord] /\ Live' \subseteq EntityId /\ Live' = Live
    BY DEF StreamingInv, StreamingTypes, Live
  <1>3. \A e \in Live' : e = v.entityId \/ \E q \in Tracked \ {p} : peers[q].entityId = e
    BY <1>2 DEF StreamingInv
  <1>4. v.appearanceApplied =>
               /\ v.spawned /\ p \in DOMAIN cache'
               /\ WearsAsAsked(entities'[v.entityId].attire, cache'[p])
    BY <1>1 DEF Paired
  <1>5. (v.spawned <=> v.entityId # NoEntity) /\ (v.spawned => v.entityId \in Live')
    BY <1>1, <1>2 DEF Paired
  <1> QED
    BY <1>1, <1>2, <1>3, <1>4, <1>5, PutKeeps

LEMMA JoinKeeps ==
    ASSUME StreamingInv, NEW p \in Peer, OnNetPlayerJoin(p)
    PROVE  StreamingInv'
  <1> PICK v : v = NewPeer
    OBVIOUS
  <1>1. /\ p \notin Tracked /\ Put(p, v) /\ UNCHANGED <<cache, entities>>
    BY DEF OnNetPlayerJoin
  <1>2. /\ v \in PeerRecord /\ v.entityId = NoEntity /\ v.lastCmd = NoCmd
        /\ ~v.spawned /\ ~v.appearanceApplied
    BY BoundsAssumption DEF NewPeer, PeerRecord, NoCmd, NoEntity
  <1>3. /\ cache' \in [DOMAIN cache' -> Look] /\ DOMAIN cache' \subseteq Tracked \cup {p}
        /\ entities' \in [Live' -> EntityRecord] /\ Live' \subseteq EntityId /\ Live' = Live
    BY <1>1 DEF StreamingInv, StreamingTypes, Live
  <1>4. \A q \in Tracked \ {p} : peers[q].spawned => peers[q].entityId \in Live
    BY DEF StreamingInv, Paired
  <1>5. \A e \in Live' : \E q \in Tracked \ {p} : peers[q].entityId = e
    BY <1>1, <1>3 DEF StreamingInv
  <1> QED
    BY <1>1, <1>2, <1>3, <1>4, <1>5, PutKeeps

\* The puppet goes, and its entity with it.
LEMMA SweepOutKeeps ==
    ASSUME StreamingInv, NEW p \in Peer, SweepOut(p)
    PROVE  StreamingInv'
  <1> PICK v : v = DespawnedFrom(peers[p])
    OBVIOUS
  <1>1. /\ p \in Tracked /\ Put(p, v) /\ cache' = cache
        /\ peers[p].spawned /\ entities' = Deleted(peers[p].entityId)
    BY DEF SweepOut
  <1>2. /\ v \in PeerRecord /\ v.entityId = NoEntity /\ v.lastCmd = NoCmd
        /\ ~v.spawned /\ ~v.appearanceApplied
    <2>1. peers[p] \in PeerRecord
      BY <1>1, PeerFacts
    <2> QED
      BY <2>1 DEF DespawnedFrom, PeerRecord, NoCmd, NoEntity
  <1>3. /\ cache' \in [DOMAIN cache' -> Look] /\ DOMAIN cache' \subseteq Tracked \cup {p}
        /\ \A q \in DOMAIN cache \ {p} : q \in DOMAIN cache' /\ cache'[q] = cache[q]
    BY <1>1 DEF StreamingInv, StreamingTypes
  <1>4. /\ Live' = Live \ {peers[p].entityId}
        /\ \A e \in Live' : entities'[e] = entities[e]
        /\ entities' \in [Live' -> EntityRecord] /\ Live' \subseteq EntityId
    BY <1>1 DEF StreamingInv, StreamingTypes, Deleted, Without, Live
  <1>5. \A q \in Tracked \ {p} : peers[q].spawned =>
               /\ peers[q].entityId \in Live'
               /\ entities'[peers[q].entityId].attire = entities[peers[q].entityId].attire
    BY <1>1, <1>4, PeerFacts DEF Paired
  <1>6. \A e \in Live' : \E q \in Tracked \ {p} : peers[q].entityId = e
    BY <1>4 DEF StreamingInv
  <1>7. entities' \in [Live' -> EntityRecord] /\ Live' \subseteq EntityId
    BY <1>4
  <1> QED
    BY <1>1, <1>2, <1>3, <1>5, <1>6, <1>7, PutKeeps

\* A puppet comes: the peer becomes w with the engine's next id.
LEMMA SpawnKeeps ==
    ASSUME StreamingInv, NEW p \in Tracked, NEW w \in PeerRecord, Spawn(p, w),
           ~peers[p].spawned, w.lastCmd = peers[p].lastCmd, UNCHANGED cache
    PROVE  StreamingInv'
  <1> PICK e : e = FreshId
    OBVIOUS
  <1> PICK v : v = SpawnedAs(w, e)
    OBVIOUS
  <1>1. Put(p, v) /\ entities' = With(entities, e, Entity(RecordForGender(p)))
    BY DEF Spawn
  <1>2. /\ e \in EntityId /\ e \notin Live /\ e # NoEntity
        /\ \A q \in Tracked : peers[q].entityId # e
    BY FreshIdIsFresh
  <1>3. /\ v \in PeerRecord /\ v.entityId = e /\ v.spawned /\ ~v.appearanceApplied
        /\ v.lastCmd = peers[p].lastCmd
    BY <1>2 DEF SpawnedAs, PeerRecord
  <1>4. v.lastCmd = NoCmd
    BY <1>3, PeerFacts DEF Paired, NoCmd, NoEntity
  <1>5. Entity(RecordForGender(p)) \in EntityRecord
    <2>1. RecordForGender(p) \in Bodies
      BY DEF RecordForGender, Bodies, StreamingInv, StreamingTypes
    <2> QED
      BY <2>1 DEF Entity, EntityRecord, AttireRecord, Undressed, Items
  <1>6. /\ Live' = Live \cup {e} /\ \A d \in Live : entities'[d] = entities[d]
        /\ entities' \in [Live' -> EntityRecord]
    BY <1>1, <1>2, <1>5 DEF StreamingInv, StreamingTypes, With, Live
  <1>7. Live' \subseteq EntityId /\ entities' \in [Live' -> EntityRecord]
    BY <1>2, <1>6 DEF StreamingInv, StreamingTypes
  <1>8. /\ cache' \in [DOMAIN cache' -> Look] /\ DOMAIN cache' \subseteq Tracked \cup {p}
        /\ \A q \in DOMAIN cache \ {p} : q \in DOMAIN cache' /\ cache'[q] = cache[q]
    BY DEF StreamingInv, StreamingTypes
  <1>9. \A q \in Tracked \ {p} : peers[q].spawned =>
               /\ peers[q].entityId \in Live'
               /\ entities'[peers[q].entityId].attire = entities[peers[q].entityId].attire
    BY <1>6, PeerFacts DEF Paired
  <1>10. \A d \in Live' : d = v.entityId \/ \E q \in Tracked \ {p} : peers[q].entityId = d
    <2>1. peers[p].entityId = NoEntity
      BY PeerFacts DEF Paired
    <2>2. NoEntity \notin Live
      BY BoundsAssumption DEF NoEntity, StreamingInv, StreamingTypes
    <2> QED
      BY <1>3, <1>6, <2>1, <2>2 DEF StreamingInv
  <1>11. p \in Peer /\ e \in Live'
    BY <1>6, PeerFacts
  <1> QED
    BY <1>1, <1>2, <1>3, <1>4, <1>7, <1>8, <1>9, <1>10, <1>11, PutKeeps

\* The peer keeps its entity, which may be dressed or drained.
LEMMA PuppetKeeps ==
    ASSUME StreamingInv, NEW p \in Tracked, NEW v \in PeerRecord, Put(p, v),
           v.entityId = peers[p].entityId, v.spawned = peers[p].spawned,
           v.lastCmd \in {NoCmd, v.entityId},
           cache' \in [DOMAIN cache' -> Look], DOMAIN cache' \subseteq Tracked,
           \A q \in DOMAIN cache \ {p} : q \in DOMAIN cache' /\ cache'[q] = cache[q],
           entities' \in [Live -> EntityRecord],
           \A e \in Live \ {peers[p].entityId} : entities'[e] = entities[e],
           v.appearanceApplied =>
               /\ v.spawned /\ p \in DOMAIN cache'
               /\ WearsAsAsked(entities'[v.entityId].attire, cache'[p])
    PROVE  StreamingInv'
  <1>1. Live' = Live /\ Live' \subseteq EntityId
    BY DEF Live, StreamingInv, StreamingTypes
  <1>2. /\ p \in Peer /\ Paired(p)
        /\ v.spawned => \A q \in Tracked \ {p} : peers[q].entityId # v.entityId
    BY PeerFacts
  <1>3. (v.spawned <=> v.entityId # NoEntity) /\ (v.spawned => v.entityId \in Live')
    BY <1>1, <1>2 DEF Paired
  <1>4. \A q \in Tracked \ {p} : peers[q].spawned =>
               /\ peers[q].entityId \in Live'
               /\ entities'[peers[q].entityId].attire = entities[peers[q].entityId].attire
    <2> SUFFICES ASSUME NEW q \in Tracked \ {p}, peers[q].spawned
                 PROVE  peers[q].entityId \in Live /\ peers[q].entityId # peers[p].entityId
      BY <1>1
    <2> QED
      BY DEF StreamingInv, Paired
  <1>5. \A e \in Live' : e = v.entityId \/ \E q \in Tracked \ {p} : peers[q].entityId = e
    BY <1>1 DEF StreamingInv
  <1>6. entities' \in [Live' -> EntityRecord] /\ DOMAIN cache' \subseteq Tracked \cup {p}
    BY <1>1
  <1> QED
    BY <1>1, <1>2, <1>3, <1>4, <1>5, <1>6, PutKeeps

LEMMA SweepInKeeps ==
    ASSUME StreamingInv, NEW p \in Peer, SweepIn(p)
    PROVE  StreamingInv'
  <1> PICK w : w = peers[p]
    OBVIOUS
  <1>1. p \in Tracked /\ ~peers[p].spawned /\ Spawn(p, w) /\ UNCHANGED cache
    BY DEF SweepIn
  <1>2. w \in PeerRecord
    BY <1>1, PeerFacts
  <1> QED
    BY <1>1, <1>2, SpawnKeeps

LEMMA MovedFacts ==
    ASSUME StreamingInv, NEW p \in Tracked, NEW pos \in Position, NEW tick \in 1..MaxTick
    PROVE  /\ Moved(p, pos, tick) \in PeerRecord
           /\ Moved(p, pos, tick).entityId = peers[p].entityId
           /\ Moved(p, pos, tick).spawned = peers[p].spawned
           /\ Moved(p, pos, tick).lastCmd = peers[p].lastCmd
           /\ Moved(p, pos, tick).appearanceApplied = peers[p].appearanceApplied
  <1>1. peers[p] \in PeerRecord
    BY PeerFacts
  <1>2. tick \in 0..MaxTick
    BY BoundsAssumption
  <1> QED
    BY <1>1, <1>2 DEF Moved, PeerRecord

LEMMA TransformSpawnsKeeps ==
    ASSUME StreamingInv, NEW p \in Peer, NEW pos \in Position, NEW tick \in 1..MaxTick,
           TransformSpawns(p, pos, tick)
    PROVE  StreamingInv'
  <1> PICK w : w = Moved(p, pos, tick)
    OBVIOUS
  <1>1. /\ p \in Tracked /\ ~peers[p].spawned /\ UNCHANGED cache
        /\ Spawn(p, w) \/ SpawnFails(p, w)
    BY DEF TransformSpawns
  <1>2. /\ w \in PeerRecord /\ w.entityId = peers[p].entityId
        /\ w.spawned = peers[p].spawned /\ w.lastCmd = peers[p].lastCmd
        /\ w.appearanceApplied = peers[p].appearanceApplied
    BY <1>1, MovedFacts
  <1>3. CASE Spawn(p, w)
    BY <1>1, <1>2, <1>3, SpawnKeeps
  <1>4. CASE SpawnFails(p, w)
    <2>1. Put(p, w) /\ UNCHANGED <<cache, entities>>
      BY <1>1, <1>4 DEF SpawnFails
    <2>2. w.lastCmd \in {NoCmd, w.entityId}
      BY <1>1, <1>2, PeerFacts DEF Paired
    <2> QED
      BY <1>1, <1>2, <2>1, <2>2, RecordKeeps
  <1> QED
    BY <1>1, <1>3, <1>4

LEMMA TransformIsKeptKeeps ==
    ASSUME StreamingInv, NEW p \in Peer, NEW pos \in Position, NEW tick \in 1..MaxTick,
           TransformIsKept(p, pos, tick)
    PROVE  StreamingInv'
  <1> PICK w : w = Moved(p, pos, tick)
    OBVIOUS
  <1>1. p \in Tracked /\ Put(p, w) /\ UNCHANGED <<cache, entities>>
    BY DEF TransformIsKept
  <1>2. /\ w \in PeerRecord /\ w.entityId = peers[p].entityId
        /\ w.spawned = peers[p].spawned /\ w.lastCmd = peers[p].lastCmd
        /\ w.appearanceApplied = peers[p].appearanceApplied
    BY <1>1, MovedFacts
  <1>3. w.lastCmd \in {NoCmd, w.entityId}
    BY <1>1, <1>2, PeerFacts DEF Paired
  <1> QED
    BY <1>1, <1>2, <1>3, RecordKeeps

\* The puppet with this id is asked to wear a look.
LEMMA DressFacts ==
    ASSUME StreamingInv, NEW id \in Live, NEW l \in Look, ApplyAppearanceToPuppet(id, l)
    PROVE  /\ entities' \in [Live -> EntityRecord]
           /\ \A e \in Live \ {id} : entities'[e] = entities[e]
           /\ WearsAsAsked(entities'[id].attire, l)
  <1>1. /\ entities \in [Live -> EntityRecord] /\ entities[id] \in EntityRecord
        /\ entities[id].attire \in AttireRecord
    BY DEF StreamingInv, StreamingTypes, EntityRecord
  <1>2. PICK attire \in AfterDressing(entities[id].attire, l) :
            entities' = [entities EXCEPT ![id].attire = attire]
    BY DEF ApplyAppearanceToPuppet
  <1>3. l.item \in Items
    BY DEF Items
  <1>4. attire \in AttireRecord /\ WearsAsAsked(attire, l)
    <2> PICK before \in AttireRecord : before = entities[id].attire
      BY <1>1
    <2>1. CASE l.item = Bare
      <3>1. attire = [before EXCEPT !.asked = l, !.refused = FALSE]
        BY <1>2, <2>1 DEF AfterDressing
      <3> QED
        BY <2>1, <3>1 DEF AttireRecord, WearsAsAsked
    <2>2. CASE l.item # Bare /\ attire = [worn |-> l.item, asked |-> l, refused |-> FALSE]
      BY <1>3, <2>2 DEF AttireRecord, WearsAsAsked
    <2>3. CASE l.item # Bare /\ attire = [before EXCEPT !.asked = l, !.refused = TRUE]
      BY <2>3 DEF AttireRecord, WearsAsAsked
    <2> QED
      BY <1>2, <2>1, <2>2, <2>3 DEF AfterDressing
  <1>5. /\ [entities[id] EXCEPT !.attire = attire] \in EntityRecord
        /\ [entities[id] EXCEPT !.attire = attire].attire = attire
    BY <1>1, <1>4 DEF EntityRecord
  <1>6. entities' = [entities EXCEPT ![id] = [entities[id] EXCEPT !.attire = attire]]
    BY <1>1, <1>2
  <1> QED
    BY <1>1, <1>4, <1>5, <1>6

LEMMA TransformDrivesKeeps ==
    ASSUME StreamingInv, NEW p \in Peer, NEW pos \in Position, NEW tick \in 1..MaxTick,
           TransformDrives(p, pos, tick)
    PROVE  StreamingInv'
  <1> PICK dresses : dresses = (~peers[p].appearanceApplied /\ p \in DOMAIN cache)
    OBVIOUS
  <1>1. /\ p \in Tracked /\ peers[p].spawned /\ UNCHANGED cache
        /\ dresses => ApplyAppearanceToPuppet(peers[p].entityId, cache[p])
        /\ ~dresses => UNCHANGED entities
    BY ONLY TransformDrives(p, pos, tick),
            dresses = (~peers[p].appearanceApplied /\ p \in DOMAIN cache)
       DEF TransformDrives
  <1>2. PICK cmd \in {NoCmd, peers[p].entityId} :
            Put(p, [Moved(p, pos, tick) EXCEPT
                      !.lastCmd = cmd, !.appearanceApplied = @ \/ dresses])
    BY DEF TransformDrives
  <1> PICK w : w = Moved(p, pos, tick)
    OBVIOUS
  <1>3. /\ w \in PeerRecord /\ w.entityId = peers[p].entityId
        /\ w.spawned = peers[p].spawned
        /\ w.appearanceApplied = peers[p].appearanceApplied
    BY <1>1, MovedFacts
  <1> PICK v : v = [w EXCEPT !.lastCmd = cmd, !.appearanceApplied = @ \/ dresses]
    OBVIOUS
  <1>4. /\ peers[p].entityId \in Live /\ peers[p].entityId \in EntityId
        /\ entities \in [Live -> EntityRecord]
    BY <1>1, PeerFacts DEF Paired, StreamingInv, StreamingTypes
  <1>5. /\ v \in PeerRecord /\ v.entityId = peers[p].entityId
        /\ v.spawned = peers[p].spawned /\ v.lastCmd = cmd
        /\ v.appearanceApplied <=> w.appearanceApplied \/ dresses
    BY <1>3, <1>4 DEF PeerRecord
  <1>6. Put(p, v)
    BY <1>2
  <1>7. /\ cache' \in [DOMAIN cache' -> Look] /\ DOMAIN cache' \subseteq Tracked
        /\ \A q \in DOMAIN cache \ {p} : q \in DOMAIN cache' /\ cache'[q] = cache[q]
    BY <1>1 DEF StreamingInv, StreamingTypes
  <1>8. CASE dresses
    <2> PICK l \in Look : l = cache[p]
      BY <1>8 DEF StreamingInv, StreamingTypes
    <2> PICK id \in Live : id = peers[p].entityId
      BY <1>4
    <2>1. ApplyAppearanceToPuppet(id, l)
      BY <1>1, <1>8
    <2>2. /\ entities' \in [Live -> EntityRecord]
          /\ \A e \in Live \ {id} : entities'[e] = entities[e]
          /\ WearsAsAsked(entities'[id].attire, l)
      BY <2>1, DressFacts
    <2>3. cache' = cache /\ p \in DOMAIN cache'
      BY <1>1, <1>8
    <2>4. /\ entities' \in [Live -> EntityRecord]
          /\ \A e \in Live \ {peers[p].entityId} : entities'[e] = entities[e]
          /\ p \in DOMAIN cache' /\ WearsAsAsked(entities'[v.entityId].attire, cache'[p])
      BY <1>5, <2>2, <2>3
    <2> QED
      BY <1>1, <1>2, <1>5, <1>6, <1>7, <2>4, PuppetKeeps
  <1>9. CASE ~dresses
    <2>1. entities' = entities /\ cache' = cache
      BY <1>1, <1>9
    <2>2. v.appearanceApplied =>
            /\ v.spawned /\ p \in DOMAIN cache'
            /\ WearsAsAsked(entities'[v.entityId].attire, cache'[p])
      BY <1>1, <1>3, <1>5, <1>9, <2>1, PeerFacts DEF Paired
    <2>3. /\ entities' \in [Live -> EntityRecord]
          /\ \A e \in Live \ {peers[p].entityId} : entities'[e] = entities[e]
      BY <1>4, <2>1
    <2> QED
      BY <1>1, <1>2, <1>5, <1>6, <1>7, <2>2, <2>3, PuppetKeeps
  <1> QED
    BY <1>8, <1>9

LEMMA AppearanceKeeps ==
    ASSUME StreamingInv, NEW p \in Peer, NEW l \in Look, OnNetPlayerAppearance(p, l)
    PROVE  StreamingInv'
  <1> PICK id : id = peers[p].entityId
    OBVIOUS
  <1> PICK applies : applies = (peers[p].spawned /\ IsThere(id))
    OBVIOUS
  <1> PICK v : v = [peers[p] EXCEPT !.appearanceApplied = applies]
    OBVIOUS
  <1>1. /\ p \in Tracked /\ cache' = With(cache, p, l) /\ Put(p, v)
        /\ applies => ApplyAppearanceToPuppet(id, l)
        /\ ~applies => UNCHANGED entities
    BY DEF OnNetPlayerAppearance
  <1>2. peers[p] \in PeerRecord /\ Paired(p) /\ entities \in [Live -> EntityRecord]
    BY <1>1, PeerFacts DEF StreamingInv, StreamingTypes
  <1>3. applies \in BOOLEAN
    BY ZenonT(30)
  <1>4. /\ v \in PeerRecord /\ v.entityId = id /\ v.spawned = peers[p].spawned
        /\ v.appearanceApplied = applies /\ v.lastCmd = peers[p].lastCmd
    BY <1>2, <1>3 DEF PeerRecord
  <1>5. /\ DOMAIN cache' = DOMAIN cache \cup {p} /\ cache'[p] = l
        /\ \A q \in DOMAIN cache \ {p} : q \in DOMAIN cache' /\ cache'[q] = cache[q]
    BY <1>1 DEF With
  <1>6. cache' \in [DOMAIN cache' -> Look] /\ DOMAIN cache' \subseteq Tracked
    <2>1. cache \in [DOMAIN cache -> Look] /\ DOMAIN cache \subseteq Tracked
      BY DEF StreamingInv, StreamingTypes
    <2>2. With(cache, p, l) \in [DOMAIN cache \cup {p} -> Look]
      BY <2>1, WithTyped
    <2> QED
      BY <1>1, <1>5, <2>1, <2>2
  <1>7. CASE applies
    <2>1. id \in Live /\ peers[p].spawned /\ ApplyAppearanceToPuppet(id, l)
      BY <1>1, <1>7 DEF IsThere
    <2>2. /\ entities' \in [Live -> EntityRecord]
          /\ \A e \in Live \ {id} : entities'[e] = entities[e]
          /\ WearsAsAsked(entities'[id].attire, l)
      BY ONLY StreamingInv, <2>1, l \in Look, DressFacts
    <2>3. /\ entities' \in [Live -> EntityRecord]
          /\ \A e \in Live \ {peers[p].entityId} : entities'[e] = entities[e]
          /\ v.spawned /\ p \in DOMAIN cache'
          /\ WearsAsAsked(entities'[v.entityId].attire, cache'[p])
      BY <1>4, <1>5, <2>1, <2>2
    <2>4. v.lastCmd \in {NoCmd, v.entityId}
      BY <1>2, <1>4 DEF Paired
    <2> QED
      BY <1>1, <1>4, <1>5, <1>6, <2>3, <2>4, PuppetKeeps
  <1>8. CASE ~applies
    <2>1. /\ entities' \in [Live -> EntityRecord]
          /\ \A e \in Live \ {peers[p].entityId} : entities'[e] = entities[e]
      BY <1>1, <1>2, <1>8
    <2>2. ~v.appearanceApplied
      BY <1>4, <1>8
    <2>3. v.lastCmd \in {NoCmd, v.entityId}
      BY <1>2, <1>4 DEF Paired
    <2> QED
      BY <1>1, <1>4, <1>5, <1>6, <2>1, <2>2, <2>3, PuppetKeeps
  <1> QED
    BY <1>7, <1>8

LEMMA DeathKeeps ==
    ASSUME StreamingInv, NEW p \in Peer, OnNetPlayerDeath(p)
    PROVE  StreamingInv'
  <1> PICK id : id = peers[p].entityId
    OBVIOUS
  <1> PICK v : v = [peers[p] EXCEPT !.alive = FALSE, !.lastCmd = NoCmd]
    OBVIOUS
  <1>1. /\ p \in Tracked /\ Put(p, v) /\ cache' = cache
        /\ entities' = IF IsThere(id) THEN [entities EXCEPT ![id].drained = TRUE] ELSE entities
    BY DEF OnNetPlayerDeath
  <1>2. peers[p] \in PeerRecord /\ Paired(p) /\ entities \in [Live -> EntityRecord]
    BY <1>1, PeerFacts DEF StreamingInv, StreamingTypes
  <1>3. /\ v \in PeerRecord /\ v.entityId = id /\ v.spawned = peers[p].spawned
        /\ v.appearanceApplied = peers[p].appearanceApplied /\ v.lastCmd = NoCmd
    BY <1>2 DEF PeerRecord, NoCmd
  <1>4. /\ entities' \in [Live -> EntityRecord]
        /\ \A e \in Live \ {id} : entities'[e] = entities[e]
        /\ id \in Live => entities'[id].attire = entities[id].attire
    <2>1. CASE IsThere(id)
      <3>1. id \in Live /\ entities[id] \in EntityRecord
        BY <1>2, <2>1 DEF IsThere
      <3>2. /\ [entities[id] EXCEPT !.drained = TRUE] \in EntityRecord
            /\ [entities[id] EXCEPT !.drained = TRUE].attire = entities[id].attire
        BY <3>1 DEF EntityRecord
      <3>3. entities' = [entities EXCEPT ![id] = [entities[id] EXCEPT !.drained = TRUE]]
        BY <1>1, <1>2, <2>1, <3>1
      <3> QED
        BY <1>2, <3>1, <3>2, <3>3
    <2>2. CASE ~IsThere(id)
      BY <1>1, <1>2, <2>2
    <2> QED
      BY <2>1, <2>2
  <1>5. /\ cache' \in [DOMAIN cache' -> Look] /\ DOMAIN cache' \subseteq Tracked
        /\ \A q \in DOMAIN cache \ {p} : q \in DOMAIN cache' /\ cache'[q] = cache[q]
    BY <1>1 DEF StreamingInv, StreamingTypes
  <1>6. v.appearanceApplied =>
            /\ v.spawned /\ p \in DOMAIN cache'
            /\ WearsAsAsked(entities'[v.entityId].attire, cache'[p])
    BY <1>1, <1>2, <1>3, <1>4 DEF Paired
  <1>7. \A e \in Live \ {peers[p].entityId} : entities'[e] = entities[e]
    BY <1>4
  <1> QED
    BY <1>1, <1>3, <1>4, <1>5, <1>6, <1>7, PuppetKeeps

LEMMA RespawnKeeps ==
    ASSUME StreamingInv, NEW p \in Peer, OnNetPlayerRespawn(p)
    PROVE  StreamingInv'
  <1> PICK v : v = [peers[p] EXCEPT !.alive = TRUE, !.lastCmd = NoCmd]
    OBVIOUS
  <1>1. p \in Tracked /\ Put(p, v) /\ UNCHANGED <<cache, entities>>
    BY DEF OnNetPlayerRespawn
  <1>2. peers[p] \in PeerRecord
    BY <1>1, PeerFacts
  <1>3. /\ v \in PeerRecord /\ v.entityId = peers[p].entityId
        /\ v.spawned = peers[p].spawned
        /\ v.appearanceApplied = peers[p].appearanceApplied /\ v.lastCmd = NoCmd
    BY <1>2 DEF PeerRecord, NoCmd
  <1> QED
    BY <1>1, <1>3, RecordKeeps

\* The peer, its look and its entity are forgotten together.
LEMMA LeaveKeeps ==
    ASSUME StreamingInv, NEW p \in Peer, OnNetPlayerLeave(p)
    PROVE  StreamingInv'
  <1>1. /\ p \in Tracked /\ peers' = Without(peers, p) /\ cache' = Without(cache, p)
        /\ entities' = Without(entities, peers[p].entityId)
    BY DEF OnNetPlayerLeave, Deleted
  <1>2. /\ Tracked' = Tracked \ {p} /\ \A q \in Tracked' : peers'[q] = peers[q]
        /\ peers' \in [Tracked' -> PeerRecord] /\ Tracked' \subseteq Peer
    BY <1>1 DEF Without, Tracked, StreamingInv, StreamingTypes
  <1>3. /\ DOMAIN cache' = DOMAIN cache \ {p} /\ \A q \in DOMAIN cache' : cache'[q] = cache[q]
        /\ cache' \in [DOMAIN cache' -> Look]
    BY <1>1 DEF Without, StreamingInv, StreamingTypes
  <1>4. /\ Live' = Live \ {peers[p].entityId} /\ \A e \in Live' : entities'[e] = entities[e]
        /\ entities' \in [Live' -> EntityRecord] /\ Live' \subseteq EntityId
    BY <1>1 DEF Without, Live, StreamingInv, StreamingTypes
  <1>5. StreamingTypes'
    BY <1>2, <1>3, <1>4 DEF StreamingTypes, StreamingInv
  <1>6. ASSUME NEW q \in Tracked' PROVE Paired(q)'
    <2>1. q \in Tracked /\ q # p /\ Paired(q) /\ peers'[q] = peers[q]
      BY <1>2 DEF StreamingInv
    <2>2. peers[q].spawned => peers[q].entityId # peers[p].entityId
      BY <1>1, <2>1 DEF StreamingInv
    <2>3. peers[q].spawned =>
            /\ peers[q].entityId \in Live'
            /\ entities'[peers[q].entityId] = entities[peers[q].entityId]
      BY <1>4, <2>1, <2>2 DEF Paired
    <2>4. q \in DOMAIN cache => q \in DOMAIN cache' /\ cache'[q] = cache[q]
      BY <1>3, <2>1
    <2> QED
      BY <2>1, <2>3, <2>4 DEF Paired
  <1>7. ASSUME NEW e \in Live' PROVE \E q \in Tracked' : peers'[q].entityId = e
    BY <1>2, <1>4 DEF StreamingInv
  <1>8. ASSUME NEW q \in Tracked', NEW r \in Tracked',
               peers'[q].spawned, peers'[q].entityId = peers'[r].entityId
        PROVE  q = r
    BY <1>2, <1>8 DEF StreamingInv
  <1> QED
    BY <1>5, <1>6, <1>7, <1>8 DEF StreamingInv

\* Spawning an entity changes nothing the pairing is about.
LEMMA ResolveKeeps ==
    ASSUME StreamingInv, NEW id \in EntityId, Resolve(id)
    PROVE  StreamingInv'
  <1>1. /\ peers' = peers /\ cache' = cache /\ id \in Live
        /\ entities' = [entities EXCEPT ![id].resolved = TRUE]
    BY DEF Resolve
  <1>2. entities \in [Live -> EntityRecord] /\ entities[id] \in EntityRecord
    BY <1>1 DEF StreamingInv, StreamingTypes
  <1>3. /\ [entities[id] EXCEPT !.resolved = TRUE] \in EntityRecord
        /\ [entities[id] EXCEPT !.resolved = TRUE].attire = entities[id].attire
    BY <1>2 DEF EntityRecord
  <1>4. entities' = [entities EXCEPT ![id] = [entities[id] EXCEPT !.resolved = TRUE]]
    BY <1>1, <1>2
  <1>5. /\ entities' \in [Live -> EntityRecord] /\ Live' = Live /\ Tracked' = Tracked
        /\ \A e \in Live : entities'[e].attire = entities[e].attire
    BY <1>1, <1>2, <1>3, <1>4 DEF Live, Tracked
  <1>6. StreamingTypes'
    BY <1>1, <1>5 DEF StreamingTypes, StreamingInv
  <1>7. ASSUME NEW q \in Tracked' PROVE Paired(q)'
    <2>1. Paired(q) /\ peers'[q] = peers[q] /\ cache' = cache
      BY <1>1, <1>5 DEF StreamingInv
    <2> QED
      BY <1>5, <2>1 DEF Paired
  <1> QED
    BY <1>1, <1>5, <1>6, <1>7 DEF StreamingInv

LEMMA NothingKeeps ==
    ASSUME StreamingInv, UNCHANGED <<peers, cache, entities>>
    PROVE  StreamingInv'
  BY DEF StreamingInv, StreamingTypes, Paired, Tracked, Live

-----------------------------------------------------------------------------
(* Every step.                                                               *)

LEMMA StreamingInit == Init => StreamingInv
  <1> SUFFICES ASSUME Init PROVE StreamingInv
    OBVIOUS
  <1>1. peers = <<>> /\ cache = <<>> /\ entities = <<>>
    BY DEF Init
  <1>2. Tracked = {} /\ DOMAIN cache = {} /\ Live = {}
    BY <1>1 DEF Tracked, Live
  <1>3. StreamingTypes
    BY <1>1, <1>2 DEF StreamingTypes
  <1> QED
    BY <1>2, <1>3 DEF StreamingInv

LEMMA StreamingStep == StreamingInv /\ [Next]_vars => StreamingInv'
  <1> SUFFICES ASSUME StreamingInv, [Next]_vars PROVE StreamingInv'
    OBVIOUS
  <1>1. CASE UNCHANGED vars
    BY <1>1, NothingKeeps DEF vars
  <1>2. CASE WorldChanges \/ WorldIsReady(TRUE) \/ WorldIsReady(FALSE)
    BY <1>2, NothingKeeps DEF WorldChanges, WorldIsReady
  <1>3. ASSUME NEW e \in EntityId, Resolve(e) PROVE StreamingInv'
    BY <1>3, ResolveKeeps
  <1>4. ASSUME NEW p \in Peer, OnNetPlayerJoin(p) PROVE StreamingInv'
    BY <1>4, JoinKeeps
  <1>5. ASSUME NEW p \in Peer, OnNetPlayerLeave(p) PROVE StreamingInv'
    BY <1>5, LeaveKeeps
  <1>6. ASSUME NEW p \in Peer, OnNetPlayerDeath(p) PROVE StreamingInv'
    BY <1>6, DeathKeeps
  <1>7. ASSUME NEW p \in Peer, OnNetPlayerRespawn(p) PROVE StreamingInv'
    BY <1>7, RespawnKeeps
  <1>8. ASSUME NEW p \in Peer, Sweep(p) PROVE StreamingInv'
    BY <1>8, SweepOutKeeps, SweepInKeeps DEF Sweep
  <1>9. ASSUME NEW p \in Peer, SomeTransform(p) PROVE StreamingInv'
    <2> PICK pos \in Position, tick \in 1..MaxTick : OnNetPlayerTransform(p, pos, tick)
      BY <1>9 DEF SomeTransform
    <2> QED
      BY TransformSpawnsKeeps, TransformIsKeptKeeps, TransformDrivesKeeps
         DEF OnNetPlayerTransform
  <1>10. ASSUME NEW p \in Peer, NEW l \in Look, OnNetPlayerAppearance(p, l) PROVE StreamingInv'
    BY <1>10, AppearanceKeeps
  <1> QED
    BY <1>1, <1>2, <1>3, <1>4, <1>5, <1>6, <1>7, <1>8, <1>9, <1>10 DEF Next

LEMMA StreamingInvariance == Spec => []StreamingInv
  BY StreamingInit, StreamingStep, PTL DEF Spec

-----------------------------------------------------------------------------
(* What it gives.                                                            *)

\* Peers and entities keep their types, and spawned says whether there is an id:
\* through every order of joins, leaves, sweeps and movement.
THEOREM StreamingTypeCorrect == Spec => []StreamingTypeOK
  <1>1. ASSUME StreamingInv, NEW p \in Tracked
        PROVE  /\ peers[p].spawned <=> peers[p].entityId \in EntityId
               /\ peers[p].target \in Position \cup {Nowhere}
               /\ peers[p].appearanceApplied => peers[p].spawned
    <2>1. peers[p] \in PeerRecord /\ Paired(p)
      BY <1>1, PeerFacts
    <2>2. NoEntity \notin EntityId
      BY BoundsAssumption DEF NoEntity
    <2> QED
      BY <2>1, <2>2 DEF PeerRecord, Paired
  <1>2. StreamingInv => StreamingTypeOK
    BY <1>1 DEF StreamingInv, StreamingTypes, StreamingTypeOK
  <1> QED
    BY <1>2, StreamingInvariance, PTL

\* No entity is leaked, shared or commanded after it is gone, for any number of
\* peers: what DespawnPeerPuppet, TrySpawnPeer and the leave handler keep together.
THEOREM NoPuppetIsAGhost == Spec => []NoGhostPuppet
  <1>1. ASSUME StreamingInv, NEW e \in Live
        PROVE  Cardinality({p \in Tracked : peers[p].entityId = e}) = 1
    <2>1. PICK p \in Tracked : peers[p].entityId = e
      BY <1>1 DEF StreamingInv
    <2>2. e # NoEntity
      BY <1>1, BoundsAssumption DEF StreamingInv, StreamingTypes, NoEntity
    <2>3. peers[p].spawned
      BY <1>1, <2>1, <2>2 DEF StreamingInv, Paired
    <2>4. {q \in Tracked : peers[q].entityId = e} = {p}
      BY <1>1, <2>1, <2>3 DEF StreamingInv
    <2>5. Cardinality({p}) = 1
      BY FS_Singleton
    <2> QED
      BY <2>4, <2>5
  <1>2. StreamingInv => NoGhostPuppet
    BY <1>1 DEF StreamingInv, Paired, NoGhostPuppet
  <1> QED
    BY <1>2, StreamingInvariance, PTL

\* A puppet that counts as dressed was last asked to wear the look cached last, whether
\* the look or the entity came first and however often the puppet was re-spawned; and it
\* wears its item, unless TryApplyAppearance or the transform handler set the flag of a
\* puppet that was refused it.
THEOREM DressedPuppetsWearTheirLook == Spec => []AppliedMeansDressed
  <1>1. StreamingInv => AppliedMeansDressed
    BY DEF StreamingInv, Paired, WearsAsAsked, AppliedMeansDressed
  <1> QED
    BY <1>1, StreamingInvariance, PTL
=============================================================================
