-------------------------- MODULE WorldReadyProofs --------------------------
(***************************************************************************)
(* What holds of the world-ready gate for every number of ticks, places,    *)
(* loads of a save and kinds of player object.                              *)
(*                                                                          *)
(* That a restore is buffered exactly until it is applied is inductive with  *)
(* little help.  That the first one waits for a settled world is not: the    *)
(* gate decides by its own counter and by an event flag, the property by     *)
(* what really happened to this player, and the two agree only as long as    *)
(* one save has been loaded (SettledInv).                                    *)
(***************************************************************************)
EXTENDS WorldReady, TLAPS

-----------------------------------------------------------------------------
(* A restore is buffered until it is applied.                                *)

\* ReadyTypeOK, and: one restore at most is received, the one of the saved position.
BufferInv ==
    /\ ReadyTypeOK
    /\ received \in {0, 1} /\ applied \in {0, 1}
    /\ pending \in {Saved, Nowhere}

LEMMA InitBuffers == Init => BufferInv
  <1> SUFFICES ASSUME Init PROVE BufferInv
    OBVIOUS
  <1>1. player \in PlayerState
    BY PlayerStateAssumption DEF Init
  <1>2. {pos, pushed, onFile} \subseteq Position \cup {Home, Nowhere} /\ {pool, told} \subseteq Hp
    BY PlacesAssumption, HpAssumption DEF Init
  <1>3. {connected, dispatching, hasGI, eventSeen, ready} \subseteq BOOLEAN
    BY Zenon DEF Init
  <1>4. {ticks, seen} \subseteq 0..StableTicks
    BY BoundsAssumption DEF Init
  <1>5. received = 0 /\ applied = 0 /\ pending = Nowhere /\ ~ready
    BY DEF Init
  <1> QED
    BY <1>1, <1>2, <1>3, <1>4, <1>5 DEF BufferInv, ReadyTypeOK

\* OnLocalWorldReady applies the restore that is pending, or keeps it.
LEMMA ApplyKeeps ==
    ASSUME NEW p \in {Saved, Nowhere}, OnLocalWorldReady(p),
           {pos} \subseteq Position \cup {Home, Nowhere}, applied \in {0, 1},
           p # Nowhere => applied = 0
    PROVE  /\ ready' \in BOOLEAN /\ pending' \in {Saved, Nowhere}
           /\ pos' \in Position \cup {Home, Nowhere}
           /\ applied' \in {0, 1}
           /\ p # Nowhere => (pending' # Nowhere <=> applied' = 0)
           /\ p = Nowhere => pending' = Nowhere /\ applied' = applied
  BY PlacesAssumption DEF OnLocalWorldReady, IsDefined

LEMMA CaptureBuffers ==
    ASSUME BufferInv, CaptureLocalTransform
    PROVE  BufferInv'
  <1> USE DEF BufferInv, ReadyTypeOK
  <1>1. /\ UNCHANGED <<player, pool, told, onFile, connected, hasGI, eventSeen, received>>
        /\ dispatching' = TRUE
    BY DEF CaptureLocalTransform, engine, meet
  <1>2. seen' \in 0..StableTicks
    BY BoundsAssumption DEF CaptureLocalTransform, CapTicks
  <1>3. /\ ticks' \in 0..StableTicks /\ ready' \in BOOLEAN /\ (ready' => hasGI)
        /\ pos' \in Position \cup {Home, Nowhere}
        /\ applied' \in {0, 1} /\ applied' <= received
        /\ pending' \in {Saved, Nowhere} /\ (pending' # Nowhere <=> applied' < received)
    <2>1. CASE GateRests \/ GateResets
      BY <2>1, BoundsAssumption DEF GateRests, GateResets
    <2>2. CASE GateCounts
      <3>1. ticks' \in 0..StableTicks
        BY <2>2, BoundsAssumption DEF GateCounts, CapTicks
      <3>2. CASE ~Fires
        BY <2>2, <3>1, <3>2 DEF GateCounts
      <3>3. CASE Fires
        <4>1. /\ OnLocalWorldReady(pending) /\ hasGI
          BY <2>2, <3>3 DEF GateCounts
        <4>2. /\ ready' \in BOOLEAN /\ pending' \in {Saved, Nowhere}
              /\ pos' \in Position \cup {Home, Nowhere}
              /\ applied' \in {0, 1}
              /\ pending # Nowhere => (pending' # Nowhere <=> applied' = 0)
              /\ pending = Nowhere => pending' = Nowhere /\ applied' = applied
          BY <4>1, ApplyKeeps
        <4> QED
          BY <3>1, <4>1, <4>2
      <3> QED
        BY <3>2, <3>3
    <2> QED
      BY <2>1, <2>2 DEF CaptureLocalTransform
  <1>4. pushed' \in Position \cup {Home, Nowhere}
    BY <1>3 DEF CaptureLocalTransform
  <1> QED
    BY <1>1, <1>2, <1>3, <1>4

LEMMA RestoreBuffers ==
    ASSUME BufferInv, OnNetRestorePosition
    PROVE  BufferInv'
  <1> USE DEF BufferInv, ReadyTypeOK
  <1>1. /\ UNCHANGED <<player, pool, told, pushed, onFile, connected, dispatching, hasGI,
                       eventSeen, ticks, seen>>
        /\ received = 0 /\ received' = 1 /\ applied = 0
    BY DEF OnNetRestorePosition, engine, files
  <1>2. CASE ready
    <2>1. OnLocalWorldReady(Saved)
      BY <1>2 DEF OnNetRestorePosition
    <2>2. /\ ready' \in BOOLEAN /\ pending' \in {Saved, Nowhere}
          /\ pos' \in Position \cup {Home, Nowhere}
          /\ applied' \in {0, 1}
          /\ (pending' # Nowhere <=> applied' = 0)
      BY <1>1, <2>1, ApplyKeeps, PlacesAssumption
    <2> QED
      BY <1>1, <1>2, <2>2
  <1>3. CASE ~ready
    BY <1>1, <1>3, PlacesAssumption DEF OnNetRestorePosition
  <1> QED
    BY <1>2, <1>3

LEMMA StepBuffers == BufferInv /\ [Next]_vars => BufferInv'
  <1> SUFFICES ASSUME BufferInv, [Next]_vars PROVE BufferInv'
    OBVIOUS
  <1> USE DEF BufferInv, ReadyTypeOK
  <1>1. CASE Engine
    <2>1. UNCHANGED <<pushed, onFile, told, connected, dispatching, ready, ticks,
                      pending, received, applied>>
      BY <1>1 DEF Engine, Spawn, FacilityComes, PlayerIsLost, GraceEnds, SomebodyShoots,
                  BetweenFrames, engine, restore, meet, files
    <2>2. player' \in PlayerState
      BY <1>1, PlayerStateAssumption
      DEF Engine, Spawn, FacilityComes, PlayerIsLost, GraceEnds, SomebodyShoots, engine
    <2>3. pos' \in Position \cup {Home, Nowhere} /\ pool' \in Hp
      BY <1>1, HpAssumption
      DEF Engine, Spawn, FacilityComes, PlayerIsLost, GraceEnds, SomebodyShoots, engine
    <2>4. seen' \in 0..StableTicks
      BY <1>1, BoundsAssumption
      DEF Engine, Spawn, FacilityComes, PlayerIsLost, GraceEnds, SomebodyShoots, engine
    <2>5. eventSeen' \in BOOLEAN /\ hasGI' \in BOOLEAN /\ (hasGI => hasGI')
      BY <1>1
      DEF Engine, Spawn, FacilityComes, PlayerIsLost, GraceEnds, SomebodyShoots
    <2> QED
      BY <2>1, <2>2, <2>3, <2>4, <2>5
  <1>2. CASE Join
    BY <1>2 DEF Join, BetweenFrames, engine, restore, meet, files
  <1>3. CASE CaptureLocalTransform
    BY <1>3, CaptureBuffers
  <1>4. CASE OnNetRestorePosition
    BY <1>4, RestoreBuffers
  <1>5. ASSUME NEW q \in Peer, NEW p \in Position, OnNetPlayerTransform(q, p) PROVE BufferInv'
    BY <1>5 DEF OnNetPlayerTransform, Meets, MeetsNot, engine, gate, restore, files
  <1>6. ASSUME NEW hp \in Hp, OnLocalHealth(hp) PROVE BufferInv'
    BY <1>6 DEF OnLocalHealth, gate, restore, files, meet
  <1>7. CASE FrameEnds
    BY <1>7 DEF FrameEnds, engine, gate, restore, files, meet
  <1>8. CASE HostSaves
    BY <1>8 DEF HostSaves, engine, gate, restore, meet
  <1>9. CASE UNCHANGED vars
    BY <1>9 DEF vars, engine, gate, restore, files, meet
  <1> QED
    BY <1>1, <1>2, <1>3, <1>4, <1>5, <1>6, <1>7, <1>8, <1>9 DEF Next, Dispatches

LEMMA Buffering == Spec => []BufferInv
  BY InitBuffers, StepBuffers, PTL DEF Spec

\* A restore is buffered exactly from its arrival until it is applied, once, and a
\* ready world has a GameInstance (OnNetRestorePosition, OnLocalWorldReady).
THEOREM RestoreIsBuffered == Spec => []ReadyTypeOK
  <1>1. BufferInv => ReadyTypeOK
    BY DEF BufferInv
  <1> QED
    BY <1>1, Buffering, PTL

-----------------------------------------------------------------------------
(* The first restore waits for a settled world.                              *)

\* What the gate remembers is what happened to the player, until a save is loaded
\* a second time.
SettledInv ==
    /\ spawns \in Nat
    /\ spawns = 0 => ~IsDefined /\ ~eventSeen /\ ~ready /\ ticks = 0
    /\ spawns = 1 /\ IsDefined =>
         /\ eventSeen => graceOver
         /\ ticks <= seen
         /\ ready => Settled

LEMMA InitSettled == Init => SettledInv
  BY BoundsAssumption DEF Init, SettledInv, IsDefined

\* A gate that opens, or a restore that is applied at once, finds the world settled.
LEMMA CaptureSettles ==
    ASSUME BufferInv, SettledInv, CaptureLocalTransform
    PROVE  /\ SettledInv'
           /\ applied' # applied /\ spawns = 1 => Settled'
  <1>1. /\ UNCHANGED <<player, spawns, graceOver, eventSeen, hasGI>>
        /\ seen' = IF IsDefined THEN CapTicks(seen + 1) ELSE 0
    BY DEF CaptureLocalTransform, engine
  <1>2. ticks \in 0..StableTicks /\ seen \in 0..StableTicks
    BY DEF BufferInv, ReadyTypeOK
  <1>3. IsDefined' <=> IsDefined
    BY <1>1 DEF IsDefined
  <1>4. CASE GateRests \/ GateResets
    <2>1. applied' = applied /\ ready' = ready
      BY <1>4 DEF GateRests, GateResets
    <2>2. IsDefined => ticks' = ticks /\ seen' >= seen
      BY <1>1, <1>2, <1>4 DEF GateRests, GateResets, CapTicks
    <2>3. ticks' = ticks \/ ticks' = 0
      BY <1>4 DEF GateRests, GateResets
    <2>4. IsDefined /\ Settled => Settled'
      BY <1>1, <1>2, <2>2, BoundsAssumption DEF Settled, CapTicks
    <2>5. spawns' \in Nat /\ (spawns' = 0 => ~IsDefined' /\ ~eventSeen' /\ ~ready' /\ ticks' = 0)
      BY <1>1, <1>3, <2>1, <2>3 DEF SettledInv
    <2>6. spawns' = 1 /\ IsDefined' =>
            (eventSeen' => graceOver') /\ ticks' <= seen' /\ (ready' => Settled')
      <3>1. spawns' = 1 /\ IsDefined' => ticks' <= seen'
        BY <1>1, <1>2, <1>3, <2>2, BoundsAssumption DEF SettledInv, CapTicks
      <3> QED
        BY <1>1, <1>3, <2>1, <2>4, <3>1 DEF SettledInv
    <2> QED
      BY <2>1, <2>5, <2>6 DEF SettledInv
  <1>5. CASE GateCounts
    <2>1. IsDefined /\ ticks' = CapTicks(ticks + 1) /\ spawns # 0
      BY <1>5 DEF GateCounts, SettledInv
    <2>2. spawns = 1 => ticks' <= seen'
      BY <1>1, <1>2, <2>1, BoundsAssumption DEF SettledInv, CapTicks
    <2>3. spawns = 1 /\ Fires => Settled'
      BY <1>1, <1>2, <2>1, BoundsAssumption DEF SettledInv, Fires, Settled, CapTicks
    <2>4. ~Fires => applied' = applied /\ ready' = ready /\ ~ready
      BY <1>5 DEF GateCounts
    <2>5. spawns = 1 => (ready' => Settled') /\ (applied' # applied => Settled')
      BY <2>3, <2>4
    <2> QED
      BY <1>1, <1>3, <2>1, <2>2, <2>5 DEF SettledInv
  <1> QED
    BY <1>4, <1>5 DEF CaptureLocalTransform

LEMMA RestoreSettles ==
    ASSUME BufferInv, SettledInv, OnNetRestorePosition
    PROVE  /\ SettledInv'
           /\ applied' # applied /\ spawns = 1 => Settled'
  <1>1. UNCHANGED <<player, spawns, graceOver, eventSeen, ticks, seen>>
    BY DEF OnNetRestorePosition, engine
  <1>2. (IsDefined' <=> IsDefined) /\ (Settled' <=> Settled)
    BY <1>1 DEF IsDefined, Settled
  <1>3. (ready' => ready) /\ (applied' # applied => ready /\ IsDefined)
    BY DEF OnNetRestorePosition, OnLocalWorldReady, IsDefined
  <1> QED
    BY <1>1, <1>2, <1>3 DEF SettledInv

\* A step that changes no more than what cannot unsettle the world.
LEMMA OtherStepsSettle ==
    ASSUME BufferInv, SettledInv, Next, ~CaptureLocalTransform, ~OnNetRestorePosition
    PROVE  SettledInv' /\ applied' = applied
  <1> USE DEF SettledInv, IsDefined, Settled
  <1>1. CASE Spawn
    <2>1. /\ spawns' = spawns + 1 /\ ~IsDefined /\ graceOver' = FALSE /\ seen' = 0
          /\ UNCHANGED <<eventSeen, ticks, ready, applied>>
      BY <1>1 DEF Spawn, BetweenFrames, restore
    <2>2. spawns' = 1 => spawns = 0
      BY <2>1
    <2> QED
      BY <2>1, <2>2
  <1>2. CASE PlayerIsLost
    BY <1>2 DEF PlayerIsLost, BetweenFrames, restore
  <1>3. CASE GraceEnds
    BY <1>3 DEF GraceEnds, BetweenFrames, restore
  <1>4. CASE FacilityComes
    BY <1>4 DEF FacilityComes, BetweenFrames, restore
  <1>5. ASSUME UNCHANGED <<player, spawns, graceOver, eventSeen, ready, ticks, seen, applied>>
        PROVE  SettledInv' /\ applied' = applied
    BY <1>5
  <1>6. CASE SomebodyShoots \/ Join
    BY <1>5, <1>6 DEF SomebodyShoots, Join, BetweenFrames, engine, restore
  <1>7. CASE (\E p \in Position, q \in Peer : OnNetPlayerTransform(q, p)) \/ (\E hp \in Hp : OnLocalHealth(hp))
    BY <1>5, <1>7 DEF OnNetPlayerTransform, Meets, MeetsNot, OnLocalHealth, engine, gate, restore
  <1>8. CASE FrameEnds \/ HostSaves
    BY <1>5, <1>8 DEF FrameEnds, HostSaves, engine, gate, restore
  <1> QED
    BY <1>1, <1>2, <1>3, <1>4, <1>6, <1>7, <1>8 DEF Next, Engine, Dispatches

LEMMA StepSettles ==
    BufferInv /\ SettledInv /\ [Next]_vars =>
        SettledInv' /\ (applied' # applied /\ spawns = 1 => Settled')
  <1> SUFFICES ASSUME BufferInv, SettledInv, [Next]_vars
               PROVE  SettledInv' /\ (applied' # applied /\ spawns = 1 => Settled')
    OBVIOUS
  <1>1. CASE Next
    BY <1>1, CaptureSettles, RestoreSettles, OtherStepsSettle
  <1>2. CASE UNCHANGED vars
    BY <1>2 DEF vars, engine, gate, restore, SettledInv, IsDefined, Settled
  <1> QED
    BY <1>1, <1>2

\* As long as one save has been loaded, V is teleported to its saved position only
\* once its spawn grace is over or it was there for StableTicks frames
\* (TickWorldReadyGate).
THEOREM FirstRestoreIsSettled == Spec => SettledFirstRestore
  <1>1. BufferInv /\ SettledInv /\ [Next]_vars =>
          [applied' # applied /\ spawns = 1 => Settled']_vars
    BY StepSettles
  <1>2. Spec => []SettledInv
    BY InitSettled, StepSettles, Buffering, PTL DEF Spec
  <1> QED
    BY <1>1, <1>2, Buffering, PTL DEF Spec, SettledFirstRestore
=============================================================================
