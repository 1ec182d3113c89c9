----------------------------- MODULE WorldReady -----------------------------
(***************************************************************************)
(* The local V of a joiner (CyberRestSystem.reds): when the world counts as  *)
(* ready, the restore of a saved position, the co-location with the host, and *)
(* the local health pool.                                                    *)
(*                                                                          *)
(* The game thread runs one OnNetUpdate per frame: CaptureLocalTransform,     *)
(* then the events.  The engine makes and takes away the player object         *)
(* between frames.  What V does by itself is not modelled.                      *)
(***************************************************************************)
EXTENDS Integers

CONSTANTS
    Peer,          \* net ids of the others
    HostId,        \* kLocalHostNetId
    Position,      \* places V is sent to
    Saved,         \* the position on file when the host handled the hello
    Home,          \* where a loaded save puts V
    Nowhere,       \* no position
    Hp,            \* percentages of health
    Full,          \* MAX_HEALTH
    StableTicks,   \* WORLD_READY_STABLE_TICKS
    PlayerState,   \* "none"; "bare", without a teleport facility; "whole"
    MaxSpawns      \* bound: the loads of a save

ASSUME PlacesAssumption ==
    Saved \in Position /\ Home \notin Position /\ Nowhere \notin Position \cup {Home}
ASSUME HpAssumption == Full \in Hp
ASSUME BoundsAssumption == StableTicks \in Nat \ {0} /\ MaxSpawns \in Nat
ASSUME PlayerStateAssumption == {"none", "whole"} \subseteq PlayerState

VARIABLES
    player,        \* the engine's player object
    pos,           \* where V is
    pool,          \* V's health pool
    connected,     \* IsConnected, after StartJoinSession
    dispatching,   \* OnNetUpdate is handling the events of this frame
    hasGI,         \* m_hasGI
    eventSeen,     \* m_spawnEventSeen
    ticks,         \* m_worldReadyTicks, as far as StableTicks
    ready,         \* m_worldReady
    pending,       \* m_pendingRestorePos while m_pendingRestore
    coLocateDone,  \* m_coLocateDone
    pushed,        \* the position in s_localXform, Nowhere until it is valid
    onFile,        \* the position in this player's record at the host
    spawns,        \* history: the loads of a save
    graceOver,     \* history: this player's spawn grace has ended
    seen,          \* history: the frames that saw this player, up to StableTicks
    received,      \* history: the restores received
    applied,       \* history: the restores applied
    landedOn,      \* history: the peer V was co-located with, 0 for none
    uncached,      \* history: a GameInstance was used that was never cached
    told           \* history: the health the host sent last

engine  == <<player, pool, spawns, graceOver>>
gate    == <<ticks, ready, seen>>
restore == <<pending, received, applied>>
meet    == <<coLocateDone, landedOn, uncached>>
files   == <<pushed, onFile>>
vars == <<engine, files, pos, connected, dispatching, hasGI, eventSeen, gate, restore,
          meet, told>>

IsDefined == player # "none"

CapTicks(n) == IF n < StableTicks THEN n ELSE StableTicks

-----------------------------------------------------------------------------
Init ==
    /\ player = "none" /\ pos = Nowhere /\ pool = Full
    /\ connected = FALSE /\ dispatching = FALSE
    /\ hasGI = FALSE /\ eventSeen = FALSE /\ ticks = 0 /\ ready = FALSE
    /\ pending = Nowhere /\ coLocateDone = FALSE
    /\ pushed = Nowhere /\ onFile = Saved
    /\ spawns = 0 /\ graceOver = FALSE /\ seen = 0
    /\ received = 0 /\ applied = 0 /\ landedOn = 0
    /\ uncached = FALSE /\ told = Full

(* Between frames.                                                          *)

BetweenFrames ==
    /\ ~dispatching
    /\ UNCHANGED <<dispatching, ticks, ready, restore, meet, told, files>>

\* A save is loaded.
Spawn ==
    /\ BetweenFrames
    /\ ~IsDefined /\ spawns < MaxSpawns
    /\ player' \in PlayerState \ {"none"}
    /\ pos' = Home /\ pool' = Full
    /\ spawns' = spawns + 1 /\ graceOver' = FALSE /\ seen' = 0
    /\ UNCHANGED <<connected, hasGI, eventSeen>>

FacilityComes ==
    /\ BetweenFrames
    /\ player = "bare" /\ player' = "whole"
    /\ UNCHANGED <<pos, pool, spawns, graceOver, seen, connected, hasGI, eventSeen>>

\* A load screen or the main menu.
PlayerIsLost ==
    /\ BetweenFrames
    /\ IsDefined /\ player' = "none" /\ pos' = Nowhere
    /\ UNCHANGED <<pool, spawns, graceOver, seen, connected, hasGI, eventSeen>>

\* The wrapper of OnMakePlayerVisibleAfterSpawn.
GraceEnds ==
    /\ BetweenFrames
    /\ IsDefined /\ ~graceOver
    /\ graceOver' = TRUE /\ hasGI' = TRUE /\ eventSeen' = TRUE
    /\ UNCHANGED <<player, pos, pool, spawns, seen, connected>>

\* The wrapper of OnShoot; also for the shots of others.
SomebodyShoots ==
    /\ BetweenFrames
    /\ IsDefined /\ connected /\ hasGI' = TRUE
    /\ UNCHANGED <<engine, pos, seen, connected, eventSeen>>

\* StartJoinSession succeeds and the host is reached.
Join ==
    /\ BetweenFrames
    /\ ~connected /\ connected' = TRUE
    /\ UNCHANGED <<engine, pos, seen, hasGI, eventSeen>>

-----------------------------------------------------------------------------
(* A frame.                                                                 *)

\* OnLocalWorldReady, with the restore that is pending by now.
OnLocalWorldReady_Drops(restorePos) ==
    /\ ready' = IsDefined
    /\ pending' = Nowhere
    /\ IF player = "whole" /\ restorePos # Nowhere
       THEN pos' = restorePos /\ applied' = applied + 1
       ELSE UNCHANGED <<pos, applied>>
OnLocalWorldReady_Keeps(restorePos) ==
    /\ ready' = IsDefined
    /\ pending' = restorePos
    /\ IF player = "whole" /\ restorePos # Nowhere
       THEN pos' = restorePos /\ applied' = applied + 1
       ELSE UNCHANGED <<pos, applied>>
OnLocalWorldReady(restorePos) ==
    /\ ready' = IsDefined
    /\ IF player = "whole" /\ restorePos # Nowhere
       THEN pos' = restorePos /\ pending' = Nowhere /\ applied' = applied + 1
       ELSE pending' = restorePos /\ UNCHANGED <<pos, applied>>

\* TickWorldReadyGate: it stays as it is, starts again, counts, or fires.
GateRests ==
    /\ ~hasGI \/ ready
    /\ UNCHANGED <<ticks, ready, pending, pos, applied>>

GateResets ==
    /\ hasGI /\ ~ready /\ ~IsDefined
    /\ ticks' = 0
    /\ UNCHANGED <<ready, pending, pos, applied>>

Fires_EarlyByOne == eventSeen \/ ticks + 2 >= StableTicks
Fires_Exactly == ticks + 1 = StableTicks
Fires == eventSeen \/ ticks + 1 >= StableTicks

GateCounts ==
    /\ hasGI /\ ~ready /\ IsDefined
    /\ ticks' = CapTicks(ticks + 1)
    /\ IF Fires THEN OnLocalWorldReady(pending)
       ELSE UNCHANGED <<ready, pending, pos, applied>>

\* CaptureLocalTransform: the gate first, then the position is pushed.
CaptureLocalTransform ==
    /\ connected /\ ~dispatching /\ dispatching' = TRUE
    /\ seen' = IF IsDefined THEN CapTicks(seen + 1) ELSE 0
    /\ GateRests \/ GateResets \/ GateCounts
    /\ pushed' = IF hasGI /\ IsDefined THEN pos' ELSE pushed
    /\ UNCHANGED <<engine, onFile, connected, hasGI, eventSeen, received, meet, told>>

\* OnNetRestorePosition.  A host sends one, in answer to the hello.
OnNetRestorePosition ==
    /\ dispatching /\ received = 0 /\ received' = 1
    /\ IF ready THEN OnLocalWorldReady(Saved)
       ELSE pending' = Saved /\ UNCHANGED <<ready, pos, applied>>
    /\ UNCHANGED <<engine, files, connected, dispatching, hasGI, eventSeen, ticks,
                   seen, meet, told>>

\* OnNetPlayerTransform of a tracked peer, as far as V is concerned.  It asks for
\* the player whether or not a GameInstance is cached; without one there is none.
Meets(q, p) ==
    /\ dispatching /\ ~coLocateDone
    /\ hasGI /\ player = "whole"
    /\ pos' = p /\ coLocateDone' = TRUE /\ landedOn' = q
    /\ UNCHANGED <<engine, files, connected, dispatching, hasGI, eventSeen, gate,
                   restore, uncached, told>>

MeetsNot ==
    /\ dispatching /\ ~coLocateDone
    /\ ~hasGI \/ player # "whole"
    /\ uncached' = (uncached \/ ~hasGI)
    /\ UNCHANGED <<engine, files, pos, connected, dispatching, hasGI, eventSeen, gate,
                   restore, coLocateDone, landedOn, told>>

OnNetPlayerTransform(q, p) == Meets(q, p) \/ MeetsNot

\* OnNetPlayerHealth of the local player: ApplyLocalHealth.
OnLocalHealth(hp) ==
    /\ dispatching
    /\ told' = hp
    /\ pool' = IF hasGI /\ IsDefined THEN hp ELSE pool
    /\ UNCHANGED <<files, player, spawns, graceOver, pos, connected, dispatching, hasGI,
                   eventSeen, gate, restore, meet>>

FrameEnds ==
    /\ dispatching /\ dispatching' = FALSE
    /\ UNCHANGED <<engine, files, pos, connected, hasGI, eventSeen, gate, restore,
                   meet, told>>

\* The worker sends the position and HostHandleTransform saves it: the first after
\* the hello, and one every five seconds.
HostSaves ==
    /\ connected /\ pushed # Nowhere
    /\ onFile' = pushed
    /\ UNCHANGED <<engine, pushed, pos, connected, dispatching, hasGI, eventSeen, gate,
                   restore, meet, told>>

-----------------------------------------------------------------------------
Engine == Spawn \/ FacilityComes \/ PlayerIsLost \/ GraceEnds \/ SomebodyShoots

Dispatches ==
    \/ OnNetRestorePosition
    \/ \E p \in Position, q \in Peer : OnNetPlayerTransform(q, p)
    \/ \E hp \in Hp : OnLocalHealth(hp)

Next == Engine \/ Join \/ CaptureLocalTransform \/ Dispatches \/ FrameEnds
    \/ HostSaves

Spec == Init /\ [][Next]_vars

\* Frames go on, and the engine ends every spawn's grace: strongly fair, because a
\* frame in progress puts it off and does not cancel it.
FairSpec ==
    /\ Spec
    /\ WF_vars(CaptureLocalTransform) /\ WF_vars(FrameEnds) /\ SF_vars(GraceEnds)

-----------------------------------------------------------------------------
(* Properties.                                                              *)

\* Every variable holds a value of its type; a restore is buffered exactly from its
\* arrival until it is applied; and a ready world has a GameInstance, which the
\* sweep over the peers takes for granted.
ReadyTypeOK ==
    /\ player \in PlayerState
    /\ {pos, pushed, onFile} \subseteq Position \cup {Home, Nowhere}
    /\ {pool, told} \subseteq Hp
    /\ {connected, dispatching, hasGI, eventSeen, ready} \subseteq BOOLEAN
    /\ {ticks, seen} \subseteq 0..StableTicks
    /\ applied <= received /\ (pending # Nowhere <=> applied < received)
    /\ ready => hasGI

Settled == graceOver \/ seen >= StableTicks

\* V is moved to its saved position only in a settled world: the spawn grace of the
\* player of now is over, or it was there for StableTicks frames.  (The comment on
\* TickWorldReadyGate: "We deliberately do NOT teleport on the connect frame".)
SettledRestore == [][applied' # applied => Settled']_vars

\* The same of the first load of a save: what the gate remembers of it still counts
\* in a later one.
SettledFirstRestore == [][applied' # applied /\ spawns = 1 => Settled']_vars

\* A saved position the host sent is applied in the end if V stays in the world,
\* whatever loads came between.  ("OnLocalWorldReady fires it once the player is
\* stably world-attached".)
RestoreIsApplied == <>[](player = "whole") => <>[](applied = received)

\* The same where there was a teleport facility whenever the world was ready.
RestoreIsAppliedInReach == [](ready => player # "bare") => RestoreIsApplied

\* If V stays in the world, the world is ready in the end, whatever was re-armed.
ReadyInTheEnd == <>[](connected /\ player = "whole") => <>[]ready

\* The co-location does not move a player whose position was restored or is about
\* to be.  (OnNetRestorePosition: the restore "takes precedence".)
RestoreWins == [][coLocateDone' # coLocateDone => received = 0]_vars

\* The host does not forget a returning player's position before that player is
\* back there.  (HostStore.hpp: "so a returning player spawns where they left off".)
PlaceIsKept == applied = 0 => onFile = Saved

\* The joiner is placed on the host.  (OnNetPlayerTransform: "the JOINER converges
\* onto the HOST the first time it hears the host's position".)
JoinerLandsOnHost == landedOn \in {0, HostId}

\* No handler asks an uncached GameInstance for anything.  (The comment on
\* m_gameInstance: "Every per-frame path no-ops until m_hasGI is set".)
GameInstanceIsCached == ~uncached

\* The local health pool follows the host's value.  (The comment on
\* OnNetPlayerHealth: "so networked damage actually hurts us".)
LocalHealthFollows == <>[](player = "whole") => []<>(pool = told)
=============================================================================
