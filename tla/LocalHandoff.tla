---------------------------- MODULE LocalHandoff ----------------------------
(***************************************************************************)
(* The two threads of one client process (NetCore.cpp, CyberRestSystem.cpp) *)
(* and what they share under four mutexes: the game thread pushes its        *)
(* transform, its look and its shots, and drains the events; the worker      *)
(* pumps the connection.  A step is one critical section, or what a thread    *)
(* does between two of them.                                                  *)
(*                                                                          *)
(* "The wire" is what was handed to GNS on s_connection, in order.  What of it *)
(* the host hears when follows from how each message was sent.  Shots and      *)
(* events are numbered as they are pushed and queued.                         *)
(***************************************************************************)
EXTENDS Integers, Sequences, SequencesExt

CONSTANTS
    Look,         \* what a player can look like
    NoLook,       \* not a look
    MaxChanges,   \* bound: the changes of look
    MaxShots,     \* bound: the shots and hits pushed
    MaxEvents,    \* bound: the events queued
    MaxTick       \* bound: the transforms sent

ASSUME NoLookAssumption == NoLook \notin Look
ASSUME BoundsAssumption ==
    {MaxChanges, MaxShots, MaxEvents, MaxTick} \subseteq Nat

VARIABLES
    conn,             \* s_connection and s_connected
    helloSent,        \* s_helloSent
    xformValid,       \* s_localXformValid
    localTick,        \* s_localTick
    appearance,       \* s_localAppearance, NoLook until s_localAppearanceValid
    dirty,            \* s_localAppearanceDirty
    outCombat,        \* s_outCombat
    events,           \* s_events
    worker,           \* the call of the pump the worker is at
    held,             \* the look SendLocalAppearance took and has not sent
    batch,            \* what SendLocalCombat took and has not sent
    game,             \* where the game thread is
    scratch,          \* m_eventScratch, the part not dispatched yet
    wire,             \* history: the messages sent
    changes,          \* history: the changes of look
    hits,             \* which of the pushed are hits: their kind in s_outCombat
    fired,            \* history: the shots and hits pushed
    received,         \* history: the events queued
    handled           \* history: the events dispatched

moveVars   == <<xformValid, localTick>>
lookVars   == <<appearance, dirty, held, changes>>
combatVars == <<outCombat, batch, hits, fired>>
eventVars  == <<events, scratch, received, handled>>
vars == <<conn, helloSent, moveVars, lookVars, combatVars, eventVars, worker,
          game, wire>>

IsConnected == conn = "connected"
HasSocket == conn # "lost"

Hello == [type |-> "Hello", value |-> 0]
Appearance(l) == [type |-> "Appearance", value |-> l]
Transform(n) == [type |-> "Transform", value |-> n]
Combat(n) == [type |-> "Combat", value |-> n]

\* What the messages of a type said, in order.
Noted(said, msg, t) == IF msg.type = t THEN Append(said, msg.value) ELSE said
Said(msgs, t) ==
    LET said[i \in 0..Len(msgs)] ==
            IF i = 0 THEN <<>> ELSE Noted(said[i - 1], msgs[i], t)
    IN  said[Len(msgs)]

LooksSent == Said(wire, "Appearance")
LastLook == IF LooksSent = <<>> THEN NoLook ELSE Last(LooksSent)
ShotsSent == Said(wire, "Combat")

\* The hello, looks and hits are sent reliably, transforms and shots UnreliableNoDelay.
\* Reliable messages keep their order; any other may be lost, or pass one that waits to
\* be sent again, or be passed.
IsReliable(m) ==
    m.type \in {"Hello", "Appearance"} \/ (m.type = "Combat" /\ m.value \in hits)
MayBeHeardBefore(i) ==
    {j \in DOMAIN wire \ {i} : IsReliable(wire[i]) /\ IsReliable(wire[j]) => j < i}

-----------------------------------------------------------------------------
\* StartClient.
Init ==
    /\ conn = "connecting"
    /\ helloSent = FALSE
    /\ xformValid = FALSE /\ localTick = 0
    /\ appearance = NoLook /\ dirty = FALSE /\ held = NoLook /\ changes = 0
    /\ outCombat = <<>> /\ batch = <<>> /\ hits = {} /\ fired = 0
    /\ events = <<>> /\ scratch = <<>> /\ received = 0 /\ handled = <<>>
    /\ worker = "callbacks" /\ game = "idle"
    /\ wire = <<>>

-----------------------------------------------------------------------------
(* The worker.                                                              *)

\* The order of the calls in ThreadMain's loop.
After_LookFirst ==
    [callbacks |-> "poll", poll |-> "look", look |-> "hello", hello |-> "transform",
     transform |-> "combat", combat |-> "callbacks"]
After ==
    [callbacks |-> "poll", poll |-> "hello", hello |-> "look", look |-> "transform",
     transform |-> "combat", combat |-> "callbacks"]

Pump(call) == worker = call /\ worker' = After[call]

\* OnConnectionStatusChanged: the socket comes up, or the host is lost.
RunCallbacks ==
    /\ Pump("callbacks")
    /\ conn' \in CASE conn = "connecting" -> {"connecting", "connected", "lost"}
                   [] conn = "connected" -> {"connected", "lost"}
                   [] conn = "lost" -> {"lost"}
    /\ UNCHANGED <<helloSent, moveVars, lookVars, combatVars, eventVars, game, wire>>

\* QueueEvent.
QueueEvent ==
    /\ worker = "poll" /\ IsConnected
    /\ received < MaxEvents
    /\ received' = received + 1
    /\ events' = Append(events, received')
    /\ UNCHANGED <<conn, helloSent, moveVars, lookVars, combatVars, scratch, handled,
                   worker, game, wire>>

\* PollMessages has no further message.
PollMessages ==
    /\ Pump("poll")
    /\ UNCHANGED <<conn, helloSent, moveVars, lookVars, combatVars, eventVars, game, wire>>

\* The flag is set and the message sent with nobody else reading either.
SendLocalHello ==
    /\ Pump("hello")
    /\ helloSent' = (helloSent \/ IsConnected)
    /\ wire' = IF IsConnected /\ ~helloSent THEN Append(wire, Hello) ELSE wire
    /\ UNCHANGED <<conn, moveVars, lookVars, combatVars, eventVars, game>>

\* SendLocalAppearance takes the look and clears the flag under the lock ...
TakeLook ==
    /\ worker = "look" /\ held = NoLook
    /\ appearance # NoLook /\ dirty
    /\ held' = appearance
    /\ dirty' = FALSE
    /\ UNCHANGED <<conn, helloSent, moveVars, appearance, changes, combatVars, eventVars,
                   worker, game, wire>>

\* ... and sends it outside, or marks it again under the lock.
SendLook_ClearsFlag ==
    /\ held # NoLook /\ Pump("look")
    /\ held' = NoLook
    /\ wire' = IF HasSocket THEN Append(wire, Appearance(held)) ELSE wire
    /\ dirty' = ~HasSocket
    /\ UNCHANGED <<conn, helloSent, moveVars, appearance, changes, combatVars, eventVars,
                   game>>
SendLook ==
    /\ held # NoLook /\ Pump("look")
    /\ held' = NoLook
    /\ wire' = IF HasSocket THEN Append(wire, Appearance(held)) ELSE wire
    /\ dirty' = (dirty \/ ~HasSocket)
    /\ UNCHANGED <<conn, helloSent, moveVars, appearance, changes, combatVars, eventVars,
                   game>>

NoLookToSend ==
    /\ held = NoLook /\ (appearance = NoLook \/ ~dirty) /\ Pump("look")
    /\ UNCHANGED <<conn, helloSent, moveVars, lookVars, combatVars, eventVars, game, wire>>

\* SendLocalTransform.  A transform sent is the latest; which one it was nobody
\* can tell, so taking and sending it is one step.
SendLocalTransform ==
    /\ Pump("transform")
    /\ LET sends == xformValid /\ localTick < MaxTick
       IN  /\ localTick' = IF sends THEN localTick + 1 ELSE localTick
           /\ wire' = IF sends /\ HasSocket
                     THEN Append(wire, Transform(localTick')) ELSE wire
    /\ UNCHANGED <<conn, helloSent, xformValid, lookVars, combatVars, eventVars, game>>

\* SendLocalCombat swaps the queue out under the lock ...
TakeCombat ==
    /\ worker = "combat" /\ batch = <<>> /\ outCombat # <<>>
    /\ batch' = outCombat
    /\ outCombat' = <<>>
    /\ UNCHANGED <<conn, helloSent, moveVars, lookVars, hits, fired, eventVars, worker,
                   game, wire>>

\* ... and sends one after the other, or drops it without a connection.
SendCombat_ClearsQueue ==
    /\ worker = "combat" /\ batch # <<>>
    /\ batch' = Tail(batch)
    /\ outCombat' = IF batch' = <<>> THEN <<>> ELSE outCombat
    /\ wire' = IF HasSocket THEN Append(wire, Combat(Head(batch))) ELSE wire
    /\ worker' = IF batch' = <<>> THEN After["combat"] ELSE worker
    /\ UNCHANGED <<conn, helloSent, moveVars, lookVars, hits, fired, eventVars, game>>
SendCombat ==
    /\ worker = "combat" /\ batch # <<>>
    /\ batch' = Tail(batch)
    /\ wire' = IF HasSocket THEN Append(wire, Combat(Head(batch))) ELSE wire
    /\ worker' = IF batch' = <<>> THEN After["combat"] ELSE worker
    /\ UNCHANGED <<conn, helloSent, moveVars, lookVars, outCombat, hits, fired, eventVars,
                   game>>

NoCombatToSend ==
    /\ batch = <<>> /\ outCombat = <<>> /\ Pump("combat")
    /\ UNCHANGED <<conn, helloSent, moveVars, lookVars, combatVars, eventVars, game, wire>>

-----------------------------------------------------------------------------
(* The game thread.                                                         *)

\* OnNetUpdate and the weapon hook begin by reading IsConnected, and what they
\* push later is pushed even if the host was lost meanwhile.
OnNetUpdate ==
    /\ game = "idle" /\ IsConnected
    /\ game' = "captureTransform"
    /\ UNCHANGED <<conn, helloSent, moveVars, lookVars, combatVars, eventVars, worker,
                   wire>>

\* PushLocalTransform, or no player or no world to capture it from.
CaptureLocalTransform ==
    /\ game = "captureTransform"
    /\ game' = "captureLook"
    /\ xformValid' \in {xformValid, TRUE}
    /\ UNCHANGED <<conn, helloSent, localTick, lookVars, combatVars, eventVars, worker,
                   wire>>

\* PushLocalAppearance, which compares with what was pushed before.
PushLocalAppearance_ForgetsFlag(l) ==
    IF l = appearance THEN UNCHANGED <<appearance, dirty, changes>>
    ELSE /\ changes < MaxChanges
         /\ changes' = changes + 1
         /\ appearance' = l
         /\ dirty' = (dirty \/ appearance = NoLook)
PushLocalAppearance(l) ==
    IF l = appearance THEN UNCHANGED <<appearance, dirty, changes>>
    ELSE /\ changes < MaxChanges
         /\ changes' = changes + 1
         /\ appearance' = l
         /\ dirty' = TRUE

CaptureLocalAppearance ==
    /\ game = "captureLook"
    /\ game' = "drain"
    /\ \/ \E l \in Look : PushLocalAppearance(l)
       \/ UNCHANGED <<appearance, dirty, changes>>
    /\ UNCHANGED <<conn, helloSent, moveVars, held, combatVars, eventVars, worker, wire>>

\* DrainEvents clears the scratch and swaps the queue into it under the lock.
DrainEvents_Copies ==
    /\ game = "drain"
    /\ scratch' = events
    /\ UNCHANGED events
    /\ game' = "dispatch"
    /\ UNCHANGED <<conn, helloSent, moveVars, lookVars, combatVars, received, handled,
                   worker, wire>>
DrainEvents ==
    /\ game = "drain"
    /\ scratch' = events
    /\ events' = <<>>
    /\ game' = "dispatch"
    /\ UNCHANGED <<conn, helloSent, moveVars, lookVars, combatVars, received, handled,
                   worker, wire>>

Dispatch ==
    /\ game = "dispatch"
    /\ IF scratch = <<>>
       THEN game' = "idle" /\ UNCHANGED <<scratch, handled>>
       ELSE /\ scratch' = Tail(scratch)
            /\ handled' = Append(handled, Head(scratch))
            /\ UNCHANGED game
    /\ UNCHANGED <<conn, helloSent, moveVars, lookVars, combatVars, events, received,
                   worker, wire>>

\* The weapon hook: a shot fired, and a hit if it struck a puppet.
ReportShot ==
    /\ game = "idle" /\ IsConnected
    /\ fired < MaxShots
    /\ game' = "pushFire"
    /\ UNCHANGED <<conn, helloSent, moveVars, lookVars, combatVars, eventVars, worker,
                   wire>>

PushCombat ==
    /\ fired' = fired + 1
    /\ outCombat' = Append(outCombat, fired')
    /\ UNCHANGED <<conn, helloSent, moveVars, lookVars, batch, eventVars, worker, wire>>

PushLocalFire ==
    /\ game = "pushFire"
    /\ game' \in {"pushHit", "idle"}
    /\ PushCombat
    /\ UNCHANGED hits

PushLocalHit ==
    /\ game = "pushHit"
    /\ game' = "idle"
    /\ PushCombat
    /\ hits' = hits \cup {fired'}

-----------------------------------------------------------------------------
Worker ==
    \/ RunCallbacks \/ QueueEvent \/ PollMessages \/ SendLocalHello
    \/ TakeLook \/ SendLook \/ NoLookToSend
    \/ SendLocalTransform
    \/ TakeCombat \/ SendCombat \/ NoCombatToSend

Frame == OnNetUpdate \/ CaptureLocalTransform \/ CaptureLocalAppearance
         \/ DrainEvents \/ Dispatch

Shoot == ReportShot \/ PushLocalFire \/ PushLocalHit

Next == Worker \/ Frame \/ Shoot

Spec == Init /\ [][Next]_vars

\* The worker's loop and the game's frames go on.
FairSpec == Spec /\ WF_vars(Worker) /\ WF_vars(Frame) /\ WF_vars(Shoot)

-----------------------------------------------------------------------------
(* Properties.                                                              *)

\* Every variable holds a value of its type.
HandoffTypeOK ==
    /\ conn \in {"connecting", "connected", "lost"}
    /\ helloSent \in BOOLEAN
    /\ xformValid \in BOOLEAN /\ localTick \in 0..MaxTick
    /\ appearance \in Look \cup {NoLook} /\ held \in Look \cup {NoLook}
    /\ dirty \in BOOLEAN /\ changes \in 0..MaxChanges
    /\ outCombat \in Seq(Nat) /\ batch \in Seq(Nat) /\ fired \in Nat
    /\ hits \subseteq 1..fired
    /\ events \in Seq(Nat) /\ scratch \in Seq(Nat) /\ handled \in Seq(Nat)
    /\ received \in Nat
    /\ worker \in DOMAIN After
    /\ game \in {"idle", "captureTransform", "captureLook", "drain", "dispatch",
                 "pushFire", "pushHit"}

\* The hello is handed over before all else, whenever the game pushes its first look,
\* transform or shot; so among what is sent reliably, and nothing else, it is the one
\* that the host hears first, and no other is a hello.  (SendLocalHello's comment; the
\* pump order and the IsConnected checks of the game thread bring it about.)
HelloComesFirst ==
    /\ wire # <<>> => Head(wire) = Hello
    /\ \A i \in DOMAIN wire : IsReliable(wire[i]) =>
         (wire[i] = Hello <=> \A j \in MayBeHeardBefore(i) : ~IsReliable(wire[j]))

\* The host hears nothing before the hello.  (NetCore.cpp:1407-1409: "This is the first
\* thing the host hears from us, so it can restore our saved state before any
\* transform/appearance arrives.")
HelloIsHeardFirst ==
    \A i \in DOMAIN wire : wire[i] = Hello => MayBeHeardBefore(i) = {}

\* A look that is not marked for sending and not in the worker's hands is the last
\* one the host heard: no push falls between the worker's two critical sections.
CleanLookIsSent ==
    appearance # NoLook /\ ~dirty /\ held = NoLook => LastLook = appearance

\* The shots and hits reach the wire each once and in order, none is lost while
\* there is a connection.  (NetCore.hpp: "no shot is coalesced away".)
Shots == INSTANCE Mailbox WITH
    posted <- fired, waiting <- batch \o outCombat, taken <- ShotsSent,
    closed <- ~HasSocket
ShotsImplementMailbox == Shots!Spec

\* The events reach the game each once and in order, and none is lost.
Inbox == INSTANCE Mailbox WITH
    posted <- received, waiting <- scratch \o events, taken <- handled,
    closed <- FALSE
EventsImplementMailbox == Inbox!Spec

\* What the player wears in the end is what the host hears in the end, unless the
\* host is lost, whatever pushes fell into the sending of an earlier look.
FinalLookIsHeard ==
    \A l \in Look :
        <>[](appearance = l /\ HasSocket) => <>[](LastLook = l)

=============================================================================
