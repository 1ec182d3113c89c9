---------------------------- MODULE NetLifecycle ----------------------------
(***************************************************************************)
(* Starting and stopping a session in one process: StartHost, StartClient,  *)
(* Shutdown and ThreadMain of NetCore.cpp, Start and Stop of HostStore.cpp, *)
(* and the hotkeys and menus that call them.                                *)
(*                                                                          *)
(* The game thread holds s_mutex from the beginning to the end of a call;    *)
(* the one moment inside a call at which the worker also moves is the join.   *)
(* The worker writes s_running and s_connected without that mutex.            *)
(***************************************************************************)
CONSTANT
    GnsAvailable   \* SteamNetworkingSockets() gives an interface

ASSUME GnsAvailableAssumption == GnsAvailable \in BOOLEAN

VARIABLES
    mode,          \* s_mode
    running,       \* s_running
    joinable,      \* s_thread.joinable()
    connected,     \* s_connected
    worker,        \* where ThreadMain is
    listening,     \* s_listenSocket and s_pollGroup are valid
    connection,    \* s_connection is valid
    clients,       \* s_connToNetId is not empty
    store,         \* HostStore's flush thread is running
    caller,        \* the call the game thread is in
    localRole,     \* m_localRole, and the role of the start under way
    unloaded,      \* the plugin's Unload was called
    answer,        \* history: what the last start returned
    setupFailed    \* history: the setup of the last session failed

sessionVars == <<mode, running, joinable, connected>>
socketVars  == <<listening, connection, clients>>
callVars    == <<caller, localRole, unloaded, answer>>
vars == <<sessionVars, worker, socketVars, store, callVars, setupFailed>>

Role == {"Host", "Client"}

WorkerIsGone == worker \in {"none", "ended"}

-----------------------------------------------------------------------------
Init ==
    /\ mode = "Idle" /\ running = FALSE /\ joinable = FALSE /\ connected = FALSE
    /\ worker = "none"
    /\ listening = FALSE /\ connection = FALSE /\ clients = FALSE
    /\ store = FALSE
    /\ caller = "idle" /\ localRole = "None" /\ unloaded = FALSE
    /\ answer = "none" /\ setupFailed = FALSE

(* The game thread.                                                         *)

\* F2, F3, and the menus' HOST and JOIN.  The hotkeys are ignored when
\* IsConnected; the menus ask in every state.
Asks(role) ==
    /\ caller = "idle" /\ ~unloaded
    /\ localRole' = role

\* The rest of StartHost or StartClient once there is no worker to reap.  A host
\* starts the store, which ignores the call if it is running already.
Begin(role) ==
    /\ mode' = role
    /\ running' = TRUE
    /\ joinable' = TRUE
    /\ connected' = FALSE
    /\ clients' = FALSE
    /\ store' = (store \/ role = "Host")
    /\ worker' = "interface"
    /\ caller' = "idle"
    /\ answer' = "started"
    /\ setupFailed' = FALSE

\* A session is running: the start is refused.
Refuse(role) ==
    /\ Asks(role)
    /\ running
    /\ answer' = "refused"
    /\ UNCHANGED <<sessionVars, worker, socketVars, store, caller, unloaded, setupFailed>>

StartNow(role) ==
    /\ Asks(role)
    /\ ~running /\ ~joinable
    /\ Begin(role)
    /\ UNCHANGED <<listening, connection, unloaded>>

\* A worker that ended by itself, or is about to, is joined first.
Reap_NoJoin(role) ==
    /\ Asks(role)
    /\ ~running /\ joinable
    /\ Begin(role)
    /\ UNCHANGED <<listening, connection, unloaded>>
Reap(role) ==
    /\ Asks(role)
    /\ ~running /\ joinable
    /\ caller' = "starting"
    /\ UNCHANGED <<sessionVars, worker, socketVars, store, unloaded, answer, setupFailed>>

StartAfterJoin ==
    /\ caller = "starting"
    /\ worker = "ended"
    /\ Begin(localRole)
    /\ UNCHANGED <<listening, connection, localRole, unloaded>>

\* Main's Unload.  With neither a session nor a worker Shutdown does nothing.
Shutdown ==
    /\ caller = "idle" /\ ~unloaded
    /\ unloaded' = TRUE
    /\ running' = FALSE
    /\ caller' = IF running \/ joinable THEN "stopping" ELSE "idle"
    /\ UNCHANGED <<mode, joinable, connected, worker, socketVars, store, localRole, answer,
                   setupFailed>>

FinishShutdown_KeepsConnected ==
    /\ caller = "stopping"
    /\ worker = "ended"
    /\ mode' = "Idle" /\ joinable' = FALSE
    /\ worker' = "none"
    /\ caller' = "idle"
    /\ UNCHANGED <<running, connected, socketVars, store, localRole, unloaded, answer,
                   setupFailed>>
FinishShutdown ==
    /\ caller = "stopping"
    /\ worker = "ended"
    /\ mode' = "Idle" /\ joinable' = FALSE /\ connected' = FALSE
    /\ worker' = "none"
    /\ caller' = "idle"
    /\ UNCHANGED <<running, socketVars, store, localRole, unloaded, answer, setupFailed>>

-----------------------------------------------------------------------------
(* The worker.                                                              *)

\* ThreadMain asks for the interface; without one it ends at once.
GetInterface ==
    /\ worker = "interface"
    /\ worker' = IF GnsAvailable THEN "setup" ELSE "ended"
    /\ running' = (running /\ GnsAvailable)
    /\ setupFailed' = ~GnsAvailable
    /\ UNCHANGED <<mode, joinable, connected, socketVars, store, callVars>>

\* SetupHost: the listen socket and the poll group, or neither.
SetupHost_RunsNow ==
    /\ worker = "setup" /\ mode = "Host"
    /\ worker' = "pump"
    /\ listening' = TRUE /\ connected' = TRUE /\ running' = TRUE
    /\ UNCHANGED <<mode, joinable, connection, clients, store, callVars, setupFailed>>
SetupHost ==
    /\ worker = "setup" /\ mode = "Host"
    /\ worker' = "pump"
    /\ listening' = TRUE /\ connected' = TRUE
    /\ UNCHANGED <<mode, running, joinable, connection, clients, store, callVars,
                   setupFailed>>

\* SetupClient: the connection is under way.
SetupClient ==
    /\ worker = "setup" /\ mode = "Client"
    /\ worker' = "pump"
    /\ connection' = TRUE
    /\ UNCHANGED <<sessionVars, listening, clients, store, callVars, setupFailed>>

\* The port is taken, the address does not parse, no connection can be made.
SetupFails_Returns ==
    /\ worker = "setup"
    /\ worker' = "ended"
    /\ running' = FALSE
    /\ setupFailed' = TRUE
    /\ UNCHANGED <<mode, joinable, connected, socketVars, store, callVars>>
SetupFails ==
    /\ worker = "setup"
    /\ worker' = "pump"
    /\ running' = FALSE
    /\ setupFailed' = TRUE
    /\ UNCHANGED <<mode, joinable, connected, socketVars, store, callVars>>

\* A round of the pump: OnConnectionStatusChanged, seen by a host ...
ClientsComeAndGo ==
    /\ worker = "pump" /\ running /\ mode = "Host"
    /\ clients' \in BOOLEAN
    /\ UNCHANGED <<sessionVars, worker, listening, connection, store, callVars, setupFailed>>

\* ... and by a client: the socket is up, or the host is lost.
HostIsReached ==
    /\ worker = "pump" /\ running /\ connection /\ ~connected
    /\ connected' = TRUE
    /\ UNCHANGED <<mode, running, joinable, worker, socketVars, store, callVars, setupFailed>>

HostIsLost ==
    /\ worker = "pump" /\ running /\ connection
    /\ connection' = FALSE /\ connected' = FALSE
    /\ UNCHANGED <<mode, running, joinable, worker, listening, clients, store, callVars,
                   setupFailed>>

\* The loop ends, and the teardown begins with the connections ...
CloseConnections ==
    /\ worker = "pump" /\ ~running
    /\ worker' = "teardown"
    /\ connection' = FALSE /\ clients' = FALSE
    /\ UNCHANGED <<sessionVars, listening, store, callVars, setupFailed>>

\* ... goes on with the store, which may take a while, in host mode ...
StopStore ==
    /\ worker = "teardown"
    /\ worker' = "unlisten"
    /\ store' = (store /\ mode # "Host")
    /\ UNCHANGED <<sessionVars, socketVars, callVars, setupFailed>>

\* ... and ends with the listen socket.
CloseListenSocket ==
    /\ worker = "unlisten"
    /\ worker' = "ended"
    /\ listening' = FALSE
    /\ UNCHANGED <<sessionVars, connection, clients, store, callVars, setupFailed>>

-----------------------------------------------------------------------------
Start == \E role \in Role : Refuse(role) \/ StartNow(role) \/ Reap(role)

ThreadMain ==
    \/ GetInterface
    \/ SetupHost \/ SetupClient \/ SetupFails
    \/ ClientsComeAndGo \/ HostIsReached \/ HostIsLost
    \/ CloseConnections \/ StopStore \/ CloseListenSocket

Next == Start \/ StartAfterJoin \/ Shutdown \/ FinishShutdown \/ ThreadMain

Spec == Init /\ [][Next]_vars

\* The worker goes through its code, and a join returns when its thread has ended.
\* Nothing need ever be asked, and the network need never do anything.
FairSpec ==
    /\ Spec
    /\ WF_vars(GetInterface \/ SetupHost \/ SetupClient \/ SetupFails)
    /\ WF_vars(CloseConnections \/ StopStore \/ CloseListenSocket)
    /\ WF_vars(StartAfterJoin \/ FinishShutdown)

-----------------------------------------------------------------------------
(* Properties.                                                              *)

\* Every variable holds a value of its type.
LifecycleTypeOK ==
    /\ mode \in Role \cup {"Idle"}
    /\ {running, joinable, connected, listening, connection, clients, store, unloaded,
        setupFailed} \subseteq BOOLEAN
    /\ worker \in {"none", "interface", "setup", "pump", "teardown", "unlisten", "ended"}
    /\ caller \in {"idle", "starting", "stopping"}
    /\ localRole \in Role \cup {"None"}
    /\ answer \in {"none", "started", "refused"}
    /\ joinable <=> worker # "none"

\* A session begins only when no worker of an earlier one is left: its thread
\* is joined (assigning to a joinable std::thread ends the process), and nothing it
\* still uses is reset under it.  (StartHost's comment on reaping.)
NoStartUnderAWorker ==
    [][worker' = "interface" /\ worker # "interface"
       => WorkerIsGone /\ (joinable => caller = "starting")]_vars

\* What IsConnected tells the game between two calls is true: the worker is
\* pumping a usable socket.  (NetCore.hpp: "an established, usable session".)
ConnectedIsUsable ==
    connected /\ caller # "stopping" =>
        /\ worker = "pump" /\ running
        /\ mode = "Host" => listening
        /\ mode = "Client" => connection

\* No socket, no client and no flush thread is left when the worker has ended, on
\* every path through its setup and its loop; and only a host has one.
\* (HostStore: "clients never start it".)
NothingOutlivesTheWorker ==
    /\ WorkerIsGone => ~listening /\ ~connection /\ ~clients /\ ~store
    /\ store => mode = "Host"

\* A call that has to wait for a worker returns.
CallsReturn == caller # "idle" ~> caller = "idle"

\* A start that returned TRUE did not fail to make its socket.  (NetCore.hpp on
\* StartHost: "Returns false if ... the listen socket failed to create"; on
\* StartClient: "or the connect could not be initiated".)
StartReportsFailure == ~(answer = "started" /\ setupFailed)

\* The flush thread is stopped with its session.  (HostStore.hpp: "Start()/Stop() -
\* spin the flush thread up/down (host session start / teardown)".)
StoreStopsWithSession == WorkerIsGone => ~store

\* While in a session the game knows which side it is on.  (CyberRestSystem.reds:
\* "m_localRole records which we did".)
RoleMatchesSession == connected => localRole = mode

\* A join is refused only in a host's session or while there is a connection, or
\* one is being made: who lost the host may join again without leaving the game.
\* (CyberRestSystem.reds on the restore: "rejoin mid-session".)
RejoinIsAccepted ==
    [][Refuse("Client") =>
        mode = "Host" \/ connection \/ worker \in {"interface", "setup"}]_vars
=============================================================================
