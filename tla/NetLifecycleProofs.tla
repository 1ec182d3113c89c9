------------------------- MODULE NetLifecycleProofs -------------------------
(***************************************************************************)
(* Proofs about NetLifecycle: the safety of starting and stopping, for      *)
(* every order of starts, failures, lost hosts and the unload, with and      *)
(* without a GNS interface.                                                 *)
(***************************************************************************)
EXTENDS NetLifecycle, TLAPS

\* The flag is down from the moment the worker's loop ends, and whenever the game
\* thread waits for the worker; during the setup only a Shutdown lowers it.
RunningOnlyInTheLoop ==
    /\ running => worker \in {"interface", "setup", "pump"}
    /\ worker \in {"interface", "setup"} => running \/ caller = "stopping"
    /\ caller # "idle" => ~running /\ worker # "none"
    /\ caller = "starting" => localRole \in Role

\* What each mode may hold, and until where in the worker's code.
SocketsMatchMode ==
    /\ connection => mode = "Client" /\ worker = "pump"
    /\ clients => mode = "Host" /\ worker = "pump"
    /\ listening => mode = "Host" /\ worker \in {"pump", "teardown", "unlisten"}
    /\ worker # "none" => mode \in Role

\* Connected is only said in the loop, except to a Shutdown that will unsay it.
ConnectedInTheLoop ==
    /\ ConnectedIsUsable
    /\ worker \in {"none", "interface", "setup"} => ~connected

IInv ==
    /\ LifecycleTypeOK
    /\ RunningOnlyInTheLoop
    /\ SocketsMatchMode
    /\ ConnectedInTheLoop

\* With a GNS interface the store ends with the host's worker.
StoreMatchesMode ==
    store => mode = "Host" /\ worker \in {"interface", "setup", "pump", "teardown"}

-----------------------------------------------------------------------------
\* The state of a freshly loaded plugin satisfies the invariant.
LEMMA InitIInv == Init => IInv
  BY DEF Init, IInv, LifecycleTypeOK, RunningOnlyInTheLoop, SocketsMatchMode,
         ConnectedInTheLoop, ConnectedIsUsable, Role

\* A session that begins when no worker is left finds every socket closed.
LEMMA BeginKeepsIInv ==
    ASSUME IInv, NEW role \in Role, Begin(role), WorkerIsGone, ~running,
           UNCHANGED <<listening, connection, unloaded>>, localRole' \in Role
    PROVE  IInv'
  <1>1. ~listening /\ ~connection
    BY DEF IInv, SocketsMatchMode, WorkerIsGone
  <1>2. LifecycleTypeOK'
    BY DEF IInv, LifecycleTypeOK, Begin, Role
  <1>3. RunningOnlyInTheLoop'
    BY DEF RunningOnlyInTheLoop, Begin
  <1>4. SocketsMatchMode' /\ ConnectedInTheLoop'
    BY <1>1 DEF SocketsMatchMode, ConnectedInTheLoop, ConnectedIsUsable, Begin
  <1> QED
    BY <1>2, <1>3, <1>4 DEF IInv

\* The calls of the game thread preserve the invariant.
LEMMA CallsKeepIInv ==
    ASSUME IInv, Start \/ StartAfterJoin \/ Shutdown \/ FinishShutdown
    PROVE  IInv'
  <1> USE DEF IInv, sessionVars, socketVars
  <1>1. ASSUME NEW role \in Role, Refuse(role) PROVE IInv'
    BY <1>1 DEF Refuse, Asks, LifecycleTypeOK, RunningOnlyInTheLoop, SocketsMatchMode,
                ConnectedInTheLoop, ConnectedIsUsable
  <1>2. ASSUME NEW role \in Role, StartNow(role) PROVE IInv'
    <2>1. WorkerIsGone /\ ~running /\ localRole' \in Role
      BY <1>2 DEF StartNow, Asks, LifecycleTypeOK, WorkerIsGone
    <2>2. Begin(role) /\ UNCHANGED <<listening, connection, unloaded>>
      BY <1>2 DEF StartNow
    <2> QED
      BY <2>1, <2>2, BeginKeepsIInv
  <1>3. ASSUME NEW role \in Role, Reap(role) PROVE IInv'
    BY <1>3 DEF Reap, Asks, LifecycleTypeOK, RunningOnlyInTheLoop, SocketsMatchMode,
                ConnectedInTheLoop, ConnectedIsUsable
  <1>4. ASSUME StartAfterJoin PROVE IInv'
    <2>1. WorkerIsGone /\ ~running /\ localRole \in Role /\ localRole' \in Role
      BY <1>4 DEF StartAfterJoin, RunningOnlyInTheLoop, WorkerIsGone
    <2>2. Begin(localRole) /\ UNCHANGED <<listening, connection, unloaded>>
      BY <1>4 DEF StartAfterJoin
    <2> QED
      BY <2>1, <2>2, BeginKeepsIInv
  <1>5. ASSUME Shutdown PROVE IInv'
    BY <1>5 DEF Shutdown, LifecycleTypeOK, RunningOnlyInTheLoop, SocketsMatchMode,
                ConnectedInTheLoop, ConnectedIsUsable
  <1>6. ASSUME FinishShutdown PROVE IInv'
    BY <1>6 DEF FinishShutdown, LifecycleTypeOK, RunningOnlyInTheLoop, SocketsMatchMode,
                ConnectedInTheLoop, ConnectedIsUsable
  <1> QED
    BY <1>1, <1>2, <1>3, <1>4, <1>5, <1>6 DEF Start

\* The steps of the worker preserve the invariant.
LEMMA WorkerKeepsIInv == ASSUME IInv, ThreadMain PROVE IInv'
  <1> USE DEF IInv, sessionVars, socketVars, callVars, LifecycleTypeOK, RunningOnlyInTheLoop,
              SocketsMatchMode, ConnectedInTheLoop, ConnectedIsUsable
  <1>1. CASE GetInterface
    BY <1>1, GnsAvailableAssumption DEF GetInterface
  <1>2. CASE SetupHost
    BY <1>2 DEF SetupHost
  <1>3. CASE SetupClient
    BY <1>3 DEF SetupClient
  <1>4. CASE SetupFails
    BY <1>4 DEF SetupFails
  <1>5. CASE ClientsComeAndGo
    BY <1>5 DEF ClientsComeAndGo
  <1>6. CASE HostIsReached
    BY <1>6 DEF HostIsReached
  <1>7. CASE HostIsLost
    BY <1>7 DEF HostIsLost
  <1>8. CASE CloseConnections
    BY <1>8 DEF CloseConnections
  <1>9. CASE StopStore
    BY <1>9 DEF StopStore
  <1>10. CASE CloseListenSocket
    BY <1>10 DEF CloseListenSocket
  <1> QED
    BY <1>1, <1>2, <1>3, <1>4, <1>5, <1>6, <1>7, <1>8, <1>9, <1>10 DEF ThreadMain

LEMMA StutterKeepsIInv == ASSUME IInv, UNCHANGED vars PROVE IInv'
  BY DEF IInv, vars, sessionVars, socketVars, callVars, LifecycleTypeOK,
         RunningOnlyInTheLoop, SocketsMatchMode, ConnectedInTheLoop, ConnectedIsUsable

\* Every reachable state satisfies the inductive invariant.
LEMMA LifecycleInvariance == Spec => []IInv
  <1>1. IInv /\ [Next]_vars => IInv'
    BY CallsKeepIInv, WorkerKeepsIInv, StutterKeepsIInv DEF Next
  <1> QED
    BY <1>1, InitIInv, PTL DEF Spec

-----------------------------------------------------------------------------
(* The store, with a GNS interface.                                          *)

LEMMA StoreStep ==
    ASSUME GnsAvailable, IInv, StoreMatchesMode, [Next]_vars
    PROVE  StoreMatchesMode'
  <1> USE DEF StoreMatchesMode, IInv, LifecycleTypeOK, RunningOnlyInTheLoop, SocketsMatchMode,
              sessionVars, socketVars, callVars
  <1>1. ASSUME NEW role \in Role, Refuse(role) \/ Reap(role) PROVE StoreMatchesMode'
    BY <1>1 DEF Refuse, Reap
  <1>2. ASSUME NEW role \in Role, StartNow(role) PROVE StoreMatchesMode'
    BY <1>2 DEF StartNow, Begin
  <1>3. CASE StartAfterJoin
    BY <1>3 DEF StartAfterJoin, Begin
  <1>4. CASE Shutdown \/ FinishShutdown
    BY <1>4 DEF Shutdown, FinishShutdown
  <1>5. CASE GetInterface \/ SetupHost \/ SetupClient \/ SetupFails
    BY <1>5 DEF GetInterface, SetupHost, SetupClient, SetupFails
  <1>6. CASE ClientsComeAndGo \/ HostIsReached \/ HostIsLost
    BY <1>6 DEF ClientsComeAndGo, HostIsReached, HostIsLost
  <1>7. CASE CloseConnections \/ StopStore \/ CloseListenSocket
    BY <1>7 DEF CloseConnections, StopStore, CloseListenSocket
  <1>8. CASE UNCHANGED vars
    BY <1>8 DEF vars
  <1> QED
    BY <1>1, <1>2, <1>3, <1>4, <1>5, <1>6, <1>7, <1>8 DEF Next, Start, ThreadMain

-----------------------------------------------------------------------------
(* The theorems.                                                             *)

\* The variables of the session and of both threads hold values of their types, and
\* the std::thread is joinable exactly while there is a worker to join.
THEOREM LifecycleTypeCorrect == Spec => []LifecycleTypeOK
  <1>1. IInv => LifecycleTypeOK
    BY DEF IInv
  <1> QED
    BY <1>1, LifecycleInvariance, PTL

\* IsConnected tells the truth between two calls: a worker is pumping a socket of the
\* session's mode.
THEOREM ConnectedSessionsWork == Spec => []ConnectedIsUsable
  <1>1. IInv => ConnectedIsUsable
    BY DEF IInv, ConnectedInTheLoop
  <1> QED
    BY <1>1, LifecycleInvariance, PTL

\* No socket, no client and no flush thread is left when the worker has ended, if there
\* was a GNS interface.
THEOREM EverythingIsTornDown ==
    ASSUME GnsAvailable PROVE Spec => []NothingOutlivesTheWorker
  <1>1. Init => StoreMatchesMode
    BY DEF Init, StoreMatchesMode
  <1>2. IInv /\ StoreMatchesMode /\ [Next]_vars => StoreMatchesMode'
    BY StoreStep
  <1>3. IInv /\ StoreMatchesMode => NothingOutlivesTheWorker
    BY DEF IInv, SocketsMatchMode, StoreMatchesMode, NothingOutlivesTheWorker, WorkerIsGone
  <1> QED
    BY <1>1, <1>2, <1>3, LifecycleInvariance, PTL DEF Spec

\* No worker begins before the one of the session before it has ended and was joined.
THEOREM WorkersNeverOverlap == Spec => NoStartUnderAWorker
  <1> DEFINE Begins == worker' = "interface" /\ worker # "interface"
             Alone == WorkerIsGone /\ (joinable => caller = "starting")
  <1>1. ASSUME IInv, [Next]_vars, Begins PROVE Alone
    <2>1. ASSUME NEW role \in Role, StartNow(role) PROVE Alone
      BY <1>1, <2>1 DEF StartNow, IInv, LifecycleTypeOK, WorkerIsGone
    <2>2. CASE StartAfterJoin
      BY <2>2 DEF StartAfterJoin, WorkerIsGone
    <2>3. ASSUME NEW role \in Role PROVE ~Refuse(role) /\ ~Reap(role)
      BY <1>1 DEF Refuse, Reap
    <2>4. ~Shutdown /\ ~FinishShutdown /\ ~UNCHANGED vars
      BY <1>1 DEF Shutdown, FinishShutdown, vars
    <2>5. ~ThreadMain
      BY <1>1 DEF ThreadMain, GetInterface, SetupHost, SetupClient, SetupFails,
                  ClientsComeAndGo, HostIsReached, HostIsLost, CloseConnections, StopStore,
                  CloseListenSocket
    <2> QED
      BY <1>1, <2>1, <2>2, <2>3, <2>4, <2>5 DEF Next, Start
  <1>2. IInv /\ [Next]_vars => [Begins => Alone]_vars
    BY <1>1
  <1> QED
    BY <1>2, LifecycleInvariance, PTL DEF Spec, NoStartUnderAWorker
=============================================================================
