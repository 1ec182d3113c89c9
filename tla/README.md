# cyber.rest: a verification project

TLA+ models of the cyber.rest multiplayer plugin, the TLC runs that check them on
small instances, and theorems about them that TLAPS checks for every value of the
constants. Paths are relative to the repository; `NetCore.cpp`, `HostStore.cpp`,
`Protocol.hpp`, `CyberRestSystem.cpp` are under `client/red4ext/src/`, and
`CyberRestSystem.reds` under `scripts/CyberRest/`.

    tlc -workers 2 -config HostRelay_session.cfg MCHostRelay     (see the tables of section 3)
    tlapm HostRelayProofs.tla       (and every other module named ...Proofs, and SequenceLemmas)

## 1. The system

One player hosts, the others join. Each process has two threads that matter, the
game's own thread (redscript and the native bridge) and NetCore's worker, and the
host's process has a third, which flushes the save file.

| Part | State | Operations | Talks to |
|---|---|---|---|
| Host worker (`NetCore.cpp`, host mode) | ids of connections, HP, pending respawns, GUIDs, looks, time of the last position save, per net id | connection callbacks, one handler per message, `ServiceRespawns`, sending what the host's own player pushed | clients over GNS connections; its game thread over the event queue; `HostStore` by calls |
| Client worker (`NetCore.cpp`, client mode) | own net id, connected flag, hello-sent flag | `PollMessages`, `SendLocalHello/Appearance/Transform/Combat` | the host; its game thread over the event queue and the pushed values |
| Hand-off between the threads | latest transform, latest look and its dirty flag, queue of shots, queue of events; each under a mutex of its own | `PushLocal*`, `SendLocal*`, `QueueEvent`, `DrainEvents` | |
| Session start and stop | running flag, mode, worker thread, sockets | `StartHost`, `StartClient`, `SetupHost/Client`, `Shutdown`, `ThreadMain` | |
| Persistence (`HostStore.cpp`) | records by GUID, dirty flag, running flag, the save file and a temporary file | `Start`, `Stop`, `FlushNow`, `Upsert*`, `Record*`, `EnsureRecord`, the flush thread | the worker by calls; the disk |
| Native bridge (`CyberRestSystem.cpp`) | look of each remote player | `OnNetUpdate`, natives for redscript | NetCore, redscript |
| Peer table (`CyberRestSystem.reds`) | one `CyberRestPeer` per other player: HP, alive, score, puppet | one `OnNet*` handler per event, streaming sweep | bridge, game engine |
| World-ready gate (`CyberRestSystem.reds`) | ready, pending restore, co-located | `TickWorldReadyGate`, `OnLocalWorldReady`, `OnNetRestorePosition` | game engine |
| Identity, plugin entry, menus | one GUID in a file | read or create it | |

Every player has a *net id* for the session (the host is 1) and a *GUID* for life.
What the host saves is kept under the GUID, what it announces goes by the net id.

What makes it correct, and what is hard about it:

* **Host worker.** Single threaded, so its handlers are atomic; the difficulty is
  *sequences*: seven tables that joins, leaves, deaths, respawns and hellos change
  in any order. Ids are never reused; nothing outlives its player; a player is dead
  exactly while its respawn is pending; a death counts once.
* **Session.** Every viewer builds its picture from a stream of changes that starts
  with a roster at some arbitrary moment. *Ordering* is everything: the first Join
  is one's own id, a message about an untracked player is ignored for good, a
  connection may close with anything in flight. A viewer that has taken everything
  sent to it must agree with the host.
* **Persistence.** *Two threads and a crash*: the worker and the flush thread both
  save, the flag and the records are read in separate critical sections, the file
  is replaced in three steps, the process may die between any two.
* **Hand-off.** *Two threads, four mutexes*: what is pushed while an earlier value is being
  sent must neither be lost nor sent twice, and the hello must be handed over before all of it
  although the game pushes as soon as the socket is up.
* **Start and stop.** *Failures at every step*: the worker may fail to set up, lose its
  host, or be told to stop at any point of its loop; what a session opened must be closed
  and one worker joined before the next.
* **Puppets.** The engine creates entities *later*, so looks, deaths, leaves and the
  streaming sweep all meet a puppet that is not there yet or not any more.
* **World-ready gate.** A restore may arrive before, during and after a load; it must wait
  for a settled world and must not be forgotten.
* **Liveness.** The dead come back, at the host and on every screen; every change
  is eventually taken to be saved; calls return; a restore is applied; who is near is seen.

`PROJECT.json` lists each hazard at its line, with the properties that cover it or
the reason why none does yet.

## 2. The modules

    (a module stands left of those that extend it; in brackets, what it implements)

    Protocol - HostRelay [Arena] - Session - MCSession
                                           - SessionProofs
                                 - MCHostRelay
                                 - HostRelayProofs - SessionProofs
    SequenceLemmas - HostRelayProofs
                   - LocalHandoffProofs
                   - HostStoreProofs
    LocalHandoff [Mailbox, twice] - LocalHandoffProofs
    NetLifecycle - NetLifecycleProofs
    HostStore - HostStoreProofs
    SaveText - MCSaveText
             - HostStoreProofs
    PeerStreaming - MCPeerStreaming
                  - PeerStreamingProofs
    WorldReady - WorldReadyProofs

`Protocol` has the constants and message constructors. Two modules are abstract
specifications: in `Arena` players are in or out, and those who are in are alive or dead;
a `Mailbox` takes what is posted in order, each once, and loses it only when closed.

**`HostRelay`** is the host's worker. Variables have the names of the code's tables
(`s_connToNetId` is `connToNetId`); a table is a function with a "none" value
instead of a partial map. One handler call is one action with the handler's name,
with everything it sends: `sent` holds what the last handler sent to each endpoint,
in order, so a property can speak of what a step announces. `Local` is the endpoint
of the host's own game thread (`QueueEvent`). An early return is `Dropped`.
Clients may send anything at any time. Abstractions: HP and damage are small
integers; a look and a position are model values; the position-save interval and
the respawn delay become nondeterminism (`SavePosition`, `ServiceRespawn`), and so
does the order of an unordered map. `StartHost`'s resets are `Init`, for every save
file that holds a record of `SavedRecord` per GUID.

**`Session`** puts real clients in the place of "anything at any time": each connection
goes from idle to accepted (the host's callback), up (the client's callback) and closed;
a client's pump sends hello, look, hits in the order of `ThreadMain`; reliable messages travel in
one queue per direction and connection. An endpoint's view is its peer table, with
the look that the bridge caches; the entry under its own id is the local player's
score. A player's own HP is the engine's, handed to it as far as the game can (`ApplyLocalHealth`):
that is in `WorldReady`, and no property of `Session` speaks of it. A client takes one message at a time, the host's game thread drains
its whole queue (`DrainEvents`). On a client, the worker's filter (`PollMessages`)
and the handler on the game thread are one step, since nothing else reads or
writes what is between them. Unreliable messages change nothing in these views and
are left out.

**`HostStore`** has two threads, each with a program counter through `FlushNow` or the
flush loop and `SaveToDiskLocked`: flag checked, snapshot taken, temporary file
opened, written, save file removed, temporary file renamed. A step may fail where
the call can fail. Contents are version numbers. `failed` and `overlapped` are history
variables: they record that a file operation failed or that two saves were in
progress at once, for the provisos of the properties. The plugin runs on Windows, where a rename onto an
existing file fails (the code says so) and so does one of a file open elsewhere.

**`SaveText`** is what `HostStore` leaves out: the text. The worker's `Upsert*`, `Record*` and
`EnsureRecord` change the records, a save writes them as a sequence of tokens in any order
of the players (the map is unordered), a failed write cuts the sequence anywhere, between
two tokens or inside one, and `LoadFromDisk` reads what there is, field by field, with
the defaults and early ends of the parser. Text is not the identity. A count cut by the end of the
file is read as what is left of its digits, be it one or nine fewer (`CutCounts`). What `%.6g` and
`stof` make of a coordinate, whole (`AsRead`) and cut (`CutAsRead`), and what `JsonEscape` makes of
a GUID (`OnFile`: tabs and line ends become spaces) are constants, of which the theorems assume the
types only: coordinates may be rounded in any way and two GUIDs may become one, and the reader then keeps the
first of the records under that name.

**`LocalHandoff`** has the two threads of a client process. A step is one critical section, or what
a thread does between two of them: `SendLocalAppearance` takes the look and clears the flag
under the lock and sends outside it, `SendLocalCombat` swaps the queue out, `DrainEvents` swaps
it into a scratch. `worker` is the call of the pump the worker is at, in `ThreadMain`'s order.
The `wire` is what was handed to GNS. What of it the host hears first depends on how it was sent: the
hello, looks and hits are reliable and keep their order, transforms and shots are `UnreliableNoDelay` and may be
lost, or overtake a hello that has to be sent again (`MayBeHeardBefore`). Queues of shots and of events each implement a `Mailbox`.

**`NetLifecycle`** has `StartHost`, `StartClient`, `Shutdown` on the game thread, which holds
`s_mutex` from the beginning to the end of each call, the join included, and `ThreadMain`, which never takes it, with its set-up, its loop and its teardown
call by call. A set-up may fail, a host may be lost, GNS may have no interface.

**`PeerStreaming`** is the part of the peer table that has puppets: the streaming sweep, spawning,
dressing, driving, killing and re-placing, each handler whole. Entities resolve some time after
`CreateEntity`. A look is a gender (the body) and one slot. `ApplyAppearanceToPuppet` reports nothing: it returns
early without a transaction system and skips an item that cannot be given or attached, and its callers
count the puppet as dressed all the same. So dressing may or may not attach the item, and what a puppet wears is
kept apart from what it was last asked to wear (`attire`).

**`WorldReady`** is the joiner's own player: the spawn and shot hooks, `TickWorldReadyGate` with
its count of stable frames, a restore that is buffered or applied, the co-location with the host,
the local health pool, and the position the host saves meanwhile. The engine makes and removes
the player object between frames; it may lack a teleport facility ("bare").

**`MC*`** modules hold what the configurations substitute. An operator named
`Handler_Something` next to `Handler` is a plausible bug of that handler, kept so that
each property can be seen to fail when the code is wrong; no specification uses it.

## 3. What TLC checks

| Run | Configuration | Properties | What it shows |
|---|---|---|---|
| host | `MCHostRelay`, `HostRelay_session.cfg` | `TypeOK`, `NetIdsAreUnique`, `DeadIffRespawnPending`, `OnlyPresentOnFile`, `ScoreCountsDeaths`, `ImplementsArena`, `RestoreGoesHome` | ids, lives, scores and saved positions through joins, leaves, hellos of any GUID, hits and respawns; the worker implements `Arena` |
| session_combat | `MCSession`, `Session_combat.cfg` | `KnowsItself`, `NoOrphanMessage`, `RosterConverges`, `HealthConverges`, `StatsConverge` | viewers agree with the host across joins, deaths and lost connections: on who is there, the others' HP, everybody's score |
| session_returner | `MCSession`, `Session_returner.cfg` | `LookConverges`, `LatestLookWins`, `DeadPuppetsReturn` | a returning player's saved look yields to the one it wears, and the dead come back on every screen |
| store_save | `HostStore`, `HostStore_save.cfg` | `CleanMeansTaken`, `SavedWhenClean`, `NeverTorn`, `CopyRemains`, `StopSavesEverything`, `DirtyIsTaken` | nothing is forgotten, torn or left behind, and a whole copy outlives a crash in the middle of a save |
| save_text | `MCSaveText`, `SaveText_cuts.cfg` | `WholeFileRestores`, `CutLosesOnlyTheTail` | a whole file restores every record, as its text reads back; a cut one, all that is complete, and of the rest nothing that was not written but a shortened number |
| handoff | `LocalHandoff`, `LocalHandoff_queues.cfg` | `HelloComesFirst`, `CleanLookIsSent`, `ShotsImplementMailbox`, `EventsImplementMailbox`, `FinalLookIsHeard` | no interleaving of the two threads loses or repeats anything; the hello is handed over first, and nothing reliable comes before it |
| lifecycle | `NetLifecycle`, `NetLifecycle_session.cfg` | `ConnectedIsUsable`, `NothingOutlivesTheWorker`, `NoStartUnderAWorker`, `CallsReturn` | sessions start, fail and stop cleanly, one at a time |
| puppets | `MCPeerStreaming`, `PeerStreaming_two.cfg` | `NoGhostPuppet`, `AppliedMeansDressed`, `PeersAppear`, `FarPeersDisappear` | no puppet is leaked or driven by another's command, one counted as dressed was asked to wear the newest look and does unless refused, who stays near is shown in the end |
| world | `WorldReady`, `WorldReady_loads.cfg` | `ReadyTypeOK`, `SettledFirstRestore`, `RestoreIsAppliedInReach`, `ReadyInTheEnd` | a restore is buffered exactly until it is applied, and applied in a settled world |

Three runs expect a violation. Each states what a comment says and the code does not do:

| Run | Property | The comment | What happens |
|---|---|---|---|
| session_latejoin | `DeadAreMarkedDead` | "don't drive a dead puppet (it's ragdolled/defeated until it respawns)", `CyberRestSystem.reds:912` | a newcomer's roster has 0 HP but no death, and health does not touch `alive` |
| session_rejoin | `EveryScoreboardConverges` | "so every scoreboard converges", `NetCore.cpp:917` | a player who is back before its old connection timed out has two net ids, and its score is announced under one |
| store_overlap | `NoChangeIsLost` | "(and get picked up next flush) rather than being lost", `HostStore.cpp:361` | two saves at once over one temporary file |

The modules state further promises that the code does not keep. Their configurations are there to be run
by hand, and each gives a counterexample; the properties that do hold above carry the provisos that
these show to be needed.

| Configuration | Property | The promise | What happens |
|---|---|---|---|
| `HostStore_crash.cfg` | `CrashKeepsFile` | "an interrupted write can't corrupt the live file", `HostStore.cpp:414` | between the remove and the rename there is no save file |
| `HostStore_flush.cfg` | `FlushNowKeepsLatest` | "a crash after this point still keeps the latest state", `HostStore.hpp:102` | the flush thread has cleared the flag and not written yet, so `FlushNow` returns at once |
| `SaveText_numbers.cfg` | `BadFieldIsDefault` | "a bad field -> the record's default", `HostStore.cpp:6` | a number cut in the middle is read as its first digits |
| `Session_hostscore.cfg` | `HostScoreIsRestored` | "Restore the host's own saved stats into the authoritative broadcast on first tick", `NetCore.cpp:134` | only newcomers are told; the host's own scoreboard waits for the next death |
| `NetLifecycle_answer.cfg` | `StartReportsFailure` | "Returns false if ... the listen socket failed to create", `NetCore.hpp:98` | both starts return before the worker makes its socket |
| `NetLifecycle_nogns.cfg` | `StoreStopsWithSession` | "host session start / teardown", `HostStore.hpp:28` | without GNS the worker returns early and the flush thread goes on |
| `NetLifecycle_role.cfg` | `RoleMatchesSession` | "m_localRole records which we did", `CyberRestSystem.reds:121` | it is set before the start, which may be refused |
| `NetLifecycle_rejoin.cfg` | `RejoinIsAccepted` | "mid-session rejoin", `CyberRestSystem.reds:1304` | after a lost host the worker keeps running and every start is refused |
| `LocalHandoff_overtaken.cfg` | `HelloIsHeardFirst` | "This is the first thing the host hears from us", `NetCore.cpp:1407` | the hello is first handed over, and a transform, which is sent unreliably, may overtake it |
| `PeerStreaming_order.cfg` | `TargetIsNewest` | "sender's monotonic tick (ordering/dedupe only", `Protocol.hpp:131` | nobody compares ticks: an overtaken sample moves the peer back |
| `PeerStreaming_corpse.cfg` | `DeadPuppetsLie` | "it's ragdolled/defeated until it respawns", `CyberRestSystem.reds:912` | a puppet that finishes spawning after the death stands there |
| `PeerStreaming_revived.cfg` | `LivingPuppetsStand` | "Restore alive state + re-place the puppet", `CyberRestSystem.reds:1240` | nothing refills the puppet's drained health pool |
| `PeerStreaming_body.cfg` | `BodyFollowsLook` | "gender picks the base body record", `Protocol.hpp:148` | the body is picked once, maybe before the look is known |
| `PeerStreaming_undress.cfg` | `NothingElseIsWorn` | "everyone converges on the same look", `Protocol.hpp:147` | an empty slot is skipped and never emptied |
| `PeerStreaming_refused.cfg` | `AppliedMeansWorn` | "we've dressed the puppet in its current networked look", `CyberRestSystem.reds:1348` | the flag is set although nothing may have been attached, and no later movement tries again |
| `WorldReady_reload.cfg` | `SettledRestore` | "We deliberately do NOT teleport on the connect frame", `CyberRestSystem.reds:374` | flags of the first load count for the second |
| `WorldReady_facility.cfg` | `RestoreIsApplied` | "otherwise OnLocalWorldReady fires it", `CyberRestSystem.reds:1304` | without a teleport facility the gate shuts and is not armed again |
| `WorldReady_colocate.cfg` | `RestoreWins` | "takes precedence over the shared-spawn teleport", `CyberRestSystem.reds:1304` | the restore does not set `m_coLocateDone`, and the next transform moves the player |
| `WorldReady_third.cfg` | `JoinerLandsOnHost` | "the JOINER converges onto the HOST", `CyberRestSystem.reds:876` | it lands on whichever peer it hears first |
| `WorldReady_instance.cfg` | `GameInstanceIsCached` | "Every per-frame path no-ops until m_hasGI is set", `CyberRestSystem.reds:112` | the co-location does not ask |
| `WorldReady_health.cfg` | `LocalHealthFollows` | "This is the ONLY path that changes health", `CyberRestSystem.reds:1142` | damage told while there is no player object is dropped |
| `WorldReady_place.cfg` | `PlaceIsKept` | "so a returning player spawns where they left off", `HostStore.hpp:9` | the position before the restore is saved over the one to be restored |

(The first column's module is the part before the underscore; `MCSession`, `MCSaveText` and `MCPeerStreaming`
where there is an `MC` module.)

`EveryScoreboardConverges` is `StatsConverge` without the assumption
`OneConnectionEach` of the passing runs: that a player reconnects only after the host saw
it leave. `SettledFirstRestore` is `SettledRestore` for the first load. `RestoreIsAppliedInReach` is
`RestoreIsApplied` where the world is not taken for ready without a teleport facility. `NothingOutlivesTheWorker` is
checked with a GNS interface.

**Bounds.** Each is a constant, named in its module as a bound and in the guard of the action it
bounds.

* host: two connections and four ids, so a handle is used again by a later
  player after a leave; HP 2 and damage -1, 1, 2, 3 so that a claim is below zero, wounds,
  kills, or is above the cap of 2; one kill or death per GUID beside what is on file; two GUIDs, of
  which the guest may claim either; one position. Looks are left to session_returner.
* session_combat: two guests and the host, three puppets each way; one hit and one lost
  connection at any moment. HP 1, so the hit kills and the respawn runs too: a death, a
  respawn, a join and a leave are in flight at once.
* session_returner: one guest, HP 2 and two pushes by either, so a look is pushed before and after
  the hello, and a hit falls on the wounded or the dead.
* store_save: four changes, so each thread may hold a snapshot of its own while the
  records and the file are at two further versions.
* save_text: three players, two of whom differ by a tab and a space; coordinates of up to four digits, printed with
  three as the code prints with six, so one is rounded; a count of three digits, so a cut may lose two; two saves and a
  change, on top of any records an earlier session left; every order, every cut.
* handoff: two changes of look, two shots, two events, so one is pushed while the other is under
  way at each critical section; one transform, as the wire tells none apart, and enough to overtake the hello.
* lifecycle: nothing to bound.
* puppets: two peers and three entities, so one puppet is respawned or re-spawned while the other
  is there; one place, which comes into range and leaves it; two looks. One tick: `_order` has two.
* world: two loads of a save, three stable frames (the code's thirty count the same way).

The handles are interchangeable in the host run (symmetry), and `VIEW` leaves out
`sent`, which no guard reads. Neither is used for liveness. Deadlock is checked in the runs host, save_text, handoff,
puppets and world; sessions, stores and a process that was unloaded may come to an end.

**Fairness.** Nothing is assumed of players or of the network, unless said here.

* `Session!FairSessionSpec`: the worker serves what is due (`ThreadMain` loops every 10 ms), GNS
  delivers a reliable message on a connection that stays up, and the host's game thread drains its
  queue once a frame. The last is stated as `[]<>(toClient[Local] = <<>>)`, which says the same as
  weak fairness of an action that empties a queue and is enabled while it is not empty.
  `DeadPuppetsReturn` fails when any one of the three is dropped.
* `HostStore!FairSpec`: the flush thread's timed wait ends, and a thread that is in a save goes on;
  the worker need not ever flush or stop.
* `LocalHandoff!FairSpec`: the worker's loop, the game's frames and a shot under way go on.
* `NetLifecycle!FairSpec`: the worker goes through its code, and a join returns when its thread has
  ended.
* `PeerStreaming!FairSpec`: the engine finishes spawning an entity it was asked for, the sweep runs for
  every peer, and a connected peer's movement is heard now and then: its worker sends it again and again.
* `WorldReady!FairSpec`: frames go on and end, and the engine ends every spawn's grace. The last is
  strong fairness, because a frame in progress puts it off and does not cancel it.

## 4. What is proved

`HostRelayProofs` proves of `HostRelay`, for any set of connections, GUIDs, looks,
positions and damages, any maximum of HP and any save file:

* `TypeCorrect`: `Spec => []TypeOK`.
* `NetIdsStayUnique`, `NothingOutlivesItsPlayer`, `DeadAwaitRespawn`: `Spec => []` of
  `NetIdsAreUnique`, `OnlyPresentOnFile`, `DeadIffRespawnPending`.
* `ScoresAreEarned`: `Spec => ScoreCountsDeaths`, the action property that a GUID's deaths grow by
  one when a player bound to it dies and only then, and its kills by one only when somebody dies by
  the hand of another player bound to it.
* `RestoresComeHome`: `Spec => RestoreGoesHome`, that a saved position is sent to the connection
  registered under its owner's identity and to nobody else.
* `RelayImplementsArena`: `Spec => Arena!Spec`, under the mapping at the end of `HostRelay`.

The three safety properties are one inductive invariant together with `TypeOK`.
None is inductive alone: that a newcomer's id has no pending respawn follows from
"only present players are on file" together with "ids are below the next one"; that
it has no HP on file, so that it starts alive, likewise; that a leave frees exactly the entries
of the one who left needs the ids to be different. The proof of preservation has one
step per action and one lemma per group of tables an action touches. The refinement uses the invariant on both ends of a step
and then only says, per action, who came, went, died or revived. The two action properties
use it in the same way.

`SessionProofs` proves of `Session`, for any number of connections, ids and messages in flight:

* `SessionIsRelay`: `SessionSpec => Spec`. A session is a behaviour of the host's worker, so all of
  `HostRelayProofs` holds in it.
* `SessionTypeCorrect` (`SessionTypeOK`), `ClientsKnowThemselves` (`KnowsItself`), `NoMessageIsOrphaned`
  (`NoOrphanMessage`), `RostersConverge` (`RosterConverges`), `HealthIsShown` (`HealthConverges`),
  `LooksAreShown` (`LookConverges`).
* `ScoresAreShown` (`StatsConverge`) and `TheLatestLookWins` (`LatestLookWins`) with
  `OneConnectionEach`: two connections of one player share a record, and without the assumption
  both are false (`Session_rejoin.cfg` shows the first).

The invariant is `InStep`: were an endpoint to take all that is on its way to it now, every message
would fit (a Join finds the player untracked, anything else finds it tracked) and what the endpoint
then knew would agree with the host's tables. Convergence is `InStep` for an empty queue, and
`NoOrphanMessage` and `KnowsItself` are its first message. It says something about queues of any
length, and is kept for one reason per direction: every handler sends each endpoint
what makes up the difference between the tables before and after, and taking a message moves it from the
queue to the view. A newcomer's welcome is the longest such difference: the roster is read from the
empty view, entry by entry. `LatestLook` is a second invariant for the other direction: the look a client
pushed last is in its queue, behind the hello and every other look, or on file.

`SequenceLemmas` has the induction these proofs need. The library's induction theorems take an
operator and cannot be used, so induction is stated of a *set* of naturals and proved from the
well-foundedness of `<`; a fact about a recursive definition then needs a lemma that its equation has a
solution (`FlattenExists`), and the set of indices up to which the fact holds: what a flattened
sequence is made of (`FlattenType`) and where each part of it stands (`FlattenPlaces`). For this reason what a
queue does is written as a recursive function where it once was a fold (`TakeAll`, `Said`).

`HostStoreProofs` proves of `HostStore`, for any number of changes, with or without a save
file at the start: `StoreTypeCorrect`, `NoChangeIsOverlooked` (`CleanMeansTaken`),
`CleanStoreIsSaved` (`SavedWhenClean`), `SaveFileIsWhole` (`NeverTorn`), `CopySurvives` (`CopyRemains`) and
`StopSaves` (`StopSavesEverything`). `SavedWhenClean` is far from inductive. The invariant adds that
one thread saves at a time (under the proviso), what the two files hold at each stage of
a save, that the save in progress is of the latest version unless the flag is set again,
and that in Stop a worker that has ended leaves the flag clear. `CleanMeansTaken`
needs no proviso and holds through overlaps and failures.

It also proves of `SaveText`, for any number of players, saves and changes, any records and any order
in which a file holds them: `WholeFilesRestore` (`WholeFileRestores`) and `CutsLoseOnlyTheTail`
(`CutLosesOnlyTheTail`), both `TextSpec => []`. The invariant `TextInv` says that the text is what is left
of a file of the records last written, in some order (`CutOf`): its first tokens, of which the very last
may be a field broken off. What the reader makes of it follows from where everything stands. A file of
n records has 9n + 2 tokens; record i begins at 9i - 7 with its opening brace, its fields are the next seven
and its closing brace the eighth (`WrittenLayout`, from `FlattenPlaces`: where each of a sequence of
sequences begins once they are laid end to end). So the first closing brace the reader meets after an opening
one is the record's own, or the text has ended before it (`RecordEnds`); a record that is complete
reads back as it was written (`CompleteRecord`), and a field of an incomplete one is its own token, missing, or broken
off (`FieldRead`, `ReadValue`). A truth value broken off is read as false, which is its default; a list as nothing; a
number as its first digits, which is why `BadFieldIsDefault` is false and the theorem names the
numbers. A token carries what its text is read as, so nothing is assumed of rounding. Where
two GUIDs read back as one, the first record under the name is the one kept (`StartOf`; the first of a set of
naturals exists by `Least`). The assumptions are that players are finitely many, that the three constants are
functions of the right type, and that a record is a function of the seven fields whose flags are false by
default (`HostStore.hpp:52,59`).

`NetLifecycleProofs` proves of `NetLifecycle`, with and without GNS: `LifecycleTypeCorrect`,
`ConnectedSessionsWork` (`ConnectedIsUsable`), `WorkersNeverOverlap` (`NoStartUnderAWorker`),
and with GNS `EverythingIsTornDown` (`NothingOutlivesTheWorker`). The invariant says
how far into the worker's code the running flag and each socket reach, and in which mode:
that a start finds every socket closed follows from "no worker" together with "a socket is
open only between here and there". `NoStartUnderAWorker` needs that a thread is joinable exactly
while there is a worker to join, which is part of the types. What is about the store is a second
invariant under the assumption of a GNS interface, without which it is false
(`NetLifecycle_nogns.cfg`).

`LocalHandoffProofs` proves for any number of looks, shots, events and transforms
`HandoffTypeCorrect`, `HelloOpensTheWire` (`HelloComesFirst`), `NoLookIsForgotten` (`CleanLookIsSent`) and
two refinements, `ShotsReachTheWire` (`ShotsImplementMailbox`) and `EventsReachTheGame`
(`EventsImplementMailbox`). For the first messages the invariant says why the order of the pump suffices: until
the socket is up the game has pushed nothing, since it asks `IsConnected` first, and from then
until the hello the worker is at `PollMessages` or `SendLocalHello` with nothing in its hands. That the hello is
handed over first makes it the first reliable message at the host, and nothing makes it the first of all. For the
looks it says that a look in the worker's hands is the latest or the latest is marked. The mailboxes need
no more than the types and that the scratch is empty when the game drains; a batch taken out and
the queue it came from are one mailbox laid end to end. What the wire says of one type of message
is a recursive function of it, and `SaidAppend` tells what one more message adds.

`PeerStreamingProofs` proves of `PeerStreaming`, for any number of peers, places and looks:
`StreamingTypeCorrect`, `NoPuppetIsAGhost` (`NoGhostPuppet`) and `DressedPuppetsWearTheirLook`
(`AppliedMeansDressed`, with the engine free to refuse any item). The invariant pairs the peers that have a puppet with the entities, one to one.
Every handler changes one peer and at most its entity, so one lemma (`PutKeeps`) says what a
handler must leave behind; `Leave` and `Resolve` are apart. A spawn keeps the pairing because its id is
fresh, and a fresh one exists by counting: a peer without a puppet leaves the others fewer ids than
there are (`IdsAssumption`, the engine has an id for every peer).

`WorldReadyProofs` proves of `WorldReady`, for any number of frames and loads, `RestoreIsBuffered`
(`ReadyTypeOK`) and `FirstRestoreIsSettled` (`SettledFirstRestore`). The gate decides by its own counter and
by a flag, the property by what really happened to the player object; `SettledInv` relates the two
for as long as one save has been loaded, which is where they part (`WorldReady_reload.cfg`).

The assumptions are those of the modules: `Local` is no connection, the "none" values are no
values, kMaxHealth and kMaxHitDamage are positive integers, bounds are natural numbers, the engine
has an id per peer. TLC evaluates them in the runs. `OneConnectionEach` is a hypothesis of the two theorems
that need it.

Every invariant and every action property of the passing runs is stated by a theorem. Left to TLC are the
liveness properties, since the prover has neither fairness nor ENABLED: `DeadPuppetsReturn`, `DirtyIsTaken`,
`FinalLookIsHeard`, `CallsReturn`, `PeersAppear`, `FarPeersDisappear`, `RestoreIsAppliedInReach` and
`ReadyInTheEnd`. No module of the project declares a RECURSIVE operator.

## 5. Not modelled, and the plan

Not modelled: the byte layout of messages (no property tells messages apart by it); `Identity`,
which reads or makes one GUID at start-up; the plugin's entry, menus and configuration, apart from the
calls they make; what the game engine does with a puppet (gait, facing, tracers; not in
this repository); which rounding `%.6g` does in the save file (it is a constant) and numbers that are not numbers, as
the models' numbers are integers. GNS is modelled from its use: reliable messages are ordered per
connection, unreliable ones may be lost, overtaken or overtake (`PeerStreaming`, `LocalHandoff`).

Left to do: a composition of `HostRelay` with `HostStore`, for which of the changes that the worker makes
in one handler are on file after a crash.
