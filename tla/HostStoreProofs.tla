-------------------------- MODULE HostStoreProofs ---------------------------
(***************************************************************************)
(* Proofs about the two halves of the persistence: when files are written   *)
(* (HostStore) and what is in them (SaveText).                              *)
(*                                                                          *)
(* Of HostStore everything is proved of every interleaving of the two       *)
(* threads, every failure and every crash; the properties carry their own   *)
(* proviso (no failure, no two saves at once).  Of SaveText everything is   *)
(* proved of any number of players, in any order, and of every cut.         *)
(***************************************************************************)
EXTENDS HostStore, SaveText, SequenceLemmas

\* The proviso of the properties.
Orderly == ~failed /\ ~overlapped

\* Orderly saves exclude each other, and each leaves the files as its stage says.
OneSaveAtATime == Orderly => \A t \in Thread : Saving(t) => ~Saving(Other(t))

FilesMatchStages ==
    Orderly => \A t \in Thread :
        /\ pc[t] = "opened" => tmp = Blank
        /\ pc[t] \in {"written", "removed"} => tmp = snap[t]
        /\ pc[t] = "removed" => live = NoFile

\* A save in progress writes the latest version unless the store is dirty again.
SaveIsLatest == Orderly => \A t \in Thread : Saving(t) /\ ~dirty => snap[t] = current

\* The worker changes nothing while it saves or once it is past the flush of Stop.
WorkerLeavesClean ==
    /\ Saving(Worker) \/ pc[Worker] \in {"joining", "done"} => ~dirty
    /\ pc[Worker] = "done" => pc[Flusher] = "done"

\* Nobody took a snapshot of what is not there yet; the save in progress took the
\* last one.
SnapshotsInOrder ==
    /\ \A t \in Thread : snap[t] <= current
    /\ Orderly => \A t \in Thread : Saving(t) => snap[Other(t)] <= snap[t]

\* The save file is missing only while a save is about to rename, or was when the
\* process died.
MissingWhileRemoved ==
    (SavedBefore /\ Orderly /\ live = NoFile) =>
        \/ \E t \in Thread : pc[t] = "removed"
        \/ \A t \in Thread : pc[t] = "dead"

IInv ==
    /\ StoreTypeOK
    /\ CleanMeansTaken
    /\ OneSaveAtATime
    /\ FilesMatchStages
    /\ SaveIsLatest
    /\ WorkerLeavesClean
    /\ SavedWhenClean
    /\ NeverTorn
    /\ SnapshotsInOrder
    /\ MissingWhileRemoved
    /\ CopyRemains

-----------------------------------------------------------------------------
\* The two threads that save are distinct.
LEMMA Threads ==
    /\ Thread = {Worker, Flusher} /\ Worker # Flusher
    /\ \A t \in Thread : Other(t) \in Thread /\ Other(t) # t /\ Other(Other(t)) = t
    /\ \A t, u \in Thread : u # t => u = Other(t)
  BY DEF Thread, Worker, Flusher, Other

\* While a thread is about to rename, the temporary file is the newest copy.
LEMMA RemovedIsNewest ==
    ASSUME StoreTypeOK, FilesMatchStages, SnapshotsInOrder, Orderly,
           NEW t \in Thread, pc[t] = "removed"
    PROVE  Newest(tmp)
  <1>1. tmp = snap[t] /\ snap[Other(t)] <= snap[t]
    BY DEF FilesMatchStages, SnapshotsInOrder, Saving, Stage
  <1>2. snap[t] \in Int
    BY MaxVersionAssumption DEF StoreTypeOK, Version
  <1>3. \A u \in Thread : u = t \/ u = Other(t)
    BY Threads
  <1> QED
    BY <1>1, <1>2, <1>3 DEF Newest

\* Hence CopyRemains, as long as the process lives; and in the state after a step.
StagesAreSound ==
    StoreTypeOK /\ FilesMatchStages /\ SnapshotsInOrder /\ MissingWhileRemoved

LEMMA CopyWhileAlive ==
    StagesAreSound /\ (\E t \in Thread : pc[t] # "dead") => CopyRemains
  BY RemovedIsNewest DEF StagesAreSound, CopyRemains, MissingWhileRemoved, Orderly

LEMMA CopyAfter ==
    StagesAreSound' /\ (\E t \in Thread : pc[t] # "dead")' => CopyRemains'
  BY CopyWhileAlive, PTL

\* The state after Load satisfies the invariant.
LEMMA InitIInv == Init => IInv
  <1> SUFFICES ASSUME Init PROVE IInv
    OBVIOUS
  <1>1. StoreTypeOK
    <2>1. 0 \in Version
      BY MaxVersionAssumption DEF Version
    <2>2. live = 0 \/ live = NoFile
      BY DEF Init
    <2>3. live \in File /\ tmp \in File
      BY <2>1, <2>2 DEF Init, File
    <2>4. pc \in [Thread -> Stage \cup {"ready", "checked", "joining", "done", "dead"}]
      BY DEF Init
    <2>5. snap \in [Thread -> Version] /\ current \in Version
      BY <2>1 DEF Init
    <2>6. /\ dirty \in BOOLEAN /\ running \in BOOLEAN /\ stopping \in BOOLEAN
          /\ failed \in BOOLEAN /\ overlapped \in BOOLEAN
      BY DEF Init
    <2> QED
      BY <2>3, <2>4, <2>5, <2>6 DEF StoreTypeOK
  <1>2. \A t \in Thread : pc[t] = "ready" /\ snap[t] = 0 /\ current = 0
    BY DEF Init
  <1>3. CleanMeansTaken
    BY <1>2 DEF CleanMeansTaken, Thread
  <1>4. OneSaveAtATime /\ FilesMatchStages /\ SaveIsLatest
    BY <1>2 DEF OneSaveAtATime, FilesMatchStages, SaveIsLatest, Saving, Stage
  <1>5. WorkerLeavesClean
    BY <1>2, Threads DEF WorkerLeavesClean, Saving, Stage
  <1>6. live = 0 \/ live = NoFile
    BY DEF Init
  <1>7. SavedWhenClean
    BY <1>2, <1>6, Threads DEF SavedWhenClean, UpToDate
  <1>8. NeverTorn
    BY <1>6, MaxVersionAssumption DEF NeverTorn, Version
  <1>9. SnapshotsInOrder
    BY <1>2 DEF SnapshotsInOrder, Saving, Stage
  <1>10. MissingWhileRemoved
    BY MaxVersionAssumption DEF Init, MissingWhileRemoved, NoFile
  <1>11. CopyRemains
    BY <1>1, <1>2, <1>4, <1>9, <1>10, Threads, CopyWhileAlive DEF StagesAreSound
  <1> QED
    BY <1>1, <1>3, <1>4, <1>5, <1>7, <1>8, <1>9, <1>10, <1>11 DEF IInv

\* Where a thread is when its save returns.
LEMMA ReturnPc ==
    ASSUME StoreTypeOK, NEW t \in Thread, Return(t)
    PROVE  /\ pc' \in [Thread -> Stage \cup {"ready", "checked", "joining", "done", "dead"}]
           /\ running' \in BOOLEAN
           /\ \A u \in Thread : u # t => pc'[u] = pc[u]
           /\ t = Worker => pc'[t] = IF stopping THEN "joining" ELSE "ready"
           /\ t = Flusher => pc'[t] \in {"ready", "done"}
  BY Threads DEF Return, StoreTypeOK, Stage

\* Where the threads are after one of them moves to its next stage.
LEMMA GotoPc ==
    ASSUME StoreTypeOK, NEW t \in Thread, NEW s \in Stage, Goto(t, s)
    PROVE  /\ pc' \in [Thread -> Stage \cup {"ready", "checked", "joining", "done", "dead"}]
           /\ running' \in BOOLEAN
           /\ pc'[t] = s
           /\ \A u \in Thread : u # t => pc'[u] = pc[u]
  BY DEF Goto, StoreTypeOK

\* A setter of the store marks it dirty and preserves the invariant.
LEMMA ChangeKeepsIInv == ASSUME IInv, Change PROVE IInv'
  <1>1. pc' = pc /\ snap' = snap /\ tmp' = tmp /\ live' = live /\ failed' = failed
           /\ overlapped' = overlapped /\ dirty' = TRUE /\ pc[Worker] = "ready"
    BY DEF Change, controlVars, fileVars, historyVars
  <1>2. StoreTypeOK'
    BY <1>1, MaxVersionAssumption DEF IInv, StoreTypeOK, Change, controlVars, Version, File
  <1>3. CleanMeansTaken' /\ SaveIsLatest' /\ SavedWhenClean'
    BY <1>1 DEF CleanMeansTaken, SaveIsLatest, SavedWhenClean, AtRest
  <1>4. OneSaveAtATime' /\ FilesMatchStages' /\ NeverTorn'
    BY <1>1 DEF IInv, OneSaveAtATime, FilesMatchStages, NeverTorn, Saving, Orderly
  <1>5. WorkerLeavesClean'
    BY <1>1 DEF WorkerLeavesClean, Saving, Stage
  <1>6. SnapshotsInOrder'
    <2>1. current' = current + 1 /\ current \in Int /\ \A t \in Thread : snap[t] \in Int
      BY MaxVersionAssumption DEF Change, IInv, StoreTypeOK, Version
    <2> QED
      BY <1>1, <2>1 DEF IInv, SnapshotsInOrder, Orderly, Saving
  <1>7. MissingWhileRemoved' /\ CopyRemains'
    BY <1>1 DEF IInv, MissingWhileRemoved, CopyRemains, Newest, Orderly
  <1> QED
    BY <1>2, <1>3, <1>4, <1>5, <1>6, <1>7 DEF IInv

\* A step that only moves threads which are not in a save, outside any stage.
LEMMA CheckKeepsIInv ==
    ASSUME IInv, NEW t \in Thread,
           pc' \in [Thread -> Stage \cup {"ready", "checked", "joining", "done", "dead"}],
           running' \in BOOLEAN, stopping' \in BOOLEAN,
           UNCHANGED <<memoryVars, snap, fileVars, historyVars>>,
           pc[t] # "dead", ~Saving(t), ~Saving(t)', Crashed' <=> Crashed,
           \A u \in Thread : u # t => pc'[u] = pc[u],
           WorkerLeavesClean'
    PROVE  IInv'
  <1> USE DEF IInv, memoryVars, fileVars, historyVars
  <1>1. StoreTypeOK'
    BY DEF StoreTypeOK
  <1>2. CleanMeansTaken' /\ NeverTorn'
    BY DEF CleanMeansTaken, NeverTorn
  <1>3. \A u \in Thread : (Saving(u)' <=> Saving(u)) /\ (Saving(u) => pc'[u] = pc[u])
    BY DEF Saving
  <1>4. OneSaveAtATime' /\ SaveIsLatest'
    BY <1>3, Threads DEF OneSaveAtATime, SaveIsLatest, Orderly, Other
  <1>5. FilesMatchStages'
    BY <1>3 DEF FilesMatchStages, Orderly, Saving, Stage
  <1>6. SavedWhenClean'
    BY <1>3 DEF SavedWhenClean, AtRest, UpToDate
  <1>7. SnapshotsInOrder' /\ CopyRemains'
    BY <1>3 DEF SnapshotsInOrder, CopyRemains, Newest, Orderly
  <1>8. MissingWhileRemoved'
    <2>1. \A u \in Thread : pc[u] = "removed" => pc'[u] = "removed"
      BY <1>3 DEF Saving, Stage
    <2> QED
      BY <2>1 DEF MissingWhileRemoved, Orderly
  <1> QED
    BY <1>1, <1>2, <1>4, <1>5, <1>6, <1>7, <1>8

\* FlushNow preserves the invariant.
LEMMA FlushNowKeepsIInv == ASSUME IInv, FlushNow PROVE IInv'
  <1>1. Worker \in Thread /\ pc[Worker] = "ready" /\ ~stopping /\ stopping' = stopping
    BY Threads DEF FlushNow
  <1>2. UNCHANGED <<memoryVars, snap, fileVars, historyVars>>
    BY DEF FlushNow, CheckDirty
  <1>3. /\ pc' \in [Thread -> Stage \cup {"ready", "checked", "joining", "done", "dead"}]
        /\ running' \in BOOLEAN
        /\ pc'[Worker] \in {"ready", "checked"}
        /\ \A u \in Thread : u # Worker => pc'[u] = pc[u]
    BY <1>1, ReturnPc, Threads DEF FlushNow, CheckDirty, IInv, StoreTypeOK
  <1>4. ~Saving(Worker) /\ ~Saving(Worker)' /\ (Crashed' <=> Crashed)
    BY <1>1, <1>3 DEF Saving, Stage, Crashed
  <1>5. WorkerLeavesClean'
    BY <1>3 DEF WorkerLeavesClean, Saving, Stage
  <1>6. stopping' \in BOOLEAN
    BY <1>1 DEF IInv, StoreTypeOK
  <1> QED
    BY <1>1, <1>2, <1>3, <1>4, <1>5, <1>6, CheckKeepsIInv

\* Stop, which starts the last save or asks the flusher to end, preserves the invariant.
LEMMA StopKeepsIInv == ASSUME IInv, Stop PROVE IInv'
  <1>1. Worker \in Thread /\ pc[Worker] = "ready" /\ stopping' = TRUE
    BY Threads DEF Stop
  <1>2. UNCHANGED <<memoryVars, snap, fileVars, historyVars>>
    BY DEF Stop
  <1>3. /\ pc' \in [Thread -> Stage \cup {"ready", "checked", "joining", "done", "dead"}]
        /\ running' \in BOOLEAN
        /\ pc'[Worker] = "checked" \/ (pc'[Worker] = "joining" /\ ~dirty)
        /\ \A u \in Thread : u # Worker => pc'[u] = pc[u]
    BY <1>1, Threads DEF Stop, IInv, StoreTypeOK
  <1>4. ~Saving(Worker) /\ ~Saving(Worker)' /\ (Crashed' <=> Crashed)
    BY <1>1, <1>3 DEF Saving, Stage, Crashed
  <1>5. WorkerLeavesClean'
    BY <1>2, <1>3 DEF WorkerLeavesClean, Saving, Stage, memoryVars
  <1> QED
    BY <1>1, <1>2, <1>3, <1>4, <1>5, CheckKeepsIInv

\* The flusher's wake-up preserves the invariant.
LEMMA FlusherWakesKeepsIInv == ASSUME IInv, FlusherWakes PROVE IInv'
  <1>1. Flusher \in Thread /\ pc[Flusher] = "ready" /\ stopping' = stopping
    BY Threads DEF FlusherWakes
  <1>2. UNCHANGED <<memoryVars, snap, fileVars, historyVars>>
    BY DEF FlusherWakes, CheckDirty
  <1>3. /\ pc' \in [Thread -> Stage \cup {"ready", "checked", "joining", "done", "dead"}]
        /\ running' \in BOOLEAN
        /\ pc'[Flusher] \in {"ready", "checked", "done"}
        /\ \A u \in Thread : u # Flusher => pc'[u] = pc[u]
    BY <1>1, ReturnPc, Threads DEF FlusherWakes, CheckDirty, IInv, StoreTypeOK
  <1>4. pc'[Worker] = pc[Worker] /\ pc[Worker] # "done"
    BY <1>1, <1>3, Threads DEF IInv, WorkerLeavesClean
  <1>5. ~Saving(Flusher) /\ ~Saving(Flusher)'
    BY <1>1, <1>3 DEF Saving, Stage
  <1>6. WorkerLeavesClean'
    BY <1>2, <1>4 DEF IInv, WorkerLeavesClean, Saving, Stage, memoryVars
  <1>7. Crashed' <=> Crashed
    BY <1>4 DEF Crashed
  <1> QED
    BY <1>1, <1>2, <1>3, <1>5, <1>6, <1>7, CheckKeepsIInv DEF IInv, StoreTypeOK

\* The join of the flusher in Stop preserves the invariant.
LEMMA JoinKeepsIInv == ASSUME IInv, Join PROVE IInv'
  <1>1. /\ Worker \in Thread /\ pc[Worker] = "joining" /\ pc[Flusher] = "done"
        /\ running' = running /\ stopping' = stopping
    BY Threads DEF Join, controlVars
  <1>2. UNCHANGED <<memoryVars, snap, fileVars, historyVars>>
    BY DEF Join
  <1>3. /\ pc' \in [Thread -> Stage \cup {"ready", "checked", "joining", "done", "dead"}]
        /\ pc'[Worker] = "done"
        /\ \A u \in Thread : u # Worker => pc'[u] = pc[u]
    BY <1>1 DEF Join, IInv, StoreTypeOK
  <1>4. ~Saving(Worker) /\ ~Saving(Worker)' /\ (Crashed' <=> Crashed)
    BY <1>1, <1>3 DEF Saving, Stage, Crashed
  <1>5. WorkerLeavesClean'
    BY <1>1, <1>2, <1>3, Threads DEF IInv, WorkerLeavesClean, memoryVars
  <1> QED
    BY <1>1, <1>2, <1>3, <1>4, <1>5, CheckKeepsIInv DEF IInv, StoreTypeOK

\* A crash of the host process preserves the invariant.
LEMMA CrashKeepsIInv == ASSUME IInv, Crash PROVE IInv'
  <1>1. /\ \A t \in Thread : pc'[t] = "dead"
        /\ pc' \in [Thread -> Stage \cup {"ready", "checked", "joining", "done", "dead"}]
    BY DEF Crash
  <1>2. UNCHANGED <<memoryVars, controlVars, snap, fileVars, historyVars>>
    BY DEF Crash
  <1>3. StoreTypeOK' /\ CleanMeansTaken' /\ NeverTorn'
    BY <1>1, <1>2 DEF IInv, StoreTypeOK, CleanMeansTaken, NeverTorn, memoryVars,
                      controlVars, fileVars, historyVars
  <1>4. \A t \in Thread : ~Saving(t)'
    BY <1>1 DEF Saving, Stage
  <1>5. OneSaveAtATime' /\ FilesMatchStages' /\ SaveIsLatest'
    BY <1>1, <1>4 DEF OneSaveAtATime, FilesMatchStages, SaveIsLatest
  <1>6. WorkerLeavesClean' /\ SavedWhenClean'
    BY <1>1, <1>4, Threads DEF WorkerLeavesClean, SavedWhenClean, AtRest, Crashed
  <1>7. SnapshotsInOrder' /\ MissingWhileRemoved' /\ CopyRemains'
    BY <1>1, <1>2, <1>4
    DEF IInv, SnapshotsInOrder, MissingWhileRemoved, CopyRemains, Newest,
                            memoryVars, fileVars, historyVars
  <1> QED
    BY <1>3, <1>5, <1>6, <1>7 DEF IInv

\* The serialisation under the lock, which clears s_dirty, preserves the invariant.
LEMMA SnapshotKeepsIInv == ASSUME IInv, NEW t \in Thread, Snapshot(t) PROVE IInv'
  <1>1. /\ pc[t] = "checked" /\ ~dirty' /\ current' = current /\ stopping' = stopping
        /\ snap' = [snap EXCEPT ![t] = current]
        /\ tmp' = tmp /\ live' = live /\ failed' = failed
        /\ overlapped' = (overlapped \/ Saving(Other(t)))
    BY DEF Snapshot, fileVars
  <1>2. /\ pc' \in [Thread -> Stage \cup {"ready", "checked", "joining", "done", "dead"}]
        /\ running' \in BOOLEAN
        /\ pc'[t] = "snapped"
        /\ \A u \in Thread : u # t => pc'[u] = pc[u]
    BY GotoPc DEF Snapshot, IInv, Stage
  <1>3. snap' \in [Thread -> Version] /\ snap'[t] = current
    BY <1>1 DEF IInv, StoreTypeOK
  <1>4. overlapped' \in BOOLEAN /\ dirty' \in BOOLEAN
    BY DEF Snapshot, IInv, StoreTypeOK
  <1>5. StoreTypeOK'
    BY <1>1, <1>2, <1>3, <1>4 DEF IInv, StoreTypeOK
  <1>6. CleanMeansTaken'
    BY <1>1, <1>3 DEF CleanMeansTaken
  <1>7. Orderly' => Orderly /\ ~Saving(Other(t)) /\ ~Saving(Other(t))'
    BY <1>1, <1>2, Threads DEF Orderly, Saving
  <1>8. OneSaveAtATime' /\ SaveIsLatest'
    BY <1>1, <1>2, <1>3, <1>7, Threads DEF OneSaveAtATime, SaveIsLatest, Other
  <1>9. FilesMatchStages'
    <2>1. ASSUME Orderly', NEW u \in Thread
          PROVE  pc'[u] \notin {"opened", "written", "removed"}
      BY <1>2, <1>7, <2>1, Threads DEF Saving, Stage
    <2> QED
      BY <2>1 DEF FilesMatchStages
  <1>10. WorkerLeavesClean'
    BY <1>1, <1>2, Threads DEF IInv, WorkerLeavesClean
  <1>11. SavedWhenClean' /\ NeverTorn'
    BY <1>1, <1>2, <1>7 DEF IInv, SavedWhenClean, NeverTorn, AtRest, Saving, Stage, Orderly
  <1>12. SnapshotsInOrder'
    <2>1. \A u \in Thread : snap'[u] = IF u = t THEN current ELSE snap[u]
      BY <1>1 DEF IInv, StoreTypeOK
    <2>2. current \in Int /\ \A u \in Thread : snap[u] \in Int /\ snap[u] <= current
      BY MaxVersionAssumption DEF IInv, StoreTypeOK, Version, SnapshotsInOrder
    <2>3. \A u \in Thread : snap'[u] <= current'
      BY <1>1, <2>1, <2>2
    <2>4. ASSUME Orderly', NEW u \in Thread, Saving(u)' PROVE snap'[Other(u)] <= snap'[u]
      <3>1. u = t
        BY <1>7, <2>4, Threads
      <3> QED
        BY <1>1, <1>3, <2>3, <3>1, Threads
    <2> QED
      BY <2>3, <2>4 DEF SnapshotsInOrder
  <1>13. MissingWhileRemoved'
    <2>1. Orderly' /\ live' = NoFile /\ SavedBefore =>
             Orderly /\ live = NoFile /\ ~Saving(Other(t))
      BY <1>1, <1>7
    <2>2. pc[t] # "removed" /\ pc[t] # "dead"
      BY <1>1
    <2>3. ~Saving(Other(t)) => pc[Other(t)] # "removed"
      BY DEF Saving, Stage
    <2> QED
      BY <2>1, <2>2, <2>3, Threads DEF IInv, MissingWhileRemoved
  <1>14. CopyRemains'
    BY <1>2, <1>5, <1>9, <1>12, <1>13, CopyAfter DEF StagesAreSound
  <1> QED
    BY <1>5, <1>6, <1>8, <1>9, <1>10, <1>11, <1>12, <1>13, <1>14 DEF IInv

\* A step of a save in progress.
LEMMA StageKeepsIInv ==
    ASSUME IInv, NEW t \in Thread, Saving(t),
           pc' \in [Thread -> Stage \cup {"ready", "checked", "joining", "done", "dead"}],
           running' \in BOOLEAN,
           UNCHANGED <<memoryVars, stopping, snap, overlapped>>,
           \A u \in Thread : u # t => pc'[u] = pc[u],
           pc'[t] # "dead", t = Worker => pc'[t] # "done",
           failed' \in BOOLEAN, failed => failed', tmp' \in File, live' \in File,
           Orderly' =>
              /\ pc'[t] = "opened" => tmp' = Blank
              /\ pc'[t] \in {"written", "removed"} => tmp' = snap[t]
              /\ pc'[t] = "removed" => live' = NoFile
              /\ live' \in Version \cup {NoFile}
              /\ ~Saving(t)' => live' = snap[t]
              /\ live' = NoFile =>
                   pc'[t] = "removed" \/ (live = NoFile /\ pc[t] # "removed")
    PROVE  IInv'
  <1> USE DEF memoryVars
  <1>1. StoreTypeOK' /\ CleanMeansTaken'
    BY DEF IInv, StoreTypeOK, CleanMeansTaken
  <1>2. Orderly' => Orderly /\ ~Saving(Other(t)) /\ ~Saving(Other(t))'
    BY Threads DEF IInv, OneSaveAtATime, Orderly, Saving
  <1>3. OneSaveAtATime'
    BY <1>2, Threads DEF OneSaveAtATime
  <1>4. ASSUME Orderly', NEW u \in Thread, u # t
        PROVE  ~Saving(u)' /\ pc'[u] \notin {"opened", "written", "removed"}
    BY <1>2, <1>4, Threads DEF Saving, Stage
  <1>5. FilesMatchStages'
    BY <1>4 DEF FilesMatchStages
  <1>6. SaveIsLatest'
    BY <1>2, <1>4 DEF IInv, SaveIsLatest
  <1>7. WorkerLeavesClean'
    <2>1. CASE t = Worker
      BY <2>1, Threads DEF IInv, WorkerLeavesClean
    <2>2. CASE t = Flusher
      <3>1. pc'[Worker] = pc[Worker] /\ pc[Flusher] # "done"
        BY <2>2, Threads DEF Saving, Stage
      <3> QED
        BY <3>1 DEF IInv, WorkerLeavesClean, Saving
    <2> QED
      BY <2>1, <2>2, Threads
  <1>8. SavedWhenClean'
    <2> SUFFICES ASSUME AtRest', Orderly' PROVE UpToDate'
      BY DEF SavedWhenClean, Orderly
    <2>1. live' = snap[t] /\ snap[t] = current
      BY <1>2 DEF AtRest, IInv, SaveIsLatest
    <2> QED
      BY <2>1 DEF UpToDate
  <1>9. NeverTorn'
    BY DEF NeverTorn, Orderly
  <1>10. SnapshotsInOrder'
    <2>1. Orderly' => \A u \in Thread : Saving(u)' => Saving(u)
      BY <1>2, Threads
    <2> QED
      BY <1>2, <2>1 DEF IInv, SnapshotsInOrder
  <1>11. MissingWhileRemoved'
    <2> SUFFICES ASSUME SavedBefore, Orderly', live' = NoFile, pc'[t] # "removed"
                 PROVE  FALSE
      BY DEF MissingWhileRemoved
    <2>1. live = NoFile /\ pc[t] # "removed" /\ pc[t] # "dead" /\ Orderly
      BY <1>2 DEF Saving, Stage
    <2>2. pc[Other(t)] # "removed"
      BY <1>2 DEF Saving, Stage
    <2> QED
      BY <2>1, <2>2, Threads DEF IInv, MissingWhileRemoved
  <1>12. CopyRemains'
    BY <1>1, <1>5, <1>10, <1>11, CopyAfter DEF StagesAreSound
  <1> QED
    BY <1>1, <1>3, <1>5, <1>6, <1>7, <1>8, <1>9, <1>10, <1>11, <1>12 DEF IInv

\* In an orderly save the files are as its stage says.
LEMMA OrderlyFiles ==
    ASSUME IInv, Orderly, NEW t \in Thread, Saving(t)
    PROVE  /\ pc[t] = "opened" => tmp = Blank
           /\ pc[t] \in {"written", "removed"} => tmp = snap[t]
           /\ pc[t] = "removed" => live = NoFile /\ CanRename(t)
           /\ live \in Version \cup {NoFile}
           /\ snap[t] \in Version
  <1>1. live \in Version \cup {NoFile} /\ snap[t] \in Version
    BY DEF IInv, NeverTorn, Orderly, StoreTypeOK
  <1>2. ~Saving(Other(t))
    BY DEF IInv, OneSaveAtATime
  <1>3. pc[Other(t)] # "opened"
    BY <1>2 DEF Saving, Stage
  <1>4. snap[t] # NoFile
    BY <1>1, MaxVersionAssumption DEF Version, NoFile
  <1> QED
    BY <1>1, <1>3, <1>4 DEF IInv, FilesMatchStages, CanRename

\* The opening of the temporary file preserves the invariant.
LEMMA OpenKeepsIInv == ASSUME IInv, NEW t \in Thread, Open(t) PROVE IInv'
  <1>1. /\ pc[t] = "snapped" /\ Saving(t) /\ live' = live
        /\ UNCHANGED <<memoryVars, stopping, snap, overlapped>>
    BY DEF Open, Saving, Stage
  <1>2. live' \in File /\ Blank \in File /\ tmp \in File
    BY <1>1 DEF IInv, StoreTypeOK, File
  <1>3. Orderly => live \in Version \cup {NoFile}
    BY <1>1, OrderlyFiles
  <1>4. CASE Goto(t, "opened") /\ tmp' = Blank /\ UNCHANGED failed
    <2>1. /\ pc' \in [Thread -> Stage \cup {"ready", "checked", "joining", "done", "dead"}]
          /\ running' \in BOOLEAN
          /\ pc'[t] = "opened"
          /\ \A u \in Thread : u # t => pc'[u] = pc[u]
      BY <1>4, GotoPc DEF IInv, Stage
    <2>2. failed' \in BOOLEAN /\ (failed => failed') /\ (Orderly' => Orderly)
      BY <1>1, <1>4 DEF IInv, StoreTypeOK, Orderly
    <2>3. Saving(t)'
      BY <2>1 DEF Saving, Stage
    <2> QED
      BY <1>1, <1>2, <1>3, <1>4, <2>1, <2>2, <2>3, StageKeepsIInv
  <1>5. CASE Return(t) /\ failed' = TRUE /\ UNCHANGED tmp
    <2>1. /\ pc' \in [Thread -> Stage \cup {"ready", "checked", "joining", "done", "dead"}]
          /\ running' \in BOOLEAN
          /\ t = Worker => pc'[t] # "done"
          /\ pc'[t] # "dead"
          /\ \A u \in Thread : u # t => pc'[u] = pc[u]
      BY <1>5, ReturnPc, Threads DEF IInv
    <2>2. ~Orderly' /\ failed' \in BOOLEAN
      BY <1>5 DEF Orderly
    <2> QED
      BY <1>1, <1>2, <1>5, <2>1, <2>2, StageKeepsIInv
  <1> QED
    BY <1>4, <1>5 DEF Open

\* The writing of the temporary file preserves the invariant.
LEMMA WriteKeepsIInv == ASSUME IInv, NEW t \in Thread, Write(t) PROVE IInv'
  <1>1. /\ pc[t] = "opened" /\ Saving(t) /\ live' = live
        /\ UNCHANGED <<memoryVars, stopping, snap, overlapped>>
    BY DEF Write, Saving, Stage
  <1>2. /\ pc' \in [Thread -> Stage \cup {"ready", "checked", "joining", "done", "dead"}]
        /\ running' \in BOOLEAN
        /\ pc'[t] = "written"
        /\ \A u \in Thread : u # t => pc'[u] = pc[u]
    BY GotoPc DEF Write, IInv, Stage
  <1>3. Saving(t)'
    BY <1>2 DEF Saving, Stage
  <1>4. live' \in File /\ tmp' \in File
    BY <1>1 DEF Write, IInv, StoreTypeOK, File
  <1>5. failed' \in BOOLEAN /\ (failed => failed')
    <2>1. failed' = failed \/ failed' = TRUE
      BY DEF Write
    <2>2. failed \in BOOLEAN
      BY DEF IInv, StoreTypeOK
    <2>3. CASE failed' = failed
      BY <2>2, <2>3
    <2>4. CASE failed' = TRUE
      BY <2>4
    <2> QED
      BY <2>1, <2>3, <2>4
  <1>6. Orderly' => Orderly /\ tmp' = snap[t] /\ live' \in Version \cup {NoFile}
    <2>1. Orderly' => Orderly
      BY <1>1, <1>5 DEF Orderly
    <2>2. Orderly => tmp = Blank /\ live \in Version \cup {NoFile}
      BY <1>1, OrderlyFiles
    <2>3. Orderly' => failed' # TRUE
      BY DEF Orderly
    <2> QED
      BY <1>1, <2>1, <2>2, <2>3 DEF Write
  <1> QED
    BY <1>1, <1>2, <1>3, <1>4, <1>5, <1>6, StageKeepsIInv

\* The removal of the save file preserves the invariant.
LEMMA RemoveLiveKeepsIInv == ASSUME IInv, NEW t \in Thread, RemoveLive(t) PROVE IInv'
  <1>1. /\ pc[t] = "written" /\ Saving(t) /\ tmp' = tmp
        /\ UNCHANGED <<memoryVars, stopping, snap, overlapped>>
    BY DEF RemoveLive, Saving, Stage
  <1>2. /\ pc' \in [Thread -> Stage \cup {"ready", "checked", "joining", "done", "dead"}]
        /\ running' \in BOOLEAN
        /\ pc'[t] = "removed"
        /\ \A u \in Thread : u # t => pc'[u] = pc[u]
    BY GotoPc DEF RemoveLive, IInv, Stage
  <1>3. Saving(t)'
    BY <1>2 DEF Saving, Stage
  <1>4. live' \in File /\ tmp' \in File
    BY <1>1 DEF RemoveLive, IInv, StoreTypeOK, File
  <1>5. failed' \in BOOLEAN /\ (failed => failed')
    <2>1. failed' = failed \/ failed' = TRUE
      BY DEF RemoveLive
    <2>2. failed \in BOOLEAN
      BY DEF IInv, StoreTypeOK
    <2>3. CASE failed' = failed
      BY <2>2, <2>3
    <2>4. CASE failed' = TRUE
      BY <2>4
    <2> QED
      BY <2>1, <2>3, <2>4
  <1>6. Orderly' => tmp' = snap[t] /\ live' = NoFile
    <2>1. Orderly' => Orderly
      BY <1>1, <1>5 DEF Orderly
    <2>2. Orderly => tmp = snap[t]
      BY <1>1, OrderlyFiles
    <2>3. Orderly' => failed' # TRUE
      BY DEF Orderly
    <2> QED
      BY <1>1, <2>1, <2>2, <2>3 DEF RemoveLive
  <1> QED
    BY <1>1, <1>2, <1>3, <1>4, <1>5, <1>6, StageKeepsIInv

\* The renaming of the temporary file preserves the invariant.
LEMMA RenameKeepsIInv == ASSUME IInv, NEW t \in Thread, Rename(t) PROVE IInv'
  <1>1. /\ pc[t] = "removed" /\ Saving(t) /\ Return(t)
        /\ UNCHANGED <<memoryVars, stopping, snap, overlapped>>
    BY DEF Rename, Saving, Stage
  <1>2. /\ pc' \in [Thread -> Stage \cup {"ready", "checked", "joining", "done", "dead"}]
        /\ running' \in BOOLEAN
        /\ t = Worker => pc'[t] # "done"
        /\ pc'[t] \in {"ready", "joining", "done"}
        /\ \A u \in Thread : u # t => pc'[u] = pc[u]
    BY <1>1, ReturnPc, Threads DEF IInv
  <1>3. Orderly => CanRename(t) /\ tmp = snap[t] /\ snap[t] \in Version
    BY <1>1, OrderlyFiles
  <1>4. failed \in BOOLEAN /\ tmp \in File /\ live \in File /\ NoFile \in File
    BY DEF IInv, StoreTypeOK, File
  <1>5. CASE CanRename(t) /\ live' = tmp /\ tmp' = NoFile /\ UNCHANGED failed
    <2>1. Orderly' => Orderly
      BY <1>1, <1>5 DEF Orderly
    <2>2. Orderly' => live' # NoFile
      BY <1>3, <1>5, <2>1, MaxVersionAssumption DEF Version, NoFile
    <2>3. pc'[t] # "dead"
      BY <1>2
    <2> QED
      BY <1>1, <1>2, <1>3, <1>4, <1>5, <2>1, <2>2, <2>3, StageKeepsIInv
  <1>6. CASE UNCHANGED fileVars /\ failed' = (failed \/ CanRename(t))
    <2>1. failed' \in BOOLEAN /\ (failed => failed')
      BY <1>4, <1>6
    <2>2. ~Orderly'
      BY <1>1, <1>3, <1>6 DEF Orderly
    <2> QED
      BY <1>1, <1>2, <1>4, <1>6, <2>1, <2>2, StageKeepsIInv DEF fileVars
  <1> QED
    BY <1>5, <1>6 DEF Rename

\* A stuttering step preserves the invariant.
LEMMA StutterKeepsIInv == ASSUME IInv, UNCHANGED storeVars PROVE IInv'
  BY DEF IInv, storeVars, memoryVars, controlVars, fileVars, historyVars, StoreTypeOK,
         CleanMeansTaken, OneSaveAtATime, FilesMatchStages, SaveIsLatest, WorkerLeavesClean,
         SavedWhenClean, AtRest, UpToDate, NeverTorn, Orderly, Saving, Crashed,
         SnapshotsInOrder, MissingWhileRemoved, CopyRemains, Newest

\* The invariant is inductive.
LEMMA NextKeepsIInv == IInv /\ [Next]_storeVars => IInv'
  <1> SUFFICES ASSUME IInv, [Next]_storeVars PROVE IInv'
    OBVIOUS
  <1>1. ASSUME NEW t \in Thread, Save(t) PROVE IInv'
    BY <1>1, SnapshotKeepsIInv, OpenKeepsIInv, WriteKeepsIInv, RemoveLiveKeepsIInv,
       RenameKeepsIInv DEF Save
  <1> QED
    BY <1>1, ChangeKeepsIInv, FlushNowKeepsIInv, StopKeepsIInv, JoinKeepsIInv,
       FlusherWakesKeepsIInv, CrashKeepsIInv, StutterKeepsIInv DEF Next

\* Every reachable state satisfies the inductive invariant.
LEMMA StoreInvariance == Spec => []IInv
  BY InitIInv, NextKeepsIInv, PTL DEF Spec

-----------------------------------------------------------------------------
(* The theorems.                                                             *)

\* The store's variables hold values of their types.
THEOREM StoreTypeCorrect == Spec => []StoreTypeOK
  <1>1. IInv => StoreTypeOK
    BY DEF IInv
  <1> QED
    BY <1>1, StoreInvariance, PTL

\* While s_dirty is clear the latest version has been taken by a save.
THEOREM NoChangeIsOverlooked == Spec => []CleanMeansTaken
  <1>1. IInv => CleanMeansTaken
    BY DEF IInv
  <1> QED
    BY <1>1, StoreInvariance, PTL

\* A clean store at rest is a saved one, if no operation failed and saves were
\* never in progress together.
THEOREM CleanStoreIsSaved == Spec => []SavedWhenClean
  <1>1. IInv => SavedWhenClean
    BY DEF IInv
  <1> QED
    BY <1>1, StoreInvariance, PTL

\* On the same proviso no crash, at whatever step, leaves a part of a save in the
\* save file.
THEOREM SaveFileIsWhole == Spec => []NeverTorn
  <1>1. IInv => NeverTorn
    BY DEF IInv
  <1> QED
    BY <1>1, StoreInvariance, PTL

\* On the same proviso, when the save file is missing, be it for good, the temporary
\* file holds the newest records that were taken to be saved.
THEOREM CopySurvives == Spec => []CopyRemains
  <1>1. IInv => CopyRemains
    BY DEF IInv
  <1> QED
    BY <1>1, StoreInvariance, PTL

\* On the same proviso, when Stop returns the flush thread has ended and the save
\* file is up to date.
THEOREM StopSaves == Spec => []StopSavesEverything
  <1>1. IInv => StopSavesEverything
    <2> SUFFICES ASSUME IInv, pc[Worker] = "done", ~failed, ~overlapped
                 PROVE  pc[Flusher] = "done" /\ ~dirty /\ UpToDate
      BY DEF StopSavesEverything
    <2>1. pc[Flusher] = "done" /\ ~dirty
      BY DEF IInv, WorkerLeavesClean
    <2>2. AtRest
      BY <2>1, Threads DEF AtRest, Crashed, Saving, Stage
    <2> QED
      BY <2>1, <2>2 DEF IInv, SavedWhenClean
  <1> QED
    BY <1>1, StoreInvariance, PTL

-----------------------------------------------------------------------------
(* SaveText: what a file looks like.                                         *)

Names == ToSet(Fields)

\* A record has every field; and records by GUID.
IsRecord(r) == r = [f \in Names |-> r[f]]
IsRecords(rs) ==
    /\ DOMAIN rs \subseteq Guid /\ rs = [g \in DOMAIN rs |-> rs[g]]
    /\ \A g \in DOMAIN rs : IsRecord(rs[g])

\* The order of a file: every player once.
IsOrder(order, rs) ==
    /\ Len(order) \in Nat /\ order = [i \in 1..Len(order) |-> order[i]]
    /\ \A i \in 1..Len(order) : order[i] \in DOMAIN rs
    /\ \A i, j \in 1..Len(order) : order[i] = order[j] => i = j
    /\ \A g \in DOMAIN rs : \E i \in 1..Len(order) : order[i] = g

\* What a file of the records looks like: nine tokens each, between two of its own.
PlaceOf(i) == 9 * i - 7
IsLayout(full, rs, order) ==
    /\ full = [k \in 1..(9 * Len(order) + 2) |-> full[k]]
    /\ full[1] = Begin /\ full[9 * Len(order) + 2] = End
    /\ \A i \in 1..Len(order) :
         /\ full[PlaceOf(i)] = RecordOf(order[i]) /\ full[PlaceOf(i) + 8] = End
         /\ \A j \in 1..7 :
              full[PlaceOf(i) + j] = Field(Fields[j], rs[order[i]][Fields[j]])

\* What a failed write leaves: the first tokens, of which the last may be a part of one.
CutPart(t, v) == [t EXCEPT !.value = v, !.cuts = {}]
CutOf(full, t) ==
    /\ Len(t) \in 0..Len(full) /\ t = [j \in 1..Len(t) |-> t[j]]
    /\ \A j \in 1..Len(t) :
         \/ t[j] = full[j]
         \/ /\ j = Len(t) /\ full[j].kind = "field"
            /\ \E v \in full[j].cuts : t[j] = CutPart(full[j], v)

\* The text is what is left of a file of the records written, and all of it unless the
\* write failed.
TextInv ==
    /\ IsRecords(records) /\ IsRecords(written)
    /\ \E order \in SetToSeqs(DOMAIN written) :
         /\ CutOf(Written(written, order), text)
         /\ whole => \/ text = Written(written, order)
                     \/ text = <<>> /\ written = <<>>

\* The names are those of seven different fields.
LEMMA FieldNames ==
    /\ DOMAIN Fields = 1..7 /\ Names = {Fields[j] : j \in 1..7}
    /\ \A i, j \in 1..7 : Fields[i] = Fields[j] => i = j
  <1>1. DOMAIN Fields = 1..7
    BY DEF Fields
  <1>2. \A i, j \in 1..7 : Fields[i] = Fields[j] => i = j
    BY DEF Fields
  <1> QED
    BY <1>1, <1>2 DEF Names, ToSet

\* And they are these.
LEMMA NamesAre ==
    Names = {"hasPosition", "px", "py", "hasAppearance", "clothing", "kills", "deaths"}
  <1>1. \A j \in 1..7 : j = 1 \/ j = 2 \/ j = 3 \/ j = 4 \/ j = 5 \/ j = 6 \/ j = 7
    OBVIOUS
  <1>2. /\ Fields[1] = "hasPosition" /\ Fields[2] = "px" /\ Fields[3] = "py"
        /\ Fields[4] = "hasAppearance" /\ Fields[5] = "clothing" /\ Fields[6] = "kills"
        /\ Fields[7] = "deaths"
    BY DEF Fields
  <1> QED
    BY <1>1, <1>2, FieldNames

\* An order of the players is one of a sequence.
LEMMA OrderFacts ==
    ASSUME NEW rs, IsRecords(rs), NEW order \in SetToSeqs(DOMAIN rs)
    PROVE  IsOrder(order, rs)
  <1>1. IsFiniteSet(DOMAIN rs)
    BY GuidAssumption, FS_Subset DEF IsRecords
  <1> PICK S : S = DOMAIN rs
    OBVIOUS
  <1>2. /\ order \in Seq(S) /\ Len(order) \in Nat /\ DOMAIN order = 1..Len(order)
        /\ \A i, j \in DOMAIN order : order[i] = order[j] => i = j
        /\ \A x \in S : \E i \in DOMAIN order : order[i] = x
    BY <1>1, SetToSeqsType
  <1>3. /\ order = [i \in 1..Len(order) |-> order[i]]
        /\ \A i \in 1..Len(order) : order[i] \in S
    BY ONLY <1>2
  <1> QED
    BY ONLY <1>2, <1>3, S = DOMAIN rs DEF IsOrder

\* The tokens of one record.
LEMMA RecordTokens ==
    ASSUME NEW g, NEW r, NEW w, w = WrittenRecord(g, r)
    PROVE  /\ w = [j \in 1..9 |-> w[j]] /\ Len(w) = 9
           /\ w[1] = RecordOf(g) /\ w[9] = End
           /\ \A j \in 1..7 : w[1 + j] = Field(Fields[j], r[Fields[j]])
  <1> PICK fields : fields = [i \in DOMAIN Fields |-> Field(Fields[i], r[Fields[i]])]
    OBVIOUS
  <1> PICK a : a = <<RecordOf(g)>>
    OBVIOUS
  <1> PICK c : c = <<End>>
    OBVIOUS
  <1> PICK M : M = {RecordOf(g), End} \cup {fields[i] : i \in 1..7}
    OBVIOUS
  <1>1. /\ fields = [i \in 1..7 |-> fields[i]] /\ \A i \in 1..7 : fields[i] \in M
        /\ \A i \in 1..7 : fields[i] = Field(Fields[i], r[Fields[i]])
    BY FieldNames
  <1>2. fields \in Seq(M) /\ Len(fields) = 7
    BY <1>1, FunctionIsSeq
  <1>3. /\ a \in Seq(M) /\ Len(a) = 1 /\ a[1] = RecordOf(g)
        /\ c \in Seq(M) /\ Len(c) = 1 /\ c[1] = End
    BY ONLY a = <<RecordOf(g)>>, c = <<End>>,
            M = {RecordOf(g), End} \cup {fields[i] : i \in 1..7}
  <1>4. w = (a \o fields) \o c
    BY DEF WrittenRecord
  <1> PICK b : b = a \o fields
    OBVIOUS
  <1>5. b \in Seq(M) /\ IsJoin(b, a, fields)
    BY <1>2, <1>3, ConcatParts
  <1>6. /\ Len(b) = 8 /\ b[1] = RecordOf(g)
        /\ \A j \in 1..7 : b[1 + j] = Field(Fields[j], r[Fields[j]])
    <2>1. Len(b) = 8 /\ b[1] = RecordOf(g) /\ \A j \in 1..7 : b[1 + j] = fields[j]
      BY ONLY <1>2, <1>3, <1>5 DEF IsJoin
    <2> QED
      BY ONLY <1>1, <2>1, Zenon
  <1>7. w \in Seq(M) /\ IsJoin(w, b, c)
    BY <1>3, <1>4, <1>5, ConcatParts
  <1>8. /\ Len(w) = 9 /\ w[9] = End
        /\ \A j \in 1..8 : w[j] = b[j]
    BY ONLY <1>3, <1>6, <1>7 DEF IsJoin
  <1>9. w = [j \in 1..9 |-> w[j]]
    BY <1>7, <1>8, SeqIsFunction
  <1>10. \A j \in 1..7 : 1 + j \in 1..8
    OBVIOUS
  <1> QED
    BY ONLY <1>6, <1>8, <1>9, <1>10

\* Where everything stands in a file.
LEMMA WrittenLayout ==
    ASSUME NEW rs, NEW order, IsOrder(order, rs), NEW full, full = Written(rs, order)
    PROVE  IsLayout(full, rs, order)
  <1> PICK m \in Nat : m = Len(order)
    BY DEF IsOrder
  <1> DEFINE seqs == [i \in DOMAIN order |-> WrittenRecord(order[i], rs[order[i]])]
             M == {Begin, End} \cup {seqs[i][j] : i \in 1..m, j \in 1..9}
             at == [i \in 1..(m + 1) |-> 9 * i - 9]
  <1>1. DOMAIN order = 1..m
    BY ONLY m = Len(order), IsOrder(order, rs) DEF IsOrder
  <1>2. \A i \in 1..m : /\ seqs[i] = [j \in 1..9 |-> seqs[i][j]] /\ Len(seqs[i]) = 9
                        /\ seqs[i][1] = RecordOf(order[i]) /\ seqs[i][9] = End
                        /\ \A j \in 1..7 : seqs[i][1 + j]
                                             = Field(Fields[j], rs[order[i]][Fields[j]])
    <2> TAKE i \in 1..m
    <2>1. seqs[i] = WrittenRecord(order[i], rs[order[i]])
      BY <1>1
    <2> HIDE DEF seqs
    <2> QED
      BY <2>1, RecordTokens
  <1>3. seqs = [i \in 1..m |-> seqs[i]]
    BY <1>1
  <1> HIDE DEF seqs
  <1>4. seqs \in Seq(Seq(M)) /\ Len(seqs) = m
    <2>1. \A i \in 1..m : seqs[i] \in Seq(M)
      <3> TAKE i \in 1..m
      <3> PICK s : s = seqs[i]
        OBVIOUS
      <3>1. \A j \in 1..9 : s[j] \in M
        OBVIOUS
      <3>2. s = [j \in 1..9 |-> s[j]]
        BY <1>2
      <3> HIDE DEF M
      <3> QED
        <4>1. s \in Seq(M)
          BY ONLY <3>1, <3>2, FunctionIsSeq
        <4> QED
          BY ONLY <4>1, s = seqs[i]
    <2> HIDE DEF M
    <2> QED
      BY ONLY <1>3, <2>1, m \in Nat
  <1>5. /\ at \in [1..(m + 1) -> Nat] /\ at[1] = 0
        /\ \A i \in 1..m : at[i + 1] = at[i] + 9 /\ at[i] = 9 * i - 9
        /\ at[m + 1] = 9 * m
    OBVIOUS
  <1>6. Begin \in M /\ End \in M
    OBVIOUS
  <1> HIDE DEF at, M
  <1> PICK flat : flat = FlattenSeq(seqs)
    OBVIOUS
  <1>7. flat \in Seq(M) /\ IsLaid(flat, seqs, at, m)
    <2>1. at \in [1..(Len(seqs) + 1) -> Nat]
      BY <1>4, <1>5
    <2>2. \A i \in 1..Len(seqs) : at[i + 1] = at[i] + Len(seqs[i])
      BY ONLY <1>2, <1>4, <1>5
    <2> QED
      BY <1>4, <1>5, <2>1, <2>2, FlattenPlaces
  <1>8. Len(flat) = 9 * m
    BY ONLY <1>5, <1>7 DEF IsLaid
  <1>17. \A i \in 1..m : \A j \in 1..9 : flat[9 * i - 9 + j] = seqs[i][j]
    <2> TAKE i \in 1..m
    <2> TAKE j \in 1..9
    <2>2. Len(seqs[i]) = 9 /\ at[i] = 9 * i - 9
      BY <1>2, <1>5
    <2>3. flat[at[i] + j] = seqs[i][j]
      BY ONLY <1>7, <2>2, i \in 1..m, j \in 1..9 DEF IsLaid
    <2> QED
      BY ONLY <2>2, <2>3
  <1> PICK a : a = <<Begin>>
    OBVIOUS
  <1> PICK c : c = <<End>>
    OBVIOUS
  <1>9. /\ a \in Seq(M) /\ Len(a) = 1 /\ a[1] = Begin
        /\ c \in Seq(M) /\ Len(c) = 1 /\ c[1] = End
    BY ONLY <1>6, a = <<Begin>>, c = <<End>>
  <1> PICK b : b = a \o flat
    OBVIOUS
  <1>10. full = b \o c
    BY DEF Written, seqs
  <1>11. b \in Seq(M) /\ IsJoin(b, a, flat)
    BY <1>7, <1>9, ConcatParts
  <1>12. full \in Seq(M) /\ IsJoin(full, b, c)
    BY <1>9, <1>10, <1>11, ConcatParts
  <1>13. /\ Len(full) = 9 * m + 2 /\ full[1] = Begin /\ full[9 * m + 2] = End
         /\ \A k \in 1..(9 * m) : full[1 + k] = flat[k]
    <2>1. Len(b) = 9 * m + 1
      BY ONLY <1>8, <1>9, <1>11 DEF IsJoin
    <2>2. Len(full) = 9 * m + 2 /\ full[9 * m + 2] = End
      BY ONLY <1>9, <1>12, <2>1, m \in Nat DEF IsJoin
    <2>3. full[1] = Begin
      BY ONLY <1>9, <1>11, <1>12, <2>1, m \in Nat DEF IsJoin
    <2>4. \A k \in 1..(9 * m) : 1 + k \in 1..Len(b) /\ k \in 1..Len(flat)
      BY ONLY <1>8, <2>1, m \in Nat
    <2> QED
      BY ONLY <1>9, <1>11, <1>12, <2>2, <2>3, <2>4 DEF IsJoin
  <1>14. full = [k \in 1..(9 * m + 2) |-> full[k]]
    BY ONLY <1>12, <1>13
  <1>15. \A i \in 1..m : \A j \in 1..9 : full[PlaceOf(i) - 1 + j] = seqs[i][j]
    <2> TAKE i \in 1..m
    <2> TAKE j \in 1..9
    <2>1. 9 * i - 9 + j \in 1..(9 * m) /\ PlaceOf(i) - 1 + j = 1 + (9 * i - 9 + j)
      BY ONLY m \in Nat, i \in 1..m, j \in 1..9 DEF PlaceOf
    <2> QED
      BY ONLY <1>13, <1>17, <2>1, i \in 1..m, j \in 1..9
  <1>16. ASSUME NEW i \in 1..m
         PROVE  /\ full[PlaceOf(i)] = RecordOf(order[i]) /\ full[PlaceOf(i) + 8] = End
                /\ \A j \in 1..7 :
                     full[PlaceOf(i) + j] = Field(Fields[j], rs[order[i]][Fields[j]])
    <2>1. \A j \in 0..8 : PlaceOf(i) - 1 + (1 + j) = PlaceOf(i) + j /\ 1 + j \in 1..9
      BY ONLY i \in 1..m DEF PlaceOf
    <2>2. \A j \in 0..8 : full[PlaceOf(i) + j] = seqs[i][1 + j]
      BY ONLY <1>15, <2>1, i \in 1..m
    <2>3. PlaceOf(i) + 0 = PlaceOf(i)
      BY ONLY i \in 1..m DEF PlaceOf
    <2>4. full[PlaceOf(i)] = seqs[i][1] /\ full[PlaceOf(i) + 8] = seqs[i][9]
      BY ONLY <2>2, <2>3
    <2>5. \A j \in 1..7 : full[PlaceOf(i) + j] = Field(Fields[j], rs[order[i]][Fields[j]])
      <3> TAKE j \in 1..7
      <3>1. full[PlaceOf(i) + j] = seqs[i][1 + j]
        BY ONLY <2>2, j \in 1..7
      <3>2. seqs[i][1 + j] = Field(Fields[j], rs[order[i]][Fields[j]])
        BY <1>2
      <3> QED
        BY ONLY <3>1, <3>2
    <2>6. seqs[i][1] = RecordOf(order[i]) /\ seqs[i][9] = End
      BY <1>2
    <2> QED
      BY ONLY <2>4, <2>5, <2>6
  <1> QED
    BY <1>13, <1>14, <1>16 DEF IsLayout

\* A token of a file is the first, the last, or one of the nine of some record.
LEMMA Places ==
    ASSUME NEW m \in Nat, NEW k \in 1..(9 * m + 2)
    PROVE  k = 1 \/ k = 9 * m + 2 \/ \E i \in 1..m, j \in 0..8 : k = PlaceOf(i) + j
  <1> SUFFICES ASSUME k # 1, k # 9 * m + 2
               PROVE  \E i \in 1..m, j \in 0..8 : k = PlaceOf(i) + j
    OBVIOUS
  <1> DEFINE q == (k - 2) \div 9
             j == (k - 2) % 9
  <1>1. q \in Int /\ j \in 0..8 /\ k - 2 = 9 * q + j
    OBVIOUS
  <1> HIDE DEF q, j
  <1>2. q + 1 \in 1..m /\ k = PlaceOf(q + 1) + j
    BY <1>1 DEF PlaceOf
  <1> QED
    BY <1>1, <1>2

\* What tells the tokens apart.
LEMMA Kinds ==
    /\ Begin.kind = "begin" /\ End.kind = "end"
    /\ \A g : RecordOf(g).kind = "record" /\ RecordOf(g).guid = OnFile[g]
    /\ \A f, v : /\ Field(f, v).kind = "field" /\ Field(f, v).name = f
                 /\ Field(f, v).value = Reading(f, v)
                 /\ Field(f, v).cuts = CutReadings(f, v)
  BY DEF Begin, End, RecordOf, Field

\* Records begin where they should, and braces close there.
LEMMA LayoutKinds ==
    ASSUME NEW rs, NEW order, IsOrder(order, rs), NEW full, IsLayout(full, rs, order),
           NEW k \in 1..(9 * Len(order) + 2)
    PROVE  /\ full[k].kind = "record" <=> \E i \in 1..Len(order) : k = PlaceOf(i)
           /\ full[k].kind = "end" <=> \/ k = 9 * Len(order) + 2
                                       \/ \E i \in 1..Len(order) : k = PlaceOf(i) + 8
  <1> PICK m \in Nat : m = Len(order)
    BY DEF IsOrder
  <1>1. \A i \in 1..m : /\ i \in Nat /\ PlaceOf(i) \in Nat
                        /\ 1 < PlaceOf(i) /\ PlaceOf(i) + 8 < 9 * m + 2
    BY DEF PlaceOf
  <1>2. CASE k = 1
    <2>1. full[k].kind = "begin"
      BY <1>2, Kinds DEF IsLayout
    <2> QED
      BY <1>1, <1>2, <2>1
  <1>3. CASE k = 9 * m + 2
    <2>1. full[k].kind = "end"
      BY <1>3, Kinds DEF IsLayout
    <2> QED
      BY <1>1, <1>3, <2>1
  <1>4. CASE k # 1 /\ k # 9 * m + 2
    <2>1. PICK i \in 1..m, j \in 0..8 : k = PlaceOf(i) + j
      BY <1>4, Places
    <2>2. \A h \in 1..m : \A b \in 0..8 : k = PlaceOf(h) + b => h = i /\ b = j
      BY ONLY <2>1, m \in Nat DEF PlaceOf
    <2>3. \A h \in 1..m : PlaceOf(h) = PlaceOf(h) + 0
      BY <1>1
    <2>4. /\ full[k].kind = "record" <=> j = 0
          /\ full[k].kind = "end" <=> j = 8
      <3>1. CASE j = 0
        <4>1. full[k] = RecordOf(order[i])
          BY <2>1, <2>3, <3>1 DEF IsLayout
        <4> QED
          BY <3>1, <4>1, Kinds
      <3>2. CASE j = 8
        <4>1. full[k] = End
          BY <2>1, <3>2 DEF IsLayout
        <4> QED
          BY <3>2, <4>1, Kinds
      <3>3. CASE j # 0 /\ j # 8
        <4>1. j \in 1..7
          BY <3>3
        <4>2. full[k] = Field(Fields[j], rs[order[i]][Fields[j]])
          BY <2>1, <4>1 DEF IsLayout
        <4> QED
          BY <3>3, <4>2, Kinds
      <3> QED
        BY <3>1, <3>2, <3>3
    <2> QED
      BY ONLY <1>4, <2>1, <2>2, <2>3, <2>4, m = Len(order)
  <1> QED
    BY <1>2, <1>3, <1>4

\* A field stands at one of the seven places of some record.
LEMMA FieldTokens ==
    ASSUME NEW rs, NEW order, IsOrder(order, rs), NEW full, IsLayout(full, rs, order),
           NEW k \in 1..(9 * Len(order) + 2), full[k].kind = "field"
    PROVE  \E i \in 1..Len(order), j \in 1..7 :
             k = PlaceOf(i) + j /\ full[k] = Field(Fields[j], rs[order[i]][Fields[j]])
  <1>1. k = 1 \/ k = 9 * Len(order) + 2
              \/ \E i \in 1..Len(order), j \in 0..8 : k = PlaceOf(i) + j
    BY Places DEF IsOrder
  <1>2. k # 1 /\ k # 9 * Len(order) + 2
    BY Kinds DEF IsLayout
  <1>3. PICK i \in 1..Len(order), j \in 0..8 : k = PlaceOf(i) + j
    BY <1>1, <1>2
  <1>4. PlaceOf(i) + 0 = PlaceOf(i)
    BY DEF PlaceOf
  <1>5. j # 0 /\ j # 8
    <2>1. full[PlaceOf(i)] = RecordOf(order[i]) /\ full[PlaceOf(i) + 8] = End
      BY DEF IsLayout
    <2>2. full[PlaceOf(i)].kind # "field" /\ full[PlaceOf(i) + 8].kind # "field"
      BY <2>1, Kinds
    <2> QED
      BY ONLY full[k].kind = "field", <1>3, <1>4, <2>2
  <1>6. j \in 1..7
    BY ONLY <1>5, j \in 0..8
  <1>7. full[k] = Field(Fields[j], rs[order[i]][Fields[j]])
    BY <1>3, <1>6 DEF IsLayout
  <1> QED
    BY <1>3, <1>6, <1>7

\* What is left of a field's token.
LEMMA CutFacts ==
    ASSUME NEW f, NEW v, NEW c, NEW t, t = CutPart(Field(f, v), c)
    PROVE  t.kind = "field" /\ t.name = f /\ t.value = c
  BY DEF CutPart, Field

-----------------------------------------------------------------------------
(* What is read of a file that was cut.                                      *)

\* The text is what is left of a file of the records written, in some order.
Leaves(order, full) ==
    IsOrder(order, written) /\ IsLayout(full, written, order) /\ CutOf(full, text)

\* The tokens that are left are of the kinds they were, and those but fields are whole.
LEMMA CutKinds ==
    ASSUME NEW order, NEW full, Leaves(order, full)
    PROVE  /\ DOMAIN text = 1..Len(text) /\ Len(text) \in Nat /\ Len(order) \in Nat
           /\ Len(text) <= 9 * Len(order) + 2
           /\ \A k \in 1..Len(text) : /\ text[k].kind = full[k].kind
                                      /\ text[k].kind # "field" => text[k] = full[k]
                                      /\ k < Len(text) => text[k] = full[k]
  <1>1. Len(order) \in Nat /\ full = [k \in 1..(9 * Len(order) + 2) |-> full[k]]
    BY DEF Leaves, IsOrder, IsLayout
  <1>2. Len(full) = 9 * Len(order) + 2
    BY ONLY <1>1
  <1>3. Len(text) \in 0..Len(full) /\ text = [k \in 1..Len(text) |-> text[k]]
    BY DEF Leaves, CutOf
  <1>5. Len(text) \in Nat /\ Len(text) <= 9 * Len(order) + 2
    BY ONLY <1>1, <1>2, <1>3
  <1>4. \A k \in 1..Len(text) :
          \/ text[k] = full[k]
          \/ k = Len(text) /\ text[k].kind = "field" /\ full[k].kind = "field"
    <2> SUFFICES ASSUME NEW k \in 1..Len(text), text[k] # full[k]
                 PROVE  k = Len(text) /\ text[k].kind = "field" /\ full[k].kind = "field"
      OBVIOUS
    <2>1. /\ k = Len(text) /\ full[k].kind = "field"
          /\ \E c : text[k] = CutPart(full[k], c)
      BY DEF Leaves, CutOf
    <2>2. k \in 1..(9 * Len(order) + 2)
      BY ONLY <1>1, <1>5, k \in 1..Len(text)
    <2>3. PICK f, v : full[k] = Field(f, v)
      BY <2>1, <2>2, FieldTokens DEF Leaves
    <2> QED
      BY <2>1, <2>3, CutFacts
  <1>6. \A k \in 1..Len(text) : k < Len(text) => k # Len(text)
    BY ONLY <1>5
  <1> QED
    BY <1>1, <1>3, <1>4, <1>5, <1>6

\* The records that are read begin where those written do, as far as the text goes.
LEMMA StartsLeft ==
    ASSUME NEW order, NEW full, Leaves(order, full)
    PROVE  /\ RecordStarts
                = {PlaceOf(i) : i \in {h \in 1..Len(order) : PlaceOf(h) <= Len(text)}}
           /\ \A i \in 1..Len(order) : PlaceOf(i) <= Len(text) =>
                PlaceOf(i) \in 1..Len(text) /\ text[PlaceOf(i)].guid = OnFile[order[i]]
  <1>1. \A i \in 1..Len(order) : i \in Nat /\ PlaceOf(i) \in Nat \ {0}
    BY DEF PlaceOf, Leaves, IsOrder
  <1>2. \A k \in 1..Len(text) : k \in 1..(9 * Len(order) + 2)
    BY CutKinds
  <1>3. \A k \in 1..Len(text) :
          text[k].kind = "record" <=> \E i \in 1..Len(order) : k = PlaceOf(i)
    BY <1>2, CutKinds, LayoutKinds DEF Leaves
  <1>4. \A i \in 1..Len(order) : PlaceOf(i) <= Len(text) => PlaceOf(i) \in 1..Len(text)
    BY <1>1, CutKinds
  <1>5. ASSUME NEW i \in 1..Len(order), PlaceOf(i) <= Len(text)
        PROVE  text[PlaceOf(i)].guid = OnFile[order[i]]
    <2>1. text[PlaceOf(i)].kind = "record" /\ PlaceOf(i) \in 1..Len(text)
      BY <1>3, <1>4, <1>5
    <2>2. text[PlaceOf(i)] = full[PlaceOf(i)]
      BY <2>1, CutKinds
    <2>3. full[PlaceOf(i)] = RecordOf(order[i])
      BY DEF Leaves, IsLayout
    <2> QED
      BY <2>2, <2>3, Kinds
  <1>6. RecordStarts = {k \in 1..Len(text) : text[k].kind = "record"}
    BY CutKinds DEF RecordStarts
  <1>7. \A k \in 1..Len(text) : k \in Nat /\ k <= Len(text)
    BY CutKinds
  <1>8. RecordStarts = {PlaceOf(i) : i \in {h \in 1..Len(order) : PlaceOf(h) <= Len(text)}}
    BY ONLY <1>3, <1>4, <1>6, <1>7
  <1> QED
    BY <1>4, <1>5, <1>8

\* The file as it is read: who is in it, and where each record begins, which is the
\* first place with the name.
LEMMA LoadedRecords ==
    ASSUME NEW order, NEW full, Leaves(order, full)
    PROVE  /\ LoadFromDisk = [n \in DOMAIN LoadFromDisk |-> LoadFromDisk[n]]
           /\ \A i \in 1..Len(order) :
                PlaceOf(i) <= Len(text) => OnFile[order[i]] \in DOMAIN LoadFromDisk
           /\ \A n \in DOMAIN LoadFromDisk :
                /\ IsRecord(LoadFromDisk[n])
                /\ \E i \in 1..Len(order) :
                     /\ PlaceOf(i) <= Len(text) /\ n = OnFile[order[i]]
                     /\ LoadFromDisk[n] = ParseRecord(PlaceOf(i))
                     /\ \A j \in 1..Len(order) :
                          PlaceOf(j) <= Len(text) /\ n = OnFile[order[j]] => i <= j
  <1> DEFINE D == {text[k].guid : k \in RecordStarts}
  <1>1. DOMAIN LoadFromDisk = D /\ LoadFromDisk = [n \in D |-> ParseRecord(StartOf(n))]
    BY DEF LoadFromDisk
  <1>2. \A n \in D : LoadFromDisk[n] = ParseRecord(StartOf(n))
    BY <1>1, Zenon
  <1>3. \A k \in RecordStarts : \E i \in 1..Len(order) :
          k = PlaceOf(i) /\ PlaceOf(i) <= Len(text) /\ text[k].guid = OnFile[order[i]]
    BY StartsLeft
  <1>4. \A i \in 1..Len(order) : PlaceOf(i) <= Len(text) =>
          PlaceOf(i) \in RecordStarts /\ text[PlaceOf(i)].guid = OnFile[order[i]]
    BY StartsLeft
  <1>5. \A k \in RecordStarts : k \in Nat
    BY CutKinds DEF RecordStarts
  <1>6. ASSUME NEW n \in D
        PROVE  \E i \in 1..Len(order) :
                 /\ PlaceOf(i) <= Len(text) /\ n = OnFile[order[i]]
                 /\ StartOf(n) = PlaceOf(i)
                 /\ \A j \in 1..Len(order) :
                      PlaceOf(j) <= Len(text) /\ n = OnFile[order[j]] => i <= j
    <2> DEFINE T == {k \in RecordStarts : text[k].guid = n}
    <2>1. T # {} /\ T \subseteq Nat
      BY <1>5, <1>6
    <2> HIDE DEF T
    <2>2. PICK k \in T : \A h \in T : k <= h
      BY <2>1, Least
    <2>3. /\ StartOf(n) \in RecordStarts /\ text[StartOf(n)].guid = n
          /\ \A h \in RecordStarts : text[h].guid = n => StartOf(n) <= h
      BY <2>2 DEF T, StartOf
    <2>4. PICK i \in 1..Len(order) :
            /\ StartOf(n) = PlaceOf(i) /\ PlaceOf(i) <= Len(text)
            /\ text[StartOf(n)].guid = OnFile[order[i]]
      BY <1>3, <2>3
    <2>5. ASSUME NEW j \in 1..Len(order), PlaceOf(j) <= Len(text), n = OnFile[order[j]]
          PROVE  i <= j
      <3>1. PlaceOf(i) <= PlaceOf(j)
        BY <1>4, <2>3, <2>4, <2>5
      <3> QED
        BY ONLY <3>1, i \in 1..Len(order), j \in 1..Len(order) DEF PlaceOf
    <2> QED
      BY <2>3, <2>4, <2>5
  <1>7. ASSUME NEW k PROVE IsRecord(ParseRecord(k))
    <2>1. DOMAIN NoRecord = Names
      BY RecAssumption DEF Names
    <2> QED
      BY <2>1 DEF IsRecord, ParseRecord
  <1>8. \A i \in 1..Len(order) : PlaceOf(i) <= Len(text) => OnFile[order[i]] \in D
    BY <1>4
  <1>9. ASSUME NEW n \in DOMAIN LoadFromDisk
        PROVE  /\ IsRecord(LoadFromDisk[n])
               /\ \E i \in 1..Len(order) :
                    /\ PlaceOf(i) <= Len(text) /\ n = OnFile[order[i]]
                    /\ LoadFromDisk[n] = ParseRecord(PlaceOf(i))
                    /\ \A j \in 1..Len(order) :
                         PlaceOf(j) <= Len(text) /\ n = OnFile[order[j]] => i <= j
    <2>1. n \in D
      BY <1>1
    <2>2. LoadFromDisk[n] = ParseRecord(StartOf(n))
      BY <1>2, <2>1
    <2> HIDE DEF D
    <2>3. IsRecord(LoadFromDisk[n])
      BY <1>7, <2>2
    <2> QED
      BY <1>6, <2>1, <2>2, <2>3
  <1> HIDE DEF D
  <1>10. LoadFromDisk = [n \in DOMAIN LoadFromDisk |-> LoadFromDisk[n]]
    BY ONLY <1>1
  <1> QED
    BY <1>1, <1>8, <1>9, <1>10

\* A record that is all there ends at its own closing brace, and one that ends at a
\* brace is all there.
LEMMA RecordEnds ==
    ASSUME NEW order, NEW full, Leaves(order, full), NEW i \in 1..Len(order),
           PlaceOf(i) <= Len(text)
    PROVE  /\ BodyEnd(PlaceOf(i)) = IF PlaceOf(i) + 8 <= Len(text) THEN PlaceOf(i) + 8
                                                                   ELSE Len(text)
           /\ text[BodyEnd(PlaceOf(i))] = End => PlaceOf(i) + 8 <= Len(text)
  <1> PICK m \in Nat : m = Len(order)
    BY DEF Leaves, IsOrder
  <1> PICK n \in Nat : n = Len(text)
    BY CutKinds
  <1> PICK k \in Nat : k = PlaceOf(i)
    BY DEF PlaceOf
  <1>1. k \in 1..n /\ k + 8 < 9 * m + 2 /\ n <= 9 * m + 2
    BY CutKinds DEF PlaceOf
  <1> DEFINE ends == {j \in k..Len(text) : text[j].kind = "end"}
  <1>2. ASSUME NEW j \in k..n
        PROVE  /\ text[j].kind = "end" => k + 8 <= j
               /\ j = k + 8 => text[j].kind = "end"
    <2>1. j \in 1..n /\ j \in 1..(9 * m + 2)
      BY ONLY <1>1, <1>2, k \in Nat, n \in Nat, m \in Nat
    <2>2. text[j].kind = "end" <=> j = 9 * m + 2 \/ \E h \in 1..m : j = PlaceOf(h) + 8
      <3>1. text[j].kind = full[j].kind
        BY <2>1, CutKinds
      <3>2. full[j].kind = "end" <=> j = 9 * m + 2 \/ \E h \in 1..m : j = PlaceOf(h) + 8
        BY <2>1, LayoutKinds DEF Leaves
      <3> QED
        BY <3>1, <3>2
    <2>3. \A h \in 1..m : j = PlaceOf(h) + 8 => k + 8 <= j
      BY ONLY <1>2, i \in 1..Len(order), m = Len(order), k = PlaceOf(i), m \in Nat
         DEF PlaceOf
    <2> QED
      BY ONLY <1>1, <2>2, <2>3, i \in 1..Len(order), m = Len(order), k = PlaceOf(i),
              k \in Nat, m \in Nat
  <1>3. ASSUME k + 8 <= n PROVE BodyEnd(k) = k + 8
    <2>1. k + 8 \in ends /\ \A j \in ends : k + 8 <= j
      BY <1>2, <1>3
    <2>2. \A a, b \in ends : a \in Int /\ b \in Int
      OBVIOUS
    <2>3. BodyEnd(k) = CHOOSE j \in ends : \A h \in ends : j <= h
      BY <2>1 DEF BodyEnd
    <2> HIDE DEF ends
    <2>4. \A j \in ends : (\A h \in ends : j <= h) => j = k + 8
      BY <2>1, <2>2
    <2> QED
      BY <2>1, <2>3, <2>4
  <1>4. ASSUME ~(k + 8 <= n) PROVE BodyEnd(k) = n /\ text[BodyEnd(k)] # End
    <2>1. ends = {}
      BY <1>2, <1>4
    <2>2. BodyEnd(k) = n
      BY <2>1 DEF BodyEnd
    <2>3. n \in k..n
      BY <1>1
    <2>4. text[n].kind # "end"
      BY <1>2, <1>4, <2>3
    <2> QED
      BY <2>2, <2>4, Kinds
  <1> QED
    BY <1>3, <1>4

\* A record that is all there is read as it reads back.
LEMMA CompleteRecord ==
    ASSUME NEW order, NEW full, Leaves(order, full), NEW i \in 1..Len(order),
           PlaceOf(i) + 8 <= Len(text), IsRecords(written)
    PROVE  ParseRecord(PlaceOf(i)) = ReadBack(written[order[i]])
  <1> PICK k \in Nat : k = PlaceOf(i)
    BY DEF PlaceOf, Leaves, IsOrder
  <1> PICK r : r = written[order[i]]
    OBVIOUS
  <1>1. PlaceOf(i) <= Len(text) /\ k + 8 <= Len(text) /\ Len(text) \in Nat /\ k >= 1
    BY CutKinds DEF PlaceOf
  <1>2. BodyEnd(k) = k + 8
    BY <1>1, RecordEnds
  <1>3. /\ \A j \in 1..7 : text[k + j] = Field(Fields[j], r[Fields[j]])
        /\ text[k + 8] = End
    <2>1. /\ \A j \in 1..7 : full[k + j] = Field(Fields[j], r[Fields[j]])
          /\ full[k + 8] = End
      BY DEF Leaves, IsLayout
    <2>2. \A j \in 1..7 : k + j \in 1..Len(text) /\ k + j < Len(text)
      BY ONLY <1>1, k \in Nat
    <2>3. k + 8 \in 1..Len(text)
      BY ONLY <1>1, k \in Nat
    <2>4. text[k + 8] = full[k + 8]
      <3>1. text[k + 8].kind = full[k + 8].kind
        BY <2>3, CutKinds
      <3>2. text[k + 8].kind # "field"
        BY <2>1, <3>1, Kinds
      <3> QED
        BY <2>3, <3>2, CutKinds
    <2>5. \A j \in 1..7 : text[k + j] = full[k + j]
      BY <2>2, CutKinds
    <2> QED
      BY ONLY <2>1, <2>4, <2>5
  <1>4. Body(k) = {text[k + j] : j \in 1..8}
    <2>1. Body(k) = {text[j] : j \in (k + 1)..(k + 8)}
      BY <1>2 DEF Body
    <2>2. \A j \in 1..8 : k + j \in (k + 1)..(k + 8)
      BY ONLY k \in Nat
    <2>3. \A j \in (k + 1)..(k + 8) : j - k \in 1..8 /\ k + (j - k) = j
      BY ONLY k \in Nat
    <2> QED
      BY ONLY <2>1, <2>2, <2>3
  <1>5. ASSUME NEW f \in Names PROVE ParseField(k, f) = Reading(f, r[f])
    <2>1. PICK j \in 1..7 : f = Fields[j]
      BY <1>5, FieldNames
    <2> DEFINE found == {t \in Body(k) : t.kind = "field" /\ t.name = f}
    <2>2. Field(f, r[f]) \in found
      <3>1. text[k + j] \in Body(k)
        <4>1. j \in 1..8
          BY ONLY j \in 1..7
        <4> QED
          BY ONLY <1>4, <4>1
      <3>2. text[k + j] = Field(f, r[f])
        BY ONLY <1>3, <2>1, j \in 1..7
      <3> QED
        BY ONLY <3>1, <3>2, Kinds
    <2>3. ASSUME NEW t \in found PROVE t = Field(f, r[f])
      <3>1. PICK h \in 1..8 : t = text[k + h]
        BY <1>4
      <3>2. h # 8
        BY <1>3, <3>1, Kinds
      <3>3. h \in 1..7
        BY ONLY <3>2, h \in 1..8
      <3>4. t = Field(Fields[h], r[Fields[h]])
        BY <1>3, <3>1, <3>3
      <3>5. Fields[h] = f
        BY <2>3, <3>4, Kinds
      <3> QED
        BY <3>4, <3>5
    <2>4. ParseField(k, f) = (CHOOSE t \in found : TRUE).value
      BY <2>2 DEF ParseField
    <2> HIDE DEF found
    <2>5. (CHOOSE t \in found : TRUE) = Field(f, r[f])
      BY <2>2, <2>3
    <2>6. Field(f, r[f]).value = Reading(f, r[f])
      BY Kinds
    <2> QED
      BY ONLY <2>4, <2>5, <2>6, Zenon
  <1>6. ParseRecord(k) = [f \in Names |-> ParseField(k, f)]
    <2>1. DOMAIN NoRecord = Names
      BY RecAssumption DEF Names
    <2> QED
      BY <2>1 DEF ParseRecord
  <1>7. r = [f \in Names |-> r[f]]
    BY DEF Leaves, IsOrder, IsRecords, IsRecord
  <1>8. ReadBack(r) = [f \in Names |-> Reading(f, r[f])]
    BY <1>7 DEF ReadBack
  <1> QED
    BY <1>5, <1>6, <1>8

\* A field that is read of a record is one of its own, or what is left of one.
LEMMA FieldRead ==
    ASSUME NEW order, NEW full, Leaves(order, full), NEW i \in 1..Len(order),
           PlaceOf(i) <= Len(text), NEW t \in Body(PlaceOf(i)), t.kind = "field"
    PROVE  \E f \in Names :
             \/ t = Field(f, written[order[i]][f])
             \/ \E c \in CutReadings(f, written[order[i]][f]) :
                  t = CutPart(Field(f, written[order[i]][f]), c)
  <1> PICK m \in Nat : m = Len(order)
    BY DEF Leaves, IsOrder
  <1> PICK n \in Nat : n = Len(text)
    BY CutKinds
  <1>1. PlaceOf(i) \in Nat /\ PlaceOf(i) >= 1 /\ n <= 9 * m + 2
    BY CutKinds DEF PlaceOf
  <1>2. BodyEnd(PlaceOf(i)) = IF PlaceOf(i) + 8 <= n THEN PlaceOf(i) + 8 ELSE n
    BY RecordEnds
  <1>3. PICK k \in (PlaceOf(i) + 1)..BodyEnd(PlaceOf(i)) : t = text[k]
    BY DEF Body
  <1>4. k \in 1..n /\ k \in 1..(9 * m + 2) /\ PlaceOf(i) < k /\ k <= PlaceOf(i) + 8
    BY ONLY <1>1, <1>2, <1>3, n \in Nat, m \in Nat
  <1>5. full[k].kind = "field"
    BY <1>3, <1>4, CutKinds
  <1>6. PICK h \in 1..m, j \in 1..7 :
          k = PlaceOf(h) + j /\ full[k] = Field(Fields[j], written[order[h]][Fields[j]])
    <2>1. k \in 1..(9 * Len(order) + 2)
      BY <1>4
    <2>2. \E h \in 1..Len(order), j \in 1..7 :
            k = PlaceOf(h) + j /\ full[k] = Field(Fields[j], written[order[h]][Fields[j]])
      <3>1. IsOrder(order, written) /\ IsLayout(full, written, order)
        BY DEF Leaves
      <3> QED
        BY ONLY <1>5, <2>1, <3>1, FieldTokens
    <2> QED
      BY ONLY <2>2, m = Len(order)
  <1>7. h = i
    <2>1. k = PlaceOf(h) + j
      BY ONLY <1>6
    <2>2. i \in 1..m /\ h \in 1..m /\ j \in 1..7
      BY m = Len(order)
    <2> QED
      BY ONLY <1>4, <2>1, <2>2, m \in Nat DEF PlaceOf
  <1>8. t = full[k] \/ \E c \in full[k].cuts : t = CutPart(full[k], c)
    BY <1>3, <1>4 DEF Leaves, CutOf
  <1>9. Fields[j] \in Names
    BY FieldNames
  <1>10. full[k].cuts = CutReadings(Fields[j], written[order[h]][Fields[j]])
    BY <1>6, Kinds
  <1> QED
    BY ONLY <1>6, <1>7, <1>8, <1>9, <1>10

\* What is read of a field is what it reads back as, or the default, or a number without
\* its last digits.
LEMMA ReadValue ==
    ASSUME NEW order, NEW full, Leaves(order, full), NEW i \in 1..Len(order),
           PlaceOf(i) <= Len(text), NEW f \in Names, NEW v, v = written[order[i]][f]
    PROVE  \/ ParseField(PlaceOf(i), f) \in {Reading(f, v), NoRecord[f]}
           \/ /\ f \in Coordinates \cup Counts
              /\ ParseField(PlaceOf(i), f) \in CutReadings(f, v)
  <1> DEFINE found == {t \in Body(PlaceOf(i)) : t.kind = "field" /\ t.name = f}
  <1>1. CASE found = {}
    BY <1>1 DEF ParseField
  <1>2. CASE found # {}
    <2> PICK t : t = CHOOSE u \in found : TRUE
      OBVIOUS
    <2>1. ParseField(PlaceOf(i), f) = t.value
      BY <1>2 DEF ParseField
    <2>2. t \in found
      BY <1>2
    <2>3. t \in Body(PlaceOf(i)) /\ t.kind = "field" /\ t.name = f
      BY <2>2
    <2> HIDE DEF found
    <2>4. PICK g \in Names :
            \/ t = Field(g, written[order[i]][g])
            \/ \E c \in CutReadings(g, written[order[i]][g]) :
                 t = CutPart(Field(g, written[order[i]][g]), c)
      BY <2>3, FieldRead
    <2>5. g = f
      <3> PICK w : w = written[order[i]][g]
        OBVIOUS
      <3>1. t.name = g
        <4>1. CASE t = Field(g, w)
          BY ONLY <4>1, Kinds
        <4>2. CASE \E c : t = CutPart(Field(g, w), c)
          BY ONLY <4>2, CutFacts
        <4> QED
          BY ONLY <2>4, <4>1, <4>2, w = written[order[i]][g]
      <3> QED
        BY ONLY <2>3, <3>1
    <2>6. CASE t = Field(f, v)
      <3>1. t.value = Reading(f, v)
        BY ONLY <2>6, Kinds
      <3> QED
        BY <2>1, <3>1
    <2>7. ASSUME NEW c \in CutReadings(f, v), t = CutPart(Field(f, v), c)
          PROVE  \/ ParseField(PlaceOf(i), f) = NoRecord[f]
                 \/ f \in Coordinates \cup Counts /\ ParseField(PlaceOf(i), f) = c
      <3>1. t.value = c
        BY ONLY <2>7, CutFacts
      <3>2. CASE f \in Flags
        <4>1. NoRecord[f] = FALSE
          BY <3>2, RecAssumption
        <4>2. CutReadings(f, v) = {FALSE}
          BY <3>2 DEF CutReadings, Flags, Coordinates, Counts
        <4> QED
          BY <2>1, <2>7, <3>1, <4>1, <4>2
      <3>3. CASE f = "clothing"
        <4>1. CutReadings(f, v) = {NoRecord[f]}
          BY ONLY <3>3 DEF CutReadings, Flags, Coordinates, Counts
        <4> QED
          BY <2>1, <2>7, <3>1, <4>1
      <3>4. CASE f \notin Flags /\ f # "clothing"
        <4>1. f \in Coordinates \cup Counts
          BY <3>4, NamesAre DEF Flags, Coordinates, Counts
        <4> QED
          BY <2>1, <3>1, <4>1
      <3> QED
        BY <3>2, <3>3, <3>4
    <2> QED
      BY <2>4, <2>5, <2>6, <2>7
  <1> QED
    BY <1>1, <1>2

-----------------------------------------------------------------------------
(* The invariant.                                                            *)

\* Of a file all may be left, or nothing.
LEMMA WholeIsCut ==
    ASSUME NEW rs, NEW order, IsOrder(order, rs), NEW full, IsLayout(full, rs, order)
    PROVE  CutOf(full, full) /\ CutOf(full, <<>>) /\ Len(full) = 9 * Len(order) + 2
  <1> PICK n \in Nat : n = 9 * Len(order) + 2
    BY DEF IsOrder
  <1>1. full = [k \in 1..n |-> full[k]]
    BY DEF IsLayout
  <1>2. Len(full) = n
    BY ONLY <1>1, n \in Nat
  <1>3. CutOf(full, full)
    BY ONLY <1>1, <1>2, n \in Nat DEF CutOf
  <1>4. CutOf(full, <<>>)
    BY ONLY <1>2, n \in Nat DEF CutOf
  <1> QED
    BY <1>2, <1>3, <1>4

\* The text is what is left of a file.
LEMMA TextLeaves ==
    ASSUME TextInv
    PROVE  \E order \in SetToSeqs(DOMAIN written) :
             /\ Leaves(order, Written(written, order))
             /\ whole => \/ text = Written(written, order)
                         \/ text = <<>> /\ written = <<>>
  <1>1. PICK order \in SetToSeqs(DOMAIN written) :
          /\ CutOf(Written(written, order), text)
          /\ whole => \/ text = Written(written, order)
                      \/ text = <<>> /\ written = <<>>
    BY DEF TextInv
  <1>2. IsOrder(order, written)
    BY OrderFacts DEF TextInv
  <1>3. IsLayout(Written(written, order), written, order)
    BY <1>2, WrittenLayout
  <1> QED
    BY <1>1, <1>2, <1>3 DEF Leaves

\* Whatever is left, records are read.
LEMMA LoadedAreRecords ==
    ASSUME IsRecords(written), NEW order, NEW full, Leaves(order, full)
    PROVE  IsRecords(LoadFromDisk)
  <1>1. \A i \in 1..Len(order) : OnFile[order[i]] \in Guid
    BY OnFileAssumption DEF Leaves, IsOrder, IsRecords
  <1>2. DOMAIN LoadFromDisk \subseteq Guid
    BY <1>1, LoadedRecords
  <1> QED
    BY <1>2, LoadedRecords DEF IsRecords

\* The invariant holds at the start and is kept by every step.
LEMMA InitText == TextInit => TextInv
  <1> SUFFICES ASSUME TextInit PROVE TextInv
    OBVIOUS
  <1>1. PICK known \in SUBSET Guid : written \in [known -> OldRec]
    BY DEF TextInit
  <1>2. IsRecords(written)
    BY <1>1, RecAssumption DEF IsRecords, IsRecord, Names
  <1>3. PICK order \in SetToSeqs(DOMAIN written) :
          text = IF written = <<>> THEN <<>> ELSE Written(written, order)
    BY DEF TextInit
  <1>4. IsOrder(order, written)
    BY <1>2, OrderFacts
  <1> PICK full : full = Written(written, order)
    OBVIOUS
  <1>5. IsLayout(full, written, order)
    BY <1>4, WrittenLayout
  <1>6. CutOf(full, text)
    BY <1>3, <1>4, <1>5, WholeIsCut
  <1>7. IsRecords(records)
    BY <1>2, <1>4, <1>5, <1>6, LoadedAreRecords DEF TextInit, Leaves
  <1> QED
    BY <1>2, <1>3, <1>6, <1>7 DEF TextInv

\* A change of one record.
LEMMA StoreKeeps ==
    ASSUME TextInv, NEW g \in Guid, NEW r, IsRecord(r), Store(g, r)
    PROVE  TextInv'
  <1>1. /\ records' = [h \in DOMAIN records \cup {g} |-> IF h = g THEN r ELSE records[h]]
        /\ UNCHANGED <<text, whole, written>>
    BY DEF Store
  <1>2. IsRecords(records')
    BY <1>1 DEF TextInv, IsRecords
  <1> QED
    BY <1>1, <1>2 DEF TextInv

\* The record a change begins from, and the fields by name.
LEMMA TouchedIsRecord ==
    ASSUME TextInv, NEW g
    PROVE  /\ IsRecord(Touched(g)) /\ DOMAIN Touched(g) = Names
           /\ {"hasPosition", "px", "py", "hasAppearance", "clothing", "kills", "deaths"}
                = Names
  <1>1. IsRecord(Touched(g))
    BY RecAssumption DEF TextInv, IsRecords, IsRecord, Names, Touched
  <1>2. DOMAIN Touched(g) = Names
    BY <1>1 DEF IsRecord
  <1>3. {"hasPosition", "px", "py", "hasAppearance", "clothing", "kills", "deaths"} = Names
    BY NamesAre
  <1> QED
    BY <1>1, <1>2, <1>3

\* A write that fails leaves a part of what it was to write.
LEMMA WriteFailsKeeps ==
    ASSUME TextInv, WriteFails
    PROVE  TextInv'
  <1>1. PICK order \in SetToSeqs(DOMAIN written) :
          /\ Leaves(order, Written(written, order))
          /\ whole => \/ text = Written(written, order)
                      \/ text = <<>> /\ written = <<>>
    BY TextLeaves
  <1> PICK full : full = Written(written, order)
    OBVIOUS
  <1>2. PICK n \in DOMAIN text : text' \in CutWithin(n)
    BY DEF WriteFails
  <1>3. whole /\ whole' = FALSE /\ UNCHANGED <<records, written>>
    BY DEF WriteFails
  <1>4. text = full /\ n \in 1..Len(full)
    <2>1. text # <<>>
      BY <1>2
    <2> QED
      BY <1>1, <1>2, <1>3, <2>1, CutKinds
  <1> PICK l \in Nat : l = Len(full)
    BY <1>1, <1>4, CutKinds
  <1>5. full = [k \in 1..l |-> full[k]] /\ n \in 1..l
    BY <1>1, <1>4 DEF Leaves, CutOf
  <1> PICK a : a = SubSeq(full, 1, n - 1)
    OBVIOUS
  <1>6. a = [k \in 1..(n - 1) |-> full[k]] /\ Len(a) = n - 1
    BY ONLY <1>5, l \in Nat, a = SubSeq(full, 1, n - 1)
  <1>7. CutOf(full, a)
    <2>1. \A k \in 1..(n - 1) : a[k] = full[k]
      BY ONLY <1>6
    <2>2. a = [k \in 1..(n - 1) |-> a[k]]
      BY ONLY <1>6, <2>1
    <2>3. n - 1 \in 0..l
      BY ONLY <1>5, l \in Nat
    <2> QED
      BY ONLY <1>6, <2>1, <2>2, <2>3, l = Len(full), Zenon DEF CutOf
  <1>8. ASSUME full[n].kind = "field", NEW v \in full[n].cuts
        PROVE  CutOf(full, a \o <<CutPart(full[n], v)>>)
    <2> PICK t : t = CutPart(full[n], v)
      OBVIOUS
    <2> PICK c : c = a \o <<t>>
      OBVIOUS
    <2> PICK M : M = {full[k] : k \in 1..l} \cup {t}
      OBVIOUS
    <2>2. a \in Seq(M) /\ Len(a) = n - 1
      <3>1. \A k \in 1..(n - 1) : a[k] = full[k] /\ k \in 1..l
        BY ONLY <1>5, <1>6, l \in Nat
      <3>2. \A k \in 1..(n - 1) : a[k] \in M
        BY ONLY <3>1, M = {full[k] : k \in 1..l} \cup {t}
      <3>3. a = [k \in 1..(n - 1) |-> a[k]]
        BY ONLY <1>6, <3>1
      <3>4. n - 1 \in Nat
        BY ONLY <1>5, l \in Nat
      <3> QED
        BY ONLY <3>2, <3>3, <3>4, FunctionIsSeq
    <2> PICK b : b = <<t>>
      OBVIOUS
    <2>3. b \in Seq(M) /\ Len(b) = 1 /\ b[1] = t
      BY ONLY b = <<t>>, M = {full[k] : k \in 1..l} \cup {t}
    <2>4. c \in Seq(M) /\ IsJoin(c, a, b)
      <3>1. c = a \o b
        BY ONLY c = a \o <<t>>, b = <<t>>
      <3> QED
        BY ONLY <2>2, <2>3, <3>1, ConcatParts
    <2>5. Len(c) = n /\ c[n] = t /\ \A k \in 1..(n - 1) : c[k] = full[k]
      <3>1. Len(c) = n
        BY ONLY <1>5, <2>2, <2>3, <2>4, l \in Nat DEF IsJoin
      <3>2. c[n] = t
        BY ONLY <1>5, <2>2, <2>3, <2>4, l \in Nat DEF IsJoin
      <3>3. \A k \in 1..(n - 1) : a[k] = full[k]
        BY ONLY <1>6
      <3> QED
        BY ONLY <2>2, <2>4, <3>1, <3>2, <3>3 DEF IsJoin
    <2>6. c = [k \in 1..Len(c) |-> c[k]]
      BY ONLY <2>4, SeqIsFunction
    <2>7. \A k \in 1..n : k = n \/ k \in 1..(n - 1)
      BY ONLY <1>5, l \in Nat
    <2>8. n \in 0..l
      BY ONLY <1>5, l \in Nat
    <2>9. CutOf(full, c)
      BY ONLY <1>8, <2>5, <2>6, <2>7, <2>8, t = CutPart(full[n], v), l = Len(full), Zenon
         DEF CutOf
    <2> QED
      BY <2>9
  <1>9. CutOf(full, text')
    <2>1. PICK rest \in {<<>>} \cup CutTokens(full[n]) : text' = a \o rest
      BY <1>2, <1>4 DEF CutWithin
    <2>2. CASE rest = <<>>
      <3>1. a \o <<>> = a
        BY ONLY <1>5, <1>6
      <3> QED
        BY <1>7, <2>1, <2>2, <3>1
    <2>3. CASE rest \in CutTokens(full[n])
      <3>1. full[n].kind = "field" /\ \E v \in full[n].cuts : rest = <<CutPart(full[n], v)>>
        BY <2>3 DEF CutTokens, CutPart
      <3> QED
        BY <1>8, <2>1, <3>1
    <2> QED
      BY <2>1, <2>2, <2>3
  <1> QED
    BY <1>3, <1>9 DEF TextInv

\* One step per operation.
LEMMA NextText == TextInv /\ [TextNext]_textVars => TextInv'
  <1> SUFFICES ASSUME TextInv, [TextNext]_textVars PROVE TextInv'
    OBVIOUS
  <1>1. ASSUME NEW g \in Guid, EnsureRecord(g) PROVE TextInv'
    BY <1>1, TouchedIsRecord, StoreKeeps DEF EnsureRecord
  <1>2. ASSUME NEW g \in Guid, UpsertPosition(g) PROVE TextInv'
    <2>1. PICK p \in Place :
            Store(g, [Touched(g) EXCEPT !.hasPosition = TRUE, !.px = p.px, !.py = p.py])
      BY <1>2 DEF UpsertPosition
    <2>2. IsRecord([Touched(g) EXCEPT !.hasPosition = TRUE, !.px = p.px, !.py = p.py])
      BY TouchedIsRecord DEF IsRecord
    <2> QED
      BY <2>1, <2>2, StoreKeeps
  <1>3. ASSUME NEW g \in Guid, UpsertAppearance(g) PROVE TextInv'
    <2>1. PICK l \in Look :
            Store(g, [Touched(g) EXCEPT !.hasAppearance = TRUE, !.clothing = l])
      BY <1>3 DEF UpsertAppearance
    <2>2. IsRecord([Touched(g) EXCEPT !.hasAppearance = TRUE, !.clothing = l])
      BY TouchedIsRecord DEF IsRecord
    <2> QED
      BY <2>1, <2>2, StoreKeeps
  <1>4. ASSUME NEW g \in Guid, RecordKill(g) PROVE TextInv'
    <2>1. IsRecord([Touched(g) EXCEPT !.kills = @ + 1])
      BY TouchedIsRecord DEF IsRecord
    <2> QED
      BY <1>4, <2>1, StoreKeeps DEF RecordKill
  <1>5. ASSUME NEW g \in Guid, RecordDeath(g) PROVE TextInv'
    <2>1. IsRecord([Touched(g) EXCEPT !.deaths = @ + 1])
      BY TouchedIsRecord DEF IsRecord
    <2> QED
      BY <1>5, <2>1, StoreKeeps DEF RecordDeath
  <1>6. CASE SaveRecords
    <2>1. PICK order \in SetToSeqs(DOMAIN records) : text' = Written(records, order)
      BY <1>6 DEF SaveRecords
    <2>2. whole' = TRUE /\ written' = records /\ records' = records
      BY <1>6 DEF SaveRecords
    <2>3. IsOrder(order, records)
      BY OrderFacts DEF TextInv
    <2>4. CutOf(Written(records, order), Written(records, order))
      BY <2>3, WrittenLayout, WholeIsCut
    <2> QED
      BY <2>1, <2>2, <2>4 DEF TextInv
  <1>7. CASE WriteFails
    BY <1>7, WriteFailsKeeps
  <1>8. CASE Load
    <2>1. records' = LoadFromDisk /\ UNCHANGED <<text, whole, written>>
      BY <1>8 DEF Load
    <2>2. IsRecords(LoadFromDisk)
      BY TextLeaves, LoadedAreRecords DEF TextInv
    <2> QED
      BY <2>1, <2>2 DEF TextInv
  <1>9. CASE UNCHANGED textVars
    BY <1>9 DEF textVars, TextInv
  <1> QED
    BY <1>1, <1>2, <1>3, <1>4, <1>5, <1>6, <1>7, <1>8, <1>9 DEF TextNext

\* Every reachable state satisfies the invariant.
LEMMA TextInvariance == TextSpec => []TextInv
  BY InitText, NextText, PTL DEF TextSpec

\* A file whose write did not fail restores everybody who was written to it, as the
\* record reads back, and nobody else; players whose names read back the same share one
\* record, which is one of theirs.
THEOREM WholeFilesRestore == TextSpec => []WholeFileRestores
  <1>1. TextInv => WholeFileRestores
    <2> SUFFICES ASSUME TextInv, whole
                 PROVE  /\ DOMAIN LoadFromDisk = {OnFile[g] : g \in DOMAIN written}
                        /\ \A n \in DOMAIN LoadFromDisk : \E g \in DOMAIN written :
                             OnFile[g] = n /\ LoadFromDisk[n] = ReadBack(written[g])
      BY DEF WholeFileRestores
    <2>1. PICK order \in SetToSeqs(DOMAIN written) :
            /\ Leaves(order, Written(written, order))
            /\ whole => \/ text = Written(written, order)
                        \/ text = <<>> /\ written = <<>>
      BY TextLeaves
    <2>2. IsRecords(written)
      BY DEF TextInv
    <2>3. /\ \A i \in 1..Len(order) : order[i] \in DOMAIN written
          /\ \A g \in DOMAIN written : \E i \in 1..Len(order) : order[i] = g
      BY <2>1 DEF Leaves, IsOrder
    <2>4. CASE text = Written(written, order)
      <3>1. Len(text) = 9 * Len(order) + 2 /\ Len(order) \in Nat
        BY <2>1, <2>4, WholeIsCut DEF Leaves, IsOrder
      <3>2. \A i \in 1..Len(order) : PlaceOf(i) <= Len(text) /\ PlaceOf(i) + 8 <= Len(text)
        BY ONLY <3>1 DEF PlaceOf
      <3>3. \A g \in DOMAIN written : OnFile[g] \in DOMAIN LoadFromDisk
        BY <2>1, <2>3, <3>2, LoadedRecords
      <3>4. \A n \in DOMAIN LoadFromDisk : \E g \in DOMAIN written :
              OnFile[g] = n /\ LoadFromDisk[n] = ReadBack(written[g])
        <4> TAKE n \in DOMAIN LoadFromDisk
        <4>1. PICK i \in 1..Len(order) :
                n = OnFile[order[i]] /\ LoadFromDisk[n] = ParseRecord(PlaceOf(i))
          BY <2>1, LoadedRecords
        <4>2. ParseRecord(PlaceOf(i)) = ReadBack(written[order[i]])
          BY <2>1, <2>2, <3>2, CompleteRecord
        <4>3. order[i] \in DOMAIN written
          BY <2>3
        <4> QED
          BY <4>1, <4>2, <4>3
      <3> QED
        BY <3>3, <3>4
    <2>5. CASE text = <<>> /\ written = <<>>
      <3>1. DOMAIN written = {}
        BY <2>5
      <3>2. \A n \in DOMAIN LoadFromDisk : \E i \in 1..Len(order) : n = OnFile[order[i]]
        BY <2>1, LoadedRecords
      <3> QED
        BY <2>3, <3>1, <3>2
    <2> QED
      BY <2>1, <2>4, <2>5
  <1> QED
    BY <1>1, TextInvariance, PTL

\* Of a file that a failed write cut short, every record that is all there is read as it
\* reads back, and nobody is read who was not written; of the last one each field is
\* read as it reads back or as the default, or is a number without its last digits.
THEOREM CutsLoseOnlyTheTail == TextSpec => []CutLosesOnlyTheTail
  <1>1. TextInv => CutLosesOnlyTheTail
    <2> SUFFICES ASSUME TextInv PROVE CutLosesOnlyTheTail
      OBVIOUS
    <2>1. PICK order \in SetToSeqs(DOMAIN written) : Leaves(order, Written(written, order))
      BY TextLeaves
    <2>2. IsRecords(written) /\ \A i \in 1..Len(order) : order[i] \in DOMAIN written
      BY <2>1 DEF TextInv, Leaves, IsOrder
    <2>3. ASSUME NEW k \in RecordStarts, text[BodyEnd(k)] = End
          PROVE  \E g \in DOMAIN written :
                   /\ OnFile[g] = text[k].guid
                   /\ LoadFromDisk[text[k].guid] = ReadBack(written[g])
      <3>1. PICK i \in 1..Len(order) : k = PlaceOf(i) /\ PlaceOf(i) <= Len(text)
        BY <2>1, StartsLeft
      <3>2. text[k].guid = OnFile[order[i]] /\ text[k].guid \in DOMAIN LoadFromDisk
        BY <2>1, <3>1, StartsLeft, LoadedRecords
      <3>3. PlaceOf(i) + 8 <= Len(text)
        BY <2>1, <2>3, <3>1, RecordEnds
      <3>4. PICK a \in 1..Len(order) :
              /\ text[k].guid = OnFile[order[a]] /\ a <= i
              /\ LoadFromDisk[text[k].guid] = ParseRecord(PlaceOf(a))
        BY <2>1, <3>1, <3>2, LoadedRecords
      <3>5. PlaceOf(a) + 8 <= Len(text)
        <4>1. Len(text) \in Nat
          BY <2>1, CutKinds
        <4> QED
          BY ONLY <3>3, <3>4, <4>1, i \in 1..Len(order), a \in 1..Len(order) DEF PlaceOf
      <3>6. ParseRecord(PlaceOf(a)) = ReadBack(written[order[a]])
        BY <2>1, <2>2, <3>5, CompleteRecord
      <3>7. order[a] \in DOMAIN written
        BY <2>2
      <3> QED
        BY <3>4, <3>6, <3>7
    <2>4. ASSUME NEW n \in DOMAIN LoadFromDisk
          PROVE  \E g \in DOMAIN written :
                   /\ OnFile[g] = n
                   /\ \A f \in DOMAIN NoRecord :
                        \/ LoadFromDisk[n][f] \in {Reading(f, written[g][f]), NoRecord[f]}
                        \/ /\ f \in Coordinates \cup Counts
                           /\ LoadFromDisk[n][f] \in CutReadings(f, written[g][f])
      <3>1. PICK i \in 1..Len(order) :
              /\ n = OnFile[order[i]] /\ PlaceOf(i) <= Len(text)
              /\ LoadFromDisk[n] = ParseRecord(PlaceOf(i))
        BY <2>1, LoadedRecords
      <3>2. ASSUME NEW f \in DOMAIN NoRecord
            PROVE  \/ LoadFromDisk[n][f] \in {Reading(f, written[order[i]][f]), NoRecord[f]}
                   \/ /\ f \in Coordinates \cup Counts
                      /\ LoadFromDisk[n][f] \in CutReadings(f, written[order[i]][f])
        <4>1. LoadFromDisk[n][f] = ParseField(PlaceOf(i), f)
          BY <3>1 DEF ParseRecord
        <4>2. f \in Names
          BY RecAssumption DEF Names
        <4> QED
          BY <2>1, <3>1, <4>1, <4>2, ReadValue
      <3>3. order[i] \in DOMAIN written
        BY <2>2
      <3> QED
        BY <3>1, <3>2, <3>3
    <2> QED
      BY <2>3, <2>4 DEF CutLosesOnlyTheTail
  <1> QED
    BY <1>1, TextInvariance, PTL
=============================================================================
