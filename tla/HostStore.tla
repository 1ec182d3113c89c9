----------------------------- MODULE HostStore ------------------------------
(***************************************************************************)
(* The host's persistence (HostStore.cpp): the worker changes the records   *)
(* in memory and sometimes flushes them itself, a flush thread saves them   *)
(* in the background, and the process may die between any two steps.        *)
(*                                                                          *)
(* What the records say is HostRelay.tla's business.  Here the contents of  *)
(* memory and of the two files are versions: the number of changes made.    *)
(* The plugin runs on Windows: a rename fails while the target exists or    *)
(* the file is open elsewhere.  A run goes from Start to Stop or to a       *)
(* crash; what the next Start loads is the live file it leaves.             *)
(***************************************************************************)
EXTENDS Integers, FiniteSetsExt

CONSTANTS
    SavedBefore,   \* TRUE: there is a save file when the store starts
    MaxVersion     \* bound: the changes made to the records

ASSUME SavedBeforeAssumption == SavedBefore \in BOOLEAN
ASSUME MaxVersionAssumption == MaxVersion \in Nat

VARIABLES
    current,       \* the version of s_records
    dirty,         \* s_dirty
    running,       \* s_running
    stopping,      \* the worker is in Stop
    pc,            \* where each thread is
    snap,          \* the last snapshot each thread took
    tmp,           \* the temporary file, which both threads share
    live,          \* the save file
    failed,        \* history: some file operation failed
    overlapped     \* history: two saves were in progress at once

memoryVars  == <<current, dirty>>
controlVars == <<running, stopping>>
fileVars    == <<tmp, live>>
historyVars == <<failed, overlapped>>
storeVars   == <<memoryVars, controlVars, pc, snap, fileVars, historyVars>>

Worker == "worker"
Flusher == "flusher"
Thread == {Worker, Flusher}
Other(t) == IF t = Worker THEN Flusher ELSE Worker

\* What a file holds: a version; nothing yet; a mixture or a part; or no file.
Version == 0..MaxVersion
Blank == -1
Torn == -2
NoFile == -3
File == Version \cup {Blank, Torn, NoFile}

\* "ready": the worker between two calls, the flush thread in its wait.
\* "checked": it found s_dirty set.  "joining": the worker waits in Stop for the
\* flush thread.  "done": it has ended.  The rest are the stages of a save.
Stage == {"snapped", "opened", "written", "removed"}
Saving(t) == pc[t] \in Stage
Crashed == pc[Worker] = "dead"

-----------------------------------------------------------------------------
\* Start: the records are what the save file holds, and clean.  A temporary file
\* may be left from a session that crashed.
Init ==
    /\ current = 0
    /\ dirty = FALSE
    /\ running = TRUE
    /\ stopping = FALSE
    /\ pc = [t \in Thread |-> "ready"]
    /\ snap = [t \in Thread |-> 0]
    /\ tmp \in {NoFile, Torn}
    /\ live = IF SavedBefore THEN 0 ELSE NoFile
    /\ failed = FALSE
    /\ overlapped = FALSE

\* The worker changes a record: Upsert*, Record*, EnsureRecord of a new GUID.
Change ==
    /\ pc[Worker] = "ready" /\ ~stopping
    /\ current < MaxVersion
    /\ current' = current + 1
    /\ dirty' = TRUE
    /\ UNCHANGED <<controlVars, pc, snap, fileVars, historyVars>>

-----------------------------------------------------------------------------
(* Where a thread goes on after a flush or a save.                           *)

\* The worker returns to its caller, or in Stop tells the flush thread to exit
\* and waits for it.  The flush thread waits again while the store is running.
Return(t) ==
    IF t = Worker
    THEN /\ pc' = [pc EXCEPT ![t] = IF stopping THEN "joining" ELSE "ready"]
         /\ running' = (running /\ ~stopping)
    ELSE /\ pc' = [pc EXCEPT ![t] = IF running THEN "ready" ELSE "done"]
         /\ UNCHANGED running

\* needSave: the flag is read under the lock, and acted on after it.
CheckDirty(t) ==
    /\ \/ dirty /\ pc' = [pc EXCEPT ![t] = "checked"] /\ UNCHANGED running
       \/ ~dirty /\ Return(t)
    /\ UNCHANGED <<memoryVars, snap, fileVars, historyVars>>

\* FlushNow, when a client left.
FlushNow ==
    /\ pc[Worker] = "ready" /\ ~stopping
    /\ CheckDirty(Worker)
    /\ UNCHANGED stopping

\* Stop begins with a FlushNow.
Stop ==
    /\ pc[Worker] = "ready" /\ ~stopping
    /\ stopping' = TRUE
    /\ \/ dirty /\ pc' = [pc EXCEPT ![Worker] = "checked"] /\ UNCHANGED running
       \/ ~dirty /\ pc' = [pc EXCEPT ![Worker] = "joining"] /\ running' = FALSE
    /\ UNCHANGED <<memoryVars, snap, fileVars, historyVars>>

\* The flush thread's interval elapsed or it was told to stop.
FlusherWakes_Forgetful ==
    /\ pc[Flusher] = "ready"
    /\ Return(Flusher)
    /\ UNCHANGED <<memoryVars, stopping, snap, fileVars, historyVars>>
FlusherWakes ==
    /\ pc[Flusher] = "ready"
    /\ CheckDirty(Flusher)
    /\ UNCHANGED stopping

\* The flush thread has exited: Stop returns.
Join_NoWait ==
    /\ pc[Worker] = "joining"
    /\ pc' = [pc EXCEPT ![Worker] = "done"]
    /\ UNCHANGED <<memoryVars, controlVars, snap, fileVars, historyVars>>
Join ==
    /\ pc[Worker] = "joining" /\ pc[Flusher] = "done"
    /\ pc' = [pc EXCEPT ![Worker] = "done"]
    /\ UNCHANGED <<memoryVars, controlVars, snap, fileVars, historyVars>>

-----------------------------------------------------------------------------
(* SaveToDiskLocked, which no lock keeps to one thread.                      *)

Goto(t, stage) == pc' = [pc EXCEPT ![t] = stage] /\ UNCHANGED running

\* Under the lock: copy the records and clear the flag.
Snapshot(t) ==
    /\ pc[t] = "checked"
    /\ snap' = [snap EXCEPT ![t] = current]
    /\ dirty' = FALSE
    /\ overlapped' = (overlapped \/ Saving(Other(t)))
    /\ Goto(t, "snapped")
    /\ UNCHANGED <<current, stopping, fileVars, failed>>

\* Open the temporary file, truncating it; a failure ends the save.
Open_InPlace(t) ==
    /\ pc[t] = "snapped"
    /\ live' = Blank
    /\ Goto(t, "opened")
    /\ UNCHANGED <<memoryVars, stopping, snap, tmp, historyVars>>
Open_RemovesFirst(t) ==
    /\ pc[t] = "snapped"
    /\ tmp' = Blank /\ live' = NoFile
    /\ Goto(t, "opened")
    /\ UNCHANGED <<memoryVars, stopping, snap, historyVars>>
Open(t) ==
    /\ pc[t] = "snapped"
    /\ \/ Goto(t, "opened") /\ tmp' = Blank /\ UNCHANGED failed
       \/ Return(t) /\ failed' = TRUE /\ UNCHANGED tmp
    /\ UNCHANGED <<memoryVars, stopping, snap, live, overlapped>>

\* Write and close it.  Over another thread's text the result may be a mixture;
\* a write that fails leaves a part, and nothing checks it.
Write(t) ==
    /\ pc[t] = "opened"
    /\ \/ tmp' = snap[t] /\ UNCHANGED failed
       \/ tmp # Blank /\ tmp' = Torn /\ UNCHANGED failed
       \/ tmp' = Torn /\ failed' = TRUE
    /\ Goto(t, "written")
    /\ UNCHANGED <<memoryVars, stopping, snap, live, overlapped>>

\* Remove the save file, if it can be.
RemoveLive_Skipped(t) ==
    /\ pc[t] = "written"
    /\ Goto(t, "removed")
    /\ UNCHANGED <<memoryVars, stopping, snap, fileVars, historyVars>>
RemoveLive(t) ==
    /\ pc[t] = "written"
    /\ \/ live' = NoFile /\ UNCHANGED failed
       \/ live # NoFile /\ failed' = TRUE /\ UNCHANGED live
    /\ Goto(t, "removed")
    /\ UNCHANGED <<memoryVars, stopping, snap, tmp, overlapped>>

\* Rename the temporary file into its place; an error is only logged.
CanRename(t) == tmp # NoFile /\ live = NoFile /\ pc[Other(t)] # "opened"

Rename_ClearsFlag(t) ==
    /\ pc[t] = "removed"
    /\ CanRename(t)
    /\ live' = tmp /\ tmp' = NoFile
    /\ dirty' = FALSE
    /\ Return(t)
    /\ UNCHANGED <<current, stopping, snap, historyVars>>
Rename(t) ==
    /\ pc[t] = "removed"
    /\ \/ CanRename(t) /\ live' = tmp /\ tmp' = NoFile /\ UNCHANGED failed
       \/ UNCHANGED fileVars /\ failed' = (failed \/ CanRename(t))
    /\ Return(t)
    /\ UNCHANGED <<memoryVars, stopping, snap, overlapped>>

-----------------------------------------------------------------------------
\* The host's process dies; the files stay as they are.
Crash ==
    /\ ~Crashed
    /\ pc' = [t \in Thread |-> "dead"]
    /\ UNCHANGED <<memoryVars, controlVars, snap, fileVars, historyVars>>

Save(t) == Snapshot(t) \/ Open(t) \/ Write(t) \/ RemoveLive(t) \/ Rename(t)

Next ==
    \/ Change
    \/ FlushNow
    \/ Stop
    \/ Join
    \/ FlusherWakes
    \/ \E t \in Thread : Save(t)
    \/ Crash

Spec == Init /\ [][Next]_storeVars

\* The flush thread's wait ends every 15 seconds at the latest, and a thread that
\* is in a save goes on with it.
FairSpec ==
    /\ Spec
    /\ WF_storeVars(FlusherWakes)
    /\ \A t \in Thread : WF_storeVars(Save(t))

-----------------------------------------------------------------------------
(* Properties.                                                               *)

\* Every variable holds a value of its type: the files hold a version, a part, or
\* nothing, and a thread is at one of the points of FlushNow, Stop or a save.
StoreTypeOK ==
    /\ current \in Version
    /\ dirty \in BOOLEAN /\ running \in BOOLEAN /\ stopping \in BOOLEAN
    /\ failed \in BOOLEAN /\ overlapped \in BOOLEAN
    /\ pc \in [Thread -> Stage \cup {"ready", "checked", "joining", "done", "dead"}]
    /\ snap \in [Thread -> Version]
    /\ tmp \in File
    /\ live \in File

\* "changes made DURING the write mark the store dirty again": while the flag is
\* clear, the latest version is one that some thread has taken to save, however
\* the threads interleave.
CleanMeansTaken == ~dirty => \E t \in Thread : snap[t] = current

\* The save file is up to date; there may be none while there is nothing in it.
UpToDate == live = current \/ (live = NoFile /\ current = 0)

\* The flag is clear and no save is in progress.
AtRest == ~Crashed /\ ~dirty /\ \A t \in Thread : ~Saving(t)

\* Once the flag is clear and no save is in progress, the save file holds the
\* latest version, provided that no file operation failed and that no two saves
\* were in progress at once.
SavedWhenClean ==
    (AtRest /\ ~failed /\ ~overlapped) => UpToDate

\* "Write to a temp file then rename": whenever the process dies, the save file
\* is absent or holds a whole version and never a part, on the same proviso.
NeverTorn == (~failed /\ ~overlapped) => live \in Version \cup {NoFile}

\* The save file is gone between its removal and the rename, and for good if the
\* process dies there.  Whenever there is none although there was one at the start,
\* the temporary file holds the records whole, as of the last snapshot any thread
\* took: nothing is lost but the name under which Load looks for it.  On the same
\* proviso.
Newest(v) == (\E t \in Thread : v = snap[t]) /\ (\A t \in Thread : snap[t] <= v)

CopyRemains ==
    (SavedBefore /\ live = NoFile /\ ~failed /\ ~overlapped) => Newest(tmp)

\* "Flush any pending changes and stop the background thread": when Stop returns
\* the flush thread has ended and nothing is left unsaved, on the same proviso.
StopSavesEverything ==
    (pc[Worker] = "done" /\ ~failed /\ ~overlapped) =>
        pc[Flusher] = "done" /\ ~dirty /\ UpToDate

\* Every change is taken to be saved sooner or later unless the process dies.
DirtyIsTaken == dirty ~> (~dirty \/ Crashed)

-----------------------------------------------------------------------------
(* What comments of the code say of the program and the code does not do.    *)

\* SaveToDiskLocked: "Write to a temp file then rename, so an interrupted write
\* can't corrupt the live file": with a save file there at the start, a crash
\* during a single save whose operations all succeed leaves one.
CrashKeepsFile ==
    (SavedBefore /\ Crashed /\ ~failed /\ ~overlapped) => live # NoFile

\* SaveToDiskLocked: a change made during the write is "picked up next flush
\* rather than being lost": when the store is clean and at rest, and no operation
\* failed, the save file is up to date, two saves at once or not.
NoChangeIsLost ==
    (AtRest /\ ~failed) => UpToDate

\* HostStore.hpp on FlushNow: "so a crash after this point still keeps the latest
\* state".  FlushNow returns at once when it finds the flag clear, so the save file
\* must then be up to date whenever the worker could call it.
FlushNowKeepsLatest ==
    (pc[Worker] = "ready" /\ ~stopping /\ ~dirty /\ ~failed /\ ~overlapped) => UpToDate
=============================================================================
