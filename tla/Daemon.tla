------------------------------- MODULE Daemon -------------------------------
(***************************************************************************)
(* The daemon of src/daemon.rs with the folder watcher of                  *)
(* src/watch/local.rs: one loop that runs a sync cycle at every tick of    *)
(* the interval and after every burst of file events, until a signal stops *)
(* it, and a thread that turns what happens in the folder into events.     *)
(*                                                                         *)
(* A cycle is reduced to what the loop can see of it: it reads the records *)
(* and the disk, writes files and records path by path, and saves the      *)
(* records.  SyncCycle says what the tasks do.                             *)
(*                                                                         *)
(* Abstractions.                                                           *)
(*  - A file changed on both sides is uploaded, and other devices remove   *)
(*    nothing: SyncCycle has the conflicts and the deletions.              *)
(*  - A stamp stands for a file's content and modification time; every     *)
(*    change and every rename gives a new one, 0 is no file.               *)
(*  - The loop ignores what an event says, so the channel is a number.     *)
(*  - The debouncer keeps a set of events: it merges equal ones.           *)
(*  - Hidden stands for any name to_relative refuses: *.part, .trash/,     *)
(*    .oxidrive/, .index/.                                                 *)
(***************************************************************************)
EXTENDS Integers, Sequences, FiniteSets

CONSTANTS
  Paths,       \* relative paths
  Hidden,      \* a name the watcher does not report
  Capacity,    \* of the event channel (256)
  Loads,       \* is drive_folder_id set?  Else no cycle loads the records.
  MaxChanges,  \* changes users and other devices make
  MaxFaults    \* failed cycles and tasks, lost events, dead threads, kills

ASSUME HiddenAssumption == Hidden \notin Paths
ASSUME CapacityAssumption == Capacity \in Nat \ {0}
ASSUME LoadsAssumption == Loads \in BOOLEAN
ASSUME BoundsAssumption == MaxChanges \in Nat /\ MaxFaults \in Nat

VARIABLES
  disk,      \* disk[p]: the stamp of the local file
  incoming,  \* incoming[p]: a stamp another device left on Drive, 0 if none
  redb,      \* redb[p]: the stamp of the saved record
  (******************************** the loop *******************************)
  pc,        \* where the loop stands
  first,     \* is this the cycle before the loop?
  signalled, \* has the process received SIGINT or SIGTERM?
  listening, \* ~watcher_stopped
  mem,       \* mem[p]: the record in the in-memory store
  scanned,   \* scanned[p]: the local file as scanned
  fetched,   \* fetched[p]: incoming[p] as fetched
  left,      \* paths whose task has not run
  (******************************* the watcher *****************************)
  watcher,   \* what the thread does
  raw,       \* native: events not yet mapped
  known,     \* polling: the folder as last polled
  sending,   \* polling: paths whose event is not yet sent
  queued,    \* events in the channel
  (********************************* ghosts ********************************)
  unheard,   \* paths whose last change no event will announce
  loaded,    \* has a cycle of this process loaded the records?
  changes, faults

folderVars == <<disk, incoming>>
cycleVars == <<mem, scanned, fetched, left>>
watcherVars == <<watcher, raw, known, sending>>
boundVars == <<changes, faults>>
vars == <<folderVars, redb, pc, first, signalled, listening, cycleVars,
          watcherVars, queued, unheard, loaded, boundVars>>

-----------------------------------------------------------------------------

Stamps == 0..(MaxChanges + 1)
NoFiles == [p \in Paths |-> 0]
Names == Paths \cup {Hidden}
Events == {<<p>> : p \in Paths} \cup (Names \X Names)
CyclePhases == {"load", "scan", "apply"}

TypeOK ==
  /\ disk \in [Paths -> Stamps]
  /\ incoming \in [Paths -> Stamps]
  /\ redb \in [Paths -> Stamps]
  /\ pc \in {"starting", "select", "settling", "stopping", "stopped"}
              \cup CyclePhases
  /\ first \in BOOLEAN /\ signalled \in BOOLEAN /\ listening \in BOOLEAN
  /\ mem \in [Paths -> Stamps]
  /\ scanned \in [Paths -> Stamps]
  /\ fetched \in [Paths -> Stamps]
  /\ left \in SUBSET Paths
  /\ watcher \in {"off", "spawned", "native", "polling", "dead"}
  /\ raw \in SUBSET Events
  /\ known \in [Paths -> Stamps]
  /\ sending \in SUBSET Paths
  /\ queued \in 0..Capacity
  /\ unheard \in SUBSET Paths /\ loaded \in BOOLEAN
  /\ changes \in 0..MaxChanges /\ faults \in 0..MaxFaults

\* The daemon starts on a folder some earlier run has left in any state.
Init ==
  /\ disk \in [Paths -> {0, 1}]
  /\ redb \in [Paths -> {0, 1}]
  /\ incoming = NoFiles
  /\ pc = "load" /\ first = TRUE
  /\ signalled = FALSE /\ listening = TRUE
  /\ mem = NoFiles /\ scanned = NoFiles /\ fetched = NoFiles /\ left = {}
  /\ watcher = "off" /\ raw = {} /\ known = NoFiles /\ sending = {}
  /\ queued = 0 /\ unheard = {} /\ loaded = FALSE /\ changes = 0 /\ faults = 0

-----------------------------------------------------------------------------
(* What the watcher hears.                                                 *)

PathsOf(ev) == {ev[i] : i \in DOMAIN ev} \cap Paths

\* map_event: a rename is reported if both its names are.
Mapped(ev) == \A i \in DOMAIN ev : ev[i] # Hidden

\* Of the paths in ev, those no event will announce once the folder is files:
\* all of them without a watcher, and between two polls those that are again
\* as they were at the last one.
Unannounced(files, ev) ==
  CASE watcher = "native" -> {}
    [] watcher = "polling" -> {p \in PathsOf(ev) : files[p] = known[p]}
    [] OTHER -> PathsOf(ev)

\* The folder becomes files, and the kernel says so in ev.
ChangeFolder(files, ev) ==
  /\ disk' = files
  /\ raw' = IF watcher = "native" THEN raw \cup {ev} ELSE raw
  /\ unheard' = unheard \cup Unannounced(files, ev)

\* Of these paths, those whose record is not the disk's, or may not stay so.
Stale(paths) ==
  {p \in paths : disk[p] # redb[p] \/ disk[p] # mem[p] \/ p \in left}

-----------------------------------------------------------------------------
(* Users and other devices.                                                *)

NewStamp ==
  /\ changes < MaxChanges
  /\ changes' = changes + 1

Elsewhere == UNCHANGED <<redb, pc, first, signalled, listening, cycleVars,
                         watcher, known, sending, queued, loaded, faults>>

UserWrite(p) ==
  /\ NewStamp
  /\ ChangeFolder([disk EXCEPT ![p] = changes' + 1], <<p>>)
  /\ UNCHANGED incoming
  /\ Elsewhere

UserRemove(p) ==
  /\ disk[p] # 0
  /\ NewStamp
  /\ ChangeFolder([disk EXCEPT ![p] = 0], <<p>>)
  /\ UNCHANGED incoming
  /\ Elsewhere

\* A rename inside the folder, perhaps from or to a name nobody reports.
UserRename(from, to) ==
  /\ from # to
  /\ from \in Paths => disk[from] # 0
  /\ NewStamp
  /\ ChangeFolder([p \in Paths |-> CASE p = from -> 0
                                     [] p = to -> changes' + 1
                                     [] OTHER -> disk[p]], <<from, to>>)
  /\ UNCHANGED incoming
  /\ Elsewhere

OtherDevice(p) ==
  /\ NewStamp
  /\ incoming' = [incoming EXCEPT ![p] = changes' + 1]
  /\ UNCHANGED <<disk, raw, unheard>>
  /\ Elsewhere

-----------------------------------------------------------------------------
(* The watcher thread.                                                     *)

ThreadStep == UNCHANGED <<folderVars, redb, pc, first, signalled, listening,
                          cycleVars, loaded, changes>>

\* try_native_watcher, which may fail, and run_polling_watcher.
Watch(how) ==
  /\ watcher = "spawned"
  /\ watcher' = how
  /\ known' = IF how = "polling" THEN disk ELSE known
  /\ UNCHANGED <<raw, sending, queued, unheard, faults>>
  /\ ThreadStep

\* One event of the debouncer: sent when the channel has room, if mapped.
Forward(ev) ==
  /\ watcher = "native" /\ ev \in raw
  /\ raw' = raw \ {ev}
  /\ IF Mapped(ev)
     THEN /\ queued < Capacity
          /\ queued' = queued + 1
          /\ UNCHANGED unheard
     ELSE /\ unheard' = unheard \cup Stale(PathsOf(ev))
          /\ UNCHANGED queued
  /\ UNCHANGED <<watcher, known, sending, faults>>
  /\ ThreadStep

\* Wrong: the folder is never remembered.
PollForgetful ==
  /\ watcher = "polling" /\ sending = {} /\ known # disk
  /\ sending' = {p \in Paths : known[p] # disk[p]}
  /\ UNCHANGED <<watcher, known, raw, queued, unheard, faults>>
  /\ ThreadStep

\* The whole folder is compared with what it was at the last poll.
Poll ==
  /\ watcher = "polling" /\ sending = {} /\ known # disk
  /\ sending' = {p \in Paths : known[p] # disk[p]}
  /\ known' = disk
  /\ UNCHANGED <<watcher, raw, queued, unheard, faults>>
  /\ ThreadStep

\* Wrong: the channel takes any number of events.
SendPolledUnbounded(p) ==
  /\ watcher = "polling" /\ p \in sending
  /\ sending' = sending \ {p}
  /\ queued' = queued + 1
  /\ UNCHANGED <<watcher, raw, known, unheard, faults>>
  /\ ThreadStep

SendPolled(p) ==
  /\ watcher = "polling" /\ p \in sending
  /\ queued < Capacity
  /\ sending' = sending \ {p}
  /\ queued' = queued + 1
  /\ UNCHANGED <<watcher, raw, known, unheard, faults>>
  /\ ThreadStep

\* The debouncer reports an error, or that the kernel dropped events: both are
\* logged or ignored, and what they were about is not looked up.
LoseEvents ==
  /\ watcher = "native" /\ raw # {}
  /\ faults < MaxFaults
  /\ faults' = faults + 1
  /\ raw' = {}
  /\ unheard' = unheard \cup Stale(UNION {PathsOf(ev) : ev \in raw})
  /\ UNCHANGED <<watcher, known, sending, queued>>
  /\ ThreadStep

\* The thread ends and drops its end of the channel.
ThreadDies ==
  /\ watcher \in {"spawned", "native", "polling"}
  /\ faults < MaxFaults
  /\ faults' = faults + 1
  /\ watcher' = "dead"
  /\ raw' = {} /\ sending' = {}
  /\ unheard' = unheard \cup Stale(Paths)
  /\ UNCHANGED <<known, queued>>
  /\ ThreadStep

-----------------------------------------------------------------------------
(* The cycle.                                                              *)

LoopStep == UNCHANGED <<signalled, loaded, changes>>

\* Back to the loop, or on to it after the first cycle.
EndCycle ==
  /\ pc' = IF first THEN "starting" ELSE "select"
  /\ scanned' = NoFiles /\ fetched' = NoFiles /\ left' = {}

\* A failed cycle is logged and that is all: the next trigger tries again.
CycleFails ==
  /\ unheard' = unheard \cup Stale(Paths)
  /\ EndCycle
  /\ UNCHANGED <<folderVars, redb, first, listening, mem, watcherVars, queued>>
  /\ LoopStep

\* Wrong: the records are not read.
LoadFromRedbNever ==
  /\ pc = "load" /\ Loads
  /\ loaded' = TRUE
  /\ pc' = "scan"
  /\ UNCHANGED <<folderVars, redb, first, listening, cycleVars,
                 watcherVars, queued, unheard, signalled, boundVars>>

\* run_sync_incremental before the scan: without a folder id it ends here.
LoadFromRedb ==
  /\ pc = "load" /\ Loads
  /\ mem' = redb
  /\ loaded' = TRUE
  /\ pc' = "scan"
  /\ UNCHANGED <<folderVars, redb, first, listening, scanned, fetched, left,
                 watcherVars, queued, unheard, signalled, boundVars>>

\* With a folder id, only redb can fail.
LoadFails ==
  /\ pc = "load"
  /\ IF Loads THEN faults < MaxFaults /\ faults' = faults + 1
              ELSE UNCHANGED faults
  /\ CycleFails

ScanAndFetch ==
  /\ pc = "scan"
  /\ scanned' = disk
  /\ fetched' = incoming
  /\ left' = Paths
  /\ pc' = "apply"
  /\ UNCHANGED <<folderVars, redb, first, listening, mem, watcherVars, queued,
                 unheard, faults>>
  /\ LoopStep

\* The task of p uploads what was scanned, or takes the deletion over.
Upload(p) ==
  /\ pc = "apply" /\ p \in left
  /\ fetched[p] = 0 \/ scanned[p] # mem[p]
  /\ left' = left \ {p}
  /\ mem' = [mem EXCEPT ![p] = scanned[p]]
  /\ incoming' = [incoming EXCEPT ![p] = IF @ = fetched[p] THEN 0 ELSE @]
  /\ UNCHANGED <<disk, redb, pc, first, listening, scanned, fetched,
                 watcherVars, queued, unheard, faults>>
  /\ LoopStep

\* The task of p downloads to a .part file and renames it.
Download(p) ==
  /\ pc = "apply" /\ p \in left
  /\ fetched[p] # 0 /\ scanned[p] = mem[p]
  /\ left' = left \ {p}
  /\ mem' = [mem EXCEPT ![p] = fetched[p]]
  /\ ChangeFolder([disk EXCEPT ![p] = fetched[p]], <<Hidden, p>>)
  /\ incoming' = [incoming EXCEPT ![p] = IF @ = fetched[p] THEN 0 ELSE @]
  /\ UNCHANGED <<redb, pc, first, listening, scanned, fetched, watcher, known,
                 sending, queued, faults>>
  /\ LoopStep

TaskFails(p) ==
  /\ pc = "apply" /\ p \in left
  /\ faults < MaxFaults
  /\ faults' = faults + 1
  /\ left' = left \ {p}
  /\ unheard' = unheard \cup Stale({p})
  /\ UNCHANGED <<folderVars, redb, pc, first, listening, mem, scanned, fetched,
                 watcherVars, queued>>
  /\ LoopStep

\* Wrong: events that came during the cycle go with the ones before it.
PersistAndDrain ==
  /\ pc = "apply" /\ left = {}
  /\ redb' = mem
  /\ queued' = 0
  /\ unheard' = {p \in unheard : disk[p] # mem[p]}
  /\ EndCycle
  /\ UNCHANGED <<folderVars, first, listening, mem, watcherVars, faults>>
  /\ LoopStep

\* The records are saved and the summary is written.
Persist ==
  /\ pc = "apply" /\ left = {}
  /\ redb' = mem
  /\ unheard' = {p \in unheard : disk[p] # mem[p]}
  /\ EndCycle
  /\ UNCHANGED <<folderVars, first, listening, mem, watcherVars, queued, faults>>
  /\ LoopStep

\* Any await of a cycle may fail.
SomethingFails ==
  /\ pc \in {"scan", "apply"}
  /\ faults < MaxFaults
  /\ faults' = faults + 1
  /\ CycleFails

-----------------------------------------------------------------------------
(* The loop.                                                               *)

\* LocalWatcher::watch returns as soon as the thread is spawned.
StartWatcher ==
  /\ pc = "starting"
  /\ watcher' = "spawned"
  /\ first' = FALSE
  /\ pc' = "select"
  /\ UNCHANGED <<folderVars, redb, listening, cycleVars, raw, known, sending,
                 queued, unheard, faults>>
  /\ LoopStep

\* Wrong: the interval only replaces a watcher that has stopped.
TickUnwatched ==
  /\ pc = "select" /\ ~listening
  /\ pc' = "load"
  /\ UNCHANGED <<folderVars, redb, first, listening, cycleVars, watcherVars,
                 queued, unheard, faults>>
  /\ LoopStep

\* The interval: the semaphore is free whenever the loop is here.
Tick ==
  /\ pc = "select"
  /\ pc' = "load"
  /\ UNCHANGED <<folderVars, redb, first, listening, cycleVars, watcherVars,
                 queued, unheard, faults>>
  /\ LoopStep

ReceiveEvent ==
  /\ pc = "select" /\ listening /\ queued > 0
  /\ queued' = queued - 1
  /\ pc' = "settling"
  /\ UNCHANGED <<folderVars, redb, first, listening, cycleVars, watcherVars,
                 unheard, faults>>
  /\ LoopStep

\* After half a second the rest of the burst is taken from the channel.
Drain ==
  /\ pc = "settling"
  /\ queued' = 0
  /\ pc' = "load"
  /\ UNCHANGED <<folderVars, redb, first, listening, cycleVars, watcherVars,
                 unheard, faults>>
  /\ LoopStep

WatcherStopped ==
  /\ pc = "select" /\ listening /\ queued = 0 /\ watcher = "dead"
  /\ listening' = FALSE
  /\ UNCHANGED <<folderVars, redb, pc, first, cycleVars, watcherVars, queued,
                 unheard, faults>>
  /\ LoopStep

Signal ==
  /\ pc # "stopped" /\ ~signalled
  /\ signalled' = TRUE
  /\ UNCHANGED <<folderVars, redb, pc, first, listening, cycleVars,
                 watcherVars, queued, unheard, loaded, boundVars>>

\* select! takes the cancelled branch; nothing looks at the token elsewhere.
Shutdown ==
  /\ pc = "select" /\ signalled
  /\ pc' = "stopping"
  /\ UNCHANGED <<folderVars, redb, first, listening, cycleVars, watcherVars,
                 queued, unheard, faults>>
  /\ LoopStep

\* The process and all it holds in memory are gone.
Gone ==
  /\ pc' = "stopped"
  /\ watcher' = "off" /\ raw' = {} /\ sending' = {} /\ queued' = 0
  /\ known' = NoFiles /\ mem' = NoFiles
  /\ scanned' = NoFiles /\ fetched' = NoFiles /\ left' = {}
  /\ signalled' = FALSE /\ listening' = TRUE /\ first' = TRUE /\ unheard' = {}
  /\ loaded' = FALSE
  /\ UNCHANGED <<folderVars, changes>>

\* The last persist: the in-memory store replaces the tables of redb.
Stop ==
  /\ pc = "stopping"
  /\ redb' = mem
  /\ Gone
  /\ UNCHANGED faults

\* Killed, the last persist failed, or the watcher could not be built.
Die ==
  /\ pc # "stopped"
  /\ faults < MaxFaults
  /\ faults' = faults + 1
  /\ Gone
  /\ UNCHANGED redb

\* The next process.
Restart ==
  /\ pc = "stopped"
  /\ pc' = "load"
  /\ UNCHANGED <<folderVars, redb, first, signalled, listening, cycleVars,
                 watcherVars, queued, unheard, loaded, boundVars>>

-----------------------------------------------------------------------------

Cycle ==
  \/ LoadFromRedb \/ LoadFails \/ ScanAndFetch \/ Persist
  \/ \E p \in Paths : Upload(p) \/ Download(p)

Loop == Cycle \/ StartWatcher \/ Drain \/ WatcherStopped \/ Stop

Thread ==
  \/ \E how \in {"native", "polling"} : Watch(how)
  \/ \E ev \in raw : Forward(ev)
  \/ Poll
  \/ \E p \in sending : SendPolled(p)

Users ==
  \/ \E p \in Paths : UserWrite(p) \/ UserRemove(p) \/ OtherDevice(p)
  \/ \E from, to \in Names : UserRename(from, to)
  \/ Signal \/ Restart

Faults ==
  \/ LoseEvents \/ ThreadDies \/ SomethingFails \/ Die
  \/ \E p \in Paths : TaskFails(p)

Next == Loop \/ Tick \/ ReceiveEvent \/ Shutdown \/ Thread \/ Users \/ Faults

Spec == Init /\ [][Next]_vars

\* Wrong: select! prefers the branches above (biased), so a signal may wait.
FairSpecBiased ==
  /\ Spec
  /\ WF_vars(Loop) /\ WF_vars(Thread)
  /\ SF_vars(Tick) /\ SF_vars(ReceiveEvent) /\ WF_vars(Shutdown)

\* The loop and the thread run; the interval goes on ticking; select! picks a
\* ready branch at random, so that none of the three is passed over for ever.
FairSpec ==
  /\ Spec
  /\ WF_vars(Loop) /\ WF_vars(Thread)
  /\ SF_vars(Tick) /\ SF_vars(ReceiveEvent) /\ SF_vars(Shutdown)

-----------------------------------------------------------------------------
(* Properties.                                                             *)

\* Nothing is on its way: the loop waits, the channel and the thread are empty.
Quiet ==
  /\ pc = "select" /\ queued = 0
  /\ raw = {} /\ sending = {}
  /\ watcher = "polling" => known = disk

\* A daemon at rest has seen every change it could hear of: the burst it takes
\* from the channel before a cycle holds only changes the cycle's scan sees
\* (daemon.rs: drain, then sync), and none is lost while a cycle runs.
QuietMeansSynced == 
  Quiet => {p \in Paths : disk[p] # redb[p]} \subseteq unheard

\* Whatever is not announced, a later cycle finds: every change is synced in
\* the end, unless the daemon is stopped.
ChangesAreSynced ==
  \A p \in Paths : (disk[p] # redb[p]) ~> (disk[p] = redb[p] \/ pc = "stopped")

\* The files the daemon writes wake it up again, but not for ever: once users
\* and other devices stop, only the interval starts cycles.
Settles == <>[](queued = 0)

\* A signal ends the daemon, whatever it is doing and whatever else is ready.
SignalStops == signalled ~> (pc = "stopped")

\* The last persist forgets no file that is on the disk as it was recorded, once
\* a cycle of this process has loaded the records (daemon.rs: persist_to_redb
\* after the loop), however far later cycles got.
ShutdownKeepsRecords ==
  [][pc = "stopping" /\ loaded =>
       \A p \in Paths : (redb[p] # 0 /\ disk[p] = redb[p])
                        => redb'[p] = redb[p]]_vars

\* The same for any daemon: the last persist is there to save the state
\* (docs/plans/phase2-watcher.md:130), and no failed cycle excuses it.
ShutdownSavesState ==
  [][pc = "stopping" =>
       \A p \in Paths : (redb[p] # 0 /\ disk[p] = redb[p])
                        => redb'[p] = redb[p]]_vars

=============================================================================
