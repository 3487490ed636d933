--------------------------- MODULE Daemon_proofs ----------------------------
(***************************************************************************)
(* Theorems about Daemon, for any folder, any capacity of the channel and  *)
(* any number of changes and faults, with and without a folder id.         *)
(*                                                                         *)
(* QuietMeansSynced holds because every change that a cycle has yet to see *)
(* has a reason to be seen: it is announced, or the running cycle has it,  *)
(* or a cycle that has not scanned yet is on its way.                      *)
(*                                                                         *)
(* ShutdownKeepsRecords holds because memory agrees with redb on every     *)
(* file that is as recorded, from the first load on.                       *)
(***************************************************************************)
EXTENDS Daemon, TLAPS

\* Some event about p, or about anything after it, is still to be taken.
Announced(p) ==
  \/ queued > 0
  \/ \E ev \in raw : p \in PathsOf(ev)
  \/ watcher = "polling" /\ (known[p] # disk[p] \/ sending # {})

\* The running cycle has scanned p as it is, or recorded it as it is.
Caught(p) == IF p \in left THEN scanned[p] = disk[p] ELSE mem[p] = disk[p]

\* Outside the phases before a scan, whatever is heard is synced, announced or
\* caught.  During the tasks even a synced path must be announced or caught:
\* what the cycle saves at its end is what it has caught.
Covered ==
  \A p \in Paths \ unheard :
    /\ pc \in {"starting", "select"} => disk[p] = redb[p] \/ Announced(p)
    /\ pc = "apply" => Caught(p) \/ Announced(p)

\* The thread is not there before the loop is.
ThreadInLoop ==
  /\ first => watcher = "off"
  /\ pc = "starting" => first

IInv == TypeOK /\ ThreadInLoop /\ Covered

-----------------------------------------------------------------------------
(* Types.                                                                  *)

\* An event is one path or a pair of names, and concerns some of its paths.
LEMMA EventTypes ==
  /\ \A p \in Paths : <<p>> \in Events /\ PathsOf(<<p>>) = {p}
  /\ \A from, to \in Names :
       <<from, to>> \in Events /\ PathsOf(<<from, to>>) = {from, to} \cap Paths
  /\ \A ev : PathsOf(ev) \subseteq Paths
BY DEF Events, PathsOf, Names

\* The next stamp is a stamp.
LEMMA StampTypes ==
  ASSUME TypeOK
  PROVE  /\ NewStamp => changes' \in 0..MaxChanges /\ changes' + 1 \in Stamps
         /\ NoFiles \in [Paths -> Stamps]
BY BoundsAssumption DEF TypeOK, NewStamp, Stamps, NoFiles

\* A change of the folder keeps the types of what it writes.
LEMMA FolderTypes ==
  ASSUME TypeOK, NEW files \in [Paths -> Stamps], NEW ev \in Events,
         ChangeFolder(files, ev)
  PROVE  /\ disk' \in [Paths -> Stamps]
         /\ raw' \in SUBSET Events
         /\ unheard' \in SUBSET Paths
BY EventTypes DEF TypeOK, ChangeFolder, Unannounced

\* Users, other devices, signals and restarts keep the types.
LEMMA UserTypes ==
  ASSUME TypeOK, Users
  PROVE  TypeOK'
<1> USE DEF folderVars, cycleVars, watcherVars, boundVars
<1>1. CASE \E p \in Paths : UserWrite(p)
  <2>1. PICK p \in Paths : UserWrite(p)
    BY <1>1
  <2>2. /\ [disk EXCEPT ![p] = changes' + 1] \in [Paths -> Stamps]
        /\ <<p>> \in Events
    BY <2>1, StampTypes, EventTypes DEF UserWrite, TypeOK
  <2> QED BY <2>1, <2>2, FolderTypes, StampTypes DEF UserWrite, TypeOK, Elsewhere
<1>2. CASE \E p \in Paths : UserRemove(p)
  <2>1. PICK p \in Paths : UserRemove(p)
    BY <1>2
  <2>2. /\ [disk EXCEPT ![p] = 0] \in [Paths -> Stamps]
        /\ <<p>> \in Events
    BY <2>1, EventTypes, BoundsAssumption DEF TypeOK, Stamps
  <2> QED BY <2>1, <2>2, FolderTypes, StampTypes DEF UserRemove, TypeOK, Elsewhere
<1>3. CASE \E p \in Paths : OtherDevice(p)
  BY <1>3, StampTypes DEF OtherDevice, TypeOK, Elsewhere
<1>4. CASE \E from, to \in Names : UserRename(from, to)
  <2>1. PICK from \in Names, to \in Names : UserRename(from, to)
    BY <1>4
  <2> DEFINE files == [p \in Paths |-> CASE p = from -> 0
                                         [] p = to -> changes' + 1
                                         [] OTHER -> disk[p]]
  <2>2. files \in [Paths -> Stamps] /\ <<from, to>> \in Events
    BY <2>1, StampTypes, EventTypes, BoundsAssumption
       DEF UserRename, TypeOK, Stamps
  <2>3. ChangeFolder(files, <<from, to>>)
    BY <2>1 DEF UserRename
  <2> HIDE DEF files
  <2> QED BY <2>1, <2>2, <2>3, FolderTypes, StampTypes
          DEF UserRename, TypeOK, Elsewhere
<1>5. CASE Signal
  BY <1>5 DEF Signal, TypeOK
<1>6. CASE Restart
  BY <1>6 DEF Restart, TypeOK, CyclePhases
<1> QED BY <1>1, <1>2, <1>3, <1>4, <1>5, <1>6 DEF Users

\* The steps of the thread keep the types.
LEMMA ThreadTypes ==
  ASSUME TypeOK, Thread
  PROVE  TypeOK'
<1> USE CapacityAssumption
    DEF TypeOK, ThreadStep, folderVars, cycleVars
<1>1. CASE \E how \in {"native", "polling"} : Watch(how)
  BY <1>1 DEF Watch
<1>2. CASE \E ev \in raw : Forward(ev)
  <2>1. PICK ev \in raw : Forward(ev)
    BY <1>2
  <2>2. queued' \in 0..Capacity /\ unheard' \in SUBSET Paths
    BY <2>1, EventTypes DEF Forward, Stale
  <2> QED BY <2>1, <2>2 DEF Forward
<1>3. CASE Poll
  BY <1>3 DEF Poll
<1>4. CASE \E p \in sending : SendPolled(p)
  BY <1>4 DEF SendPolled
<1> QED BY <1>1, <1>2, <1>3, <1>4 DEF Thread

\* The end of the process keeps the types.
LEMMA GoneTypes ==
  ASSUME TypeOK, Gone, redb' \in [Paths -> Stamps], faults' \in 0..MaxFaults
  PROVE  TypeOK'
<1>1. /\ mem' \in [Paths -> Stamps]
      /\ scanned' \in [Paths -> Stamps]
      /\ fetched' \in [Paths -> Stamps]
      /\ known' \in [Paths -> Stamps]
  BY StampTypes DEF Gone
<1>2. /\ left' \in SUBSET Paths /\ sending' \in SUBSET Paths
      /\ unheard' \in SUBSET Paths /\ raw' \in SUBSET Events
  BY DEF Gone
<1>3. queued' \in 0..Capacity
  <2>1. queued' = 0
    BY DEF Gone
  <2> QED BY <2>1, CapacityAssumption
<1>4. /\ pc' = "stopped" /\ watcher' = "off"
      /\ UNCHANGED <<disk, incoming, changes>>
  BY DEF Gone, folderVars
<1>5. /\ first' \in BOOLEAN /\ signalled' \in BOOLEAN
      /\ listening' \in BOOLEAN /\ loaded' \in BOOLEAN
  BY Zenon DEF Gone
<1> QED BY <1>1, <1>2, <1>3, <1>4, <1>5 DEF TypeOK

\* The steps of the loop and its cycle keep the types.
LEMMA LoopTypes ==
  ASSUME TypeOK, Loop \/ Tick \/ ReceiveEvent \/ Shutdown
  PROVE  TypeOK'
<1> USE CapacityAssumption
    DEF TypeOK, LoopStep, folderVars, cycleVars, watcherVars, CyclePhases
<1>1. CASE LoadFromRedb
  BY <1>1, BoundsAssumption DEF LoadFromRedb, boundVars
<1>2. CASE LoadFails
  <2>1. faults' \in 0..MaxFaults
    BY <1>2, BoundsAssumption DEF LoadFails
  <2> QED BY <1>2, <2>1, StampTypes DEF LoadFails, CycleFails, EndCycle, Stale
<1>3. CASE ScanAndFetch
  BY <1>3 DEF ScanAndFetch
<1>4. CASE Persist
  BY <1>4, StampTypes DEF Persist, EndCycle
<1>5. CASE \E p \in Paths : Upload(p)
  BY <1>5, BoundsAssumption DEF Upload, Stamps
<1>6. CASE \E p \in Paths : Download(p)
  <2>1. PICK p \in Paths : Download(p)
    BY <1>6
  <2>2. /\ [disk EXCEPT ![p] = fetched[p]] \in [Paths -> Stamps]
        /\ <<Hidden, p>> \in Events
    BY EventTypes DEF Names
  <2>3. /\ disk' \in [Paths -> Stamps]
        /\ raw' \in SUBSET Events
        /\ unheard' \in SUBSET Paths
    BY <2>1, <2>2, FolderTypes DEF Download
  <2>4. /\ incoming' \in [Paths -> Stamps]
        /\ mem' \in [Paths -> Stamps]
        /\ left' \in SUBSET Paths
    BY <2>1, BoundsAssumption DEF Download, Stamps
  <2> QED BY <2>1, <2>3, <2>4 DEF Download
<1>7. CASE StartWatcher
  BY <1>7 DEF StartWatcher
<1>8. CASE Drain
  BY <1>8 DEF Drain
<1>9. CASE WatcherStopped
  BY <1>9 DEF WatcherStopped
<1>10. CASE Stop
  BY <1>10, GoneTypes DEF Stop
<1>11. CASE Tick
  BY <1>11 DEF Tick
<1>12. CASE ReceiveEvent
  BY <1>12 DEF ReceiveEvent
<1>13. CASE Shutdown
  BY <1>13 DEF Shutdown
<1> QED BY <1>1, <1>2, <1>3, <1>4, <1>5, <1>6, <1>7, <1>8, <1>9, <1>10,
           <1>11, <1>12, <1>13 DEF Loop, Cycle

\* Faults keep the types.
LEMMA FaultTypes ==
  ASSUME TypeOK, Faults
  PROVE  TypeOK'
<1> USE BoundsAssumption, CapacityAssumption
    DEF TypeOK, LoopStep, ThreadStep, folderVars, cycleVars, watcherVars, Stale
<1>1. CASE LoseEvents
  BY <1>1, EventTypes DEF LoseEvents
<1>2. CASE ThreadDies
  BY <1>2 DEF ThreadDies
<1>3. CASE SomethingFails
  BY <1>3, StampTypes DEF SomethingFails, CycleFails, EndCycle
<1>4. CASE Die
  BY <1>4, GoneTypes DEF Die
<1>5. CASE \E p \in Paths : TaskFails(p)
  BY <1>5 DEF TaskFails
<1> QED BY <1>1, <1>2, <1>3, <1>4, <1>5 DEF Faults

\* Every variable keeps its type, whatever the daemon does.
LEMMA StepTypes ==
  ASSUME TypeOK, [Next]_vars
  PROVE  TypeOK'
<1>1. CASE UNCHANGED vars
  BY <1>1 DEF TypeOK, vars, folderVars, cycleVars, watcherVars, boundVars
<1>2. CASE Next
  BY <1>2, UserTypes, ThreadTypes, LoopTypes, FaultTypes DEF Next
<1> QED BY <1>1, <1>2

-----------------------------------------------------------------------------
(* Coverage.                                                               *)

\* A change of the folder leaves everything covered: each of its paths is
\* announced now, or nobody will hear of it.
LEMMA FolderCovered ==
  ASSUME IInv, NEW files \in [Paths -> Stamps], NEW ev,
         ChangeFolder(files, ev),
         \A p \in Paths \ PathsOf(ev) : files[p] = disk[p],
         UNCHANGED <<redb, pc, mem, scanned, left, watcher, known, sending,
                     queued>>
  PROVE  Covered'
<1> SUFFICES ASSUME NEW p \in Paths, p \notin unheard'
             PROVE  /\ pc \in {"starting", "select"}
                       => disk'[p] = redb[p] \/ Announced(p)'
                    /\ pc = "apply" => Caught(p)' \/ Announced(p)'
  BY DEF Covered
<1>1. CASE p \in PathsOf(ev)
  <2>1. CASE watcher = "native"
    BY <1>1, <2>1 DEF ChangeFolder, Announced, PathsOf
  <2>2. CASE watcher # "native"
    <3>1. watcher = "polling" /\ files[p] # known[p]
      BY <1>1, <2>2 DEF ChangeFolder, Unannounced
    <3> QED BY <3>1 DEF ChangeFolder, Announced
  <2> QED BY <2>1, <2>2
<1>2. CASE p \notin PathsOf(ev)
  <2>1. disk'[p] = disk[p] /\ p \notin unheard /\ raw \subseteq raw'
    BY <1>2 DEF ChangeFolder
  <2>2. Announced(p) => Announced(p)'
    BY <2>1 DEF Announced, PathsOf
  <2>3. Caught(p) => Caught(p)'
    BY <2>1 DEF Caught
  <2> QED BY <2>1, <2>2, <2>3 DEF IInv, Covered
<1> QED BY <1>1, <1>2

\* What is covered stays covered while the loop, the records and the disk stand
\* still and what was announced is still announced.
LEMMA StillCovered ==
  ASSUME Covered, UNCHANGED <<disk, redb, pc, mem, scanned, left>>,
         unheard \subseteq unheard',
         \A p \in Paths \ unheard' : Announced(p) => Announced(p)'
  PROVE  Covered'
BY DEF Covered, Caught

\* Nothing is asked of the phases between two scans in which no task runs.
LEMMA Uncommitted ==
  ASSUME pc' \notin {"starting", "select", "apply"}
  PROVE  Covered'
BY DEF Covered

\* A path that is not stale needs no announcement.
LEMMA FreshIsSynced ==
  ASSUME NEW S \in SUBSET Paths, NEW p \in S, p \notin Stale(S)
  PROVE  disk[p] = redb[p] /\ Caught(p)
BY DEF Stale, Caught

\* Users, other devices, signals and restarts leave every change covered.
LEMMA UserCovered ==
  ASSUME IInv, Users
  PROVE  Covered'
<1> USE DEF cycleVars
<1>1. CASE \E p \in Paths : UserWrite(p)
  <2>1. PICK p \in Paths : UserWrite(p)
    BY <1>1
  <2>2. [disk EXCEPT ![p] = changes' + 1] \in [Paths -> Stamps]
    BY <2>1, StampTypes DEF UserWrite, IInv, TypeOK
  <2>3. \A q \in Paths \ PathsOf(<<p>>) :
          [disk EXCEPT ![p] = changes' + 1][q] = disk[q]
    BY EventTypes DEF IInv, TypeOK
  <2> QED BY <2>1, <2>2, <2>3, FolderCovered DEF UserWrite, Elsewhere
<1>2. CASE \E p \in Paths : UserRemove(p)
  <2>1. PICK p \in Paths : UserRemove(p)
    BY <1>2
  <2>2. [disk EXCEPT ![p] = 0] \in [Paths -> Stamps]
    BY BoundsAssumption DEF IInv, TypeOK, Stamps
  <2>3. \A q \in Paths \ PathsOf(<<p>>) : [disk EXCEPT ![p] = 0][q] = disk[q]
    BY EventTypes DEF IInv, TypeOK
  <2> QED BY <2>1, <2>2, <2>3, FolderCovered DEF UserRemove, Elsewhere
<1>3. CASE \E p \in Paths : OtherDevice(p)
  BY <1>3, StillCovered DEF IInv, OtherDevice, Elsewhere, Announced
<1>4. CASE \E from, to \in Names : UserRename(from, to)
  <2>1. PICK from \in Names, to \in Names : UserRename(from, to)
    BY <1>4
  <2> DEFINE files == [p \in Paths |-> CASE p = from -> 0
                                         [] p = to -> changes' + 1
                                         [] OTHER -> disk[p]]
  <2>2. files \in [Paths -> Stamps]
    BY <2>1, StampTypes, BoundsAssumption DEF UserRename, IInv, TypeOK, Stamps
  <2>3. \A q \in Paths \ PathsOf(<<from, to>>) : files[q] = disk[q]
    BY EventTypes
  <2>4. ChangeFolder(files, <<from, to>>)
    BY <2>1 DEF UserRename
  <2> HIDE DEF files
  <2> QED BY <2>1, <2>2, <2>3, <2>4, FolderCovered DEF UserRename, Elsewhere
<1>5. CASE Signal
  BY <1>5, StillCovered DEF IInv, Signal, folderVars, watcherVars, Announced
<1>6. CASE Restart
  BY <1>6, Uncommitted DEF Restart
<1> QED BY <1>1, <1>2, <1>3, <1>4, <1>5, <1>6 DEF Users

\* The thread passes on what it hears, so that changes stay covered.
LEMMA ThreadCovered ==
  ASSUME IInv, Thread
  PROVE  Covered'
<1> USE DEF ThreadStep, folderVars, cycleVars
<1>1. CASE \E how \in {"native", "polling"} : Watch(how)
  BY <1>1, StillCovered DEF IInv, Watch, Announced
<1>2. CASE \E ev \in raw : Forward(ev)
  <2>1. PICK ev \in raw : Forward(ev)
    BY <1>2
  <2>2. CASE Mapped(ev)
    <3>1. queued' > 0
      BY <2>1, <2>2 DEF Forward, IInv, TypeOK
    <3> QED BY <2>1, <2>2, <3>1, StillCovered DEF IInv, Forward, Announced
  <2>3. CASE ~Mapped(ev)
    <3>1. SUFFICES ASSUME NEW p \in Paths, p \notin unheard'
                   PROVE  /\ pc \in {"starting", "select"}
                             => disk[p] = redb[p] \/ Announced(p)'
                          /\ pc = "apply" => Caught(p) \/ Announced(p)'
      BY <2>1 DEF Covered, Forward, Caught
    <3>2. CASE p \in PathsOf(ev)
      BY <2>1, <2>3, <3>1, <3>2, FreshIsSynced, EventTypes DEF Forward
    <3>3. CASE p \notin PathsOf(ev)
      <4>1. Announced(p) => Announced(p)'
        BY <2>1, <2>3, <3>3 DEF Forward, Announced, PathsOf
      <4> QED BY <2>1, <2>3, <3>1, <4>1 DEF IInv, Covered, Forward
    <3> QED BY <3>2, <3>3
  <2> QED BY <2>2, <2>3
<1>3. CASE Poll
  <2>1. sending' # {}
    <3>1. PICK p \in Paths : known[p] # disk[p]
      BY <1>3 DEF Poll, IInv, TypeOK
    <3> QED BY <1>3, <3>1 DEF Poll
  <2> QED BY <1>3, <2>1, StillCovered DEF IInv, Poll, Announced
<1>4. CASE \E p \in sending : SendPolled(p)
  <2>1. queued' > 0
    BY <1>4 DEF SendPolled, IInv, TypeOK
  <2> QED BY <1>4, <2>1, StillCovered DEF IInv, SendPolled, Announced
<1> QED BY <1>1, <1>2, <1>3, <1>4 DEF Thread

\* The loop takes events only for a cycle that has yet to scan.
LEMMA LoopCovered ==
  ASSUME IInv, Loop \/ Tick \/ ReceiveEvent \/ Shutdown
  PROVE  Covered'
<1> USE DEF LoopStep, folderVars, cycleVars, watcherVars
<1>1. CASE LoadFromRedb
  BY <1>1, Uncommitted DEF LoadFromRedb
<1>2. CASE LoadFails
  <2>1. \A p \in Paths : p \notin unheard' => disk'[p] = redb'[p]
    BY <1>2 DEF LoadFails, CycleFails, Stale
  <2> QED BY <1>2, <2>1 DEF LoadFails, CycleFails, EndCycle, Covered
<1>3. CASE ScanAndFetch
  BY <1>3 DEF ScanAndFetch, Covered, Caught
<1>4. CASE Persist
  <2>1. \A p \in Paths \ unheard' : disk'[p] = redb'[p] \/ Announced(p)'
    BY <1>4 DEF Persist, IInv, Covered, Caught, Announced, PathsOf
  <2> QED BY <1>4, <2>1 DEF Persist, EndCycle, Covered
<1>5. CASE \E p \in Paths : Upload(p)
  BY <1>5 DEF Upload, IInv, TypeOK, Covered, Caught, Announced, PathsOf
<1>6. CASE \E p \in Paths : Download(p)
  <2>1. PICK p \in Paths : Download(p)
    BY <1>6
  <2>2. SUFFICES ASSUME NEW q \in Paths \ unheard'
                 PROVE  Caught(q)' \/ Announced(q)'
    BY <2>1 DEF Download, Covered
  <2>3. CASE q = p
    BY <2>1, <2>3 DEF Download, ChangeFolder, IInv, TypeOK, Caught
  <2>4. CASE q # p
    <3>1. Caught(q) => Caught(q)'
      BY <2>1, <2>4 DEF Download, ChangeFolder, IInv, TypeOK, Caught
    <3>2. raw \subseteq raw' /\ q \notin unheard /\ disk'[q] = disk[q]
      BY <2>1, <2>2, <2>4 DEF Download, ChangeFolder, IInv, TypeOK
    <3>3. Announced(q) => Announced(q)'
      BY <2>1, <3>2 DEF Download, Announced, PathsOf
    <3> QED BY <2>1, <2>2, <3>1, <3>2, <3>3 DEF Download, IInv, Covered
  <2> QED BY <2>3, <2>4
<1>7. CASE StartWatcher
  <2>1. watcher # "polling"
    BY <1>7 DEF StartWatcher, IInv, ThreadInLoop
  <2>2. \A p \in Paths \ unheard : Announced(p) => Announced(p)'
    BY <1>7, <2>1 DEF StartWatcher, Announced, PathsOf
  <2> QED BY <1>7, <2>2 DEF StartWatcher, IInv, Covered
<1>8. CASE Drain
  BY <1>8, Uncommitted DEF Drain
<1>9. CASE WatcherStopped
  BY <1>9, StillCovered DEF WatcherStopped, IInv, Announced
<1>10. CASE Stop
  BY <1>10, Uncommitted DEF Stop, Gone
<1>11. CASE Tick
  BY <1>11, Uncommitted DEF Tick
<1>12. CASE ReceiveEvent
  BY <1>12, Uncommitted DEF ReceiveEvent
<1>13. CASE Shutdown
  BY <1>13, Uncommitted DEF Shutdown
<1> QED BY <1>1, <1>2, <1>3, <1>4, <1>5, <1>6, <1>7, <1>8, <1>9, <1>10,
           <1>11, <1>12, <1>13 DEF Loop, Cycle

\* A fault leaves uncovered only what it puts into unheard.
LEMMA FaultCovered ==
  ASSUME IInv, Faults
  PROVE  Covered'
<1> USE DEF LoopStep, ThreadStep, folderVars, cycleVars, watcherVars
<1>1. CASE LoseEvents
  <2> DEFINE S == UNION {PathsOf(ev) : ev \in raw}
  <2>1. S \subseteq Paths
    BY EventTypes
  <2>2. SUFFICES ASSUME NEW p \in Paths, p \notin unheard'
                 PROVE  /\ pc \in {"starting", "select"}
                           => disk[p] = redb[p] \/ Announced(p)'
                        /\ pc = "apply" => Caught(p) \/ Announced(p)'
    BY <1>1 DEF Covered, LoseEvents, Caught
  <2>3. CASE p \in S
    BY <1>1, <2>1, <2>2, <2>3, FreshIsSynced DEF LoseEvents
  <2>4. CASE p \notin S
    <3>1. Announced(p) => Announced(p)'
      BY <1>1, <2>4 DEF LoseEvents, Announced
    <3> QED BY <1>1, <2>2, <3>1 DEF IInv, Covered, LoseEvents
  <2> QED BY <2>3, <2>4
<1>2. CASE ThreadDies
  <2>1. \A p \in Paths \ unheard' : disk[p] = redb[p] /\ Caught(p)
    BY <1>2, FreshIsSynced DEF ThreadDies
  <2> QED BY <1>2, <2>1 DEF ThreadDies, Covered, Caught
<1>3. CASE SomethingFails
  <2>1. \A p \in Paths : p \notin unheard' => disk'[p] = redb'[p]
    BY <1>3 DEF SomethingFails, CycleFails, Stale
  <2> QED BY <1>3, <2>1 DEF SomethingFails, CycleFails, EndCycle, Covered
<1>4. CASE Die
  BY <1>4, Uncommitted DEF Die, Gone
<1>5. CASE \E p \in Paths : TaskFails(p)
  BY <1>5 DEF TaskFails, Stale, IInv, Covered, Caught, Announced, PathsOf
<1> QED BY <1>1, <1>2, <1>3, <1>4, <1>5 DEF Faults

\* No step brings the thread to life before the loop.
LEMMA StepThread ==
  ASSUME ThreadInLoop, [Next]_vars
  PROVE  ThreadInLoop'
<1> USE DEF ThreadInLoop, folderVars, cycleVars, watcherVars, boundVars
<1>1. CASE UNCHANGED vars
  BY <1>1 DEF vars
<1>2. CASE Users
  <2>1. ASSUME Elsewhere PROVE ThreadInLoop'
    BY <2>1 DEF Elsewhere
  <2>2. CASE \E p \in Paths : UserWrite(p) \/ UserRemove(p) \/ OtherDevice(p)
    BY <2>1, <2>2 DEF UserWrite, UserRemove, OtherDevice
  <2>3. CASE \E from, to \in Names : UserRename(from, to)
    BY <2>1, <2>3 DEF UserRename
  <2>4. CASE Signal \/ Restart
    BY <2>4 DEF Signal, Restart
  <2> QED BY <1>2, <2>2, <2>3, <2>4 DEF Users
<1>3. CASE Thread
  BY <1>3 DEF Thread, Watch, Forward, Poll, SendPolled, ThreadStep
<1>4. ASSUME EndCycle, UNCHANGED <<first, watcher>> PROVE ThreadInLoop'
  BY <1>4 DEF EndCycle
<1>5. ASSUME Gone PROVE ThreadInLoop'
  BY <1>5 DEF Gone
<1>6. CASE Loop
  <2>1. CASE LoadFromRedb \/ ScanAndFetch
    BY <2>1 DEF LoadFromRedb, ScanAndFetch
  <2>2. CASE LoadFails \/ Persist
    BY <2>2, <1>4 DEF LoadFails, Persist, CycleFails
  <2>3. CASE \E p \in Paths : Upload(p) \/ Download(p)
    BY <2>3 DEF Upload, Download
  <2>4. CASE StartWatcher \/ Drain \/ WatcherStopped
    BY <2>4 DEF StartWatcher, Drain, WatcherStopped
  <2>5. CASE Stop
    BY <2>5, <1>5 DEF Stop
  <2> QED BY <1>6, <2>1, <2>2, <2>3, <2>4, <2>5 DEF Loop, Cycle
<1>7. CASE Tick \/ ReceiveEvent \/ Shutdown
  BY <1>7 DEF Tick, ReceiveEvent, Shutdown
<1>8. CASE Faults
  <2>1. CASE LoseEvents \/ ThreadDies
    BY <2>1 DEF LoseEvents, ThreadDies, ThreadStep
  <2>2. CASE SomethingFails
    BY <2>2, <1>4 DEF SomethingFails, CycleFails
  <2>3. CASE Die
    BY <2>3, <1>5 DEF Die
  <2>4. CASE \E p \in Paths : TaskFails(p)
    BY <2>4 DEF TaskFails
  <2> QED BY <1>8, <2>1, <2>2, <2>3, <2>4 DEF Faults
<1> QED BY <1>1, <1>2, <1>3, <1>6, <1>7, <1>8 DEF Next

-----------------------------------------------------------------------------
(* Theorems.                                                               *)

\* The inductive invariant: every variable has its type, and every change the
\* watcher could hear of is synced, announced or in the hands of the cycle.
THEOREM Invariance == Spec => []IInv
<1>1. Init => IInv
  <2>1. ASSUME Init PROVE TypeOK
    <3>1. 0 \in Stamps /\ {0, 1} \subseteq Stamps
      BY BoundsAssumption DEF Stamps
    <3>2. NoFiles \in [Paths -> Stamps]
      BY <3>1 DEF NoFiles
    <3>3. disk \in [Paths -> Stamps] /\ redb \in [Paths -> Stamps]
      BY <2>1, <3>1 DEF Init
    <3>4. queued \in 0..Capacity /\ changes \in 0..MaxChanges
            /\ faults \in 0..MaxFaults
      BY <2>1, CapacityAssumption, BoundsAssumption DEF Init
    <3>5. first \in BOOLEAN /\ signalled \in BOOLEAN /\ listening \in BOOLEAN
      BY <2>1, Zenon DEF Init
    <3> QED BY <2>1, <3>2, <3>3, <3>4, <3>5 DEF Init, TypeOK, CyclePhases
  <2>2. Init => Covered /\ ThreadInLoop
    BY DEF Init, Covered, ThreadInLoop
  <2> QED BY <2>1, <2>2 DEF IInv
<1>2. IInv /\ [Next]_vars => IInv'
  <2> SUFFICES ASSUME IInv, [Next]_vars
               PROVE  IInv'
    OBVIOUS
  <2>1. TypeOK' /\ ThreadInLoop'
    BY StepTypes, StepThread DEF IInv
  <2>2. CASE UNCHANGED vars
    <3>1. Covered'
      BY <2>2, StillCovered
         DEF IInv, vars, folderVars, cycleVars, watcherVars, Announced
    <3> QED BY <2>1, <3>1 DEF IInv
  <2>3. CASE Next
    <3>1. Covered'
      BY <2>3, UserCovered, ThreadCovered, LoopCovered, FaultCovered DEF Next
    <3> QED BY <2>1, <3>1 DEF IInv
  <2> QED BY <2>2, <2>3
<1> QED BY <1>1, <1>2, PTL DEF Spec

\* Every variable of the daemon and the watcher keeps its type; in particular
\* the channel never holds more than its capacity.
THEOREM TypeCorrect == Spec => []TypeOK
<1>1. IInv => TypeOK
  BY DEF IInv
<1> QED BY <1>1, Invariance, PTL

\* A daemon at rest has synced every change it could hear of, whatever it was
\* doing when the change was made.
THEOREM RestIsSynced == Spec => []QuietMeansSynced
<1>1. IInv => QuietMeansSynced
  <2> SUFFICES ASSUME IInv, Quiet, NEW p \in Paths, p \notin unheard
               PROVE  disk[p] = redb[p]
    BY DEF QuietMeansSynced
  <2>1. ~Announced(p)
    BY DEF Quiet, Announced
  <2> QED BY <2>1 DEF IInv, Covered, Quiet
<1> QED BY <1>1, Invariance, PTL

-----------------------------------------------------------------------------
(* The last persist.                                                       *)

\* Every change has a stamp of its own, later than all that anybody holds.
Old(stamps) == \A p \in Paths : stamps[p] <= changes + 1

StampsOld ==
  Old(disk) /\ Old(incoming) /\ Old(redb) /\ Old(mem) /\ Old(scanned) /\ Old(fetched)

\* A file that is as redb has it is in memory, or about to be written there, as
\* redb has it.
Remembered ==
  loaded => \A p \in Paths : redb[p] # 0 /\ disk[p] = redb[p] =>
              /\ mem[p] = redb[p]
              /\ pc = "apply" /\ p \in left => scanned[p] = redb[p]

MInv == StampsOld /\ Remembered

\* Whatever users do gets a new stamp, which no record has.
LEMMA UserRemembers ==
  ASSUME TypeOK, MInv, Users
  PROVE  MInv'
<1> USE DEF Elsewhere, folderVars, cycleVars, boundVars, Old, StampsOld, Remembered, MInv
<1>1. /\ changes \in Nat /\ \A p \in Paths : redb[p] \in Nat /\ disk[p] \in Nat
      /\ \A p \in Paths : incoming[p] \in Nat /\ mem[p] \in Nat
      /\ \A p \in Paths : scanned[p] \in Nat /\ fetched[p] \in Nat
      /\ disk \in [Paths -> Stamps] /\ incoming \in [Paths -> Stamps]
  BY BoundsAssumption DEF TypeOK, Stamps
<1>2. CASE \E p \in Paths : UserWrite(p)
  BY <1>1, <1>2 DEF UserWrite, NewStamp, ChangeFolder
<1>3. CASE \E p \in Paths : UserRemove(p)
  BY <1>1, <1>3 DEF UserRemove, NewStamp, ChangeFolder
<1>4. CASE \E p \in Paths : OtherDevice(p)
  BY <1>1, <1>4 DEF OtherDevice, NewStamp
<1>5. CASE \E from, to \in Names : UserRename(from, to)
  <2>1. PICK from \in Names, to \in Names : UserRename(from, to)
    BY <1>5
  <2>2. /\ changes' = changes + 1
        /\ \A p \in Paths : disk'[p] = 0 \/ disk'[p] = changes + 2
                             \/ disk'[p] = disk[p]
    BY <1>1, <2>1 DEF UserRename, NewStamp, ChangeFolder
  <2> QED
    BY <1>1, <2>1, <2>2 DEF UserRename
<1>6. CASE Signal \/ Restart
  BY <1>1, <1>6 DEF Signal, Restart
<1> QED
  BY <1>2, <1>3, <1>4, <1>5, <1>6 DEF Users

\* The thread touches no file and no record.
LEMMA ThreadRemembers ==
  ASSUME TypeOK, MInv, Thread
  PROVE  MInv'
BY DEF Thread, Watch, Forward, Poll, SendPolled, ThreadStep, folderVars, cycleVars,
   Old, StampsOld, Remembered, MInv

\* A process that has ended has loaded nothing.
LEMMA GoneRemembers ==
  ASSUME TypeOK, MInv, Gone, Old(redb)'
  PROVE  MInv'
<1>1. changes \in Nat
  BY BoundsAssumption DEF TypeOK
<1> QED
  BY <1>1 DEF Gone, NoFiles, folderVars, Old, StampsOld, Remembered, MInv

\* A cycle that fails leaves disk, redb and memory alone.
LEMMA CycleFailsRemembers ==
  ASSUME TypeOK, MInv, CycleFails
  PROVE  MInv'
<1>1. changes \in Nat
  BY BoundsAssumption DEF TypeOK
<1> QED
  BY <1>1 DEF CycleFails, EndCycle, LoopStep, NoFiles, folderVars, Old, StampsOld,
     Remembered, MInv

\* A load makes memory redb, a task records what was scanned or fetched, and a
\* persist makes redb memory.
LEMMA CycleRemembers ==
  ASSUME TypeOK, MInv, Cycle
  PROVE  MInv'
<1> USE DEF LoopStep, folderVars, watcherVars, boundVars, Old, StampsOld, Remembered, MInv
<1>1. /\ changes \in Nat /\ disk \in [Paths -> Stamps]
      /\ incoming \in [Paths -> Stamps] /\ mem \in [Paths -> Stamps]
  BY BoundsAssumption DEF TypeOK
<1>2. CASE LoadFromRedb
  BY <1>1, <1>2 DEF LoadFromRedb
<1>3. CASE LoadFails
  BY <1>3, CycleFailsRemembers DEF LoadFails
<1>4. CASE ScanAndFetch
  BY <1>1, <1>4 DEF ScanAndFetch
<1>5. CASE Persist
  BY <1>1, <1>5 DEF Persist, EndCycle, NoFiles
<1>6. CASE \E p \in Paths : Upload(p)
  <2>1. PICK p \in Paths : Upload(p)
    BY <1>6
  <2>2. /\ mem'[p] = scanned[p] /\ \A q \in Paths : q # p => mem'[q] = mem[q]
        /\ \A q \in Paths : incoming'[q] = incoming[q] \/ incoming'[q] = 0
    BY <1>1, <2>1 DEF Upload
  <2> QED
    BY <1>1, <2>1, <2>2 DEF Upload
<1>7. CASE \E p \in Paths : Download(p)
  <2>1. PICK p \in Paths : Download(p)
    BY <1>7
  <2>2. /\ mem'[p] = fetched[p] /\ \A q \in Paths : q # p => mem'[q] = mem[q]
        /\ disk'[p] = fetched[p] /\ \A q \in Paths : q # p => disk'[q] = disk[q]
        /\ \A q \in Paths : incoming'[q] = incoming[q] \/ incoming'[q] = 0
    BY <1>1, <2>1 DEF Download, ChangeFolder
  <2> QED
    BY <1>1, <2>1, <2>2 DEF Download
<1> QED
  BY <1>2, <1>3, <1>4, <1>5, <1>6, <1>7 DEF Cycle

\* Between cycles the loop keeps its memory.
LEMMA LoopRemembers ==
  ASSUME TypeOK, MInv, Loop \/ Tick \/ ReceiveEvent \/ Shutdown
  PROVE  MInv'
<1>1. CASE Cycle
  BY <1>1, CycleRemembers
<1>2. CASE StartWatcher \/ Drain \/ WatcherStopped \/ Tick \/ ReceiveEvent \/ Shutdown
  BY <1>2 DEF StartWatcher, Drain, WatcherStopped, Tick, ReceiveEvent, Shutdown,
     LoopStep, folderVars, cycleVars, Old, StampsOld, Remembered, MInv
<1>3. CASE Stop
  <2>1. Old(redb)'
    BY <1>3 DEF Stop, Gone, MInv, StampsOld, Old
  <2> QED
    BY <1>3, <2>1, GoneRemembers DEF Stop
<1> QED
  BY <1>1, <1>2, <1>3 DEF Loop

\* No fault but the end of the process touches the memory.
LEMMA FaultRemembers ==
  ASSUME TypeOK, MInv, Faults
  PROVE  MInv'
<1>1. CASE LoseEvents \/ ThreadDies
  BY <1>1 DEF LoseEvents, ThreadDies, ThreadStep, folderVars, cycleVars, Old,
     StampsOld, Remembered, MInv
<1>2. CASE SomethingFails
  BY <1>2, CycleFailsRemembers DEF SomethingFails
<1>3. CASE Die
  <2>1. Old(redb)'
    BY <1>3 DEF Die, Gone, MInv, StampsOld, Old
  <2> QED
    BY <1>3, <2>1, GoneRemembers DEF Die
<1>4. CASE \E p \in Paths : TaskFails(p)
  BY <1>4 DEF TaskFails, LoopStep, folderVars, Old, StampsOld, Remembered, MInv
<1> QED
  BY <1>1, <1>2, <1>3, <1>4 DEF Faults

\* The last persist of a daemon that has loaded its records forgets none of a
\* file that is on the disk as it was recorded, however far later cycles got
\* and however they ended.
THEOREM StopKeepsRecords == Spec => ShutdownKeepsRecords
<1> DEFINE Keeps == pc = "stopping" /\ loaded =>
                      \A p \in Paths : (redb[p] # 0 /\ disk[p] = redb[p])
                                       => redb'[p] = redb[p]
<1>1. Init => MInv
  BY BoundsAssumption DEF Init, MInv, StampsOld, Remembered, Old, NoFiles
<1>2. TypeOK /\ MInv /\ [Next]_vars => MInv'
  <2>1. TypeOK /\ MInv /\ Next => MInv'
    BY UserRemembers, ThreadRemembers, LoopRemembers, FaultRemembers DEF Next
  <2>2. MInv /\ UNCHANGED vars => MInv'
    BY DEF vars, folderVars, cycleVars, boundVars, MInv, StampsOld, Remembered, Old
  <2> QED
    BY <2>1, <2>2
<1>3. MInv /\ [Next]_vars => Keeps
  <2> SUFFICES ASSUME MInv, [Next]_vars, pc = "stopping", loaded
               PROVE  redb' = redb \/ redb' = mem
    BY DEF MInv, Remembered
  <2>1. CASE Users
    BY <2>1 DEF Users, UserWrite, UserRemove, UserRename, OtherDevice, Elsewhere,
       Signal, Restart
  <2>2. CASE Thread
    BY <2>2 DEF Thread, Watch, Forward, Poll, SendPolled, ThreadStep
  <2>3. CASE Loop \/ Tick \/ ReceiveEvent \/ Shutdown
    BY <2>3 DEF Loop, Cycle, LoadFromRedb, LoadFails, CycleFails, ScanAndFetch, Persist,
       Upload, Download, StartWatcher, Drain, WatcherStopped, Stop, Tick,
       ReceiveEvent, Shutdown
  <2>4. CASE Faults
    BY <2>4 DEF Faults, LoseEvents, ThreadDies, ThreadStep, SomethingFails, CycleFails,
       Die, TaskFails
  <2>5. CASE UNCHANGED vars
    BY <2>5 DEF vars
  <2> QED
    BY <2>1, <2>2, <2>3, <2>4, <2>5 DEF Next
<1> QED
  BY <1>1, <1>2, <1>3, TypeCorrect, PTL DEF Spec, ShutdownKeepsRecords

=============================================================================
