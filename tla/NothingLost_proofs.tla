------------------------- MODULE NothingLost_proofs -------------------------
(***************************************************************************)
(* No edit is lost: NoLossOutsideRaces of SyncProperties, for every number *)
(* of devices, files, paths and contents, every start, and users who act   *)
(* at any moment.  The hypotheses are those without which the code does    *)
(* lose edits, or may: conflicts that keep both contents, .trash/ in use,  *)
(* copies of conflicts at paths that no numbered name takes, and           *)
(*  - either no crash, failed request or expired token so far,             *)
(*  - or, with any number of them, no download that takes a path from      *)
(*    another file of Drive (README.md has the counterexample).            *)
(*                                                                         *)
(* The invariant, LInv, follows a content from place to place.  A content  *)
(* is safe once it is in .trash/, or a user replaced it, or it met a       *)
(* window: that is for good.  It is kept when it is safe, on Drive, or in  *)
(* a copy of a conflict whose path no file of Drive has.  Whatever is kept *)
(* stays kept, and whatever a device has a record of is kept.  So a task   *)
(* that overwrites a local file overwrites what is kept elsewhere, and a   *)
(* task that overwrites a file on Drive does it                            *)
(*  - with the guard of a record that is still current: the record's       *)
(*    content is then the file's, and the disk has another one, so a user  *)
(*    replaced it, or                                                      *)
(*  - after a copy was made of just this revision of the file.             *)
(***************************************************************************)
EXTENDS SyncCycle_proofs

-----------------------------------------------------------------------------
(* The invariant.                                                          *)

\* For good.
Safe == settled \cup raced \cup InTrash

\* Paths of copies that no file on Drive is named after.
Unnamed == CopyPaths \ {drive[f].name : f \in {g \in Files : Exists(g)}}

\* Contents of copies that only the device that made them has.
Held == {c \in Contents : \E d \in Devices, p \in Unnamed :
                            disk[d][p] # None /\ disk[d][p].md5 = c}

Kept == Safe \cup OnDrive \cup Held

\* A revision that may be known of a file: an earlier one, or its content.
Truth(id, rev, md5) ==
  /\ md5 \in Contents /\ rev <= drive[id].rev
  /\ rev = drive[id].rev => drive[id].md5 = md5

\* r, a row or a record, knows the revision Drive has now.
Current(r) == r.rev = drive[r.id].rev

OnDisk(d, p, c) == disk[d][p] # None /\ disk[d][p].md5 = c

Early(t) == t.at \in {"ready", "planned", "started"}
Landed(t) == t.act = "download" /\ t.at \in {"effected", "done"}

\* What a record speaks of is kept, and when the disk has something else, a
\* user replaced it or Drive has moved on.
RecordGood(d, p) ==
  LET m == mem[d][p]
  IN  m # None =>
        /\ Truth(m.id, m.rev, m.fp)
        /\ m.md5 \in Kept
        /\ Current(m) => m.fp = m.md5 \/ m.fp \in Safe
        /\ \/ OnDisk(d, p, m.md5) \/ m.md5 \in Safe \/ ~Current(m)
           \/ Landed(todo[d][p])

\* What is on disk is what was scanned, or was written since.
ScanGood(d, p) ==
  LET m == mem[d][p]
      s == scan[d][p]
  IN  pc[d] \in {"scanned", "relist", "listed", "viewed"} =>
        /\ \/ disk[d][p] = None \/ disk[d][p].md5 \in raced
           \/ s # None /\ OnDisk(d, p, s.md5)
        /\ m # None /\ s # None => s.md5 = m.md5 \/ m.md5 \in Safe \/ ~Current(m)

\* Is what r says of the file of record m what m says, or has m been overtaken?
NoNews(r, m) == m # None /\ r.id = m.id => r.md5 = m.fp \/ ~Current(m)

\* The view has nothing new at the path of a copy that only this device has,
\* and of a file whose record is current.
ViewGood(d, p) ==
  LET r == view[d][p]
  IN  pc[d] \in {"listed", "viewed"} /\ r # None =>
        /\ Truth(r.id, r.rev, r.md5)
        /\ p \in Unnamed => r = Stub(mem[d][p])
        /\ NoNews(r, mem[d][p])

\* A download overwrites what is kept elsewhere, and leaves what is kept.
DownloadGood(d, p) ==
  LET t == todo[d][p]
  IN  t.act = "download" =>
        /\ Early(t) => \/ disk[d][p] = None \/ disk[d][p].md5 \in Safe
                       \/ disk[d][p].md5 \in Kept /\ p \notin Unnamed
        /\ Landed(t) =>
             /\ disk[d][p] # None => disk[d][p].md5 \in Kept
             /\ Current(t.row) => t.row.md5 \in Safe \/ OnDisk(d, p, t.row.md5)

\* An upload sends what it found, or that was replaced.
UploadGood(d, p) ==
  LET t == todo[d][p]
  IN  t.act \in {"update", "create"} =>
        /\ t.at \in {"planned", "started", "checked", "linked", "effected", "done"}
           => t.md5 \in Safe \/ OnDisk(d, p, t.md5)
        /\ t.at \in {"linked", "effected", "done"} => t.md5 \in Kept

\* Has the update of t still to come?
Updating(t) == t.act = "update" /\ (Early(t) \/ t.at = "checked")

\* A guarded update replaces a content that was replaced on disk, or finds
\* that Drive has moved on.
GuardGood(d, p) ==
  LET t == todo[d][p]
      m == mem[d][p]
  IN  Updating(t) /\ t.guarded =>
        /\ m # None /\ t.id = m.id
        /\ m.md5 \in Safe \/ ~Current(m)
        /\ t.at = "checked" => t.seen = m.rev

\* The copy is still to be downloaded.
Pending(d, t) ==
  LET copy == todo[d][t.after]
  IN  /\ copy.act = "download" /\ Early(copy) /\ copy.id = t.id
      /\ t.seen = 0 /\ t.after \in Unnamed

\* The copy was downloaded, and is there if Drive has not moved on.
Saved(d, t) ==
  /\ t.seen <= drive[t.id].rev
  /\ t.seen = drive[t.id].rev =>
       \/ drive[t.id].md5 \in Safe
       \/ t.after \in Unnamed /\ OnDisk(d, t.after, drive[t.id].md5)
  /\ \/ Landed(todo[d][t.after])
     \/ todo[d][t.after].at = "ended" /\ mem[d][t.after] # None

\* The upload of a conflict comes after the copy.
LinkGood(d, p) ==
  LET t == todo[d][p]
  IN  Updating(t) /\ ~t.guarded =>
        /\ t.at # "started" /\ t.after \in CopyPaths
        /\ Pending(d, t) \/ Saved(d, t)

\* What the steps of a task rely on.
ShapeGood(d, p) ==
  LET t == todo[d][p]
  IN  /\ t.at \in {"ended", "failed"} => t.act = "none"
      /\ t.after # None => t.act = "update" /\ ~t.guarded
      /\ t.row # None => Truth(t.row.id, t.row.rev, t.row.md5)
      /\ t.act \in {"download", "conflict"} \/ t.at = "mismatch"
         => t.row # None /\ t.row.id = t.id
      /\ t.act = "touch" /\ disk[d][p] # None => disk[d][p].md5 \in Kept

TaskGood(d, p) ==
  DownloadGood(d, p) /\ UploadGood(d, p) /\ GuardGood(d, p) /\ ShapeGood(d, p)

\* Everything about one path of one device.
Good(d, p) ==
  /\ RecordGood(d, p) /\ ScanGood(d, p) /\ ViewGood(d, p)
  /\ TaskGood(d, p) /\ LinkGood(d, p)

\* Files start with revision 1.
Counted == \A f \in Files : Exists(f) => drive[f].rev >= 1

\* The path of a copy, while no file has its name, is used by one device.
Uses(d, p) == disk[d][p] # None \/ todo[d][p].act = "download"
OneOwner ==
  \A p \in Unnamed, d, e \in Devices : Uses(d, p) /\ Uses(e, p) => d = e

\* A cycle starts with the records in redb, and does without those it purges
\* once they are gone from there.
Persisted ==
  \A d \in Devices : pc[d] \notin {"recovering", "running"} => rec[d] = mem[d]

\* The inductive invariant.
LInv ==
  /\ Counted /\ OneOwner /\ Persisted
  /\ \A d \in Devices, p \in Paths : Good(d, p)
  /\ authored \subseteq OnDisks \cup Kept

-----------------------------------------------------------------------------
(* What the types give.                                                    *)

\* A record, and the file it speaks of.
LEMMA RecordTypes ==
  ASSUME TInv, NEW d \in Devices, NEW p \in Paths, mem[d][p] # None
  PROVE  /\ mem[d][p] \in Record
         /\ mem[d][p].id \in Files /\ Exists(mem[d][p].id)
         /\ mem[d][p].rev \in Nat /\ mem[d][p].md5 \in Contents
BY DEF TInv, StoreOK, Sound, Record

\* A row of the view, and the file it speaks of.
LEMMA RowTypes ==
  ASSUME TInv, NEW d \in Devices, NEW p \in Paths, view[d][p] # None
  PROVE  /\ view[d][p] \in Snapshot
         /\ view[d][p].id \in Files /\ Exists(view[d][p].id)
         /\ view[d][p].rev \in Nat
BY DEF TInv, StoreOK, Sound, Snapshot

\* A task, its file and its row.
LEMMA TaskTypes ==
  ASSUME TInv, NEW d \in Devices, NEW p \in Paths
  PROVE  /\ todo[d][p] \in Task
         /\ todo[d][p].seen \in Nat
         /\ todo[d][p].after \in Paths \cup {None}
         /\ todo[d][p].act \in {"update", "conflict", "download", "delete_remote"}
            => todo[d][p].id \in Files /\ Exists(todo[d][p].id)
         /\ todo[d][p].act = "create" /\ todo[d][p].at \in {"linked", "effected", "done"}
            => todo[d][p].id \in Files /\ Exists(todo[d][p].id)
         /\ todo[d][p].row # None
            => /\ todo[d][p].row \in Snapshot
               /\ todo[d][p].row.id \in Files /\ Exists(todo[d][p].row.id)
               /\ todo[d][p].row.rev \in Nat
         /\ todo[d][p].act \in {"update", "create"} /\ todo[d][p].at # "ready"
            => todo[d][p].md5 \in Contents
<1>1. todo[d][p] \in Task /\ Fit(todo[d][p], mem[d][p])
  BY DEF TInv, TasksOK
<1> QED
  BY <1>1 DEF Fit, Sound, Task, Snapshot

\* A local file has a content.
LEMMA DiskTypes ==
  ASSUME TInv, NEW d \in Devices, NEW p \in Paths, disk[d][p] # None
  PROVE  disk[d][p] \in LocalFile /\ disk[d][p].md5 \in Contents
BY DEF TInv, UserOK, LocalFile

\* A file of Drive has a revision.
LEMMA FileTypes ==
  ASSUME TInv, NEW f \in Files
  PROVE  /\ drive[f].rev \in Nat
         /\ Exists(f) => drive[f].md5 \in Contents /\ drive[f].name \in Paths
                         /\ drive[f].md5 \in OnDrive
BY DEF TInv, DriveOK, DriveFile, FilesHaveContents, OnDrive

-----------------------------------------------------------------------------
(* What goes on: a step may add to what is safe, and moves Drive forward.  *)

\* Files keep their names; a revision keeps its content.
FilesStay ==
  \A f \in Files : Exists(f) =>
    /\ Exists(f)' /\ drive'[f].name = drive[f].name
    /\ drive[f].rev <= drive'[f].rev
    /\ drive'[f].rev = drive[f].rev => drive'[f].md5 = drive[f].md5

Grows ==
  /\ FilesStay
  /\ Safe \subseteq Safe' /\ raced \subseteq raced' /\ Kept \subseteq Kept'
  /\ Unnamed' \subseteq Unnamed

\* The content at a path stays, or it is safe.
Yields(d, p) ==
  disk[d][p] # None =>
    \/ disk'[d][p] # None /\ disk'[d][p].md5 = disk[d][p].md5
    \/ disk[d][p].md5 \in Safe'

\* Nothing comes to a path but what is known to race.
OnlyRaced(d, p) ==
  disk'[d][p] # None =>
    \/ disk[d][p] # None /\ disk'[d][p].md5 = disk[d][p].md5
    \/ disk'[d][p].md5 \in raced'

\* What is written to the disk of d now may be overwritten.
Exposed(d) == pc[d] \in {"scanned", "relist", "listed", "viewed", "running"}

\* A record that nothing touches stays good.
LEMMA RecordStays ==
  ASSUME TInv, TInv', Grows, NEW d \in Devices, NEW p \in Paths, RecordGood(d, p),
         mem'[d][p] = mem[d][p],
         Yields(d, p) \/ Landed(todo[d][p])',
         Landed(todo[d][p]) => Landed(todo[d][p])'
  PROVE  RecordGood(d, p)'
<1> SUFFICES ASSUME mem[d][p] # None
             PROVE  RecordGood(d, p)'
  BY DEF RecordGood
<1> DEFINE m == mem[d][p]
<1>1. m.id \in Files /\ Exists(m.id) /\ m.rev \in Nat
  BY RecordTypes
<1>2. drive[m.id].rev \in Nat /\ drive'[m.id].rev \in Nat
  BY <1>1, FileTypes DEF TInv, DriveOK, DriveFile
<1>3. /\ drive[m.id].rev <= drive'[m.id].rev
      /\ drive'[m.id].rev = drive[m.id].rev => drive'[m.id].md5 = drive[m.id].md5
  BY <1>1 DEF Grows, FilesStay
<1>4. /\ m.fp \in Contents /\ m.rev <= drive'[m.id].rev
      /\ m.rev = drive'[m.id].rev => m.rev = drive[m.id].rev /\ drive'[m.id].md5 = m.fp
  BY <1>1, <1>2, <1>3 DEF RecordGood, Truth
<1>5. /\ m.md5 \in Kept'
      /\ m.rev = drive'[m.id].rev => m.fp = m.md5 \/ m.fp \in Safe'
  BY <1>4 DEF RecordGood, Current, Grows
<1>6. \/ disk'[d][p] # None /\ disk'[d][p].md5 = m.md5
      \/ m.md5 \in Safe' \/ m.rev # drive'[m.id].rev \/ Landed(todo[d][p])'
  BY <1>4 DEF RecordGood, Current, OnDisk, Yields, Grows
<1> HIDE DEF m
<1>7. mem'[d][p] = m
  BY DEF m
<1> QED
  BY <1>4, <1>5, <1>6, <1>7 DEF RecordGood, Truth, Current, OnDisk

\* So does what is known of a file: a revision known before is still one.
LEMMA TruthStays ==
  ASSUME TInv, TInv', Grows, NEW r, r.id \in Files, Exists(r.id), r.rev \in Nat, NEW c,
         Truth(r.id, r.rev, c)
  PROVE  /\ c \in Contents /\ r.rev <= drive'[r.id].rev
         /\ r.rev = drive'[r.id].rev => drive'[r.id].md5 = c
         /\ r.rev = drive'[r.id].rev => Current(r)
<1>1. drive[r.id].rev \in Nat /\ drive'[r.id].rev \in Nat
  BY FileTypes DEF TInv, DriveOK, DriveFile
<1>2. /\ drive[r.id].rev <= drive'[r.id].rev
      /\ drive'[r.id].rev = drive[r.id].rev => drive'[r.id].md5 = drive[r.id].md5
  BY DEF Grows, FilesStay
<1> QED
  BY <1>1, <1>2 DEF Truth, Current

\* The scan of a path stays good.
LEMMA ScanStays ==
  ASSUME TInv, TInv', Grows, NEW d \in Devices, NEW p \in Paths,
         RecordGood(d, p), ScanGood(d, p), UNCHANGED <<pc[d], mem[d][p], scan[d][p]>>,
         Yields(d, p), Exposed(d) => OnlyRaced(d, p)
  PROVE  ScanGood(d, p)'
<1> SUFFICES ASSUME pc[d] \in {"scanned", "relist", "listed", "viewed"}
             PROVE  ScanGood(d, p)'
  BY DEF ScanGood
<1>1. \/ disk'[d][p] = None \/ disk'[d][p].md5 \in raced'
      \/ scan[d][p] # None /\ disk'[d][p] # None /\ disk'[d][p].md5 = scan[d][p].md5
  BY DEF ScanGood, Exposed, OnlyRaced, OnDisk, Grows
<1>2. ASSUME mem[d][p] # None, scan[d][p] # None
      PROVE  \/ scan[d][p].md5 = mem[d][p].md5 \/ mem[d][p].md5 \in Safe'
             \/ mem[d][p].rev # drive'[mem[d][p].id].rev
  <2>1. \/ scan[d][p].md5 = mem[d][p].md5 \/ mem[d][p].md5 \in Safe
        \/ ~Current(mem[d][p])
    BY <1>2 DEF ScanGood
  <2>2. mem[d][p].rev = drive'[mem[d][p].id].rev => Current(mem[d][p])
    <3>1. Truth(mem[d][p].id, mem[d][p].rev, mem[d][p].fp)
      BY <1>2 DEF RecordGood
    <3> QED
      BY <1>2, <3>1, RecordTypes, TruthStays
  <2> QED
    BY <2>1, <2>2 DEF Grows
<1> QED
  BY <1>1, <1>2 DEF ScanGood, OnDisk, Current

\* And so does the view.
LEMMA ViewStays ==
  ASSUME TInv, TInv', Grows, NEW d \in Devices, NEW p \in Paths,
         RecordGood(d, p), ViewGood(d, p), UNCHANGED <<pc[d], mem[d][p], view[d][p]>>
  PROVE  ViewGood(d, p)'
<1> SUFFICES ASSUME pc[d] \in {"listed", "viewed"}, view[d][p] # None
             PROVE  ViewGood(d, p)'
  BY DEF ViewGood
<1> DEFINE r == view[d][p]
<1>1. Truth(r.id, r.rev, r.md5)
  BY DEF ViewGood
<1>2. /\ r.md5 \in Contents /\ r.rev <= drive'[r.id].rev
      /\ r.rev = drive'[r.id].rev => drive'[r.id].md5 = r.md5
  <2>1. r.id \in Files /\ Exists(r.id) /\ r.rev \in Nat
    BY RowTypes
  <2> HIDE DEF r
  <2> QED
    BY <1>1, <2>1, TruthStays
<1>3. p \in Unnamed' => r = Stub(mem[d][p])
  BY DEF ViewGood, Grows
<1>4. mem[d][p] # None /\ r.id = mem[d][p].id
      => r.md5 = mem[d][p].fp \/ mem[d][p].rev # drive'[mem[d][p].id].rev
  <2> DEFINE m == mem[d][p]
  <2> SUFFICES ASSUME m # None, r.id = m.id
               PROVE  r.md5 = m.fp \/ m.rev # drive'[m.id].rev
    OBVIOUS
  <2>1. m.id \in Files /\ Exists(m.id) /\ m.rev \in Nat /\ Truth(m.id, m.rev, m.fp)
    BY RecordTypes DEF RecordGood
  <2>2. r.md5 = m.fp \/ ~Current(m)
    BY DEF ViewGood, NoNews
  <2> HIDE DEF m, r
  <2> QED
    BY <2>1, <2>2, TruthStays
<1> QED
  BY <1>2, <1>3, <1>4 DEF ViewGood, Truth, Stub, NoNews, Current

\* A task that has nothing to do is good.
LEMMA NothingToDo ==
  ASSUME NEW d \in Devices, NEW p \in Paths, todo'[d][p] \in {NoTask, FailedTask}
  PROVE  TaskGood(d, p)' /\ LinkGood(d, p)'
BY DEF NoTask, FailedTask, TaskGood, DownloadGood, UploadGood, GuardGood, ShapeGood,
       LinkGood, Updating, Early

\* A task that nothing touches stays good, if no more comes to its path than
\* what is known to race.
LEMMA WorkStays ==
  ASSUME TInv, TInv', Grows, NEW d \in Devices, NEW p \in Paths,
         RecordGood(d, p), TaskGood(d, p), UNCHANGED <<mem[d][p], todo[d][p]>>,
         Yields(d, p), todo[d][p].act # "none" => OnlyRaced(d, p)
  PROVE  TaskGood(d, p)'
<1> DEFINE t == todo[d][p]
<1>1. t.row # None => /\ t.row.md5 \in Contents /\ t.row.rev <= drive'[t.row.id].rev
                      /\ t.row.rev = drive'[t.row.id].rev
                         => drive'[t.row.id].md5 = t.row.md5 /\ Current(t.row)
  <2> SUFFICES ASSUME t.row # None
               PROVE  /\ t.row.md5 \in Contents /\ t.row.rev <= drive'[t.row.id].rev
                      /\ t.row.rev = drive'[t.row.id].rev
                         => drive'[t.row.id].md5 = t.row.md5 /\ Current(t.row)
    OBVIOUS
  <2>1. Truth(t.row.id, t.row.rev, t.row.md5)
    BY DEF TaskGood, ShapeGood
  <2>2. t.row.id \in Files /\ Exists(t.row.id) /\ t.row.rev \in Nat
    BY TaskTypes
  <2> HIDE DEF t
  <2> QED
    BY <2>1, <2>2, TruthStays
<1>2. mem[d][p] # None /\ mem[d][p].rev = drive'[mem[d][p].id].rev => Current(mem[d][p])
  <2> SUFFICES ASSUME mem[d][p] # None
               PROVE  mem[d][p].rev = drive'[mem[d][p].id].rev => Current(mem[d][p])
    OBVIOUS
  <2>1. Truth(mem[d][p].id, mem[d][p].rev, mem[d][p].fp)
    BY DEF RecordGood
  <2> QED
    BY <2>1, RecordTypes, TruthStays
<1>3. raced' \subseteq Safe' /\ Safe' \subseteq Kept'
  BY DEF Safe, Kept
<1>4. DownloadGood(d, p)'
  <2> SUFFICES ASSUME t.act = "download"
               PROVE  DownloadGood(d, p)'
    BY DEF DownloadGood
  <2>1. Early(t) => \/ disk'[d][p] = None \/ disk'[d][p].md5 \in Safe'
                    \/ disk'[d][p].md5 \in Kept' /\ p \notin Unnamed'
    BY <1>3 DEF TaskGood, DownloadGood, OnlyRaced, Grows
  <2>2. Landed(t) => (disk'[d][p] # None => disk'[d][p].md5 \in Kept')
    BY <1>3 DEF TaskGood, DownloadGood, OnlyRaced, Grows
  <2>3. Landed(t) /\ t.row.rev = drive'[t.row.id].rev
        => \/ t.row.md5 \in Safe'
           \/ disk'[d][p] # None /\ disk'[d][p].md5 = t.row.md5
    BY <1>1 DEF TaskGood, DownloadGood, ShapeGood, OnDisk, Yields, Grows
  <2> QED
    BY <2>1, <2>2, <2>3 DEF DownloadGood, OnDisk, Current
<1>5. UploadGood(d, p)'
  BY DEF TaskGood, UploadGood, OnDisk, Yields, Grows
<1>6. GuardGood(d, p)'
  <2> SUFFICES ASSUME Updating(t), t.guarded
               PROVE  GuardGood(d, p)'
    BY DEF GuardGood
  <2>1. /\ mem[d][p] # None /\ t.id = mem[d][p].id
        /\ mem[d][p].md5 \in Safe \/ ~Current(mem[d][p])
        /\ t.at = "checked" => t.seen = mem[d][p].rev
    BY DEF TaskGood, GuardGood
  <2>2. mem[d][p].md5 \in Safe' \/ mem[d][p].rev # drive'[mem[d][p].id].rev
    BY <1>2, <2>1 DEF Grows
  <2> QED
    BY <2>1, <2>2 DEF GuardGood, Current
<1>7. ShapeGood(d, p)'
  <2>1. t.act = "touch" /\ disk'[d][p] # None => disk'[d][p].md5 \in Kept'
    BY <1>3 DEF TaskGood, ShapeGood, OnlyRaced, Grows
  <2> QED
    BY <1>1, <2>1 DEF TaskGood, ShapeGood, Truth
<1> QED
  BY <1>4, <1>5, <1>6, <1>7 DEF TaskGood

\* A path in use by a device gets no file of its name from elsewhere.
StaysUnnamed(d, p) == p \in Unnamed /\ Uses(d, p) => p \in Unnamed'

\* A task that has an unguarded update to come had it, of the same file and
\* after the same copy.
SameLink(d, p) ==
  LET t == todo[d][p]
      u == todo'[d][p]
  IN  Updating(u) /\ ~u.guarded =>
        /\ Updating(t) /\ ~t.guarded
        /\ u.id = t.id /\ u.seen = t.seen /\ u.after = t.after
        /\ u.at = "started" => t.at = "started"

\* A copy that was to come is to come, or one that came is there.
SameCopy(d, c) ==
  LET t == todo[d][c]
      u == todo'[d][c]
  IN  /\ t.act = "download" /\ Early(t)
         => u.act = "download" /\ Early(u) /\ u.id = t.id
      /\ Landed(t) \/ (t.at = "ended" /\ mem[d][c] # None)
         => Landed(u) \/ (u.at = "ended" /\ mem'[d][c] # None)

\* The upload of a conflict stays linked to its copy.
LEMMA LinkStays ==
  ASSUME TInv, TInv', Grows, NEW d \in Devices, NEW p \in Paths, NEW c \in Paths,
         LinkGood(d, p), SameLink(d, p),
         todo[d][p].after \in Paths => todo[d][p].after = c, SameCopy(d, c),
         Yields(d, c), StaysUnnamed(d, c)
  PROVE  LinkGood(d, p)'
<1> DEFINE t == todo[d][p]
           u == todo'[d][p]
<1> SUFFICES ASSUME Updating(u), ~u.guarded
             PROVE  LinkGood(d, p)'
  BY DEF LinkGood
<1>1. /\ Updating(t) /\ ~t.guarded
      /\ u.id = t.id /\ u.seen = t.seen /\ u.after = t.after
      /\ u.at = "started" => t.at = "started"
  BY DEF SameLink
<1>2. t.at # "started" /\ t.after = c /\ c \in CopyPaths /\ (Pending(d, t) \/ Saved(d, t))
  BY <1>1, PathsAssumption DEF LinkGood
<1>3. CASE Pending(d, t)
  <2>1. /\ todo'[d][c].act = "download" /\ Early(todo'[d][c]) /\ todo'[d][c].id = t.id
        /\ t.seen = 0 /\ c \in Unnamed'
    BY <1>2, <1>3 DEF Pending, StaysUnnamed, Uses, SameCopy
  <2> QED
    BY <1>1, <1>2, <2>1 DEF LinkGood, Pending
<1>4. CASE Saved(d, t)
  <2>1. t.id \in Files /\ Exists(t.id) /\ t.seen \in Nat
    BY <1>1, TaskTypes DEF Updating
  <2>2. drive[t.id].rev \in Nat /\ drive'[t.id].rev \in Nat
    BY <2>1, FileTypes DEF TInv, DriveOK, DriveFile
  <2>3. /\ drive[t.id].rev <= drive'[t.id].rev
        /\ drive'[t.id].rev = drive[t.id].rev => drive'[t.id].md5 = drive[t.id].md5
    BY <2>1 DEF Grows, FilesStay
  <2>4. t.seen <= drive'[t.id].rev
    BY <1>4, <2>1, <2>2, <2>3 DEF Saved
  <2>5. ASSUME t.seen = drive'[t.id].rev
        PROVE  \/ drive'[t.id].md5 \in Safe'
               \/ /\ c \in Unnamed'
                  /\ disk'[d][c] # None /\ disk'[d][c].md5 = drive'[t.id].md5
    <3>1. t.seen = drive[t.id].rev /\ drive'[t.id].md5 = drive[t.id].md5
      BY <1>4, <2>1, <2>2, <2>3, <2>5 DEF Saved
    <3>2. \/ drive[t.id].md5 \in Safe
          \/ c \in Unnamed /\ OnDisk(d, c, drive[t.id].md5)
      BY <1>2, <1>4, <3>1 DEF Saved
    <3> QED
      BY <3>1, <3>2 DEF OnDisk, Yields, StaysUnnamed, Uses, Grows
  <2>6. \/ Landed(todo'[d][c])
        \/ todo'[d][c].at = "ended" /\ mem'[d][c] # None
    BY <1>2, <1>4 DEF Saved, SameCopy
  <2> QED
    BY <1>1, <1>2, <2>4, <2>5, <2>6 DEF LinkGood, Saved, OnDisk
<1> QED
  BY <1>2, <1>3, <1>4

\* Devices that are not running have no tasks.
LEMMA IdleTasks ==
  ASSUME LInv, JInv, NEW d \in Devices, NEW p \in Paths, pc[d] # "running"
  PROVE  todo[d][p].act = "none" /\ todo[d][p].at = "ended"
BY DEF JInv, LInv, Good, TaskGood, ShapeGood

\* A device that no step of its own touches, and the paths it uses.
LEMMA DeviceStays ==
  ASSUME TInv, TInv', JInv, LInv, Grows, NEW d \in Devices,
         UNCHANGED <<pc[d], mem[d], scan[d], view[d], todo[d]>>,
         \A p \in Paths : Yields(d, p),
         \A p \in Paths : Exposed(d) => OnlyRaced(d, p),
         \A p \in Paths : StaysUnnamed(d, p)
  PROVE  \A p \in Paths : Good(d, p)'
<1> SUFFICES ASSUME NEW p \in Paths
             PROVE  Good(d, p)'
  OBVIOUS
<1>1. Good(d, p)
  BY DEF LInv
<1>2. RecordGood(d, p)' /\ ScanGood(d, p)' /\ ViewGood(d, p)'
  BY <1>1, RecordStays, ScanStays, ViewStays DEF Good
<1>3. TaskGood(d, p)'
  <2>1. todo[d][p].act # "none" => OnlyRaced(d, p)
    BY IdleTasks DEF Exposed
  <2> QED
    BY <1>1, <2>1, WorkStays DEF Good
<1>4. LinkGood(d, p)'
  <2>1. \E c \in Paths : todo[d][p].after \in Paths => todo[d][p].after = c
    OBVIOUS
  <2> QED
    BY <1>1, <2>1, LinkStays DEF Good, SameLink, SameCopy
<1> QED
  BY <1>2, <1>3, <1>4 DEF Good

-----------------------------------------------------------------------------
(* The steps that move contents about.                                     *)

\* Files keep what they have, and disks too: the rest may only become safe.
LEMMA GrowsBySafe ==
  ASSUME \A f \in Files : Exists(f)' <=> Exists(f),
         \A f \in Files : /\ drive'[f].name = drive[f].name
                          /\ drive'[f].rev = drive[f].rev
                          /\ drive'[f].md5 = drive[f].md5,
         \A f \in Files : drive[f].rev \in Nat,
         UNCHANGED disk, Safe \subseteq Safe', raced \subseteq raced'
  PROVE  Grows /\ Unnamed' = Unnamed
<1>1. Unnamed' = Unnamed /\ OnDrive' = OnDrive
  BY DEF Unnamed, OnDrive
<1>2. Held' = Held
  BY <1>1 DEF Held
<1>3. Kept \subseteq Kept'
  BY <1>1, <1>2 DEF Kept
<1> QED
  BY <1>1, <1>3 DEF Grows, FilesStay

\* One path of one disk changes; a copy that nobody else has stays.
LEMMA GrowsByDisk ==
  ASSUME UNCHANGED drive, NEW d \in Devices, NEW p \in Paths,
         \A f \in Files : drive[f].rev \in Nat,
         \A e \in Devices, q \in Paths : e # d \/ q # p => disk'[e][q] = disk[e][q],
         p \in Unnamed => Yields(d, p),
         Safe \subseteq Safe', raced \subseteq raced'
  PROVE  Grows /\ Unnamed' = Unnamed
<1>1. Unnamed' = Unnamed /\ OnDrive' = OnDrive
  BY DEF Unnamed, OnDrive, Exists
<1>2. ASSUME NEW c \in Held
      PROVE  c \in Kept'
  <2>1. PICK e \in Devices, q \in Unnamed : disk[e][q] # None /\ disk[e][q].md5 = c
    BY <1>2 DEF Held
  <2>2. c \in Contents /\ q \in Paths
    BY <1>2, PathsAssumption DEF Held, Unnamed
  <2>3. \/ disk'[e][q] # None /\ disk'[e][q].md5 = c
        \/ c \in Safe'
    BY <2>1, <2>2 DEF Yields
  <2>4. (disk'[e][q] # None /\ disk'[e][q].md5 = c) => c \in Held'
    BY <1>1, <2>1, <2>2 DEF Held
  <2> QED
    BY <2>3, <2>4 DEF Kept
<1>3. Kept \subseteq Kept'
  BY <1>1, <1>2 DEF Kept
<1> QED
  BY <1>1, <1>3 DEF Grows, FilesStay, Exists

\* A file of Drive gets a new revision; the content it had is safe or in a
\* copy.
LEMMA GrowsByWrite ==
  ASSUME NEW f \in Files, NEW c \in Contents, drive \in [Files -> DriveFile],
         drive' = [drive EXCEPT ![f] = WithContent(f, c)],
         \A g \in Files : drive[g].rev \in Nat,
         UNCHANGED disk, Safe \subseteq Safe', raced \subseteq raced',
         drive[f].md5 \in Safe' \cup Held
  PROVE  Grows /\ Unnamed' = Unnamed
<1>1. /\ drive'[f].st = drive[f].st /\ drive'[f].name = drive[f].name
      /\ drive'[f].rev = drive[f].rev + 1 /\ drive'[f].md5 = c
      /\ \A g \in Files : g # f => drive'[g] = drive[g]
  BY DEF WithContent, DriveFile
<1>2. \A g \in Files : (Exists(g)' <=> Exists(g)) /\ drive'[g].name = drive[g].name
  BY <1>1 DEF Exists
<1>3. Unnamed' = Unnamed
  BY <1>2 DEF Unnamed
<1>4. Held' = Held
  BY <1>3 DEF Held
<1>5. OnDrive \subseteq OnDrive' \cup {drive[f].md5}
  BY <1>1, <1>2 DEF OnDrive
<1>6. Kept \subseteq Kept'
  BY <1>4, <1>5 DEF Kept
<1>7. FilesStay
  BY <1>1, <1>2 DEF FilesStay
<1> QED
  BY <1>3, <1>6, <1>7 DEF Grows

\* A file is created from a local file: what nobody else had is on Drive now.
LEMMA GrowsByCreate ==
  ASSUME NEW f \in Files, ~Exists(f), NEW d \in Devices, NEW p \in Paths,
         disk[d][p] # None, drive'[f].st # "none", drive'[f].name = p,
         drive'[f].md5 = disk[d][p].md5,
         \A g \in Files : g # f => drive'[g] = drive[g],
         \A g \in Files : drive[g].rev \in Nat, OneOwner,
         UNCHANGED disk, Safe \subseteq Safe', raced \subseteq raced'
  PROVE  Grows /\ \A e \in Devices, q \in Paths : e # d \/ q # p => StaysUnnamed(e, q)
<1>1. /\ drive'[f].st # "none" /\ drive'[f].name = p /\ drive'[f].md5 = disk[d][p].md5
      /\ \A g \in Files : g # f => drive'[g] = drive[g]
  OBVIOUS
<1>2. Exists(f)' /\ \A g \in Files : g # f => (Exists(g)' <=> Exists(g))
  BY <1>1 DEF Exists
<1>3. Unnamed' = Unnamed \ {p}
  BY <1>1, <1>2 DEF Unnamed
<1>4. OnDrive' = OnDrive \cup {disk[d][p].md5}
  BY <1>1, <1>2 DEF OnDrive
<1>5. ASSUME NEW c \in Held
      PROVE  c \in Held' \cup OnDrive'
  <2>1. PICK e \in Devices, q \in Unnamed : disk[e][q] # None /\ disk[e][q].md5 = c
    BY <1>5 DEF Held
  <2>2. CASE q = p
    <3>1. e = d
      BY <2>1, <2>2 DEF OneOwner, Uses
    <3> QED
      BY <1>4, <2>1, <2>2, <3>1
  <2>3. CASE q # p
    BY <1>3, <1>5, <2>1, <2>3 DEF Held
  <2> QED
    BY <2>2, <2>3
<1>6. Kept \subseteq Kept'
  BY <1>4, <1>5 DEF Kept
<1>7. FilesStay
  BY <1>1, <1>2 DEF FilesStay
<1>8. \A e \in Devices, q \in Paths : e # d \/ q # p => StaysUnnamed(e, q)
  BY <1>3 DEF StaysUnnamed, OneOwner, Uses
<1> QED
  BY <1>3, <1>6, <1>7, <1>8 DEF Grows

-----------------------------------------------------------------------------
(* A step of one device.                                                   *)

\* Contents stay on a disk, or are kept elsewhere.
LEMMA DisksKeep ==
  ASSUME \A d \in Devices, p \in Paths :
           disk[d][p] # None =>
             \/ disk'[d][p] # None /\ disk'[d][p].md5 = disk[d][p].md5
             \/ disk[d][p].md5 \in Kept'
  PROVE  OnDisks \subseteq OnDisks' \cup Kept'
<1> SUFFICES ASSUME NEW c \in OnDisks
             PROVE  c \in OnDisks' \cup Kept'
  OBVIOUS
<1>1. PICK d \in Devices, p \in Paths : disk[d][p] # None /\ c = disk[d][p].md5
  BY DEF OnDisks
<1>2. disk'[d][p] # None => disk'[d][p].md5 \in OnDisks'
  <2>1. <<d, p>> \in Devices \X Paths
    OBVIOUS
  <2> QED
    BY <2>1 DEF OnDisks
<1> QED
  BY <1>1, <1>2

\* So do those that somebody wrote.
LEMMA AuthoredStay ==
  ASSUME Grows, authored \subseteq OnDisks \cup Kept, UNCHANGED authored,
         \A d \in Devices, p \in Paths :
           disk[d][p] # None =>
             \/ disk'[d][p] # None /\ disk'[d][p].md5 = disk[d][p].md5
             \/ disk[d][p].md5 \in Kept'
  PROVE  (authored \subseteq OnDisks \cup Kept)'
<1>1. OnDisks \subseteq OnDisks' \cup Kept'
  BY DisksKeep
<1> QED
  BY <1>1 DEF Grows

\* Revisions start with 1 and do not go back.
LEMMA CountedStays ==
  ASSUME TInv, TInv', Counted, Grows,
         \A f \in Files : Exists(f)' => Exists(f) \/ drive'[f].rev = 1
  PROVE  Counted'
<1>1. \A f \in Files : drive[f].rev \in Nat /\ drive'[f].rev \in Nat
  BY DEF TInv, DriveOK, DriveFile
<1> QED
  BY <1>1 DEF Counted, Grows, FilesStay

\* Other devices have what they had.
OthersStay(d) ==
  \A e \in Devices \ {d} :
    /\ pc'[e] = pc[e] /\ rec'[e] = rec[e] /\ mem'[e] = mem[e]
    /\ scan'[e] = scan[e] /\ view'[e] = view[e] /\ todo'[e] = todo[e]
    /\ disk'[e] = disk[e]

\* Nobody else uses the paths of copies that d takes.
TakesOwn(d) ==
  \A q \in Unnamed' : Uses(d, q)' =>
    \/ Uses(d, q)
    \/ \A e \in Devices \ {d} : ~Uses(e, q)

\* A step of d keeps the invariant when it keeps what is said of d.
LEMMA StepOfDevice ==
  ASSUME TInv, TInv', JInv, LInv, Grows, NEW d \in Devices, OthersStay(d),
         UNCHANGED authored, TakesOwn(d),
         \A f \in Files : Exists(f)' => Exists(f) \/ drive'[f].rev = 1,
         \A e \in Devices, q \in Paths : e # d => StaysUnnamed(e, q),
         \A q \in Paths : disk[d][q] # None =>
           \/ disk'[d][q] # None /\ disk'[d][q].md5 = disk[d][q].md5
           \/ disk[d][q].md5 \in Kept',
         pc'[d] \notin {"recovering", "running"} => rec'[d] = mem'[d],
         \A q \in Paths : Good(d, q)'
  PROVE  LInv' /\ Grows
<1>1. Counted'
  BY CountedStays DEF LInv
<1>2. OneOwner'
  <2> SUFFICES ASSUME NEW q \in Unnamed', NEW e \in Devices, NEW g \in Devices,
                      Uses(e, q)', Uses(g, q)', e # g
               PROVE  FALSE
    BY DEF OneOwner
  <2>1. q \in Unnamed /\ q \in Paths
    BY PathsAssumption DEF Grows, Unnamed
  <2>2. \A h \in Devices \ {d} : Uses(h, q)' => Uses(h, q)
    BY DEF OthersStay, Uses
  <2> QED
    BY <2>1, <2>2 DEF LInv, OneOwner, TakesOwn
<1>3. Persisted'
  BY DEF LInv, Persisted, OthersStay
<1>4. \A e \in Devices \ {d}, q \in Paths : Good(e, q)'
  <2> SUFFICES ASSUME NEW e \in Devices \ {d}
               PROVE  \A q \in Paths : Good(e, q)'
    OBVIOUS
  <2>1. /\ \A q \in Paths : Yields(e, q)
        /\ \A q \in Paths : Exposed(e) => OnlyRaced(e, q)
        /\ \A q \in Paths : StaysUnnamed(e, q)
    BY DEF OthersStay, Yields, OnlyRaced
  <2>2. UNCHANGED <<pc[e], mem[e], scan[e], view[e], todo[e]>>
    BY DEF OthersStay
  <2> QED
    BY <2>1, <2>2, DeviceStays
<1>5. (authored \subseteq OnDisks \cup Kept)'
  <2>1. \A e \in Devices, q \in Paths : disk[e][q] # None =>
          \/ disk'[e][q] # None /\ disk'[e][q].md5 = disk[e][q].md5
          \/ disk[e][q].md5 \in Kept'
    BY DEF OthersStay
  <2> QED
    BY <2>1, AuthoredStay DEF LInv
<1> QED
  BY <1>1, <1>2, <1>3, <1>4, <1>5 DEF LInv

\* A task whose copy is still to come, or came, waits for another path; that
\* path waits for none.
LEMMA CopyWaitsForNone ==
  ASSUME NEW d \in Devices, NEW p \in Paths, NEW c \in Paths,
         Updating(todo[d][p]), ~todo[d][p].guarded, LinkGood(d, p),
         todo[d][p].after = c, ShapeGood(d, c)
  PROVE  todo[d][c].act \in {"download", "none"} /\ todo[d][c].after = None /\ c # p
<1>1. Pending(d, todo[d][p]) \/ Saved(d, todo[d][p])
  BY DEF LinkGood
<1>2. todo[d][c].act = "download" \/ todo[d][c].at = "ended"
  BY <1>1 DEF Pending, Saved, Landed
<1>3. todo[d][c].act \in {"download", "none"}
  BY <1>2 DEF ShapeGood
<1> QED
  BY <1>3 DEF ShapeGood, Updating

\* The other tasks of the device go on, or are skipped with the one they
\* wait for.
Skips(d, p) ==
  \A q \in Paths \ {p} :
    \/ todo'[d][q] = todo[d][q]
    \/ todo[d][q].after = p /\ todo'[d][q] = FailedTask

deviceFrame == <<rec, pc, scan, view, authored>>

\* A step of one task keeps the invariant when it keeps what is said of its
\* path and of the tasks that wait for it.
LEMMA StepOfTask ==
  ASSUME TInv, TInv', JInv, LInv, Grows, NEW d \in Devices, NEW p \in Paths,
         pc[d] = "running", UNCHANGED deviceFrame, Skips(d, p),
         \A e \in Devices \ {d} : mem'[e] = mem[e] /\ todo'[e] = todo[e] /\ disk'[e] = disk[e],
         \A q \in Paths \ {p} : mem'[d][q] = mem[d][q] /\ disk'[d][q] = disk[d][q],
         \A f \in Files : Exists(f)' => Exists(f) \/ drive'[f].rev = 1,
         \A e \in Devices, q \in Paths : e # d \/ q # p => StaysUnnamed(e, q),
         p \in Unnamed' /\ Uses(d, p)' => Uses(d, p),
         disk[d][p] # None =>
           \/ disk'[d][p] # None /\ disk'[d][p].md5 = disk[d][p].md5
           \/ disk[d][p].md5 \in Kept',
         RecordGood(d, p)', TaskGood(d, p)', LinkGood(d, p)',
         \A q \in Paths \ {p} :
           todo[d][q].after = p /\ todo'[d][q] = todo[d][q] => LinkGood(d, q)'
  PROVE  LInv' /\ Grows
<1>1. pc'[d] = "running"
  BY DEF deviceFrame
<1>2. \A q \in Paths : ScanGood(d, q)' /\ ViewGood(d, q)'
  BY <1>1 DEF ScanGood, ViewGood
<1>3. ASSUME NEW q \in Paths \ {p}
      PROVE  RecordGood(d, q)' /\ TaskGood(d, q)' /\ LinkGood(d, q)'
  <2>1. Good(d, q) /\ Yields(d, q) /\ OnlyRaced(d, q)
    BY <1>3 DEF LInv, Yields, OnlyRaced
  <2>2. CASE todo'[d][q] = todo[d][q]
    <3>1. RecordGood(d, q)' /\ TaskGood(d, q)'
      BY <2>1, <2>2, RecordStays, WorkStays DEF Good
    <3>2. CASE todo[d][q].after = p
      BY <2>2, <3>1, <3>2
    <3>3. CASE ~(Updating(todo[d][q]) /\ ~todo[d][q].guarded)
      BY <2>2, <3>1, <3>3 DEF LinkGood, Updating, Early
    <3>4. CASE todo[d][q].after # p /\ Updating(todo[d][q]) /\ ~todo[d][q].guarded
      <4>1. todo[d][q].after \in Paths
        BY <2>1, <3>4, PathsAssumption DEF Good, LinkGood
      <4> DEFINE c == todo[d][q].after
      <4>2. c \in Paths \ {p}
        BY <3>4, <4>1
      <4>3. ShapeGood(d, c)
        BY <4>1 DEF LInv, Good, TaskGood
      <4>4. todo[d][c].after = None /\ c # q
        BY <2>1, <3>4, <4>1, <4>3, CopyWaitsForNone DEF Good
      <4>5. todo'[d][c] = todo[d][c]
        BY <4>2, <4>4, NoneAssumption DEF Skips
      <4>6. mem'[d][c] = mem[d][c] /\ Yields(d, c) /\ StaysUnnamed(d, c)
        BY <4>2 DEF Yields
      <4> HIDE DEF c
      <4>7. todo[d][q].after \in Paths => todo[d][q].after = c
        BY DEF c
      <4>8. SameLink(d, q) /\ SameCopy(d, c)
        BY <2>2, <4>5, <4>6 DEF SameLink, SameCopy
      <4> QED
        BY <2>1, <3>1, <4>2, <4>5, <4>6, <4>7, <4>8, LinkStays DEF Good
    <3> QED
      BY <3>1, <3>2, <3>3, <3>4
  <2>3. CASE todo[d][q].after = p /\ todo'[d][q] = FailedTask
    <3>1. ~Landed(todo[d][q])
      <4>1. todo[d][q].act = "update"
        BY <2>1, <2>3, NoneAssumption DEF Good, TaskGood, ShapeGood
      <4> QED
        BY <4>1 DEF Landed
    <3>2. RecordGood(d, q)'
      BY <2>1, <3>1, RecordStays DEF Good
    <3> QED
      BY <2>3, <3>2, NothingToDo
  <2> QED
    BY <1>3, <2>2, <2>3 DEF Skips
<1>4. \A q \in Paths : Good(d, q)'
  BY <1>2, <1>3 DEF Good
<1>5. OthersStay(d)
  BY DEF OthersStay, deviceFrame
<1>6. TakesOwn(d)
  <2> SUFFICES ASSUME NEW q \in Unnamed', Uses(d, q)', q # p
               PROVE  Uses(d, q)
    BY DEF TakesOwn
  <2>1. q \in Paths \ {p}
    BY PathsAssumption DEF Unnamed
  <2>2. todo'[d][q] = todo[d][q] \/ todo'[d][q] = FailedTask
    BY <2>1 DEF Skips
  <2> QED
    BY <2>1, <2>2 DEF Uses, FailedTask, NoTask
<1>7. \A q \in Paths : disk[d][q] # None =>
        \/ disk'[d][q] # None /\ disk'[d][q].md5 = disk[d][q].md5
        \/ disk[d][q].md5 \in Kept'
  OBVIOUS
<1> QED
  BY <1>1, <1>4, <1>5, <1>6, <1>7, StepOfDevice DEF deviceFrame

-----------------------------------------------------------------------------
(* The steps of tasks that download nothing.                               *)

\* No upload waits for what is not a download, or one that ended.
LEMMA NobodyWaits ==
  ASSUME LInv, NEW d \in Devices, NEW p \in Paths, NEW q \in Paths,
         todo[d][p].act # "download", todo[d][p].at # "ended",
         todo[d][q].after = p, todo'[d][q] = todo[d][q]
  PROVE  LinkGood(d, q)'
<1>1. LinkGood(d, q)
  BY DEF LInv, Good
<1>2. ~Pending(d, todo[d][q]) /\ ~Saved(d, todo[d][q])
  BY DEF Pending, Saved, Landed
<1>3. ~(Updating(todo'[d][q]) /\ ~todo'[d][q].guarded)
  BY <1>1, <1>2 DEF LinkGood
<1> QED
  BY <1>3 DEF LinkGood, Updating, Early

\* Such a step, if it leaves the disk alone.
LEMMA PlainStep ==
  ASSUME TInv, TInv', JInv, LInv, Grows, NEW d \in Devices, NEW p \in Paths,
         pc[d] = "running", UNCHANGED deviceFrame, UNCHANGED disk, Skips(d, p),
         \A e \in Devices \ {d} : mem'[e] = mem[e] /\ todo'[e] = todo[e],
         \A q \in Paths \ {p} : mem'[d][q] = mem[d][q],
         todo[d][p].act # "download", todo[d][p].at # "ended",
         todo'[d][p].act \in {todo[d][p].act, "none"},
         \A f \in Files : Exists(f)' => Exists(f) \/ drive'[f].rev = 1,
         \A e \in Devices, q \in Paths : e # d \/ q # p => StaysUnnamed(e, q),
         RecordGood(d, p)', TaskGood(d, p)', LinkGood(d, p)'
  PROVE  LInv' /\ Grows
<1>1. \A q \in Paths \ {p} : todo[d][q].after = p /\ todo'[d][q] = todo[d][q]
                             => LinkGood(d, q)'
  BY NobodyWaits
<1>2. p \in Unnamed' /\ Uses(d, p)' => Uses(d, p)
  BY DEF Uses
<1>3. /\ \A e \in Devices \ {d} : mem'[e] = mem[e] /\ todo'[e] = todo[e] /\ disk'[e] = disk[e]
      /\ \A q \in Paths \ {p} : mem'[d][q] = mem[d][q] /\ disk'[d][q] = disk[d][q]
      /\ disk[d][p] # None =>
           \/ disk'[d][p] # None /\ disk'[d][p].md5 = disk[d][p].md5
           \/ disk[d][p].md5 \in Kept'
  OBVIOUS
<1> QED
  BY <1>1, <1>2, <1>3, StepOfTask

\* Drive may change in what no record or task looks at.
Calm ==
  /\ UNCHANGED disk /\ Safe \subseteq Safe' /\ raced \subseteq raced'
  /\ \A f \in Files :
       /\ Exists(f)' <=> Exists(f)
       /\ drive'[f].name = drive[f].name
       /\ drive'[f].rev = drive[f].rev
       /\ drive'[f].md5 = drive[f].md5

\* Nobody else has a part in such a step.
LEMMA CalmGrows ==
  ASSUME TInv, Calm
  PROVE  /\ Grows /\ Unnamed' = Unnamed
         /\ \A f \in Files : Exists(f)' => Exists(f) \/ drive'[f].rev = 1
         /\ \A e \in Devices, q \in Paths : StaysUnnamed(e, q)
<1>1. \A f \in Files : drive[f].rev \in Nat
  BY FileTypes
<1>2. Grows /\ Unnamed' = Unnamed
  BY <1>1, GrowsBySafe DEF Calm
<1> QED
  BY <1>2 DEF Calm, StaysUnnamed

\* The task ends, or fails: its record stays.
LEMMA ClosedKeeps ==
  ASSUME TInv, TInv', JInv, LInv, Grows, UNCHANGED disk, NEW d \in Devices, NEW p \in Paths,
         pc[d] = "running", UNCHANGED deviceFrame, UNCHANGED mem, Skips(d, p),
         \A e \in Devices \ {d} : todo'[e] = todo[e],
         todo[d][p].act # "download", todo[d][p].at # "ended",
         todo'[d][p] \in {NoTask, FailedTask},
         \A f \in Files : Exists(f)' => Exists(f) \/ drive'[f].rev = 1,
         \A e \in Devices, q \in Paths : e # d \/ q # p => StaysUnnamed(e, q)
  PROVE  LInv' /\ Grows
<1>1. RecordGood(d, p) /\ ~Landed(todo[d][p]) /\ Yields(d, p)
  BY DEF LInv, Good, Landed, Yields
<1>2. RecordGood(d, p)'
  BY <1>1, RecordStays
<1>3. TaskGood(d, p)' /\ LinkGood(d, p)'
  BY NothingToDo
<1>4. todo'[d][p].act \in {todo[d][p].act, "none"}
  BY DEF NoTask, FailedTask
<1> QED
  BY <1>2, <1>3, <1>4, PlainStep

\* The task goes on.
LEMMA MovedKeeps ==
  ASSUME TInv, TInv', JInv, LInv, Grows, UNCHANGED disk, NEW d \in Devices, NEW p \in Paths,
         pc[d] = "running", UNCHANGED deviceFrame, UNCHANGED mem, Skips(d, p),
         \A e \in Devices \ {d} : todo'[e] = todo[e],
         todo[d][p].act # "download", todo[d][p].at # "ended",
         todo'[d][p].act = todo[d][p].act,
         \A f \in Files : Exists(f)' => Exists(f) \/ drive'[f].rev = 1,
         \A e \in Devices, q \in Paths : e # d \/ q # p => StaysUnnamed(e, q),
         TaskGood(d, p)', LinkGood(d, p)'
  PROVE  LInv' /\ Grows
<1>1. RecordGood(d, p) /\ ~Landed(todo[d][p]) /\ Yields(d, p)
  BY DEF LInv, Good, Landed, Yields
<1>2. RecordGood(d, p)'
  BY <1>1, RecordStays
<1> QED
  BY <1>2, PlainStep

\* The operators that move tasks, and the one that changes a record.
LEMMA TaskMoves ==
  ASSUME TInv, NEW d \in Devices, NEW p \in Paths
  PROVE  /\ \A a : Goto(d, p, a) =>
              /\ Skips(d, p) /\ \A e \in Devices \ {d} : todo'[e] = todo[e]
              /\ todo'[d][p] = [todo[d][p] EXCEPT !.at = a]
         /\ End(d, p) =>
              /\ Skips(d, p) /\ \A e \in Devices \ {d} : todo'[e] = todo[e]
              /\ todo'[d][p] = NoTask
         /\ FailTask(d, p) =>
              /\ Skips(d, p) /\ \A e \in Devices \ {d} : todo'[e] = todo[e]
              /\ todo'[d][p] = FailedTask
         /\ \A m : Upsert(d, p, m) =>
              /\ mem'[d][p] = m
              /\ \A e \in Devices \ {d} : mem'[e] = mem[e]
              /\ \A q \in Paths \ {p} : mem'[d][q] = mem[d][q]
<1>1. todo \in [Devices -> [Paths -> Task]] /\ mem \in [Devices -> [Paths -> Record \cup {None}]]
  BY DEF TInv, TasksOK, StoreOK
<1>2. ASSUME NEW a, Goto(d, p, a)
      PROVE  /\ Skips(d, p) /\ \A e \in Devices \ {d} : todo'[e] = todo[e]
             /\ todo'[d][p] = [todo[d][p] EXCEPT !.at = a]
  BY <1>1, <1>2 DEF Goto, Skips
<1>3. ASSUME End(d, p)
      PROVE  /\ Skips(d, p) /\ \A e \in Devices \ {d} : todo'[e] = todo[e]
             /\ todo'[d][p] = NoTask
  BY <1>1, <1>3 DEF End, Skips
<1>4. ASSUME FailTask(d, p)
      PROVE  /\ Skips(d, p) /\ \A e \in Devices \ {d} : todo'[e] = todo[e]
             /\ todo'[d][p] = FailedTask
  BY <1>1, <1>4 DEF FailTask, Skips
<1>5. ASSUME NEW m, Upsert(d, p, m)
      PROVE  /\ mem'[d][p] = m
             /\ \A e \in Devices \ {d} : mem'[e] = mem[e]
             /\ \A q \in Paths \ {p} : mem'[d][q] = mem[d][q]
  BY <1>1, <1>5 DEF Upsert
<1> QED
  BY <1>2, <1>3, <1>4, <1>5

\* Nothing moves but what is inside a device, and contents that race.
LEMMA InnerCalm ==
  ASSUME UNCHANGED <<driveVars, diskVars, settled>>, raced \subseteq raced'
  PROVE  Calm
BY DEF driveVars, diskVars, Calm, Safe, InTrash, Exists

\* A new record of what Drive and the disk have now.
LEMMA NewRecordGood ==
  ASSUME NEW d \in Devices, NEW p \in Paths, NEW r, NEW c, NEW local,
         mem'[d][p] = RecordOf(r, c, local),
         r.md5 \in Contents, r.rev <= drive'[r.id].rev,
         r.rev = drive'[r.id].rev => drive'[r.id].md5 = r.md5,
         c \in Kept',
         r.rev = drive'[r.id].rev => r.md5 = c \/ r.md5 \in Safe',
         c \in Safe' \/ (disk'[d][p] # None /\ disk'[d][p].md5 = c)
  PROVE  RecordGood(d, p)'
<1>1. mem'[d][p].id = r.id /\ mem'[d][p].rev = r.rev /\ mem'[d][p].fp = r.md5
      /\ mem'[d][p].md5 = c
  BY DEF RecordOf
<1> QED
  BY <1>1 DEF RecordGood, Truth, Current, OnDisk

\* The record of a path that is on neither side goes.
LEMMA CleanupKeeps ==
  ASSUME TInv, TInv', JInv, LInv, NEW d \in Devices, NEW p \in Paths, CleanupMetadata(d, p)
  PROVE  LInv' /\ Grows
<1>1. pc[d] = "running" /\ todo[d][p].act = "cleanup" /\ todo[d][p].at = "ready"
  BY DEF CleanupMetadata, At
<1>2. Calm /\ UNCHANGED deviceFrame
  BY InnerCalm DEF CleanupMetadata, taskFrame, deviceFrame
<1>3. /\ Skips(d, p) /\ \A e \in Devices \ {d} : todo'[e] = todo[e]
      /\ todo'[d][p] = NoTask
  BY TaskMoves DEF CleanupMetadata
<1>4. /\ mem'[d][p] = None
      /\ \A e \in Devices \ {d} : mem'[e] = mem[e]
      /\ \A q \in Paths \ {p} : mem'[d][q] = mem[d][q]
  BY TaskMoves DEF CleanupMetadata
<1>5. RecordGood(d, p)'
  BY <1>4 DEF RecordGood
<1>6. TaskGood(d, p)' /\ LinkGood(d, p)'
  BY <1>3, NothingToDo
<1>7. todo'[d][p].act = "none"
  BY <1>3 DEF NoTask
<1> QED
  BY <1>1, <1>2, <1>3, <1>4, <1>5, <1>6, <1>7, CalmGrows, PlainStep DEF Calm

\* What the disk holds now counts as synced: it was the record's content, or
\* a user replaced that.
LEMMA TouchKeeps ==
  ASSUME TInv, TInv', JInv, LInv, NEW d \in Devices, NEW p \in Paths, TouchMetadata(d, p)
  PROVE  LInv' /\ Grows
<1>1. pc[d] = "running" /\ todo[d][p].act = "touch" /\ todo[d][p].at = "ready"
  BY DEF TouchMetadata, At
<1>2. Calm /\ UNCHANGED deviceFrame
  BY InnerCalm DEF TouchMetadata, taskFrame, deviceFrame
<1>3. CASE disk[d][p] = None
  <2>1. /\ Skips(d, p) /\ \A e \in Devices \ {d} : todo'[e] = todo[e]
        /\ todo'[d][p] = FailedTask /\ UNCHANGED mem
    BY <1>3, TaskMoves DEF TouchMetadata
  <2> QED
    BY <1>1, <1>2, <2>1, CalmGrows, ClosedKeeps DEF Calm
<1>4. CASE disk[d][p] # None
  <2>1. /\ Skips(d, p) /\ \A e \in Devices \ {d} : todo'[e] = todo[e]
        /\ todo'[d][p] = NoTask
    BY <1>4, TaskMoves DEF TouchMetadata
  <2> DEFINE m == mem[d][p]
             c == disk[d][p].md5
  <2>2. m # None
    BY <1>1 DEF TInv, TasksOK, Fit
  <2>3. /\ mem'[d][p] = [m EXCEPT !.md5 = c, !.stat = disk[d][p].stat]
        /\ \A e \in Devices \ {d} : mem'[e] = mem[e]
        /\ \A q \in Paths \ {p} : mem'[d][q] = mem[d][q]
    BY <1>4, TaskMoves DEF TouchMetadata
  <2>4. m \in Record
    BY <2>2, RecordTypes
  <2>5. /\ mem'[d][p].id = m.id /\ mem'[d][p].rev = m.rev /\ mem'[d][p].fp = m.fp
        /\ mem'[d][p].md5 = c
    BY <2>3, <2>4 DEF Record
  <2>6. /\ m.fp \in Contents /\ m.rev <= drive[m.id].rev
        /\ m.rev = drive[m.id].rev => drive[m.id].md5 = m.fp
        /\ m.rev = drive[m.id].rev => m.fp = m.md5 \/ m.fp \in Safe
        /\ c = m.md5 \/ m.md5 \in Safe \/ m.rev # drive[m.id].rev
    BY <1>1, <1>4, <2>2 DEF LInv, Good, RecordGood, Truth, Current, OnDisk, Landed
  <2>7. c \in Kept
    BY <1>1, <1>4 DEF LInv, Good, TaskGood, ShapeGood
  <2> HIDE DEF m, c
  <2>8. /\ drive'[m.id].rev = drive[m.id].rev /\ drive'[m.id].md5 = drive[m.id].md5
        /\ disk'[d][p] # None /\ disk'[d][p].md5 = c
        /\ Safe \subseteq Safe' /\ Kept \subseteq Kept'
    <3>1. m.id \in Files
      BY <2>2, RecordTypes DEF m
    <3> QED
      BY <1>2, <1>4, <3>1, CalmGrows DEF Calm, Grows, c
  <2>9. RecordGood(d, p)'
    BY <2>5, <2>6, <2>7, <2>8 DEF RecordGood, Truth, Current, OnDisk
  <2>10. TaskGood(d, p)' /\ LinkGood(d, p)'
    BY <2>1, NothingToDo
  <2>11. todo'[d][p].act = "none"
    BY <2>1 DEF NoTask
  <2> QED
    BY <1>1, <1>2, <2>1, <2>3, <2>9, <2>10, <2>11, CalmGrows, PlainStep DEF Calm
<1> QED
  BY <1>3, <1>4

\* An upload put off, a deletion to be confirmed.
LEMMA DeferKeeps ==
  ASSUME TInv, TInv', JInv, LInv, NEW d \in Devices, NEW p \in Paths,
         DeferUpload(d, p)
  PROVE  LInv' /\ Grows
<1>1. /\ pc[d] = "running" /\ todo[d][p].act \in {"update", "create"}
      /\ todo[d][p].at = "ready"
  BY DEF DeferUpload, Ready, At
<1>2. Calm /\ UNCHANGED deviceFrame /\ UNCHANGED mem
  BY InnerCalm DEF DeferUpload, taskFrame, deviceFrame
<1>3. /\ Skips(d, p) /\ \A e \in Devices \ {d} : todo'[e] = todo[e]
      /\ todo'[d][p] = NoTask
  BY TaskMoves DEF DeferUpload
<1> QED
  BY <1>1, <1>2, <1>3, CalmGrows, ClosedKeeps DEF Calm

\* The row of a task that goes on is still a row.
LEMMA ShapeStays ==
  ASSUME TInv, TInv', Grows, NEW d \in Devices, NEW p \in Paths, ShapeGood(d, p),
         LET t == todo[d][p]
             u == todo'[d][p]
         IN  /\ t.act # "touch" /\ u.act = t.act /\ u.id = t.id /\ u.row = t.row
             /\ u.guarded = t.guarded /\ u.after = t.after
             /\ u.at \in {"ended", "failed", "mismatch"} => u.at = t.at
  PROVE  ShapeGood(d, p)'
<1> DEFINE t == todo[d][p]
           u == todo'[d][p]
<1>1. /\ t.act # "touch" /\ u.act = t.act /\ u.id = t.id /\ u.row = t.row
      /\ u.guarded = t.guarded /\ u.after = t.after
      /\ u.at \in {"ended", "failed", "mismatch"} => u.at = t.at
  OBVIOUS
<1>2. /\ t.at \in {"ended", "failed"} => t.act = "none"
      /\ t.after # None => t.act = "update" /\ ~t.guarded
      /\ t.row # None => Truth(t.row.id, t.row.rev, t.row.md5)
      /\ t.act \in {"download", "conflict"} \/ t.at = "mismatch"
         => t.row # None /\ t.row.id = t.id
  BY DEF ShapeGood
<1> DEFINE r == t.row
<1>3. r # None => r.id \in Files /\ Exists(r.id) /\ r.rev \in Nat
  BY TaskTypes
<1> HIDE DEF t, r
<1>4. r # None => /\ r.md5 \in Contents /\ r.rev <= drive'[r.id].rev
                  /\ r.rev = drive'[r.id].rev => drive'[r.id].md5 = r.md5
  BY <1>2, <1>3, TruthStays DEF r
<1>5. u.row = r
  BY <1>1 DEF r
<1> HIDE DEF u
<1>6. /\ u.at \in {"ended", "failed"} => u.act = "none"
      /\ u.after # None => u.act = "update" /\ ~u.guarded
      /\ u.row # None => /\ u.row.md5 \in Contents /\ u.row.rev <= drive'[u.row.id].rev
                         /\ u.row.rev = drive'[u.row.id].rev
                            => drive'[u.row.id].md5 = u.row.md5
      /\ u.act \in {"download", "conflict"} \/ u.at = "mismatch"
         => u.row # None /\ u.row.id = u.id
      /\ u.act # "touch"
  BY <1>1, <1>2, <1>4, <1>5 DEF r
<1> QED
  BY <1>6 DEF u, ShapeGood, Truth

\* The guard of an update that goes on is still good.
LEMMA GuardStays ==
  ASSUME TInv, TInv', Grows, NEW d \in Devices, NEW p \in Paths,
         RecordGood(d, p), GuardGood(d, p), mem'[d][p] = mem[d][p],
         LET t == todo[d][p]
             u == todo'[d][p]
         IN  Updating(u) /\ u.guarded =>
               /\ Updating(t) /\ t.guarded /\ u.id = t.id
               /\ u.at = "checked" => u.seen = mem[d][p].rev
  PROVE  GuardGood(d, p)'
<1> DEFINE t == todo[d][p]
           u == todo'[d][p]
           m == mem[d][p]
<1> SUFFICES ASSUME Updating(u), u.guarded
             PROVE  GuardGood(d, p)'
  BY DEF GuardGood
<1>1. /\ Updating(t) /\ t.guarded /\ u.id = t.id
      /\ u.at = "checked" => u.seen = m.rev
  OBVIOUS
<1>2. m # None /\ t.id = m.id /\ (m.md5 \in Safe \/ ~Current(m))
  BY <1>1 DEF GuardGood
<1>3. m.md5 \in Safe' \/ m.rev # drive'[m.id].rev
  <2>1. m.id \in Files /\ Exists(m.id) /\ m.rev \in Nat /\ Truth(m.id, m.rev, m.fp)
    BY <1>2, RecordTypes DEF RecordGood
  <2>2. Safe \subseteq Safe'
    BY DEF Grows
  <2> HIDE DEF m
  <2> QED
    BY <1>2, <2>1, <2>2, TruthStays
<1>4. u.id = m.id /\ m # None /\ (u.at = "checked" => u.seen = m.rev)
  BY <1>1, <1>2
<1>5. mem'[d][p] = m
  OBVIOUS
<1> HIDE DEF m, t, u
<1> QED
  BY <1>3, <1>4, <1>5 DEF u, GuardGood, Current

\* The link of an update that goes on is still good.
LEMMA LinkInPlain ==
  ASSUME TInv, TInv', LInv, Grows, UNCHANGED disk, NEW d \in Devices, NEW p \in Paths,
         Skips(d, p), \A q \in Paths \ {p} : mem'[d][q] = mem[d][q],
         \A e \in Devices, q \in Paths : e # d \/ q # p => StaysUnnamed(e, q),
         SameLink(d, p)
  PROVE  LinkGood(d, p)'
<1> DEFINE t == todo[d][p]
           u == todo'[d][p]
<1>1. LinkGood(d, p)
  BY DEF LInv, Good
<1>2. CASE ~(Updating(u) /\ ~u.guarded)
  BY <1>2 DEF LinkGood
<1>3. CASE Updating(u) /\ ~u.guarded
  <2>1. Updating(t) /\ ~t.guarded
    BY <1>3 DEF SameLink
  <2>2. PICK c \in Paths : t.after = c
    BY <1>1, <2>1, PathsAssumption DEF LinkGood
  <2>3. ShapeGood(d, c)
    BY DEF LInv, Good, TaskGood
  <2>4. todo[d][c].after = None /\ c # p
    BY <1>1, <2>1, <2>2, <2>3, CopyWaitsForNone
  <2>5. todo'[d][c] = todo[d][c] /\ mem'[d][c] = mem[d][c]
    BY <2>4, NoneAssumption DEF Skips
  <2>6. Yields(d, c) /\ StaysUnnamed(d, c)
    BY <2>4 DEF Yields
  <2>7. todo[d][p].after \in Paths => todo[d][p].after = c
    BY <2>2
  <2>8. SameCopy(d, c)
    BY <2>5 DEF SameCopy
  <2> QED
    BY <1>1, <2>6, <2>7, <2>8, LinkStays
<1> QED
  BY <1>2, <1>3

InPart == {"planned", "started", "checked", "linked", "effected", "done"}
InWhole == {"linked", "effected", "done"}

\* What an upload sent stays good.
LEMMA UploadStays ==
  ASSUME Grows, NEW d \in Devices, NEW p \in Paths, UploadGood(d, p),
         disk'[d][p] = disk[d][p],
         LET t == todo[d][p]
             u == todo'[d][p]
         IN  /\ u.act = t.act /\ u.md5 = t.md5
             /\ u.act \in {"update", "create"} /\ u.at \in InPart => t.at \in InPart
             /\ u.act \in {"update", "create"} /\ u.at \in InWhole => t.at \in InWhole
  PROVE  UploadGood(d, p)'
BY DEF UploadGood, OnDisk, Grows, InPart, InWhole

\* A task that goes on, one step further, in a step that changes nothing
\* else of it.
LEMMA WorkMoves ==
  ASSUME TInv, TInv', LInv, Grows, UNCHANGED disk, NEW d \in Devices, NEW p \in Paths,
         mem'[d][p] = mem[d][p], NEW a, todo'[d][p] = [todo[d][p] EXCEPT !.at = a],
         todo[d][p].act \notin {"touch", "download"},
         a \notin {"ended", "failed", "mismatch", "ready"},
         LET t == todo[d][p]
             u == todo'[d][p]
         IN  /\ u.act \in {"update", "create"} /\ u.at \in InPart => t.at \in InPart
             /\ u.act \in {"update", "create"} /\ u.at \in InWhole => t.at \in InWhole
             /\ Updating(u) => Updating(t)
             /\ a = "checked" => ~t.guarded
             /\ a = "started" /\ t.act = "update" => t.guarded
  PROVE  TaskGood(d, p)' /\ SameLink(d, p)
<1> DEFINE t == todo[d][p]
           u == todo'[d][p]
<1>1. t \in Task
  BY TaskTypes
<1>2. /\ u.act = t.act /\ u.id = t.id /\ u.row = t.row /\ u.md5 = t.md5 /\ u.at = a
      /\ u.guarded = t.guarded /\ u.after = t.after /\ u.seen = t.seen
  BY <1>1 DEF Task
<1>3. TaskGood(d, p) /\ RecordGood(d, p)
  BY DEF LInv, Good
<1>4. ShapeGood(d, p)'
  BY <1>2, <1>3, ShapeStays DEF TaskGood
<1>5. GuardGood(d, p)'
  BY <1>2, <1>3, GuardStays DEF TaskGood
<1>6. UploadGood(d, p)'
  BY <1>2, <1>3, UploadStays DEF TaskGood
<1>7. DownloadGood(d, p)'
  BY <1>2 DEF DownloadGood
<1>8. SameLink(d, p)
  BY <1>2 DEF SameLink, Updating
<1> QED
  BY <1>4, <1>5, <1>6, <1>7, <1>8 DEF TaskGood

\* The steps of such tasks that only move them: the journal knows of them.
LEMMA StartUpdateKeeps ==
  ASSUME TInv, TInv', JInv, LInv, NEW d \in Devices, NEW p \in Paths, StartUpdate(d, p)
  PROVE  LInv' /\ Grows
<1> DEFINE t == todo[d][p]
           a == IF t.guarded THEN "started" ELSE "checked"
<1>1. pc[d] = "running" /\ t.act = "update" /\ t.at = "planned"
  BY DEF StartUpdate, At
<1>2. Calm /\ UNCHANGED deviceFrame /\ UNCHANGED mem
  BY InnerCalm DEF StartUpdate, taskFrame, deviceFrame
<1>3. /\ Skips(d, p) /\ \A e \in Devices \ {d} : todo'[e] = todo[e]
      /\ todo'[d][p] = [todo[d][p] EXCEPT !.at = a]
  BY TaskMoves DEF StartUpdate
<1>4. t \in Task
  BY TaskTypes
<1>5. todo'[d][p].act = t.act /\ todo'[d][p].at = a /\ todo'[d][p].guarded = t.guarded
  BY <1>3, <1>4 DEF Task
<1>6. TaskGood(d, p)' /\ SameLink(d, p)
  <2>1. Updating(t) /\ t.at \in InPart
    BY <1>1 DEF Updating, Early, InPart
  <2>2. t.act \notin {"touch", "download"}
    BY <1>1
  <2>3. a \in {"started", "checked"} /\ (a = "checked" => ~t.guarded)
        /\ (a = "started" => t.guarded)
    OBVIOUS
  <2>4. a \notin InWhole
    BY <2>3 DEF InWhole
  <2> HIDE DEF a, t
  <2> QED
    BY <1>2, <1>3, <1>5, <2>1, <2>2, <2>3, <2>4, CalmGrows, WorkMoves DEF Calm, t
<1>7. LinkGood(d, p)'
  BY <1>2, <1>3, <1>6, CalmGrows, LinkInPlain DEF Calm
<1> QED
  BY <1>1, <1>2, <1>3, <1>5, <1>6, <1>7, CalmGrows, MovedKeeps DEF Calm

\* SideEffectDone, for all that downloads nothing.
LEMMA MarkKeeps ==
  ASSUME TInv, TInv', JInv, LInv, NEW d \in Devices, NEW p \in Paths, MarkDone(d, p),
         todo[d][p].act # "download"
  PROVE  LInv' /\ Grows
<1> DEFINE t == todo[d][p]
<1>1. /\ pc[d] = "running" /\ t.at = "effected"
      /\ t.act \in {"update", "create", "delete_local", "delete_remote"}
  BY DEF MarkDone, At
<1>2. Calm /\ UNCHANGED deviceFrame /\ UNCHANGED mem
  BY InnerCalm DEF MarkDone, taskFrame, deviceFrame
<1>3. /\ Skips(d, p) /\ \A e \in Devices \ {d} : todo'[e] = todo[e]
      /\ todo'[d][p] = [todo[d][p] EXCEPT !.at = "done"]
  BY TaskMoves DEF MarkDone
<1>4. t \in Task
  BY TaskTypes
<1>5. todo'[d][p].act = t.act /\ todo'[d][p].at = "done"
  BY <1>3, <1>4 DEF Task
<1>6. TaskGood(d, p)' /\ SameLink(d, p)
  <2>1. ~Updating(todo'[d][p]) /\ t.at \in InPart \cap InWhole
    BY <1>1, <1>5 DEF Updating, Early, InPart, InWhole
  <2> HIDE DEF t
  <2> QED
    BY <1>1, <1>2, <1>3, <2>1, CalmGrows, WorkMoves DEF Calm, t
<1>7. LinkGood(d, p)'
  BY <1>2, <1>3, <1>6, CalmGrows, LinkInPlain DEF Calm
<1> QED
  BY <1>1, <1>2, <1>3, <1>5, <1>6, <1>7, CalmGrows, MovedKeeps DEF Calm

\* A deletion goes on: Drive may lose sight of the file, not of its content.
LEMMA DeletionMoves ==
  ASSUME TInv, TInv', JInv, LInv, Calm, NEW d \in Devices, NEW p \in Paths,
         pc[d] = "running", UNCHANGED deviceFrame, UNCHANGED mem,
         todo[d][p].act \in {"delete_local", "delete_remote"}, todo[d][p].at # "ended",
         NEW a \in {"planned", "started", "effected"}, Goto(d, p, a)
  PROVE  LInv' /\ Grows
<1>1. /\ Skips(d, p) /\ \A e \in Devices \ {d} : todo'[e] = todo[e]
      /\ todo'[d][p] = [todo[d][p] EXCEPT !.at = a]
  BY TaskMoves
<1>2. todo[d][p] \in Task
  BY TaskTypes
<1>3. todo'[d][p].act = todo[d][p].act /\ ~Updating(todo'[d][p])
  BY <1>1, <1>2 DEF Task, Updating
<1>4. TaskGood(d, p)' /\ SameLink(d, p)
  BY <1>1, <1>3, CalmGrows, WorkMoves DEF Calm
<1>5. LinkGood(d, p)'
  BY <1>1, <1>4, CalmGrows, LinkInPlain DEF Calm
<1> QED
  BY <1>1, <1>3, <1>4, <1>5, CalmGrows, MovedKeeps DEF Calm

\* The tombstone, and the journal.
LEMMA ConfirmKeeps ==
  ASSUME TInv, TInv', JInv, LInv, NEW d \in Devices, NEW p \in Paths,
         ConfirmDelete(d, p) \/ StartDelete(d, p)
  PROVE  LInv' /\ Grows
<1>1. /\ pc[d] = "running" /\ todo[d][p].at \in {"ready", "planned"}
      /\ todo[d][p].act \in {"delete_local", "delete_remote"}
  BY DEF ConfirmDelete, StartDelete, At
<1>2. Calm /\ UNCHANGED deviceFrame /\ UNCHANGED mem
  BY InnerCalm DEF ConfirmDelete, StartDelete, taskFrame, deviceFrame
<1>3. CASE End(d, p)
  <2>1. /\ Skips(d, p) /\ \A e \in Devices \ {d} : todo'[e] = todo[e]
        /\ todo'[d][p] = NoTask
    BY <1>3, TaskMoves
  <2> QED
    BY <1>1, <1>2, <2>1, CalmGrows, ClosedKeeps DEF Calm
<1>4. CASE Goto(d, p, "planned")
  BY <1>1, <1>2, <1>4, DeletionMoves
<1>5. CASE Goto(d, p, "started")
  BY <1>1, <1>2, <1>5, DeletionMoves
<1> QED
  BY <1>3, <1>4, <1>5 DEF ConfirmDelete, StartDelete

\* A file of Drive goes to the trash.
LEMMA TrashRemoteKeeps ==
  ASSUME TInv, TInv', JInv, LInv, NEW d \in Devices, NEW p \in Paths, TrashRemote(d, p)
  PROVE  LInv' /\ Grows
<1> DEFINE f == todo[d][p].id
<1>1. pc[d] = "running" /\ todo[d][p].act = "delete_remote" /\ todo[d][p].at = "started"
  BY DEF TrashRemote, At
<1>2. f \in Files /\ Exists(f)
  BY <1>1, TaskTypes
<1>3. drive' = [drive EXCEPT ![f] = [drive[f] EXCEPT !.st = "trashed"]]
  BY DEF TrashRemote, ChangeDrive
<1>4. \A g \in Files :
        /\ Exists(g)' <=> Exists(g)
        /\ drive'[g].name = drive[g].name /\ drive'[g].rev = drive[g].rev
        /\ drive'[g].md5 = drive[g].md5
  BY <1>2, <1>3 DEF TInv, DriveOK, DriveFile, Exists
<1>5. Calm /\ UNCHANGED deviceFrame /\ UNCHANGED mem
  BY <1>4 DEF TrashRemote, taskFrame, deviceFrame, Calm, Safe, InTrash, diskVars
<1> QED
  BY <1>1, <1>5, DeletionMoves DEF TrashRemote

\* The record of what was deleted goes.
LEMMA CommitDeleteKeeps ==
  ASSUME TInv, TInv', JInv, LInv, NEW d \in Devices, NEW p \in Paths, CommitDelete(d, p)
  PROVE  LInv' /\ Grows
<1>1. /\ pc[d] = "running" /\ todo[d][p].at = "done"
      /\ todo[d][p].act \in {"delete_local", "delete_remote"}
  BY DEF CommitDelete, At
<1>2. Calm /\ UNCHANGED deviceFrame
  BY InnerCalm DEF CommitDelete, taskFrame, deviceFrame
<1>3. /\ Skips(d, p) /\ \A e \in Devices \ {d} : todo'[e] = todo[e]
      /\ todo'[d][p] = NoTask
  BY TaskMoves DEF CommitDelete
<1>4. /\ mem'[d][p] = None
      /\ \A e \in Devices \ {d} : mem'[e] = mem[e]
      /\ \A q \in Paths \ {p} : mem'[d][q] = mem[d][q]
  BY TaskMoves DEF CommitDelete
<1>5. RecordGood(d, p)'
  BY <1>4 DEF RecordGood
<1>6. TaskGood(d, p)' /\ LinkGood(d, p)'
  BY <1>3, NothingToDo
<1>7. todo'[d][p].act = "none"
  BY <1>3 DEF NoTask
<1> QED
  BY <1>1, <1>2, <1>3, <1>4, <1>5, <1>6, <1>7, CalmGrows, PlainStep DEF Calm

\* What a deletion takes from the disk is in .trash/.
LEMMA MoveToTrashKeeps ==
  ASSUME SafeDelete, TInv, TInv', JInv, LInv, NEW d \in Devices, NEW p \in Paths,
         MoveToTrash(d, p)
  PROVE  LInv' /\ Grows
<1>1. /\ pc[d] = "running" /\ todo[d][p].at = "started"
      /\ todo[d][p].act = "delete_local"
  BY DEF MoveToTrash, At
<1>2. UNCHANGED deviceFrame /\ UNCHANGED mem /\ UNCHANGED driveVars
      /\ UNCHANGED <<settled, raced>>
  BY DEF MoveToTrash, taskFrame, deviceFrame
<1>3. CASE disk[d][p] = None
  <2>1. /\ Skips(d, p) /\ \A e \in Devices \ {d} : todo'[e] = todo[e]
        /\ todo'[d][p] = FailedTask
    BY <1>3, TaskMoves DEF MoveToTrash
  <2>2. Calm
    BY <1>2, <1>3, InnerCalm DEF MoveToTrash
  <2> QED
    BY <1>1, <1>2, <2>1, <2>2, CalmGrows, ClosedKeeps DEF Calm
<1>4. CASE disk[d][p] # None
  <2>1. /\ Skips(d, p) /\ \A e \in Devices \ {d} : todo'[e] = todo[e]
        /\ todo'[d][p] = [todo[d][p] EXCEPT !.at = "effected"]
    BY <1>4, TaskMoves DEF MoveToTrash
  <2>2. /\ disk \in [Devices -> [Paths -> LocalFile \cup {None}]]
        /\ trash \in [Devices -> SUBSET Contents]
    BY DEF TInv, UserOK
  <2>3. /\ disk'[d][p] = None
        /\ \A e \in Devices \ {d} : disk'[e] = disk[e]
        /\ \A q \in Paths \ {p} : disk'[d][q] = disk[d][q]
        /\ disk[d][p].md5 \in trash'[d]
        /\ \A e \in Devices : trash[e] \subseteq trash'[e]
    BY <1>4, <2>2 DEF MoveToTrash
  <2>4. disk[d][p].md5 \in Safe' /\ Safe \subseteq Safe' /\ raced \subseteq raced'
    <3>1. InTrash \subseteq InTrash' /\ disk[d][p].md5 \in InTrash'
      BY <2>3 DEF InTrash
    <3> QED
      BY <1>2, <3>1 DEF Safe
  <2>5. Yields(d, p)
    BY <2>4 DEF Yields
  <2>6. Grows /\ Unnamed' = Unnamed
    <3>1. \A f \in Files : drive[f].rev \in Nat
      BY FileTypes
    <3>2. UNCHANGED drive
      BY <1>2 DEF driveVars
    <3> QED
      BY <2>3, <2>4, <2>5, <3>1, <3>2, GrowsByDisk
  <2>7. RecordGood(d, p)'
    <3>1. RecordGood(d, p) /\ ~Landed(todo[d][p])
      BY <1>1 DEF LInv, Good, Landed
    <3> QED
      BY <1>2, <2>5, <2>6, <3>1, RecordStays
  <2>8. todo[d][p] \in Task /\ todo'[d][p].act = "delete_local" /\ todo'[d][p].at = "effected"
    BY <1>1, <2>1, TaskTypes DEF Task
  <2>9. TaskGood(d, p)' /\ LinkGood(d, p)'
    <3>1. TaskGood(d, p)
      BY DEF LInv, Good
    <3>2. ShapeGood(d, p)'
      BY <1>1, <2>1, <2>6, <2>8, <3>1, ShapeStays DEF TaskGood, Task
    <3> QED
      BY <2>8, <3>2 DEF TaskGood, DownloadGood, UploadGood, GuardGood, LinkGood, Updating
  <2>10. \A q \in Paths \ {p} : todo[d][q].after = p /\ todo'[d][q] = todo[d][q]
                               => LinkGood(d, q)'
    BY <1>1, NobodyWaits
  <2>11. /\ \A e \in Devices \ {d} : mem'[e] = mem[e] /\ todo'[e] = todo[e] /\ disk'[e] = disk[e]
         /\ \A q \in Paths \ {p} : mem'[d][q] = mem[d][q] /\ disk'[d][q] = disk[d][q]
         /\ ~Uses(d, p)' /\ disk[d][p].md5 \in Kept'
    BY <1>2, <2>1, <2>3, <2>4, <2>8 DEF Uses, Kept
  <2>12. /\ \A f \in Files : Exists(f)' => Exists(f)
         /\ \A e \in Devices, q \in Paths : StaysUnnamed(e, q)
    BY <1>2, <2>6 DEF driveVars, Exists, StaysUnnamed
  <2> QED
    BY <1>1, <1>2, <2>1, <2>6, <2>7, <2>9, <2>10, <2>11, <2>12, StepOfTask
<1> QED
  BY <1>3, <1>4

-----------------------------------------------------------------------------
(* Uploads.                                                                *)

\* What is about to be sent is what the disk has.
LEMMA PlanUploadKeeps ==
  ASSUME TInv, TInv', JInv, LInv, NEW d \in Devices, NEW p \in Paths, PlanUpload(d, p)
  PROVE  LInv' /\ Grows
<1> DEFINE t == todo[d][p]
<1>1. pc[d] = "running" /\ t.act \in {"update", "create"} /\ t.at = "ready"
  BY DEF PlanUpload, Ready, At
<1>2. Calm /\ UNCHANGED deviceFrame /\ UNCHANGED mem
  BY InnerCalm DEF PlanUpload, taskFrame, deviceFrame
<1>3. CASE disk[d][p] = None
  <2>1. /\ Skips(d, p) /\ \A e \in Devices \ {d} : todo'[e] = todo[e]
        /\ todo'[d][p] = FailedTask
    BY <1>3, TaskMoves DEF PlanUpload
  <2> QED
    BY <1>1, <1>2, <2>1, CalmGrows, ClosedKeeps DEF Calm
<1>4. CASE disk[d][p] # None
  <2>1. t \in Task /\ todo \in [Devices -> [Paths -> Task]]
    BY TaskTypes DEF TInv, TasksOK
  <2>2. /\ Skips(d, p) /\ \A e \in Devices \ {d} : todo'[e] = todo[e]
        /\ todo'[d][p] = [t EXCEPT !.at = "planned", !.md5 = disk[d][p].md5]
    <3> DEFINE v == [t EXCEPT !.at = "planned", !.md5 = disk[d][p].md5]
    <3>1. todo' = [todo EXCEPT ![d][p] = v]
      BY <1>4 DEF PlanUpload, TInv, TasksOK
    <3> HIDE DEF v
    <3>2. /\ Skips(d, p) /\ \A e \in Devices \ {d} : todo'[e] = todo[e]
          /\ todo'[d][p] = v
      BY <3>1 DEF TInv, TasksOK, Skips
    <3> QED
      BY <3>2 DEF v
  <2> DEFINE u == todo'[d][p]
  <2>3. /\ u.act = t.act /\ u.id = t.id /\ u.row = t.row /\ u.guarded = t.guarded
        /\ u.after = t.after /\ u.seen = t.seen /\ u.at = "planned"
        /\ u.md5 = disk[d][p].md5
    BY <2>1, <2>2 DEF Task
  <2>4. TaskGood(d, p) /\ RecordGood(d, p)
    BY DEF LInv, Good
  <2>5. ShapeGood(d, p)'
    BY <1>1, <1>2, <2>3, <2>4, CalmGrows, ShapeStays DEF TaskGood
  <2>6. Updating(u) => Updating(t)
    BY <1>1, <2>3 DEF Updating, Early
  <2>7. GuardGood(d, p)'
    BY <1>2, <2>3, <2>4, <2>6, CalmGrows, GuardStays DEF TaskGood
  <2>8. UploadGood(d, p)' /\ DownloadGood(d, p)'
    BY <1>1, <1>2, <1>4, <2>3 DEF UploadGood, DownloadGood, OnDisk, Calm
  <2>9. SameLink(d, p)
    BY <2>3, <2>6 DEF SameLink
  <2>10. LinkGood(d, p)'
    BY <1>2, <2>2, <2>9, CalmGrows, LinkInPlain DEF Calm
  <2> QED
    BY <1>1, <1>2, <2>2, <2>3, <2>5, <2>7, <2>8, <2>10, CalmGrows, MovedKeeps
    DEF Calm, TaskGood
<1> QED
  BY <1>3, <1>4

\* The guard is looked at: only updates with a guard come here.
LEMMA PreflightKeeps ==
  ASSUME TInv, TInv', JInv, LInv, NEW d \in Devices, NEW p \in Paths, Preflight(d, p)
  PROVE  LInv' /\ Grows
<1> DEFINE t == todo[d][p]
           f == t.id
           u == todo'[d][p]
<1>1. pc[d] = "running" /\ t.act = "update" /\ t.at = "started"
  BY DEF Preflight, At
<1>2. Calm /\ UNCHANGED deviceFrame /\ UNCHANGED mem
  BY InnerCalm DEF Preflight, taskFrame, deviceFrame
<1>3. TaskGood(d, p) /\ RecordGood(d, p) /\ LinkGood(d, p)
  BY DEF LInv, Good
<1>4. t.guarded /\ Updating(t)
  BY <1>1, <1>3 DEF LinkGood, Updating, Early
<1>5. mem[d][p] # None /\ f = mem[d][p].id
  BY <1>3, <1>4 DEF TaskGood, GuardGood
<1>6. t \in Task /\ todo \in [Devices -> [Paths -> Task]]
  BY TaskTypes DEF TInv, TasksOK
<1>7. f \in Files /\ Exists(f)
  BY <1>1, TaskTypes
<1>8. CASE RevisionGuardMatches(d, p, f)
  <2>1. /\ Skips(d, p) /\ \A e \in Devices \ {d} : todo'[e] = todo[e]
        /\ u = [t EXCEPT !.at = "checked", !.seen = drive[f].rev]
    <3> DEFINE v == [t EXCEPT !.at = "checked", !.seen = drive[f].rev]
    <3>1. todo' = [todo EXCEPT ![d][p] = v]
      BY <1>8 DEF Preflight, TInv, TasksOK
    <3> HIDE DEF v
    <3>2. /\ Skips(d, p) /\ \A e \in Devices \ {d} : todo'[e] = todo[e]
          /\ todo'[d][p] = v
      BY <3>1 DEF TInv, TasksOK, Skips
    <3> QED
      BY <3>2 DEF v
  <2>2. /\ u.act = t.act /\ u.id = t.id /\ u.row = t.row /\ u.guarded = t.guarded
        /\ u.after = t.after /\ u.at = "checked" /\ u.md5 = t.md5
        /\ u.seen = drive[f].rev
    BY <1>6, <2>1 DEF Task
  <2>3. u.seen = mem[d][p].rev
    BY <1>5, <1>8, <2>2 DEF RevisionGuardMatches
  <2>4. ShapeGood(d, p)'
    BY <1>1, <1>2, <1>3, <2>2, CalmGrows, ShapeStays DEF TaskGood
  <2>5. GuardGood(d, p)'
    BY <1>2, <1>3, <1>4, <2>2, <2>3, CalmGrows, GuardStays DEF TaskGood
  <2>6. UploadGood(d, p)'
    BY <1>1, <1>2, <1>3, <2>2, CalmGrows, UploadStays DEF TaskGood, Calm, InPart, InWhole
  <2>7. DownloadGood(d, p)' /\ LinkGood(d, p)'
    BY <1>1, <1>4, <2>2 DEF DownloadGood, LinkGood
  <2> QED
    BY <1>1, <1>2, <2>1, <2>2, <2>4, <2>5, <2>6, <2>7, CalmGrows, MovedKeeps
    DEF Calm, TaskGood
<1>9. CASE ~RevisionGuardMatches(d, p, f)
  <2>1. /\ Skips(d, p) /\ \A e \in Devices \ {d} : todo'[e] = todo[e]
        /\ u = [t EXCEPT !.at = "mismatch", !.row = Row(f)]
    <3> DEFINE v == [t EXCEPT !.at = "mismatch", !.row = Row(f)]
    <3>1. todo' = [todo EXCEPT ![d][p] = v]
      BY <1>9 DEF Preflight, TInv, TasksOK
    <3> HIDE DEF v
    <3>2. /\ Skips(d, p) /\ \A e \in Devices \ {d} : todo'[e] = todo[e]
          /\ todo'[d][p] = v
      BY <3>1 DEF TInv, TasksOK, Skips
    <3> QED
      BY <3>2 DEF v
  <2>2. /\ u.act = t.act /\ u.id = f /\ u.row = Row(f) /\ u.guarded = t.guarded
        /\ u.after = t.after /\ u.at = "mismatch"
    BY <1>6, <2>1 DEF Task
  <2>3. /\ drive[f].md5 \in Contents /\ drive[f].rev \in Nat
        /\ drive'[f].md5 = drive[f].md5 /\ drive'[f].rev = drive[f].rev
    BY <1>2, <1>7, FileTypes DEF Calm
  <2>4. Row(f) # None
    BY <1>7, RowType, NoEntryAssumption DEF TInv, Rows
  <2>5. Truth(f, drive[f].rev, drive[f].md5)' /\ u.row.id = f /\ u.row.rev = drive[f].rev
        /\ u.row.md5 = drive[f].md5
    BY <2>2, <2>3 DEF Truth, Row
  <2>6. t.after # None => FALSE
    BY <1>3, <1>4 DEF TaskGood, ShapeGood
  <2>7. ShapeGood(d, p)'
    <3>1. u.row.md5 \in Contents /\ u.row.rev <= drive'[u.row.id].rev
          /\ (u.row.rev = drive'[u.row.id].rev => drive'[u.row.id].md5 = u.row.md5)
      BY <2>3, <2>5
    <3>2. u.act = "update" /\ u.at = "mismatch" /\ u.after = None /\ u.row # None
          /\ u.row.id = u.id
      BY <1>1, <2>2, <2>4, <2>5, <2>6
    <3> HIDE DEF u
    <3> QED
      BY <3>1, <3>2 DEF u, ShapeGood, Truth
  <2>8. /\ DownloadGood(d, p)' /\ UploadGood(d, p)' /\ GuardGood(d, p)' /\ LinkGood(d, p)'
    BY <1>1, <2>2 DEF DownloadGood, UploadGood, GuardGood, LinkGood, Updating, Early
  <2> QED
    BY <1>1, <1>2, <2>1, <2>2, <2>7, <2>8, CalmGrows, MovedKeeps DEF Calm, TaskGood
<1> QED
  BY <1>8, <1>9

\* The effect took place: what was sent is on Drive, or was replaced.
LEMMA EffectedGood ==
  ASSUME TInv, TInv', LInv, Grows, UNCHANGED disk, NEW d \in Devices, NEW p \in Paths,
         LET t == todo[d][p]
             u == todo'[d][p]
         IN  /\ t.act \in {"update", "create"} /\ u.act = t.act
             /\ t.at \in {"started", "checked", "planned"} /\ u.at \in {"effected", "linked"}
             /\ u.md5 = t.md5 /\ u.row = t.row /\ u.guarded = t.guarded
             /\ u.after = t.after /\ (t.act = "update" => u.id = t.id)
             /\ u.md5 \in Kept' \/ disk[d][p].md5 \in OnDrive'
  PROVE  TaskGood(d, p)' /\ LinkGood(d, p)'
<1> DEFINE t == todo[d][p]
           u == todo'[d][p]
<1>1. /\ t.act \in {"update", "create"} /\ u.act = t.act
      /\ t.at \in {"started", "checked", "planned"} /\ u.at \in {"effected", "linked"}
      /\ u.md5 = t.md5 /\ u.row = t.row /\ u.guarded = t.guarded
      /\ u.after = t.after
      /\ u.md5 \in Kept' \/ disk[d][p].md5 \in OnDrive'
  OBVIOUS
<1>2. t.md5 \in Safe \/ OnDisk(d, p, t.md5)
  BY <1>1 DEF LInv, Good, TaskGood, UploadGood
<1>3. UploadGood(d, p)'
  <2>1. u.md5 \in Safe' \/ (disk'[d][p] # None /\ disk'[d][p].md5 = u.md5)
    BY <1>1, <1>2 DEF OnDisk, Grows
  <2>2. u.md5 \in Kept'
    BY <1>1, <2>1 DEF Kept
  <2> QED
    BY <2>1, <2>2 DEF UploadGood, OnDisk
<1>4. ShapeGood(d, p)'
  <2>1. ShapeGood(d, p)
    BY DEF LInv, Good, TaskGood
  <2>2. t.row # None => t.row.id \in Files /\ Exists(t.row.id) /\ t.row.rev \in Nat
                        /\ Truth(t.row.id, t.row.rev, t.row.md5)
    BY <2>1, TaskTypes DEF ShapeGood
  <2> DEFINE r == t.row
  <2> HIDE DEF t
  <2>3. r # None => /\ r.md5 \in Contents /\ r.rev <= drive'[r.id].rev
                    /\ r.rev = drive'[r.id].rev => drive'[r.id].md5 = r.md5
    <3> HIDE DEF r
    <3> QED
      BY <2>2, TruthStays DEF r
  <2>4. u.after # None => u.act = "update" /\ ~u.guarded
    BY <1>1, <2>1 DEF ShapeGood, t
  <2>5. u.row # None => /\ u.row.md5 \in Contents /\ u.row.rev <= drive'[u.row.id].rev
                        /\ u.row.rev = drive'[u.row.id].rev
                           => drive'[u.row.id].md5 = u.row.md5
    BY <1>1, <2>3
  <2>6. u.act \in {"update", "create"} /\ u.at \in {"effected", "linked"}
    BY <1>1
  <2> HIDE DEF u
  <2> QED
    BY <2>4, <2>5, <2>6 DEF u, ShapeGood, Truth
<1>5. DownloadGood(d, p)' /\ GuardGood(d, p)' /\ LinkGood(d, p)'
  BY <1>1 DEF DownloadGood, GuardGood, LinkGood, Updating, Early
<1> QED
  BY <1>3, <1>4, <1>5 DEF TaskGood

\* An identical file is linked.
LEMMA FindKeeps ==
  ASSUME TInv, TInv', JInv, LInv, NEW d \in Devices, NEW p \in Paths,
         FindRemoteFileByContent(d, p)
  PROVE  LInv' /\ Grows
<1> DEFINE t == todo[d][p]
           same == {f \in Files : Live(f) /\ drive[f].name = p /\ drive[f].md5 = t.md5}
           u == todo'[d][p]
<1>1. pc[d] = "running" /\ t.act = "create" /\ t.at = "planned"
  BY DEF FindRemoteFileByContent, At
<1>2. Calm /\ UNCHANGED deviceFrame /\ UNCHANGED mem
  BY InnerCalm DEF FindRemoteFileByContent, taskFrame, deviceFrame
<1>3. t \in Task /\ todo \in [Devices -> [Paths -> Task]]
  BY TaskTypes DEF TInv, TasksOK
<1>4. CASE same # {}
  <2>1. /\ Skips(d, p) /\ \A e \in Devices \ {d} : todo'[e] = todo[e]
        /\ u = [t EXCEPT !.at = "linked", !.id = Min2(same)]
    <3> DEFINE v == [t EXCEPT !.at = "linked", !.id = Min2(same)]
    <3>1. todo' = [todo EXCEPT ![d][p] = v]
      BY <1>4 DEF FindRemoteFileByContent, TInv, TasksOK
    <3> HIDE DEF v
    <3>2. /\ Skips(d, p) /\ \A e \in Devices \ {d} : todo'[e] = todo[e]
          /\ todo'[d][p] = v
      BY <3>1 DEF TInv, TasksOK, Skips
    <3> QED
      BY <3>2 DEF v
  <2>2. /\ u.act = t.act /\ u.md5 = t.md5 /\ u.row = t.row /\ u.guarded = t.guarded
        /\ u.after = t.after /\ u.at = "linked"
    BY <1>3, <2>1 DEF Task
  <2>3. u.md5 \in Kept'
    <3>1. PICK f \in same : TRUE
      BY <1>4
    <3>2. t.md5 \in OnDrive
      BY <3>1 DEF OnDrive, Live, Exists
    <3>3. t.md5 \in Kept'
      BY <1>2, <3>2, CalmGrows DEF Kept, Grows
    <3> QED
      BY <2>2, <3>3
  <2>4. TaskGood(d, p)' /\ LinkGood(d, p)'
    BY <1>1, <1>2, <2>2, <2>3, CalmGrows, EffectedGood DEF Calm
  <2> QED
    BY <1>1, <1>2, <2>1, <2>2, <2>4, CalmGrows, MovedKeeps DEF Calm
<1>5. CASE same = {}
  <2>1. /\ Skips(d, p) /\ \A e \in Devices \ {d} : todo'[e] = todo[e]
        /\ u = [t EXCEPT !.at = "started"]
    BY <1>5, TaskMoves DEF FindRemoteFileByContent
  <2>2. u.act = t.act /\ u.at = "started"
    BY <1>3, <2>1 DEF Task
  <2>3. ~Updating(u) /\ t.at \in InPart /\ "started" \notin InWhole
    BY <1>1, <2>2 DEF Updating, InPart, InWhole
  <2>4. TaskGood(d, p)' /\ SameLink(d, p)
    BY <1>1, <1>2, <2>1, <2>2, <2>3, CalmGrows, WorkMoves DEF Calm
  <2>5. LinkGood(d, p)'
    BY <1>2, <2>1, <2>4, CalmGrows, LinkInPlain DEF Calm
  <2> QED
    BY <1>1, <1>2, <2>1, <2>2, <2>4, <2>5, CalmGrows, MovedKeeps DEF Calm
<1> QED
  BY <1>4, <1>5

\* The content an update replaces was replaced on disk, is in a copy, or met
\* the first window.
LEMMA PatchMediaKeeps ==
  ASSUME TInv, TInv', JInv, LInv, NEW d \in Devices, NEW p \in Paths, PatchMedia(d, p)
  PROVE  LInv' /\ Grows
<1> DEFINE t == todo[d][p]
           f == t.id
           m == mem[d][p]
<1>1. pc[d] = "running" /\ t.act = "update" /\ t.at = "checked" /\ Updating(t)
  BY DEF PatchMedia, At, Updating
<1>2. UNCHANGED deviceFrame /\ UNCHANGED mem /\ UNCHANGED diskVars /\ UNCHANGED settled
  BY DEF PatchMedia, taskFrame, deviceFrame
<1>3. CASE disk[d][p] = None
  <2>1. /\ Skips(d, p) /\ \A e \in Devices \ {d} : todo'[e] = todo[e]
        /\ todo'[d][p] = FailedTask
    BY <1>3, TaskMoves DEF PatchMedia
  <2>2. Calm
    BY <1>2, <1>3, InnerCalm DEF PatchMedia
  <2> QED
    BY <1>1, <1>2, <2>1, <2>2, CalmGrows, ClosedKeeps DEF Calm
<1>4. CASE disk[d][p] # None
  <2>1. /\ Skips(d, p) /\ \A e \in Devices \ {d} : todo'[e] = todo[e]
        /\ todo'[d][p] = [todo[d][p] EXCEPT !.at = "effected"]
    BY <1>4, TaskMoves DEF PatchMedia
  <2>2. t \in Task /\ f \in Files /\ Exists(f)
    BY <1>1, TaskTypes
  <2>3. /\ disk[d][p].md5 \in Contents /\ drive \in [Files -> DriveFile]
        /\ \A g \in Files : drive[g].rev \in Nat
    BY <1>4, DiskTypes, FileTypes DEF TInv, DriveOK
  <2>4. drive' = [drive EXCEPT ![f] = WithContent(f, disk[d][p].md5)]
    BY <1>4 DEF PatchMedia, ChangeDrive
  <2>5. /\ raced \subseteq raced' /\ Safe \subseteq Safe'
        /\ drive[f].rev = t.seen \/ drive[f].md5 \in Safe'
    BY <1>2, <1>4 DEF PatchMedia, Safe, InTrash, diskVars
  <2>6. drive[f].rev = t.seen => drive[f].md5 \in Safe \cup Held
    <3>1. RecordGood(d, p) /\ GuardGood(d, p) /\ LinkGood(d, p) /\ Counted
      BY DEF LInv, Good, TaskGood
    <3>2. ASSUME t.guarded, drive[f].rev = t.seen
          PROVE  drive[f].md5 \in Safe
      <4>1. /\ m # None /\ f = m.id /\ m.rev = drive[m.id].rev
            /\ m.md5 \in Safe \/ ~Current(m)
        BY <1>1, <3>1, <3>2 DEF GuardGood
      <4>2. /\ m.rev = drive[m.id].rev => drive[m.id].md5 = m.fp
            /\ Current(m) => m.fp = m.md5 \/ m.fp \in Safe
        BY <3>1, <4>1 DEF RecordGood, Truth
      <4> QED
        BY <4>1, <4>2 DEF Current
    <3>3. ASSUME ~t.guarded, drive[f].rev = t.seen
          PROVE  drive[f].md5 \in Safe \cup Held
      <4>1. Pending(d, t) \/ Saved(d, t)
        BY <1>1, <3>1, <3>3 DEF LinkGood
      <4>2. ~Pending(d, t)
        BY <2>2, <2>3, <3>1, <3>3 DEF Pending, Counted
      <4>3. \/ drive[f].md5 \in Safe
            \/ t.after \in Unnamed /\ OnDisk(d, t.after, drive[f].md5)
        BY <3>3, <4>1, <4>2 DEF Saved
      <4>4. drive[f].md5 \in Contents
        BY <2>2, FileTypes
      <4> QED
        BY <4>3, <4>4 DEF OnDisk, Held
    <3> QED
      BY <3>2, <3>3
  <2>7. drive[f].md5 \in Safe' \cup Held
    BY <2>5, <2>6
  <2>8. Grows /\ Unnamed' = Unnamed
    <3> DEFINE c == disk[d][p].md5
    <3>1. UNCHANGED disk
      BY <1>2 DEF diskVars
    <3> HIDE DEF c, f
    <3>2. c \in Contents /\ drive' = [drive EXCEPT ![f] = WithContent(f, c)]
      BY <2>3, <2>4 DEF c
    <3> QED
      BY <2>2, <2>3, <2>5, <2>7, <3>1, <3>2, GrowsByWrite
  <2>9. disk[d][p].md5 \in OnDrive' /\ \A g \in Files : Exists(g)' => Exists(g)
    <3>1. drive'[f].md5 = disk[d][p].md5 /\ drive'[f].st = drive[f].st
          /\ \A g \in Files : g # f => drive'[g] = drive[g]
      BY <2>2, <2>3, <2>4 DEF WithContent, DriveFile
    <3> HIDE DEF f
    <3>2. \A g \in Files : Exists(g)' <=> Exists(g)
      BY <3>1 DEF Exists
    <3> QED
      BY <2>2, <3>1, <3>2 DEF OnDrive
  <2>10. /\ todo'[d][p].act = t.act /\ todo'[d][p].at = "effected" /\ todo'[d][p].md5 = t.md5
         /\ todo'[d][p].row = t.row /\ todo'[d][p].guarded = t.guarded
         /\ todo'[d][p].after = t.after /\ todo'[d][p].id = t.id
    BY <2>1, <2>2 DEF Task
  <2>11. TaskGood(d, p)' /\ LinkGood(d, p)'
    BY <1>1, <1>2, <2>8, <2>9, <2>10, EffectedGood DEF diskVars
  <2>12. \A e \in Devices, q \in Paths : StaysUnnamed(e, q)
    BY <2>8 DEF StaysUnnamed
  <2> QED
    BY <1>1, <1>2, <2>1, <2>8, <2>9, <2>10, <2>11, <2>12, MovedKeeps DEF diskVars
<1> QED
  BY <1>3, <1>4

\* What only this device had is on Drive now.
LEMMA CreateFileKeeps ==
  ASSUME TInv, TInv', JInv, LInv, NEW d \in Devices, NEW p \in Paths, CreateFile(d, p)
  PROVE  LInv' /\ Grows
<1> DEFINE t == todo[d][p]
<1>1. pc[d] = "running" /\ t.act = "create" /\ t.at = "started"
  BY DEF CreateFile, At
<1>2. UNCHANGED deviceFrame /\ UNCHANGED mem /\ UNCHANGED diskVars /\ UNCHANGED settled
      /\ UNCHANGED raced
  BY DEF CreateFile, taskFrame, deviceFrame
<1>3. CASE disk[d][p] = None
  <2>1. /\ Skips(d, p) /\ \A e \in Devices \ {d} : todo'[e] = todo[e]
        /\ todo'[d][p] = FailedTask
    BY <1>3, TaskMoves DEF CreateFile
  <2>2. Calm
    BY <1>2, <1>3, InnerCalm DEF CreateFile
  <2> QED
    BY <1>1, <1>2, <2>1, <2>2, CalmGrows, ClosedKeeps DEF Calm
<1>4. CASE disk[d][p] # None
  <2> DEFINE file == [st |-> "live", name |-> p, rev |-> 1, md5 |-> disk[d][p].md5,
                      vv |-> NextVector(d, p)]
  <2>1. PICK f \in Files : /\ ~Exists(f)
                           /\ drive' = [drive EXCEPT ![f] = file]
                           /\ todo' = [todo EXCEPT ![d][p] =
                                         [t EXCEPT !.at = "effected", !.id = f]]
    <3>1. PICK f \in {g \in Files : ~Exists(g)} :
            /\ ChangeDrive(f, file)
            /\ todo' = [todo EXCEPT ![d][p].at = "effected", ![d][p].id = f]
      BY <1>4, Zenon DEF CreateFile
    <3>2. todo' = [todo EXCEPT ![d][p] = [t EXCEPT !.at = "effected", !.id = f]]
      BY <3>1 DEF TInv, TasksOK
    <3>3. drive' = [drive EXCEPT ![f] = file]
      BY <3>1 DEF ChangeDrive
    <3> HIDE DEF file
    <3> QED
      BY <3>1, <3>2, <3>3
  <2>2. t \in Task
    BY TaskTypes
  <2>3. /\ Skips(d, p) /\ \A e \in Devices \ {d} : todo'[e] = todo[e]
        /\ todo'[d][p] = [t EXCEPT !.at = "effected", !.id = f]
    <3> DEFINE v == [t EXCEPT !.at = "effected", !.id = f]
    <3>1. todo' = [todo EXCEPT ![d][p] = v]
      BY <2>1
    <3> HIDE DEF v
    <3>2. /\ Skips(d, p) /\ \A e \in Devices \ {d} : todo'[e] = todo[e]
          /\ todo'[d][p] = v
      BY <3>1 DEF TInv, TasksOK, Skips
    <3> QED
      BY <3>2 DEF v
  <2>4. /\ todo'[d][p].act = t.act /\ todo'[d][p].at = "effected" /\ todo'[d][p].md5 = t.md5
        /\ todo'[d][p].row = t.row /\ todo'[d][p].guarded = t.guarded
        /\ todo'[d][p].after = t.after
    BY <2>2, <2>3 DEF Task
  <2>5. /\ drive \in [Files -> DriveFile] /\ drive' \in [Files -> DriveFile]
        /\ \A g \in Files : drive[g].rev \in Nat
    BY FileTypes DEF TInv, DriveOK
  <2>6. /\ file.st # "none" /\ file.name = p /\ file.md5 = disk[d][p].md5 /\ file.rev = 1
    OBVIOUS
  <2> HIDE DEF file
  <2>7. drive'[f] = file /\ file \in DriveFile /\ \A g \in Files : g # f => drive'[g] = drive[g]
    BY <2>1, <2>5
  <2>8. Safe \subseteq Safe' /\ raced \subseteq raced' /\ UNCHANGED disk
    BY <1>2 DEF Safe, InTrash, diskVars
  <2>9. Grows /\ \A e \in Devices, q \in Paths : e # d \/ q # p => StaysUnnamed(e, q)
    <3>1. OneOwner
      BY DEF LInv
    <3>2. /\ drive'[f].st # "none" /\ drive'[f].name = p /\ drive'[f].md5 = disk[d][p].md5
          /\ ~Exists(f) /\ \A g \in Files : g # f => drive'[g] = drive[g]
      BY <2>1, <2>6, <2>7
    <3>3. \A g \in Files : drive[g].rev \in Nat
      BY <2>5
    <3> QED
      BY <1>4, <2>8, <3>1, <3>2, <3>3, GrowsByCreate
  <2>10. disk[d][p].md5 \in OnDrive' /\ \A g \in Files : Exists(g)' => Exists(g) \/ drive'[g].rev = 1
    BY <2>6, <2>7 DEF OnDrive, Exists
  <2>11. TaskGood(d, p)' /\ LinkGood(d, p)'
    BY <1>1, <2>4, <2>8, <2>9, <2>10, EffectedGood
  <2> QED
    BY <1>1, <1>2, <2>3, <2>4, <2>8, <2>9, <2>10, <2>11, MovedKeeps
<1> QED
  BY <1>3, <1>4

\* The record of an upload tells of Drive as it is; what else is there met the
\* second window.
LEMMA CommitUploadKeeps ==
  ASSUME TInv, TInv', JInv, LInv, NEW d \in Devices, NEW p \in Paths,
         CommitUpdate(d, p) \/ CommitCreate(d, p)
  PROVE  LInv' /\ Grows
<1> DEFINE t == todo[d][p]
           f == t.id
<1>1. /\ pc[d] = "running" /\ t.act \in {"update", "create"} /\ t.at \in {"linked", "done"}
      /\ (t.act = "update" => t.at = "done")
  BY DEF CommitUpdate, CommitCreate, At
<1>2. UNCHANGED deviceFrame /\ UNCHANGED diskVars /\ UNCHANGED settled
  BY DEF CommitUpdate, CommitCreate, taskFrame, deviceFrame
<1>3. f \in Files /\ Exists(f) /\ drive[f].md5 \in Contents /\ drive[f].rev \in Nat
  BY <1>1, TaskTypes, FileTypes
<1>4. Calm
  <2>1. \A g \in Files :
          /\ Exists(g)' <=> Exists(g)
          /\ drive'[g].name = drive[g].name /\ drive'[g].rev = drive[g].rev
          /\ drive'[g].md5 = drive[g].md5
    <3>1. CASE CommitCreate(d, p)
      BY <3>1 DEF CommitCreate, driveVars, Exists
    <3>2. CASE CommitUpdate(d, p)
      <4>1. drive' = [drive EXCEPT ![f] = [drive[f] EXCEPT !.vv = NextVector(d, p)]]
        BY <3>2 DEF CommitUpdate, ChangeDrive
      <4>2. drive \in [Files -> DriveFile]
        BY DEF TInv, DriveOK
      <4>3. /\ drive'[f].st = drive[f].st /\ drive'[f].name = drive[f].name
            /\ drive'[f].rev = drive[f].rev /\ drive'[f].md5 = drive[f].md5
            /\ \A g \in Files : g # f => drive'[g] = drive[g]
        BY <1>3, <4>1, <4>2 DEF DriveFile
      <4> QED
        BY <4>3 DEF Exists
    <3> QED
      BY <3>1, <3>2
  <2>2. raced \subseteq raced'
    BY DEF CommitUpdate, CommitCreate
  <2> QED
    BY <1>2, <2>1, <2>2 DEF Calm, Safe, InTrash, diskVars
<1>5. CASE disk[d][p] = None
  <2>1. /\ Skips(d, p) /\ \A e \in Devices \ {d} : todo'[e] = todo[e]
        /\ todo'[d][p] = FailedTask /\ UNCHANGED mem
    BY <1>5, TaskMoves DEF CommitUpdate, CommitCreate
  <2> QED
    BY <1>1, <1>2, <1>4, <2>1, CalmGrows, ClosedKeeps DEF Calm
<1>6. CASE disk[d][p] # None
  <2>1. /\ Skips(d, p) /\ \A e \in Devices \ {d} : todo'[e] = todo[e]
        /\ todo'[d][p] = NoTask
    BY <1>6, TaskMoves DEF CommitUpdate, CommitCreate
  <2>2. PICK r : /\ mem'[d][p] = RecordOf(r, t.md5, disk[d][p])
                 /\ r.id = f /\ r.md5 = drive[f].md5 /\ r.rev = drive[f].rev
    <3>1. CASE CommitUpdate(d, p)
      <4> DEFINE row == [Row(f) EXCEPT !.vv = NextVector(d, p)]
      <4>1. mem'[d][p] = RecordOf(row, t.md5, disk[d][p])
        BY <1>6, <3>1, TaskMoves DEF CommitUpdate
      <4>2. row.id = f /\ row.md5 = drive[f].md5 /\ row.rev = drive[f].rev
        BY DEF Row
      <4> QED
        BY <4>1, <4>2
    <3>2. CASE CommitCreate(d, p)
      <4>1. mem'[d][p] = RecordOf(Row(f), t.md5, disk[d][p])
        BY <1>6, <3>2, TaskMoves DEF CommitCreate
      <4>2. Row(f).id = f /\ Row(f).md5 = drive[f].md5 /\ Row(f).rev = drive[f].rev
        BY DEF Row
      <4> QED
        BY <4>1, <4>2
    <3> QED
      BY <3>1, <3>2
  <2>3. /\ \A e \in Devices \ {d} : mem'[e] = mem[e]
        /\ \A q \in Paths \ {p} : mem'[d][q] = mem[d][q]
    BY <1>6, TaskMoves DEF CommitUpdate, CommitCreate
  <2>4. drive[f].md5 = t.md5 \/ drive[f].md5 \in Safe'
    BY <1>6 DEF CommitUpdate, CommitCreate, Row, Safe
  <2>5. /\ t.md5 \in Kept /\ (t.md5 \in Safe \/ OnDisk(d, p, t.md5))
    BY <1>1 DEF LInv, Good, TaskGood, UploadGood
  <2>6. RecordGood(d, p)'
    <3> DEFINE c == t.md5
               local == disk[d][p]
    <3>1. /\ mem'[d][p] = RecordOf(r, c, local) /\ r.md5 \in Contents
          /\ r.rev <= drive'[r.id].rev /\ drive'[r.id].md5 = r.md5
      BY <1>3, <1>4, <2>2 DEF Calm
    <3>2. /\ c \in Kept' /\ (r.md5 = c \/ r.md5 \in Safe')
          /\ c \in Safe' \/ (disk'[d][p] # None /\ disk'[d][p].md5 = c)
      BY <1>4, <2>2, <2>4, <2>5, CalmGrows DEF Calm, Grows, OnDisk
    <3> HIDE DEF c, local
    <3> QED
      BY <3>1, <3>2, NewRecordGood
  <2>7. TaskGood(d, p)' /\ LinkGood(d, p)' /\ todo'[d][p].act = "none"
    BY <2>1, NothingToDo DEF NoTask
  <2> QED
    BY <1>1, <1>2, <1>4, <2>1, <2>3, <2>6, <2>7, CalmGrows, PlainStep DEF Calm
<1> QED
  BY <1>5, <1>6

\* A vector that Drive took but no record tells of leaves every content, and
\* the revisions, as they are.
LEMMA LoseAnswerKeeps ==
  ASSUME TInv, TInv', JInv, LInv, NEW d \in Devices, NEW p \in Paths, LoseAnswer(d, p)
  PROVE  LInv' /\ Grows
<1> DEFINE f == todo[d][p].id
<1>1. pc[d] = "running" /\ todo[d][p].act = "update" /\ todo[d][p].at = "done"
  BY DEF LoseAnswer, At
<1>2. /\ UNCHANGED deviceFrame /\ UNCHANGED mem /\ UNCHANGED diskVars
      /\ UNCHANGED <<settled, raced>>
  BY DEF LoseAnswer, taskFrame, deviceFrame
<1>3. f \in Files /\ drive \in [Files -> DriveFile]
  BY <1>1, TaskTypes DEF TInv, DriveOK
<1>4. drive' = [drive EXCEPT ![f] = [drive[f] EXCEPT !.vv = NextVector(d, p)]]
  BY DEF LoseAnswer, ChangeDrive
<1>5. \A g \in Files :
        /\ drive'[g].st = drive[g].st /\ drive'[g].name = drive[g].name
        /\ drive'[g].rev = drive[g].rev /\ drive'[g].md5 = drive[g].md5
  <2>1. /\ drive'[f].st = drive[f].st /\ drive'[f].name = drive[f].name
        /\ drive'[f].rev = drive[f].rev /\ drive'[f].md5 = drive[f].md5
        /\ \A g \in Files : g # f => drive'[g] = drive[g]
    BY <1>3, <1>4 DEF DriveFile
  <2> QED
    BY <2>1
<1>6. Calm
  BY <1>2, <1>5 DEF Calm, Exists, Safe, InTrash, diskVars
<1>7. /\ Skips(d, p) /\ \A e \in Devices \ {d} : todo'[e] = todo[e]
      /\ todo'[d][p] = FailedTask
  BY TaskMoves DEF LoseAnswer
<1> QED
  BY <1>1, <1>2, <1>6, <1>7, CalmGrows, ClosedKeeps DEF Calm

-----------------------------------------------------------------------------
(* Downloads, and the uploads that wait for them.                          *)

\* A download that goes on without an effect.
LEMMA DownloadMoves ==
  ASSUME TInv, TInv', JInv, LInv, Calm, NEW d \in Devices, NEW p \in Paths,
         pc[d] = "running", UNCHANGED deviceFrame, UNCHANGED mem,
         todo[d][p].act = "download", NEW a, Goto(d, p, a),
         \/ Early(todo[d][p]) /\ a \in {"planned", "started"}
         \/ todo[d][p].at = "effected" /\ a = "done"
  PROVE  LInv' /\ Grows
<1> DEFINE t == todo[d][p]
           u == todo'[d][p]
<1>1. /\ Skips(d, p) /\ \A e \in Devices \ {d} : todo'[e] = todo[e]
      /\ u = [t EXCEPT !.at = a]
  BY TaskMoves
<1>2. t \in Task
  BY TaskTypes
<1>3. /\ u.act = t.act /\ u.id = t.id /\ u.row = t.row /\ u.guarded = t.guarded
      /\ u.after = t.after /\ u.at = a
  BY <1>1, <1>2 DEF Task
<1>4. /\ Early(u) <=> Early(t)
      /\ Landed(u) <=> Landed(t)
      /\ t.at # "ended" /\ a \notin {"ended", "failed", "mismatch"}
  BY <1>3 DEF Early, Landed
<1>5. Grows /\ Unnamed' = Unnamed /\ UNCHANGED disk
      /\ \A e \in Devices, q \in Paths : StaysUnnamed(e, q)
  BY CalmGrows DEF Calm
<1>6. RecordGood(d, p) /\ TaskGood(d, p)
  BY DEF LInv, Good
<1>7. RecordGood(d, p)'
  <2>1. Yields(d, p)
    BY <1>5 DEF Yields
  <2> QED
    BY <1>4, <1>5, <1>6, <2>1, RecordStays
<1>8. ShapeGood(d, p)'
  BY <1>3, <1>4, <1>5, <1>6, ShapeStays DEF TaskGood
<1>9. DownloadGood(d, p)'
  <2>1. t.row # None /\ t.row.id \in Files
    BY <1>6, TaskTypes DEF TaskGood, ShapeGood
  <2>2. u.row.rev = drive'[u.row.id].rev => Current(t.row)
    BY <1>3, <2>1 DEF Calm, Current
  <2>3. Early(u) => \/ disk'[d][p] = None \/ disk'[d][p].md5 \in Safe'
                    \/ disk'[d][p].md5 \in Kept' /\ p \notin Unnamed'
    BY <1>3, <1>4, <1>5, <1>6 DEF TaskGood, DownloadGood, Grows
  <2>4. Landed(u) => /\ disk'[d][p] # None => disk'[d][p].md5 \in Kept'
                     /\ u.row.rev = drive'[u.row.id].rev
                        => \/ u.row.md5 \in Safe'
                           \/ disk'[d][p] # None /\ disk'[d][p].md5 = u.row.md5
    BY <1>3, <1>4, <1>5, <1>6, <2>2 DEF TaskGood, DownloadGood, Grows, OnDisk
  <2> QED
    BY <2>3, <2>4 DEF DownloadGood, OnDisk, Current
<1>10. TaskGood(d, p)' /\ LinkGood(d, p)'
  BY <1>3, <1>8, <1>9 DEF TaskGood, UploadGood, GuardGood, LinkGood, Updating
<1>11. ASSUME NEW q \in Paths \ {p}, todo[d][q].after = p, todo'[d][q] = todo[d][q]
       PROVE  LinkGood(d, q)'
  <2>1. SameLink(d, q) /\ SameCopy(d, p) /\ Yields(d, p) /\ LinkGood(d, q)
    BY <1>3, <1>4, <1>5, <1>11 DEF SameLink, SameCopy, Yields, LInv, Good
  <2> QED
    BY <1>5, <1>11, <2>1, LinkStays
<1>12. Uses(d, p)
  BY DEF Uses
<1>13. /\ \A e \in Devices \ {d} : mem'[e] = mem[e] /\ todo'[e] = todo[e] /\ disk'[e] = disk[e]
       /\ \A q \in Paths \ {p} : mem'[d][q] = mem[d][q] /\ disk'[d][q] = disk[d][q]
       /\ disk[d][p] # None => disk'[d][p] # None /\ disk'[d][p].md5 = disk[d][p].md5
       /\ \A f \in Files : Exists(f)' => Exists(f)
  BY <1>1, <1>5 DEF Calm
<1> QED
  BY <1>1, <1>5, <1>7, <1>10, <1>11, <1>12, <1>13, StepOfTask

\* The journal knows of it.
LEMMA MoveDownloadKeeps ==
  ASSUME TInv, TInv', JInv, LInv, NEW d \in Devices, NEW p \in Paths,
         \/ PlanDownload(d, p) \/ StartDownload(d, p)
         \/ MarkDone(d, p) /\ todo[d][p].act = "download"
  PROVE  LInv' /\ Grows
<1>1. Calm /\ UNCHANGED deviceFrame /\ UNCHANGED mem
  BY InnerCalm DEF PlanDownload, StartDownload, MarkDone, taskFrame, deviceFrame
<1>2. CASE PlanDownload(d, p)
  BY <1>1, <1>2, DownloadMoves DEF PlanDownload, At, Early
<1>3. CASE StartDownload(d, p)
  BY <1>1, <1>3, DownloadMoves DEF StartDownload, At, Early
<1>4. CASE MarkDone(d, p) /\ todo[d][p].act = "download"
  BY <1>1, <1>4, DownloadMoves DEF MarkDone, At
<1> QED
  BY <1>2, <1>3, <1>4

\* The record of a download tells of the row it was decided for; a stale
\* record that stays met the fourth window.
LEMMA CommitDownloadKeeps ==
  ASSUME TInv, TInv', JInv, LInv, NEW d \in Devices, NEW p \in Paths, CommitDownload(d, p)
  PROVE  LInv' /\ Grows
<1> DEFINE t == todo[d][p]
           u == todo'[d][p]
           m == mem[d][p]
<1>1. pc[d] = "running" /\ t.act = "download" /\ t.at = "done" /\ Landed(t)
  BY DEF CommitDownload, At, Landed
<1>2. Calm /\ UNCHANGED deviceFrame
  <2>1. raced \subseteq raced'
    BY DEF CommitDownload
  <2> QED
    BY <2>1, InnerCalm DEF CommitDownload, taskFrame, deviceFrame
<1>3. Grows /\ Unnamed' = Unnamed /\ UNCHANGED disk
      /\ \A e \in Devices, q \in Paths : StaysUnnamed(e, q)
  BY <1>2, CalmGrows DEF Calm
<1>4. RecordGood(d, p) /\ TaskGood(d, p)
  BY DEF LInv, Good
<1>5. Uses(d, p)
  BY <1>1 DEF Uses
<1>6. CASE disk[d][p] = None
  <2>1. /\ Skips(d, p) /\ \A e \in Devices \ {d} : todo'[e] = todo[e]
        /\ u = FailedTask /\ UNCHANGED mem
    BY <1>6, TaskMoves DEF CommitDownload
  <2>2. \A q \in Paths : todo[d][q].after = p => todo'[d][q] = FailedTask
    BY <1>6 DEF CommitDownload, FailTask, TInv, TasksOK
  <2>3. RecordGood(d, p)'
    <3>1. CASE m = None
      BY <2>1, <3>1 DEF RecordGood
    <3>2. CASE m # None
      <4>1. m.id \in Files
        BY <3>2, RecordTypes
      <4>2. m.rev # drive[m.id].rev \/ m.md5 \in Safe'
        BY <1>6, <3>2 DEF CommitDownload, Safe
      <4>3. /\ m.fp \in Contents /\ m.rev <= drive[m.id].rev
            /\ m.rev = drive[m.id].rev => drive[m.id].md5 = m.fp
            /\ m.md5 \in Kept
            /\ m.rev = drive[m.id].rev => m.fp = m.md5 \/ m.fp \in Safe
        BY <1>4, <3>2 DEF RecordGood, Truth, Current
      <4> HIDE DEF m
      <4>4. drive'[m.id].rev = drive[m.id].rev /\ drive'[m.id].md5 = drive[m.id].md5
        BY <1>2, <4>1 DEF Calm
      <4>5. mem'[d][p] = m
        BY <2>1 DEF m
      <4> QED
        BY <1>3, <4>2, <4>3, <4>4, <4>5 DEF RecordGood, Truth, Current, Grows
    <3> QED
      BY <3>1, <3>2
  <2>4. TaskGood(d, p)' /\ LinkGood(d, p)'
    BY <2>1, NothingToDo
  <2>5. \A q \in Paths \ {p} : todo[d][q].after = p /\ todo'[d][q] = todo[d][q]
                               => LinkGood(d, q)'
    BY <2>2, NothingToDo
  <2>6. /\ \A e \in Devices \ {d} : mem'[e] = mem[e] /\ todo'[e] = todo[e] /\ disk'[e] = disk[e]
        /\ \A q \in Paths \ {p} : mem'[d][q] = mem[d][q] /\ disk'[d][q] = disk[d][q]
        /\ disk[d][p] # None => disk'[d][p] # None /\ disk'[d][p].md5 = disk[d][p].md5
        /\ \A f \in Files : Exists(f)' => Exists(f)
    BY <1>2, <1>3, <2>1 DEF Calm
  <2> QED
    BY <1>1, <1>2, <1>3, <1>5, <2>1, <2>3, <2>4, <2>5, <2>6, StepOfTask
<1>7. CASE disk[d][p] # None
  <2>1. /\ Skips(d, p) /\ \A e \in Devices \ {d} : todo'[e] = todo[e]
        /\ u = NoTask
    BY <1>7, TaskMoves DEF CommitDownload
  <2>2. /\ mem'[d][p] = RecordOf(t.row, disk[d][p].md5, disk[d][p])
        /\ \A e \in Devices \ {d} : mem'[e] = mem[e]
        /\ \A q \in Paths \ {p} : mem'[d][q] = mem[d][q]
    BY <1>7, TaskMoves DEF CommitDownload
  <2>3. mem'[d][p] # None
    <3>1. disk[d][p] \in LocalFile /\ t.row \in Snapshot
      BY <1>1, <1>4, <1>7, DiskTypes, TaskTypes DEF TaskGood, ShapeGood
    <3>2. mem'[d][p] \in Record
      BY <2>2, <3>1, RecordOfType DEF LocalFile
    <3> QED
      BY <3>2, NoEntryAssumption
  <2>4. RecordGood(d, p)'
    <3> DEFINE r == t.row
               c == disk[d][p].md5
               local == disk[d][p]
    <3>1. /\ r # None /\ r.id \in Files /\ Truth(r.id, r.rev, r.md5)
          /\ c \in Kept /\ (Current(r) => r.md5 \in Safe \/ r.md5 = c)
      BY <1>1, <1>4, <1>7, TaskTypes DEF TaskGood, ShapeGood, DownloadGood, OnDisk
    <3>2. disk'[d][p] # None /\ disk'[d][p].md5 = c
      BY <1>3, <1>7
    <3> HIDE DEF r, c, t
    <3>3. drive'[r.id].rev = drive[r.id].rev /\ drive'[r.id].md5 = drive[r.id].md5
      BY <1>2, <3>1 DEF Calm
    <3>4. /\ r.md5 \in Contents /\ r.rev <= drive'[r.id].rev
          /\ r.rev = drive'[r.id].rev => drive'[r.id].md5 = r.md5
          /\ c \in Kept'
          /\ r.rev = drive'[r.id].rev => r.md5 = c \/ r.md5 \in Safe'
      BY <1>3, <3>1, <3>3 DEF Truth, Current, Grows
    <3>5. mem'[d][p] = RecordOf(r, c, local)
      BY <2>2 DEF r, c, t
    <3> HIDE DEF local
    <3> QED
      BY <3>2, <3>4, <3>5, NewRecordGood
  <2>5. TaskGood(d, p)' /\ LinkGood(d, p)'
    BY <2>1, NothingToDo
  <2>6. ASSUME NEW q \in Paths \ {p}, todo[d][q].after = p, todo'[d][q] = todo[d][q]
        PROVE  LinkGood(d, q)'
    <3>1. SameLink(d, q) /\ Yields(d, p) /\ LinkGood(d, q)
      BY <1>3, <2>6 DEF SameLink, Yields, LInv, Good
    <3>2. SameCopy(d, p)
      BY <1>1, <2>1, <2>3 DEF SameCopy, Early, NoTask
    <3> QED
      BY <1>3, <2>6, <3>1, <3>2, LinkStays
  <2>7. /\ \A e \in Devices \ {d} : mem'[e] = mem[e] /\ todo'[e] = todo[e] /\ disk'[e] = disk[e]
        /\ \A q \in Paths \ {p} : mem'[d][q] = mem[d][q] /\ disk'[d][q] = disk[d][q]
        /\ disk[d][p] # None => disk'[d][p] # None /\ disk'[d][p].md5 = disk[d][p].md5
        /\ \A f \in Files : Exists(f)' => Exists(f)
    BY <1>2, <1>3, <2>1, <2>2 DEF Calm
  <2> QED
    BY <1>1, <1>2, <1>3, <1>5, <2>1, <2>4, <2>5, <2>6, <2>7, StepOfTask
<1> QED
  BY <1>6, <1>7

\* An upload that waited for the copy has looked at the file.
LEMMA WaitsOn ==
  ASSUME TInv, TInv', Grows, NEW d \in Devices, NEW q \in Paths, NEW rev,
         TaskGood(d, q), todo[d][q].after # None,
         todo'[d][q] = [todo[d][q] EXCEPT !.seen = rev],
         disk'[d][q] = disk[d][q]
  PROVE  TaskGood(d, q)'
<1> DEFINE t == todo[d][q]
           u == todo'[d][q]
<1>1. t \in Task
  BY TaskTypes
<1>2. /\ u.act = t.act /\ u.id = t.id /\ u.row = t.row /\ u.guarded = t.guarded
      /\ u.after = t.after /\ u.at = t.at /\ u.md5 = t.md5
  BY <1>1 DEF Task
<1>3. t.act = "update" /\ ~t.guarded
  BY DEF TaskGood, ShapeGood
<1>4. ShapeGood(d, q)'
  BY <1>2, <1>3, ShapeStays DEF TaskGood
<1>5. UploadGood(d, q)'
  BY <1>2, UploadStays DEF TaskGood
<1>6. DownloadGood(d, q)' /\ GuardGood(d, q)'
  BY <1>2, <1>3 DEF DownloadGood, GuardGood
<1> QED
  BY <1>4, <1>5, <1>6 DEF TaskGood

\* The content a download overwrites is kept elsewhere; the upload that waits
\* for it now may overwrite the revision that was copied.
LEMMA WriteDownloadKeeps ==
  ASSUME TInv, TInv', JInv, LInv, NEW d \in Devices, NEW p \in Paths, WriteDownload(d, p)
  PROVE  LInv' /\ Grows
<1> DEFINE t == todo[d][p]
           u == todo'[d][p]
           f == t.id
<1>1. pc[d] = "running" /\ t.act = "download" /\ t.at = "started" /\ Early(t)
  BY DEF WriteDownload, At, Early
<1>2. UNCHANGED deviceFrame /\ UNCHANGED mem /\ UNCHANGED driveVars
      /\ UNCHANGED <<settled, raced, trash>>
  BY DEF WriteDownload, taskFrame, deviceFrame
<1>3. t \in Task /\ f \in Files /\ Exists(f) /\ drive[f].md5 \in OnDrive
  BY <1>1, TaskTypes, FileTypes
<1>4. /\ \A e \in Devices \ {d} : todo'[e] = todo[e]
      /\ \A q \in Paths : todo'[d][q] =
           IF q = p THEN [todo[d][q] EXCEPT !.at = "effected"]
           ELSE IF todo[d][q].after = p
           THEN [todo[d][q] EXCEPT !.seen = drive[f].rev]
           ELSE todo[d][q]
  BY DEF WriteDownload, TInv, TasksOK
<1>5. /\ u.act = t.act /\ u.id = t.id /\ u.row = t.row /\ u.guarded = t.guarded
      /\ u.after = t.after /\ u.at = "effected"
  BY <1>3, <1>4 DEF Task
<1>6. /\ disk'[d][p] # None /\ disk'[d][p].md5 = drive[f].md5
      /\ \A e \in Devices \ {d} : disk'[e] = disk[e]
      /\ \A q \in Paths \ {p} : disk'[d][q] = disk[d][q]
  <2>1. /\ disk'[d][p].md5 = drive[f].md5
        /\ \A e \in Devices \ {d} : disk'[e] = disk[e]
        /\ \A q \in Paths \ {p} : disk'[d][q] = disk[d][q]
    BY DEF WriteDownload, TInv, UserOK
  <2>2. disk'[d][p] # None
    <3> DEFINE new == [md5 |-> drive[f].md5,
                       stat |-> IF disk[d][p] = None THEN 0 ELSE 1 - disk[d][p].stat]
    <3>1. disk'[d][p] = new
      BY DEF WriteDownload, TInv, UserOK
    <3>2. drive[f].md5 \in Contents
      BY <1>3, FileTypes
    <3>3. disk[d][p] # None => disk[d][p].stat \in {0, 1}
      BY DiskTypes DEF LocalFile
    <3>4. new \in LocalFile
      BY <3>2, <3>3 DEF LocalFile
    <3> QED
      BY <3>1, <3>4, NoEntryAssumption
  <2> QED
    BY <2>1, <2>2
<1>7. UNCHANGED drive /\ Safe' = Safe
  BY <1>2 DEF driveVars, Safe, InTrash
<1>8. RecordGood(d, p) /\ TaskGood(d, p)
  BY DEF LInv, Good
<1>9. \/ disk[d][p] = None \/ disk[d][p].md5 \in Safe
      \/ disk[d][p].md5 \in Kept /\ p \notin Unnamed
  BY <1>1, <1>8 DEF TaskGood, DownloadGood
<1>10. Grows /\ Unnamed' = Unnamed
       /\ \A e \in Devices, q \in Paths : StaysUnnamed(e, q)
  <2>1. p \in Unnamed => Yields(d, p)
    BY <1>7, <1>9 DEF Yields
  <2>2. \A g \in Files : drive[g].rev \in Nat
    BY FileTypes
  <2>3. \A e \in Devices, q \in Paths : e # d \/ q # p => disk'[e][q] = disk[e][q]
    BY <1>6
  <2>4. Safe \subseteq Safe' /\ raced \subseteq raced'
    BY <1>2, <1>7
  <2>5. Grows /\ Unnamed' = Unnamed
    BY <1>7, <2>1, <2>2, <2>3, <2>4, GrowsByDisk
  <2> QED
    BY <2>5 DEF StaysUnnamed
<1>11. RecordGood(d, p)'
  <2>1. Landed(u) /\ mem'[d][p] = mem[d][p]
    BY <1>1, <1>2, <1>5 DEF Landed
  <2> QED
    BY <1>8, <1>10, <2>1, RecordStays
<1>12. TaskGood(d, p)' /\ LinkGood(d, p)'
  <2>1. ShapeGood(d, p)'
    BY <1>1, <1>5, <1>8, <1>10, ShapeStays DEF TaskGood
  <2>2. DownloadGood(d, p)'
    <3>1. t.row # None /\ t.row.id = f /\ Truth(f, t.row.rev, t.row.md5)
      BY <1>1, <1>8 DEF TaskGood, ShapeGood
    <3>2. u.row.rev = drive'[u.row.id].rev => drive'[f].md5 = u.row.md5
      BY <1>5, <1>7, <3>1 DEF Truth
    <3>3. disk'[d][p].md5 \in Kept' /\ disk'[d][p].md5 = drive'[f].md5
      BY <1>3, <1>6, <1>7, <1>10 DEF Kept, Grows
    <3>4. ~Early(u)
      BY <1>5 DEF Early
    <3> QED
      BY <1>6, <3>2, <3>3, <3>4 DEF DownloadGood, OnDisk, Current
  <2> QED
    BY <1>1, <1>5, <2>1, <2>2 DEF TaskGood, UploadGood, GuardGood, LinkGood, Updating
<1>13. ASSUME NEW q \in Paths \ {p}
       PROVE  RecordGood(d, q)' /\ TaskGood(d, q)' /\ LinkGood(d, q)'
  <2>1. Good(d, q) /\ Yields(d, q) /\ OnlyRaced(d, q) /\ mem'[d][q] = mem[d][q]
    BY <1>2, <1>6, <1>13 DEF LInv, Yields, OnlyRaced
  <2>2. CASE todo[d][q].after # p
    <3>1. todo'[d][q] = todo[d][q]
      BY <1>4, <1>13, <2>2
    <3>2. RecordGood(d, q)' /\ TaskGood(d, q)'
      BY <1>10, <2>1, <3>1, RecordStays, WorkStays DEF Good
    <3>3. CASE ~(Updating(todo[d][q]) /\ ~todo[d][q].guarded)
      BY <3>1, <3>2, <3>3 DEF LinkGood, Updating, Early
    <3>4. CASE Updating(todo[d][q]) /\ ~todo[d][q].guarded
      <4>1. PICK c \in Paths : todo[d][q].after = c
        BY <2>1, <3>4, PathsAssumption DEF Good, LinkGood
      <4>2. ShapeGood(d, c)
        BY DEF LInv, Good, TaskGood
      <4>3. todo[d][c].after = None /\ c # p
        BY <2>1, <2>2, <3>4, <4>1, <4>2, CopyWaitsForNone DEF Good
      <4>4. todo'[d][c] = todo[d][c] /\ mem'[d][c] = mem[d][c]
        BY <1>2, <1>4, <4>3, NoneAssumption
      <4>5. SameLink(d, q) /\ SameCopy(d, c) /\ Yields(d, c) /\ StaysUnnamed(d, c)
        BY <1>6, <1>10, <3>1, <4>3, <4>4 DEF SameLink, SameCopy, Yields
      <4>6. todo[d][q].after \in Paths => todo[d][q].after = c
        BY <4>1
      <4> QED
        BY <1>10, <2>1, <3>2, <4>5, <4>6, LinkStays DEF Good
    <3> QED
      BY <3>3, <3>4
  <2>3. CASE todo[d][q].after = p
    <3> DEFINE v == todo[d][q]
               w == todo'[d][q]
    <3>1. w = [v EXCEPT !.seen = drive[f].rev] /\ v \in Task
      BY <1>4, <1>13, <2>3, TaskTypes
    <3>2. /\ w.act = v.act /\ w.at = v.at /\ w.id = v.id /\ w.guarded = v.guarded
          /\ w.after = p /\ w.seen = drive[f].rev
      BY <2>3, <3>1 DEF Task
    <3>3. v.act = "update"
      BY <2>1, <2>3, NoneAssumption DEF Good, TaskGood, ShapeGood
    <3>4. RecordGood(d, q)'
      <4>1. ~Landed(v)
        BY <3>3 DEF Landed
      <4> QED
        BY <1>10, <2>1, <4>1, RecordStays DEF Good
    <3>5. TaskGood(d, q)'
      <4>1. todo[d][q].after # None /\ disk'[d][q] = disk[d][q]
        BY <1>6, <1>13, <2>3, NoneAssumption
      <4> QED
        BY <1>10, <2>1, <3>1, <4>1, WaitsOn DEF Good
    <3>6. CASE Updating(v) /\ ~v.guarded
      <4>1. Pending(d, v) \/ Saved(d, v)
        BY <2>1, <2>3, <3>6 DEF Good, LinkGood
      <4>2. ~Saved(d, v)
        BY <1>1, <2>3 DEF Saved, Landed
      <4>3. v.id = f /\ p \in Unnamed
        BY <2>3, <4>1, <4>2 DEF Pending
      <4>4. Landed(todo'[d][p])
        BY <1>1, <1>5 DEF Landed
      <4>5. /\ w.seen <= drive'[w.id].rev
            /\ drive'[w.id].md5 = drive[f].md5
        BY <1>3, <1>7, <3>2, <4>3, FileTypes
      <4>6. p \in Unnamed' /\ disk'[d][p] # None /\ disk'[d][p].md5 = drive[f].md5
        BY <1>6, <1>10, <4>3
      <4>7. w.at # "started" /\ w.after \in CopyPaths
        BY <2>1, <2>3, <3>2, <3>6 DEF Good, LinkGood
      <4>8. LinkGood(d, q)'
        BY <3>2, <4>4, <4>5, <4>6, <4>7 DEF LinkGood, Saved, OnDisk
      <4> QED
        BY <3>4, <3>5, <4>8
    <3>7. CASE ~(Updating(v) /\ ~v.guarded)
      BY <3>2, <3>4, <3>5, <3>7 DEF LinkGood, Updating, Early
    <3> QED
      BY <3>6, <3>7
  <2> QED
    BY <2>2, <2>3
<1>14. \A q \in Paths : Good(d, q)'
  <2>1. \A q \in Paths : ScanGood(d, q)' /\ ViewGood(d, q)'
    BY <1>1, <1>2 DEF ScanGood, ViewGood, deviceFrame
  <2> QED
    BY <1>11, <1>12, <1>13, <2>1 DEF Good
<1>15. OthersStay(d) /\ TakesOwn(d)
  <2>1. OthersStay(d)
    BY <1>2, <1>4, <1>6 DEF OthersStay, deviceFrame
  <2>2. \A q \in Paths : Uses(d, q)' => Uses(d, q)
    <3> SUFFICES ASSUME NEW q \in Paths, q # p, Uses(d, q)'
                 PROVE  Uses(d, q)
      BY <1>1 DEF Uses
    <3>1. todo[d][q] \in Task
      BY TaskTypes
    <3>2. todo'[d][q].act = todo[d][q].act
      BY <1>4, <3>1 DEF Task
    <3> QED
      BY <1>6, <3>2 DEF Uses
  <2> QED
    BY <2>1, <2>2, PathsAssumption DEF TakesOwn, Unnamed
<1>16. \A q \in Paths : disk[d][q] # None =>
         \/ disk'[d][q] # None /\ disk'[d][q].md5 = disk[d][q].md5
         \/ disk[d][q].md5 \in Kept'
  <2>1. disk[d][p] # None => disk[d][p].md5 \in Kept'
    BY <1>9, <1>10 DEF Kept, Grows
  <2> QED
    BY <1>6, <2>1
<1>17. \A g \in Files : Exists(g)' => Exists(g)
  BY <1>7 DEF Exists
<1>18. pc'[d] = "running" /\ UNCHANGED authored
  BY <1>1, <1>2 DEF deviceFrame
<1> QED
  BY <1>10, <1>14, <1>15, <1>16, <1>17, <1>18, StepOfDevice

\* Keep both: the copy gets a path that nobody uses, and the upload waits.
LEMMA KeepBothKeeps ==
  ASSUME TInv, TInv', JInv, LInv, NEW d \in Devices, NEW p \in Paths,
         BeginConflict(d, p) \/ RevisionMismatch(d, p)
  PROVE  LInv' /\ Grows
<1> DEFINE t == todo[d][p]
<1>1. /\ pc[d] = "running" /\ t.act \in {"conflict", "update"}
      /\ (t.act = "conflict" /\ t.at = "ready") \/ t.at = "mismatch"
  BY DEF BeginConflict, RevisionMismatch, At
<1>2. t.at # "ended" /\ t.act \notin {"download", "none"} /\ ~Landed(t) /\ t \in Task
  BY <1>1, TaskTypes DEF Landed
<1>3. Calm /\ UNCHANGED deviceFrame /\ UNCHANGED mem
  BY InnerCalm DEF BeginConflict, RevisionMismatch, taskFrame, deviceFrame
<1>4. Grows /\ Unnamed' = Unnamed /\ UNCHANGED disk
      /\ \A e \in Devices, q \in Paths : StaysUnnamed(e, q)
  BY <1>3, CalmGrows DEF Calm
<1> DEFINE copy == [NoTask EXCEPT !.act = "download", !.at = "ready", !.id = t.id,
                                  !.row = t.row]
<1>5. PICK c \in CopyPaths :
        /\ \A e \in Devices : disk[e][c] = None /\ mem[e][c] = None
                              /\ todo[e][c].at = "ended"
        /\ \A g \in Files : drive[g].name # c
        /\ todo' = [todo EXCEPT
             ![d][c] = copy,
             ![d][p] = [NoTask EXCEPT !.act = "update", !.at = "ready",
                                      !.id = t.id, !.row = t.row, !.after = c]]
  BY DEF BeginConflict, RevisionMismatch, KeepBoth
<1> DEFINE upload == [NoTask EXCEPT !.act = "update", !.at = "ready", !.id = t.id,
                                    !.row = t.row, !.after = c]
<1>6. c \in Paths /\ c # p /\ c \in Unnamed
  BY <1>2, <1>5, PathsAssumption DEF Unnamed
<1>7. /\ todo'[d][c] = copy /\ todo'[d][p] = upload
      /\ \A e \in Devices \ {d} : todo'[e] = todo[e]
      /\ \A q \in Paths \ {c, p} : todo'[d][q] = todo[d][q]
  <2> HIDE DEF copy
  <2> QED
    BY <1>5, <1>6 DEF TInv, TasksOK
<1>8. /\ copy.act = "download" /\ copy.at = "ready" /\ copy.id = t.id /\ copy.row = t.row
      /\ copy.after = None
      /\ upload.act = "update" /\ upload.at = "ready" /\ upload.id = t.id
      /\ upload.row = t.row /\ upload.after = c /\ ~upload.guarded /\ upload.seen = 0
  BY DEF NoTask
<1> HIDE DEF copy, upload
<1>9. /\ t.row # None /\ t.row.id = t.id
      /\ t.row.md5 \in Contents /\ t.row.rev <= drive'[t.row.id].rev
      /\ t.row.rev = drive'[t.row.id].rev => drive'[t.row.id].md5 = t.row.md5
  <2>1. t.row # None /\ t.row.id = t.id /\ Truth(t.row.id, t.row.rev, t.row.md5)
    BY <1>1 DEF LInv, Good, TaskGood, ShapeGood
  <2>2. t.row.id \in Files
    BY <2>1, TaskTypes
  <2> QED
    BY <1>3, <2>1, <2>2 DEF Calm, Truth
<1>10. TaskGood(d, c)' /\ LinkGood(d, c)'
  <2> DEFINE u == todo'[d][c]
  <2>1. u.act = "download" /\ u.at = "ready" /\ u.id = t.id /\ u.row = t.row /\ u.after = None
    BY <1>7, <1>8
  <2>2. disk'[d][c] = None
    BY <1>4, <1>5
  <2> HIDE DEF u, t
  <2> QED
    BY <1>9, <2>1, <2>2 DEF u, TaskGood, DownloadGood, UploadGood, GuardGood, ShapeGood,
                            LinkGood, Updating, Early, Landed, Truth
<1>11. TaskGood(d, p)' /\ LinkGood(d, p)'
  <2> DEFINE u == todo'[d][p]
             v == todo'[d][c]
  <2>1. /\ u.act = "update" /\ u.at = "ready" /\ u.id = t.id /\ u.row = t.row
        /\ u.after = c /\ ~u.guarded /\ u.seen = 0
        /\ v.act = "download" /\ v.at = "ready" /\ v.id = t.id
    BY <1>7, <1>8
  <2>2. c \in Unnamed' /\ c \in CopyPaths
    BY <1>4, <1>6
  <2> HIDE DEF u, v, t
  <2>3. TaskGood(d, p)'
    BY <1>9, <2>1 DEF u, TaskGood, DownloadGood, UploadGood, GuardGood, ShapeGood,
                      Early, Landed, Truth
  <2>4. LinkGood(d, p)'
    BY <2>1, <2>2 DEF u, v, LinkGood, Pending, Early
  <2> QED
    BY <2>3, <2>4
<1>12. RecordGood(d, p)' /\ RecordGood(d, c)'
  <2>1. RecordGood(d, p) /\ Yields(d, p) /\ mem'[d][p] = mem[d][p]
    BY <1>3, <1>4 DEF LInv, Good, Yields
  <2>2. RecordGood(d, p)'
    BY <1>2, <1>4, <2>1, RecordStays
  <2>3. mem'[d][c] = None
    BY <1>3, <1>5
  <2> QED
    BY <2>2, <2>3 DEF RecordGood
<1>13. ASSUME NEW q \in Paths \ {c, p}
       PROVE  RecordGood(d, q)' /\ TaskGood(d, q)' /\ LinkGood(d, q)'
  <2>1. /\ Good(d, q) /\ Yields(d, q) /\ OnlyRaced(d, q) /\ mem'[d][q] = mem[d][q]
        /\ todo'[d][q] = todo[d][q]
    BY <1>3, <1>4, <1>7, <1>13 DEF LInv, Yields, OnlyRaced
  <2>2. RecordGood(d, q)' /\ TaskGood(d, q)'
    BY <1>4, <2>1, RecordStays, WorkStays DEF Good
  <2>3. CASE ~(Updating(todo[d][q]) /\ ~todo[d][q].guarded)
    BY <2>1, <2>2, <2>3 DEF LinkGood, Updating, Early
  <2>4. CASE Updating(todo[d][q]) /\ ~todo[d][q].guarded
    <3>1. PICK b \in Paths : todo[d][q].after = b
      BY <2>1, <2>4, PathsAssumption DEF Good, LinkGood
    <3>2. Pending(d, todo[d][q]) \/ Saved(d, todo[d][q])
      BY <2>1, <2>4 DEF Good, LinkGood
    <3>3. b # p
      BY <1>2, <3>1, <3>2 DEF Pending, Saved
    <3>4. b # c
      BY <1>5, <3>1, <3>2 DEF Pending, Saved, Early, Landed
    <3>5. todo'[d][b] = todo[d][b] /\ mem'[d][b] = mem[d][b]
      BY <1>3, <1>7, <3>3, <3>4
    <3>6. SameLink(d, q) /\ SameCopy(d, b) /\ Yields(d, b) /\ StaysUnnamed(d, b)
      BY <1>4, <2>1, <3>5 DEF SameLink, SameCopy, Yields
    <3>7. todo[d][q].after \in Paths => todo[d][q].after = b
      BY <3>1
    <3> QED
      BY <1>4, <2>1, <2>2, <3>6, <3>7, LinkStays DEF Good
  <2> QED
    BY <2>3, <2>4
<1>14. \A q \in Paths : Good(d, q)'
  <2>1. \A q \in Paths : ScanGood(d, q)' /\ ViewGood(d, q)'
    BY <1>1, <1>3 DEF ScanGood, ViewGood, deviceFrame
  <2> QED
    BY <1>10, <1>11, <1>12, <1>13, <2>1 DEF Good
<1>15. OthersStay(d) /\ TakesOwn(d)
  <2>1. OthersStay(d)
    BY <1>3, <1>4, <1>7 DEF OthersStay, deviceFrame
  <2>2. \A q \in Paths \ {c} : Uses(d, q)' => Uses(d, q)
    BY <1>4, <1>7, <1>8 DEF Uses
  <2>3. \A e \in Devices \ {d} : ~Uses(e, c)
    <3>1. \A e \in Devices : todo[e][c].act = "none"
      BY <1>5, <1>6 DEF LInv, Good, TaskGood, ShapeGood
    <3> QED
      BY <1>5, <3>1 DEF Uses
  <2> QED
    BY <2>1, <2>2, <2>3, PathsAssumption DEF TakesOwn, Unnamed
<1>16. \A g \in Files : Exists(g)' => Exists(g)
  BY <1>3 DEF Calm
<1>17. pc'[d] = "running" /\ UNCHANGED authored
  BY <1>1, <1>3 DEF deviceFrame
<1> QED
  BY <1>4, <1>14, <1>15, <1>16, <1>17, StepOfDevice

-----------------------------------------------------------------------------
(* The steps of tasks, together.                                           *)

\* Every step of a task keeps the invariant.
LEMMA TaskKeeps ==
  ASSUME SafeDelete, TInv, TInv', JInv, LInv, NEW d \in Devices, NEW p \in Paths,
         TaskStep(d, p)
  PROVE  LInv' /\ Grows
<1>1. CASE Upload(d, p)
  BY <1>1, PlanUploadKeeps, StartUpdateKeeps, PreflightKeeps, PatchMediaKeeps,
     FindKeeps, CreateFileKeeps, CommitUploadKeeps DEF Upload
<1>2. CASE Download(d, p)
  BY <1>2, MoveDownloadKeeps, WriteDownloadKeeps, CommitDownloadKeeps DEF Download
<1>3. CASE Delete(d, p)
  BY <1>3, ConfirmKeeps, MoveToTrashKeeps, TrashRemoteKeeps, CommitDeleteKeeps DEF Delete
<1>4. CASE MarkDone(d, p)
  BY <1>4, MarkKeeps, MoveDownloadKeeps
<1> QED
  BY <1>1, <1>2, <1>3, <1>4, CleanupKeeps, TouchKeeps, KeepBothKeeps DEF TaskStep

-----------------------------------------------------------------------------
(* The steps before the tasks.                                             *)

\* Drive, the disks and what users did stay.
LEMMA DriveCalm ==
  ASSUME UNCHANGED <<drive, diskVars, userVars>>
  PROVE  Calm
BY DEF diskVars, userVars, Calm, Safe, InTrash, Exists

\* Between tasks a record stays good, or goes.
LEMMA RecordKept ==
  ASSUME TInv, TInv', JInv, LInv, Calm, NEW d \in Devices, NEW q \in Paths,
         pc[d] # "running", mem'[d][q] \in {None, mem[d][q]}
  PROVE  RecordGood(d, q)'
<1>1. Grows /\ RecordGood(d, q) /\ Yields(d, q) /\ ~Landed(todo[d][q])
  BY CalmGrows, IdleTasks DEF LInv, Good, Yields, Calm, Landed
<1>2. CASE mem'[d][q] = None
  BY <1>2 DEF RecordGood
<1>3. CASE mem'[d][q] = mem[d][q]
  BY <1>1, <1>3, RecordStays
<1> QED
  BY <1>2, <1>3

\* A step of a device that has no tasks keeps the invariant when it keeps what
\* is said of the record, the scan and the view.
LEMMA PhaseKeeps ==
  ASSUME TInv, TInv', JInv, LInv, Calm, NEW d \in Devices, pc[d] # "running",
         OthersStay(d), UNCHANGED authored, todo'[d] = todo[d],
         pc'[d] \notin {"recovering", "running"} => rec'[d] = mem'[d],
         \A q \in Paths : RecordGood(d, q)' /\ ScanGood(d, q)' /\ ViewGood(d, q)'
  PROVE  LInv' /\ Grows
<1>1. /\ Grows /\ Unnamed' = Unnamed
      /\ \A f \in Files : Exists(f)' => Exists(f) \/ drive'[f].rev = 1
      /\ \A e \in Devices, q \in Paths : StaysUnnamed(e, q)
  BY CalmGrows
<1>2. ASSUME NEW q \in Paths
      PROVE  TaskGood(d, q)' /\ LinkGood(d, q)'
  <2> DEFINE t == todo[d][q]
  <2>1. t.act = "none" /\ t.at = "ended" /\ ShapeGood(d, q)
    BY IdleTasks DEF LInv, Good, TaskGood
  <2>2. t.row # None => /\ t.row.md5 \in Contents /\ t.row.rev <= drive'[t.row.id].rev
                        /\ t.row.rev = drive'[t.row.id].rev
                           => drive'[t.row.id].md5 = t.row.md5
    <3>1. t.row # None => /\ Truth(t.row.id, t.row.rev, t.row.md5)
                          /\ t.row.id \in Files /\ Exists(t.row.id)
                          /\ t.row.rev \in Nat
      BY <2>1, TaskTypes DEF ShapeGood
    <3> HIDE DEF t
    <3> QED
      BY <1>1, <3>1, TruthStays
  <2>3. ShapeGood(d, q)'
    BY <2>1, <2>2 DEF ShapeGood, Truth
  <2> QED
    BY <2>1, <2>3 DEF TaskGood, DownloadGood, UploadGood, GuardGood, LinkGood, Updating
<1>3. \A q \in Paths : Good(d, q)'
  BY <1>2 DEF Good
<1>4. TakesOwn(d)
  BY PathsAssumption DEF TakesOwn, Uses, Calm
<1>5. \A q \in Paths : disk[d][q] # None =>
        \/ disk'[d][q] # None /\ disk'[d][q].md5 = disk[d][q].md5
        \/ disk[d][q].md5 \in Kept'
  BY DEF Calm
<1> QED
  BY <1>1, <1>3, <1>4, <1>5, StepOfDevice

\* A cycle starts with the records in redb, but for those it purges.
LEMMA StartCycleKeeps ==
  ASSUME TInv, TInv', JInv, LInv, NEW d \in Devices, StartCycle(d)
  PROVE  LInv' /\ Grows
<1>1. Calm /\ OthersStay(d) /\ UNCHANGED <<authored, todo>>
  <2>1. Calm /\ UNCHANGED <<disk, authored, todo, rec, scan, view>>
    BY InnerCalm DEF StartCycle, userVars, diskVars
  <2>2. \A e \in Devices \ {d} : mem'[e] = mem[e] /\ pc'[e] = pc[e]
    BY DEF StartCycle, TInv, StoreOK, CycleOK
  <2> QED
    BY <2>1, <2>2 DEF OthersStay
<1>2. pc[d] = "idle" /\ pc'[d] \in {"recovered", "recovering"} /\ rec[d] = mem[d]
  BY DEF StartCycle, TInv, CycleOK, LInv, Persisted
<1>3. \A q \in Paths : mem'[d][q] \in {None, mem[d][q]}
  BY <1>2 DEF StartCycle, TInv, StoreOK
<1>4. \A q \in Paths : RecordGood(d, q)'
  BY <1>1, <1>2, <1>3, RecordKept
<1>5. \A q \in Paths : ScanGood(d, q)' /\ ViewGood(d, q)'
  BY <1>2 DEF ScanGood, ViewGood
<1>6. pc'[d] # "recovering" => rec'[d] = mem'[d]
  BY DEF StartCycle, TInv, CycleOK, StoreOK
<1> QED
  BY <1>1, <1>2, <1>4, <1>5, <1>6, PhaseKeeps

\* Recovery changes nothing but redb.
LEMMA PurgeKeeps ==
  ASSUME TInv, TInv', JInv, LInv, NEW d \in Devices, PersistPurge(d) \/ ClearPurged(d)
  PROVE  LInv' /\ Grows
<1>1. Calm /\ UNCHANGED <<disk, authored, todo, mem, scan, view>>
  BY InnerCalm DEF PersistPurge, ClearPurged, userVars, diskVars
<1>2. \A e \in Devices \ {d} : rec'[e] = rec[e] /\ pc'[e] = pc[e]
  BY DEF PersistPurge, ClearPurged, Persist, TInv, StoreOK, CycleOK
<1>3. pc[d] \in {"recovering", "purged"} /\ pc'[d] \in {"purged", "recovered"}
  BY DEF PersistPurge, ClearPurged, TInv, CycleOK
<1>4. \A q \in Paths : RecordGood(d, q)'
  BY <1>1, <1>3, RecordKept
<1>5. \A q \in Paths : ScanGood(d, q)' /\ ViewGood(d, q)'
  BY <1>3 DEF ScanGood, ViewGood
<1>6. OthersStay(d)
  BY <1>1, <1>2 DEF OthersStay
<1>7. rec'[d] = mem'[d]
  BY <1>1, <1>3 DEF PersistPurge, ClearPurged, Persist, TInv, StoreOK, LInv, Persisted
<1> QED
  BY <1>1, <1>3, <1>4, <1>5, <1>6, <1>7, PhaseKeeps

\* The scan sees what the records say of the disk.
LEMMA ScanLocalKeeps ==
  ASSUME TInv, TInv', JInv, LInv, NEW d \in Devices, ScanLocal(d)
  PROVE  LInv' /\ Grows
<1>1. Calm /\ UNCHANGED <<disk, authored, todo, rec, mem, view>>
  BY InnerCalm DEF ScanLocal, userVars, diskVars, storeVars
<1>2. \A e \in Devices \ {d} : scan'[e] = scan[e] /\ pc'[e] = pc[e]
  BY DEF ScanLocal, TInv, CycleOK
<1>3. pc[d] = "recovered" /\ pc'[d] = "scanned" /\ scan'[d] = disk[d]
  BY DEF ScanLocal, TInv, CycleOK
<1>4. \A q \in Paths : RecordGood(d, q)'
  BY <1>1, <1>3, RecordKept
<1>5. ASSUME NEW q \in Paths
      PROVE  ScanGood(d, q)' /\ ViewGood(d, q)'
  <2>1. ~Landed(todo'[d][q])
    BY <1>1, <1>3, IdleTasks DEF Landed
  <2>2. disk'[d][q] = disk[d][q] /\ scan'[d][q] = disk[d][q]
    BY <1>1, <1>3
  <2>3. ScanGood(d, q)'
    BY <1>4, <2>1, <2>2 DEF RecordGood, ScanGood, OnDisk
  <2> QED
    BY <1>3, <2>3 DEF ViewGood
<1>6. OthersStay(d)
  BY <1>1, <1>2 DEF OthersStay
<1>7. rec'[d] = mem'[d]
  BY <1>1, <1>3 DEF LInv, Persisted
<1> QED
  BY <1>1, <1>3, <1>4, <1>5, <1>6, <1>7, PhaseKeeps

-----------------------------------------------------------------------------
(* The remote view.                                                        *)

\* Views that say what Drive says or said, and nothing new of a copy that no
\* file of Drive is named after, or of a file whose record is current.
GoodViews(d) ==
  {v \in Views : \A q \in Paths : v[q] # None =>
     /\ Truth(v[q].id, v[q].rev, v[q].md5)
     /\ q \in Unnamed => v[q] = Stub(mem[d][q])
     /\ NoNews(v[q], mem[d][q])}

\* A file is never placed at such a path.
LEMMA PlacedElsewhere ==
  ASSUME CopyPaths \cap NumberedPaths = {}, NEW f \in Files, Exists(f),
         drive[f].name \in Paths, NEW v
  PROVE  /\ drive[f].name \notin Unnamed
         /\ PlaceWithoutClobber(v, drive[f].name, f) \notin Unnamed
<1> DEFINE q == drive[f].name
           free == {i \in DOMAIN Numbered[q] : v[Numbered[q][i]] = None}
<1>1. q \notin Unnamed
  BY DEF Unnamed
<1>2. Numbered[q] \in Seq(Paths) /\ DOMAIN Numbered[q] \subseteq Nat
  BY NumberedAssumption
<1>3. free # {} => Numbered[q][Min2(free)] \in NumberedPaths
  <2>1. free # {} => Min2(free) \in DOMAIN Numbered[q]
    BY <1>2, Min2InSet
  <2>2. q \in Paths
    OBVIOUS
  <2> HIDE DEF free, q
  <2>3. \A i \in DOMAIN Numbered[q] : Numbered[q][i] \in NumberedPaths
    BY <2>2 DEF NumberedPaths
  <2> QED
    BY <2>1, <2>3
<1>4. None \notin Unnamed
  BY NoneAssumption, PathsAssumption DEF Unnamed
<1>5. PlaceWithoutClobber(v, q, f) \in {q, None} \cup NumberedPaths
  BY <1>3 DEF PlaceWithoutClobber
<1> HIDE DEF q
<1>6. PlaceWithoutClobber(v, q, f) \notin Unnamed
  BY <1>1, <1>4, <1>5 DEF Unnamed
<1> QED
  BY <1>1, <1>6 DEF q

\* One more file leaves a view good.
LEMMA PutGood ==
  ASSUME TInv, LInv, CopyPaths \cap NumberedPaths = {}, NEW d \in Devices,
         NEW v \in GoodViews(d), NEW f \in Files, Exists(f)
  PROVE  Put(v, drive[f].name, f) \in GoodViews(d)
<1> DEFINE place == PlaceWithoutClobber(v, drive[f].name, f)
<1>1. /\ drive[f].rev \in Nat /\ drive[f].md5 \in Contents /\ drive[f].name \in Paths
  BY FileTypes
<1>2. place \notin Unnamed
  BY <1>1, PlacedElsewhere
<1>3. Put(v, drive[f].name, f) \in Views
  BY <1>1, PutType DEF TInv, GoodViews
<1>4. Truth(Row(f).id, Row(f).rev, Row(f).md5)
  BY <1>1 DEF Row, Truth
<1>5. Put(v, drive[f].name, f) = IF place = None THEN v ELSE [v EXCEPT ![place] = Row(f)]
  BY DEF Put
<1> HIDE DEF place
<1>6. ASSUME NEW q \in Paths
      PROVE  \/ Put(v, drive[f].name, f)[q] = v[q]
             \/ Put(v, drive[f].name, f)[q] = Row(f) /\ q \notin Unnamed
  BY <1>2, <1>5 DEF GoodViews, Views
<1>7. ASSUME NEW q \in Paths
      PROVE  NoNews(Row(f), mem[d][q])
  <2>1. RecordGood(d, q)
    BY DEF LInv, Good
  <2> QED
    BY <2>1 DEF RecordGood, Truth, NoNews, Current, Row
<1> QED
  BY <1>3, <1>4, <1>6, <1>7 DEF GoodViews

\* A listing is good.
LEMMA ListingGood ==
  ASSUME TInv, LInv, CopyPaths \cap NumberedPaths = {}, NEW d \in Devices
  PROVE  ListAllFiles \in GoodViews(d)
<1>1. Nothing \in GoodViews(d)
  BY DEF Nothing, GoodViews, Views
<1>2. \A f \in Files : Live(f) => \A v \in GoodViews(d) : Put(v, drive[f].name, f) \in GoodViews(d)
  BY PutGood DEF Live, Exists
<1> QED
  BY <1>1, <1>2, ListingIn

\* So is what a batch of changes makes of the records.
LEMMA BatchGood ==
  ASSUME TInv, LInv, CopyPaths \cap NumberedPaths = {}, NEW d \in Devices,
         NEW known \in [Files -> Paths \cup {None}]
  PROVE  IncrementalView(d, known).view \in GoodViews(d)
<1> DEFINE P == {s \in Partial : s.view \in GoodViews(d)}
<1>1. [p \in Paths |-> Stub(mem[d][p])] \in GoodViews(d)
  <2>1. ASSUME NEW p \in Paths
        PROVE  /\ Stub(mem[d][p]) \in Rows \cup {None}
               /\ Stub(mem[d][p]) # None => Truth(Stub(mem[d][p]).id, Stub(mem[d][p]).rev,
                                                  Stub(mem[d][p]).md5)
               /\ NoNews(Stub(mem[d][p]), mem[d][p])
    <3>1. Stub(mem[d][p]) \in Rows \cup {None}
      BY StubType DEF TInv, StoreOK
    <3>2. RecordGood(d, p)
      BY DEF LInv, Good
    <3> QED
      BY <3>1, <3>2 DEF Stub, RecordGood, NoNews
  <2> QED
    BY <2>1 DEF GoodViews, Views
<1>2. FromRecords(d, known) \in P
  BY <1>1 DEF FromRecords, Partial, GoodViews
<1>3. ASSUME NEW f \in Files, Exists(f), NEW s \in P
      PROVE  ApplyRemoteChange(s, f) \in P
  <2> DEFINE q == IF s.at[f] = None THEN drive[f].name ELSE s.at[f]
  <2>1. ApplyRemoteChange(s, f) \in Partial /\ s \in Partial /\ s.view \in GoodViews(d)
    BY <1>3, ApplyType DEF TInv
  <2>2. CASE ~s.ok
    BY <1>3, <2>2 DEF ApplyRemoteChange
  <2>3. CASE s.ok /\ q # drive[f].name
    <3>1. ApplyRemoteChange(s, f).view = s.view
      BY <2>1, <2>3 DEF ApplyRemoteChange, Partial
    <3> QED
      BY <2>1, <3>1
  <2>4. CASE s.ok /\ q = drive[f].name /\ ~Live(f)
    <3>1. ApplyRemoteChange(s, f).view = [s.view EXCEPT ![q] = None]
      BY <2>1, <2>4 DEF ApplyRemoteChange, Partial
    <3>2. ApplyRemoteChange(s, f).view \in Views
      BY <2>1 DEF Partial
    <3>3. ApplyRemoteChange(s, f).view \in GoodViews(d)
      <4> HIDE DEF q
      <4> QED
        BY <2>1, <3>1, <3>2 DEF GoodViews, Views
    <3> QED
      BY <2>1, <3>3
  <2>5. CASE s.ok /\ q = drive[f].name /\ Live(f)
    <3>1. ApplyRemoteChange(s, f).view = Put(s.view, drive[f].name, f)
      BY <2>1, <2>5 DEF ApplyRemoteChange, Partial
    <3>2. Put(s.view, drive[f].name, f) \in GoodViews(d)
      BY <1>3, <2>1, PutGood
    <3> QED
      BY <2>1, <3>1, <3>2
  <2> QED
    BY <2>2, <2>3, <2>4, <2>5
<1> HIDE DEF P
<1>4. IncrementalView(d, known) \in P
  BY <1>2, <1>3, IncrementalIn DEF TInv
<1> QED
  BY <1>4 DEF P

\* A step that gets a good view, or goes on with the one it has.
LEMMA ViewKeeps ==
  ASSUME TInv, TInv', JInv, LInv, NEW d \in Devices,
         pc[d] \in {"scanned", "relist", "listed"},
         pc'[d] \in {"relist", "listed", "viewed"},
         \A e \in Devices \ {d} : pc'[e] = pc[e] /\ view'[e] = view[e],
         UNCHANGED <<drive, diskVars, storeVars, mem, scan, todo, userVars>>,
         pc'[d] # "relist" => view'[d] \in GoodViews(d)
  PROVE  LInv' /\ Grows
<1>1. Calm /\ UNCHANGED <<disk, trash, authored, settled, raced, rec>>
  BY DriveCalm DEF userVars, diskVars, storeVars
<1>2. \A q \in Paths : RecordGood(d, q)'
  BY <1>1, RecordKept
<1>3. ASSUME NEW q \in Paths
      PROVE  ScanGood(d, q)'
  <2>1. ScanGood(d, q)
    BY DEF LInv, Good
  <2> QED
    BY <1>1, <2>1 DEF ScanGood, OnDisk, Current, Safe, InTrash
<1>4. ASSUME NEW q \in Paths
      PROVE  ViewGood(d, q)'
  <2>1. Unnamed' = Unnamed
    BY DEF Unnamed, Exists
  <2> SUFFICES ASSUME pc'[d] \in {"listed", "viewed"}, view'[d][q] # None
               PROVE  ViewGood(d, q)'
    BY DEF ViewGood
  <2> DEFINE r == view'[d][q]
  <2>2. /\ Truth(r.id, r.rev, r.md5) /\ NoNews(r, mem[d][q])
        /\ q \in Unnamed => r = Stub(mem[d][q])
    BY DEF GoodViews
  <2> QED
    BY <2>1, <2>2 DEF ViewGood, Truth, Stub, NoNews, Current
<1>5. OthersStay(d)
  BY <1>1 DEF OthersStay
<1>6. rec'[d] = mem'[d]
  BY <1>1 DEF LInv, Persisted
<1> QED
  BY <1>1, <1>2, <1>3, <1>4, <1>5, <1>6, PhaseKeeps

\* Every way to a remote view keeps the invariant.
LEMMA FetchKeeps ==
  ASSUME TInv, TInv', JInv, LInv, CopyPaths \cap NumberedPaths = {}, NEW d \in Devices,
         FetchChanges(d) \/ Relist(d) \/ ListAll(d) \/ GetStartPageToken(d)
  PROVE  LInv' /\ Grows
<1>1. UNCHANGED <<drive, diskVars, storeVars, mem, scan, todo, userVars>>
  BY DEF FetchChanges, Relist, ListAll, GetStartPageToken, driveVars
<1>2. ListAllFiles \in GoodViews(d)
  BY ListingGood
<1>3. CASE FetchChanges(d)
  <2>1. PICK known \in KnownPaths(d) :
          LET built == IncrementalView(d, known)
          IN  IF built.ok
              THEN /\ view' = [view EXCEPT ![d] = built.view]
                   /\ pc' = [pc EXCEPT ![d] = "viewed"]
              ELSE /\ pc' = [pc EXCEPT ![d] = "relist"]
                   /\ UNCHANGED view
    BY <1>3 DEF FetchChanges
  <2>2. IncrementalView(d, known).view \in GoodViews(d)
    BY BatchGood DEF KnownPaths
  <2>3. /\ pc[d] = "scanned" /\ pc'[d] \in {"relist", "viewed"}
        /\ \A e \in Devices \ {d} : pc'[e] = pc[e] /\ view'[e] = view[e]
        /\ pc'[d] # "relist" => view'[d] \in GoodViews(d)
    BY <1>3, <2>1, <2>2 DEF FetchChanges, TInv, CycleOK, StoreOK
  <2> QED
    BY <1>1, <2>3, ViewKeeps
<1>4. CASE Relist(d) \/ ListAll(d)
  <2>1. /\ pc[d] \in {"scanned", "relist"} /\ pc'[d] \in {"listed", "viewed"}
        /\ \A e \in Devices \ {d} : pc'[e] = pc[e] /\ view'[e] = view[e]
        /\ view'[d] = ListAllFiles
    BY <1>4 DEF Relist, ListAll, TInv, CycleOK, StoreOK
  <2> QED
    BY <1>1, <1>2, <2>1, ViewKeeps
<1>5. CASE GetStartPageToken(d)
  <2>1. /\ pc[d] = "listed" /\ pc'[d] = "viewed"
        /\ \A e \in Devices \ {d} : pc'[e] = pc[e]
        /\ view' = view
    BY <1>5 DEF GetStartPageToken, TInv, CycleOK
  <2>2. view[d] \in GoodViews(d)
    <3>1. view[d] \in Views
      BY ViewsOK DEF TInv
    <3>2. \A q \in Paths : ViewGood(d, q)
      BY DEF LInv, Good
    <3> QED
      BY <2>1, <3>1, <3>2 DEF GoodViews, ViewGood
  <2> QED
    BY <1>1, <2>1, <2>2, ViewKeeps
<1> QED
  BY <1>3, <1>4, <1>5

-----------------------------------------------------------------------------
(* The decisions, and the end of a cycle.                                  *)

\* Why the matrix decides what may overwrite something.
LEMMA DecisionReasons ==
  ASSUME NEW l, NEW r, NEW m, NEW ids, m # None => m.id # None,
         NEW a, a = DetermineAction(l, r, m, None, ids)
  PROVE  /\ a.act \in {"download", "touch"} /\ l # None => m # None /\ l.md5 = m.md5
         /\ a.act = "download" => r # None /\ (m # None => RemoteChanged(r, m))
         /\ a.act = "upload" /\ a.id # None
            => l # None /\ m # None /\ a.id = m.id /\ l.md5 # m.md5
<1> USE DEF Act
<1>1. CASE l # None /\ r # None /\ m # None
  <2>1. a = LocalRemoteAndRecord(l, r, m, None)
    BY <1>1 DEF DetermineAction
  <2>2. LocalDelta(l, m, None) = "content" <=> l.md5 # m.md5
    BY DEF LocalDelta, Baseline
  <2>3. CASE l.md5 # m.md5
    <3>1. a \in {Act("conflict", r.id), Act("upload", m.id)}
      BY <1>1, <2>1, <2>2, <2>3 DEF LocalRemoteAndRecord, ResolveDualContentChange, UploadTarget
    <3> QED
      BY <1>1, <2>3, <3>1
  <2>4. CASE l.md5 = m.md5
    <3>1. \/ a = Act("download", r.id) /\ RemoteChanged(r, m)
          \/ a \in {Act("touch", None), Act("skip", None)}
      BY <2>1, <2>2, <2>4 DEF LocalRemoteAndRecord
    <3> QED
      BY <1>1, <2>4, <3>1
  <2> QED
    BY <2>3, <2>4
<1>2. CASE l # None /\ r # None /\ m = None
  BY <1>2 DEF DetermineAction, LocalAndRemote
<1>3. CASE l # None /\ r = None /\ m # None
  <2>1. a = LocalAndRecord(l, m, ids, None)
    BY <1>3 DEF DetermineAction
  <2>2. LocalDelta(l, m, None) = "content" <=> l.md5 # m.md5
    BY DEF LocalDelta, Baseline
  <2> QED
    BY <1>3, <2>1, <2>2 DEF LocalAndRecord
<1>4. CASE l # None /\ r = None /\ m = None
  BY <1>4 DEF DetermineAction
<1>5. CASE l = None /\ r # None /\ m # None
  BY <1>5 DEF DetermineAction, RemoteAndRecord
<1>6. CASE l = None /\ r # None /\ m = None
  BY <1>6 DEF DetermineAction
<1>7. CASE l = None /\ r = None
  BY <1>7 DEF DetermineAction
<1> QED
  BY <1>1, <1>2, <1>3, <1>4, <1>5, <1>6, <1>7

\* The task of a decision, when conflicts keep both contents.
LEMMA TaskForReasons ==
  ASSUME Resolution(Policy) = "keep_both", NEW a, NEW r,
         a.act \in {"skip", "upload", "conflict", "download", "delete_local",
                    "delete_remote", "cleanup", "touch"},
         NEW t, t = TaskFor(a, r)
  PROVE  \/ t = NoTask
         \/ /\ t.at = "ready" /\ t.id = a.id /\ t.row = r /\ t.after = None
            /\ t.act # "none"
            /\ t.act = "update" => a.act = "upload" /\ a.id # None /\ t.guarded
            /\ t.act \in {"download", "conflict", "touch"} => a.act = t.act
<1> DEFINE task == [NoTask EXCEPT !.act = a.act, !.at = "ready", !.id = a.id, !.row = r]
<1>1. CASE a.act = "skip"
  BY <1>1 DEF TaskFor
<1>2. CASE a.act = "upload" /\ a.id # None
  <2>1. t = [task EXCEPT !.act = "update", !.guarded = TRUE]
    BY <1>2 DEF TaskFor
  <2> QED
    BY <1>2, <2>1 DEF NoTask
<1>3. CASE a.act = "upload" /\ a.id = None
  <2>1. t = [task EXCEPT !.act = "create"]
    BY <1>3 DEF TaskFor
  <2> QED
    BY <1>3, <2>1 DEF NoTask
<1>4. CASE a.act \notin {"skip", "upload"}
  <2>1. t = task
    BY <1>4 DEF TaskFor, ConflictTask
  <2> QED
    BY <1>4, <2>1 DEF NoTask
<1> QED
  BY <1>1, <1>2, <1>3, <1>4

\* What is decided for a path is good, and no download is to a copy that no
\* file of Drive is named after.
LEMMA DecidedGood ==
  ASSUME Resolution(Policy) = "keep_both", TInv, TInv', JInv, LInv,
         NEW d \in Devices, Decide(d), NEW p \in Paths
  PROVE  /\ Good(d, p)'
         /\ todo'[d][p].act = "download" => p \notin Unnamed
<1> DEFINE ids == {view[d][q].id : q \in {k \in Paths : view[d][k] # None}}
           l == scan[d][p]
           r == view[d][p]
           m == mem[d][p]
           a == DetermineAction(l, r, m, None, ids)
           t == todo'[d][p]
<1>1. /\ l \in LocalFile \cup {None} /\ r \in Rows \cup {None}
      /\ m \in Record \cup {None} /\ Sound(m)
  BY DEF TInv, CycleOK, StoreOK, Rows, Sound
<1>2. pc[d] = "viewed" /\ pc'[d] = "running" /\ t = TaskFor(a, r)
  BY DEF Decide, TInv, CycleOK, TasksOK
<1>3. /\ Calm /\ Unnamed' = Unnamed /\ Grows
      /\ UNCHANGED <<drive, disk, mem, Safe, Kept>>
  <2>1. UNCHANGED <<drive, diskVars, userVars, mem>>
    BY DEF Decide, driveVars
  <2>2. Calm /\ UNCHANGED <<disk, trash, settled, raced>>
    BY <2>1, DriveCalm DEF diskVars, userVars
  <2>3. Unnamed' = Unnamed /\ Grows
    BY <2>2, CalmGrows
  <2>4. Safe' = Safe /\ OnDrive' = OnDrive
    BY <2>1, <2>2 DEF Safe, InTrash, OnDrive, Exists
  <2>5. Held' = Held
    BY <2>2, <2>3 DEF Held
  <2> QED
    BY <2>1, <2>2, <2>3, <2>4, <2>5 DEF Kept
<1>4. RecordGood(d, p) /\ ScanGood(d, p) /\ ViewGood(d, p)
  BY DEF LInv, Good
<1>5. m # None => m.id # None /\ m.fp \in Contents /\ m.md5 \in Kept
  BY <1>1, <1>4, NoneAssumption DEF Record, RecordGood, Truth
<1>6. a.act \in {"skip", "upload", "conflict", "download", "delete_local",
                 "delete_remote", "cleanup", "touch"}
      /\ (a.act \in {"conflict", "download"} => r # None /\ a.id = r.id)
  BY <1>1, DecisionType
<1>7. /\ a.act \in {"download", "touch"} /\ l # None => m # None /\ l.md5 = m.md5
      /\ a.act = "download" => r # None /\ (m # None => RemoteChanged(r, m))
      /\ a.act = "upload" /\ a.id # None
         => l # None /\ m # None /\ a.id = m.id /\ l.md5 # m.md5
  BY <1>5, DecisionReasons
<1> HIDE DEF a
<1>8. \/ t = NoTask
      \/ /\ t.at = "ready" /\ t.id = a.id /\ t.row = r /\ t.after = None
         /\ t.act # "none"
         /\ t.act = "update" => a.act = "upload" /\ a.id # None /\ t.guarded
         /\ t.act \in {"download", "conflict", "touch"} => a.act = t.act
  BY <1>2, <1>6, TaskForReasons
<1>9. \/ disk[d][p] = None \/ disk[d][p].md5 \in Safe
      \/ l # None /\ disk[d][p].md5 = l.md5
  BY <1>2, <1>4 DEF ScanGood, Safe, OnDisk
<1>10. RecordGood(d, p)'
  BY <1>2, <1>3, RecordKept
<1>11. ScanGood(d, p)' /\ ViewGood(d, p)'
  BY <1>2 DEF ScanGood, ViewGood
<1>12. a.act = "download" => p \notin Unnamed
  <2> SUFFICES ASSUME a.act = "download", p \in Unnamed
               PROVE  FALSE
    OBVIOUS
  <2>1. r # None /\ r = Stub(m)
    BY <1>2, <1>4, <1>7 DEF ViewGood
  <2>2. m # None /\ r.md5 = m.fp
    BY <2>1 DEF Stub
  <2> QED
    BY <1>5, <1>7, <2>1, <2>2 DEF RemoteChanged, Fingerprint, NoMd5, Contents
<1>13. CASE t = NoTask
  <2>1. TaskGood(d, p)' /\ LinkGood(d, p)'
    BY <1>13, NothingToDo
  <2> QED
    BY <1>10, <1>11, <1>13, <2>1 DEF Good, NoTask
<1>14. CASE t # NoTask
  <2>1. DownloadGood(d, p)'
    <3> SUFFICES ASSUME t.act = "download"
                 PROVE  \/ disk[d][p] = None \/ disk[d][p].md5 \in Safe
                        \/ disk[d][p].md5 \in Kept /\ p \notin Unnamed
      BY <1>3, <1>8, <1>14 DEF DownloadGood, Landed
    <3> QED
      BY <1>5, <1>7, <1>8, <1>9, <1>12, <1>14
  <2>2. UploadGood(d, p)'
    BY <1>8, <1>14 DEF UploadGood
  <2>3. GuardGood(d, p)'
    <3> SUFFICES ASSUME t.act = "update"
                 PROVE  m # None /\ t.id = m.id /\ (m.md5 \in Safe \/ ~Current(m))
      BY <1>3, <1>8, <1>14 DEF GuardGood, Updating, Current
    <3> QED
      BY <1>2, <1>4, <1>7, <1>8, <1>14 DEF ScanGood
  <2>4. ShapeGood(d, p)'
    <3>1. r # None => Truth(r.id, r.rev, r.md5)
      BY <1>2, <1>4 DEF ViewGood
    <3>2. t.act = "touch" /\ disk[d][p] # None => disk[d][p].md5 \in Kept
      BY <1>5, <1>7, <1>8, <1>9, <1>14 DEF Kept
    <3> QED
      BY <1>3, <1>6, <1>8, <1>14, <3>1, <3>2 DEF ShapeGood, Truth
  <2>5. LinkGood(d, p)'
    BY <1>8, <1>14 DEF LinkGood, Updating
  <2> QED
    BY <1>8, <1>10, <1>11, <1>12, <1>14, <2>1, <2>2, <2>3, <2>4, <2>5 DEF Good, TaskGood
<1> QED
  BY <1>13, <1>14

\* The decisions keep the invariant.
LEMMA DecideKeeps ==
  ASSUME Resolution(Policy) = "keep_both", TInv, TInv', JInv, LInv,
         NEW d \in Devices, Decide(d)
  PROVE  LInv' /\ Grows
<1>1. Calm /\ UNCHANGED <<disk, authored, rec, mem>>
  <2>1. UNCHANGED <<drive, diskVars, userVars, rec, mem>>
    BY DEF Decide, driveVars
  <2> QED
    BY <2>1, DriveCalm DEF diskVars, userVars
<1>2. /\ Grows /\ Unnamed' = Unnamed
      /\ \A f \in Files : Exists(f)' => Exists(f) \/ drive'[f].rev = 1
      /\ \A e \in Devices, q \in Paths : StaysUnnamed(e, q)
  BY <1>1, CalmGrows
<1>3. /\ pc'[d] = "running"
      /\ \A e \in Devices \ {d} : /\ pc'[e] = pc[e] /\ scan'[e] = scan[e]
                                  /\ view'[e] = view[e] /\ todo'[e] = todo[e]
  BY DEF Decide, TInv, CycleOK, StoreOK, TasksOK
<1>4. OthersStay(d)
  BY <1>1, <1>3 DEF OthersStay
<1>5. \A q \in Paths : Good(d, q)' /\ (todo'[d][q].act = "download" => q \notin Unnamed)
  BY DecidedGood
<1>6. TakesOwn(d)
  BY <1>1, <1>2, <1>5, PathsAssumption DEF TakesOwn, Uses, Unnamed
<1>7. \A q \in Paths : disk[d][q] # None =>
        \/ disk'[d][q] # None /\ disk'[d][q].md5 = disk[d][q].md5
        \/ disk[d][q].md5 \in Kept'
  BY <1>1
<1> QED
  BY <1>1, <1>2, <1>3, <1>4, <1>5, <1>6, <1>7, StepOfDevice

\* The end of a cycle makes what is in memory durable.
LEMMA FinishKeeps ==
  ASSUME TInv, TInv', JInv, LInv, NEW d \in Devices, FinishCycle(d)
  PROVE  LInv' /\ Grows
<1>1. Calm /\ UNCHANGED <<disk, authored, mem, scan, view>>
  <2>1. UNCHANGED <<drive, diskVars, userVars, mem, scan, view>>
    BY DEF FinishCycle
  <2> QED
    BY <2>1, DriveCalm DEF diskVars, userVars
<1>2. /\ Grows /\ Unnamed' = Unnamed
      /\ \A f \in Files : Exists(f)' => Exists(f) \/ drive'[f].rev = 1
      /\ \A e \in Devices, q \in Paths : StaysUnnamed(e, q)
  BY <1>1, CalmGrows
<1>3. /\ pc'[d] = "idle" /\ rec'[d] = mem[d] /\ todo'[d] = NoTasks
      /\ \A e \in Devices \ {d} : pc'[e] = pc[e] /\ rec'[e] = rec[e] /\ todo'[e] = todo[e]
  BY DEF FinishCycle, Persist, TInv, CycleOK, StoreOK, TasksOK
<1>4. OthersStay(d)
  BY <1>1, <1>3 DEF OthersStay
<1>5. ASSUME NEW q \in Paths
      PROVE  Good(d, q)' /\ todo'[d][q] = NoTask
  <2>1. todo'[d][q] = NoTask
    BY <1>3 DEF NoTasks
  <2>2. RecordGood(d, q) /\ Yields(d, q) /\ ~Landed(todo[d][q])
    BY <1>1 DEF LInv, Good, Yields, FinishCycle, Over, Landed
  <2>3. RecordGood(d, q)'
    BY <1>1, <1>2, <2>2, RecordStays
  <2>4. ScanGood(d, q)' /\ ViewGood(d, q)'
    BY <1>3 DEF ScanGood, ViewGood
  <2>5. TaskGood(d, q)' /\ LinkGood(d, q)'
    BY <2>1, NothingToDo
  <2> QED
    BY <2>1, <2>3, <2>4, <2>5 DEF Good
<1>6. TakesOwn(d)
  BY <1>1, <1>2, <1>5, PathsAssumption DEF TakesOwn, Uses, Unnamed, NoTask
<1>7. \A q \in Paths : disk[d][q] # None =>
        \/ disk'[d][q] # None /\ disk'[d][q].md5 = disk[d][q].md5
        \/ disk[d][q].md5 \in Kept'
  BY <1>1
<1> QED
  BY <1>1, <1>2, <1>3, <1>4, <1>5, <1>6, <1>7, StepOfDevice

-----------------------------------------------------------------------------
(* Users.                                                                  *)

\* What a user does keeps the invariant, when every content that goes is safe
\* and what is new is somewhere.
LEMMA UserKeeps ==
  ASSUME TInv, TInv', JInv, LInv, Grows, UNCHANGED userFrame,
         \A f \in Files : Exists(f)' => Exists(f),
         \A d \in Devices, p \in Paths :
           /\ Yields(d, p) /\ (Exposed(d) => OnlyRaced(d, p)) /\ StaysUnnamed(d, p)
           /\ p \in Unnamed' /\ Uses(d, p)' => Uses(d, p),
         authored' \subseteq authored \cup OnDisks' \cup Kept'
  PROVE  LInv' /\ Grows
<1>1. UNCHANGED <<pc, rec, mem, scan, view, todo>>
  BY DEF userFrame, storeVars, cycleVars
<1>2. Counted'
  BY CountedStays DEF LInv
<1>3. OneOwner'
  <2>1. Unnamed' \subseteq Unnamed /\ Unnamed' \subseteq Paths
    BY PathsAssumption DEF Grows, Unnamed
  <2> QED
    BY <2>1 DEF LInv, OneOwner
<1>4. Persisted'
  BY <1>1 DEF LInv, Persisted
<1>5. ASSUME NEW d \in Devices
      PROVE  \A p \in Paths : Good(d, p)'
  <2>1. UNCHANGED <<pc[d], mem[d], scan[d], view[d], todo[d]>>
    BY <1>1
  <2>2. /\ \A p \in Paths : Yields(d, p)
        /\ \A p \in Paths : Exposed(d) => OnlyRaced(d, p)
        /\ \A p \in Paths : StaysUnnamed(d, p)
    OBVIOUS
  <2> QED
    BY <2>1, <2>2, DeviceStays
<1>6. (authored \subseteq OnDisks \cup Kept)'
  <2>1. OnDisks \subseteq OnDisks' \cup Kept'
    <3>1. \A d \in Devices, p \in Paths : disk[d][p] # None =>
            \/ disk'[d][p] # None /\ disk'[d][p].md5 = disk[d][p].md5
            \/ disk[d][p].md5 \in Kept'
      BY DEF Yields, Kept
    <3> QED
      BY <3>1, DisksKeep
  <2>2. authored \subseteq OnDisks \cup Kept /\ Kept \subseteq Kept'
    BY DEF LInv, Grows
  <2> QED
    BY <2>1, <2>2
<1> QED
  BY <1>2, <1>3, <1>4, <1>5, <1>6 DEF LInv

\* What users see and replace is safe; nothing becomes unsafe.
LEMMA SettledIsSafe ==
  ASSUME NEW local, Settle(local), UNCHANGED trash, raced \subseteq raced'
  PROVE  Safe \subseteq Safe' /\ (local # None => local.md5 \in Safe')
BY DEF Settle, Safe, InTrash

\* Users write, touch and remove local files.
LEMMA DiskUserKeeps ==
  ASSUME TInv, TInv', JInv, LInv, NEW d \in Devices, NEW p \in Paths,
         UserWrite(d, p) \/ UserTouch(d, p) \/ UserRemove(d, p)
  PROVE  LInv' /\ Grows
<1>1. UNCHANGED <<userFrame, drive>>
  BY DEF UserWrite, UserTouch, UserRemove, driveVars
<1>2. UNCHANGED <<pc, todo, trash>>
  BY <1>1 DEF userFrame, cycleVars
<1>3. disk \in [Devices -> [Paths -> LocalFile \cup {None}]]
  BY DEF TInv, UserOK
<1>4. \A e \in Devices, q \in Paths : e # d \/ q # p => disk'[e][q] = disk[e][q]
  BY <1>3 DEF UserWrite, UserTouch, UserRemove
<1>5. /\ Safe \subseteq Safe' /\ raced \subseteq raced' /\ Yields(d, p)
      /\ Exposed(d) => OnlyRaced(d, p)
      /\ disk'[d][p] # None => p \in HomePaths \/ disk[d][p] # None
      /\ authored' \subseteq authored \cup (IF disk'[d][p] = None THEN {}
                                             ELSE {disk'[d][p].md5})
  <2>1. CASE UserWrite(d, p)
    <3>1. raced \subseteq raced' /\ Settle(disk[d][p])
      BY <2>1 DEF UserWrite
    <3>2. Safe \subseteq Safe' /\ Yields(d, p)
      BY <1>2, <3>1, SettledIsSafe DEF Yields
    <3>3. disk'[d][p] # None /\ disk'[d][p].md5 = NewContent
      <4> DEFINE file == [md5 |-> NewContent,
                          stat |-> IF disk[d][p] = None THEN 0 ELSE 1 - disk[d][p].stat]
      <4>1. disk'[d][p] = file
        BY <1>3, <2>1 DEF UserWrite
      <4>2. disk'[d][p].md5 = NewContent
        BY <4>1
      <4>3. file \in LocalFile
        <5>1. disk[d][p] # None => 1 - disk[d][p].stat \in {0, 1}
          BY <1>3 DEF LocalFile
        <5> QED
          BY <2>1, <5>1 DEF UserWrite, LocalFile
      <4> HIDE DEF file
      <4> QED
        BY <4>1, <4>2, <4>3, NoEntryAssumption
    <3>4. Exposed(d) => NewContent \in raced'
      BY <2>1 DEF UserWrite, Exposed
    <3>5. p \in HomePaths \/ disk[d][p] # None
      BY <2>1 DEF UserWrite
    <3>6. authored' = authored \cup {NewContent}
      BY <2>1 DEF UserWrite
    <3> QED
      BY <3>1, <3>2, <3>3, <3>4, <3>5, <3>6 DEF OnlyRaced
  <2>2. CASE UserTouch(d, p)
    <3>1. UNCHANGED <<authored, settled, raced>> /\ disk[d][p] # None
      BY <2>2 DEF UserTouch
    <3>2. disk'[d][p].md5 = disk[d][p].md5 /\ disk'[d][p] # None
      <4>1. disk[d][p] \in LocalFile
        BY <1>3, <3>1
      <4>2. disk'[d][p] = [disk[d][p] EXCEPT !.stat = 1 - @]
        BY <1>3, <2>2 DEF UserTouch
      <4>3. disk'[d][p] \in LocalFile /\ disk'[d][p].md5 = disk[d][p].md5
        BY <4>1, <4>2 DEF LocalFile
      <4> QED
        BY <4>3, NoEntryAssumption
    <3> QED
      BY <1>2, <3>1, <3>2 DEF Safe, InTrash, Yields, OnlyRaced
  <2>3. CASE UserRemove(d, p)
    <3>1. UNCHANGED <<authored, raced>> /\ Settle(disk[d][p]) /\ disk'[d][p] = None
      BY <1>3, <2>3 DEF UserRemove
    <3>2. Safe \subseteq Safe' /\ Yields(d, p)
      BY <1>2, <3>1, SettledIsSafe DEF Yields
    <3> QED
      BY <3>1, <3>2 DEF OnlyRaced
  <2> QED
    BY <2>1, <2>2, <2>3
<1>6. Grows /\ Unnamed' = Unnamed
  <2>1. \A f \in Files : drive[f].rev \in Nat
    BY FileTypes
  <2> QED
    BY <1>1, <1>4, <1>5, <2>1, GrowsByDisk
<1>7. ASSUME NEW e \in Devices, NEW q \in Paths
      PROVE  /\ Yields(e, q) /\ (Exposed(e) => OnlyRaced(e, q)) /\ StaysUnnamed(e, q)
             /\ q \in Unnamed' /\ Uses(e, q)' => Uses(e, q)
  <2>1. Yields(e, q) /\ (Exposed(e) => OnlyRaced(e, q)) /\ StaysUnnamed(e, q)
    BY <1>4, <1>5, <1>6 DEF Yields, OnlyRaced, StaysUnnamed
  <2>2. q \in Unnamed' => q \notin HomePaths
    BY DEF Unnamed, HomePaths
  <2> QED
    BY <1>2, <1>4, <1>5, <2>1, <2>2 DEF Uses
<1>8. authored' \subseteq authored \cup OnDisks' \cup Kept'
  <2>1. disk'[d][p] # None => disk'[d][p].md5 \in OnDisks'
    <3>1. <<d, p>> \in Devices \X Paths
      OBVIOUS
    <3> QED
      BY <3>1 DEF OnDisks
  <2> QED
    BY <1>5, <2>1
<1>9. \A f \in Files : Exists(f)' => Exists(f)
  BY <1>1 DEF Exists
<1> QED
  BY <1>1, <1>6, <1>7, <1>8, <1>9, UserKeeps

\* Users edit a file in the browser.
LEMMA WebWriteKeeps ==
  ASSUME TInv, TInv', JInv, LInv, NEW f \in Files, WebWrite(f)
  PROVE  LInv' /\ Grows
<1>1. UNCHANGED <<userFrame, disk, raced>> /\ NewContent \in Contents /\ Exists(f)
  BY DEF WebWrite, Live, Exists
<1>2. UNCHANGED <<pc, todo, trash>>
  BY <1>1 DEF userFrame, cycleVars
<1>3. drive \in [Files -> DriveFile] /\ \A g \in Files : drive[g].rev \in Nat
  BY FileTypes DEF TInv, DriveOK
<1>4. drive' = [drive EXCEPT ![f] = WithContent(f, NewContent)]
  BY DEF WebWrite, ChangeDrive
<1>5. Safe \subseteq Safe' /\ drive[f].md5 \in Safe'
  <2>1. Settle(drive[f]) /\ drive[f] # None
    BY <1>3, NoEntryAssumption DEF WebWrite
  <2> QED
    BY <1>1, <1>2, <2>1, SettledIsSafe
<1> HIDE DEF NewContent
<1>6. Grows /\ Unnamed' = Unnamed
  BY <1>1, <1>3, <1>4, <1>5, GrowsByWrite
<1>7. /\ drive'[f].md5 = NewContent /\ Exists(f)'
      /\ \A g \in Files : Exists(g)' => Exists(g)
  BY <1>1, <1>3, <1>4 DEF WithContent, Exists, DriveFile
<1>8. NewContent \in Kept'
  BY <1>7 DEF OnDrive, Kept
<1>9. \A e \in Devices, q \in Paths :
        /\ Yields(e, q) /\ (Exposed(e) => OnlyRaced(e, q)) /\ StaysUnnamed(e, q)
        /\ q \in Unnamed' /\ Uses(e, q)' => Uses(e, q)
  BY <1>1, <1>2, <1>6 DEF Yields, OnlyRaced, StaysUnnamed, Uses
<1>10. authored' = authored \cup {NewContent}
  BY DEF WebWrite
<1> QED
  BY <1>1, <1>6, <1>7, <1>8, <1>9, <1>10, UserKeeps

\* Users move files to the trash of Drive, and back.
LEMMA WebTrashKeeps ==
  ASSUME TInv, TInv', JInv, LInv, NEW f \in Files, WebTrash(f) \/ WebRestore(f)
  PROVE  LInv' /\ Grows
<1>1. UNCHANGED <<userFrame, disk, raced, authored>> /\ settled \subseteq settled' /\ Exists(f)
  BY DEF WebTrash, WebRestore, Settle, Live, Exists
<1>2. UNCHANGED <<pc, todo, trash>>
  BY <1>1 DEF userFrame, cycleVars
<1>3. PICK st \in {"trashed", "live"} : drive' = [drive EXCEPT ![f] = [drive[f] EXCEPT !.st = st]]
  BY DEF WebTrash, WebRestore, ChangeDrive
<1>4. Calm
  <2>1. drive \in [Files -> DriveFile]
    BY DEF TInv, DriveOK
  <2>2. ASSUME NEW g \in Files
        PROVE  /\ Exists(g)' <=> Exists(g)
               /\ drive'[g].name = drive[g].name
               /\ drive'[g].rev = drive[g].rev
               /\ drive'[g].md5 = drive[g].md5
    BY <1>1, <1>3, <2>1 DEF Exists, DriveFile
  <2> QED
    BY <1>1, <1>2, <2>2 DEF Calm, Safe, InTrash
<1>5. Grows /\ Unnamed' = Unnamed
  BY <1>4, CalmGrows
<1>6. \A e \in Devices, q \in Paths :
        /\ Yields(e, q) /\ (Exposed(e) => OnlyRaced(e, q)) /\ StaysUnnamed(e, q)
        /\ q \in Unnamed' /\ Uses(e, q)' => Uses(e, q)
  BY <1>1, <1>2, <1>5 DEF Yields, OnlyRaced, StaysUnnamed, Uses
<1>7. \A g \in Files : Exists(g)' => Exists(g)
  BY <1>4 DEF Calm
<1> QED
  BY <1>1, <1>5, <1>6, <1>7, UserKeeps

-----------------------------------------------------------------------------
(* The theorem.                                                            *)

\* Every start has the invariant.
LEMMA InitLInv ==
  ASSUME Init
  PROVE  LInv
<1>1. PICK p \in HomePaths, vv \in {EmptyVector} \cup {Increment(EmptyVector, d) : d \in Devices},
           start \in [Devices -> Starts] : StartsAt(p, vv, start)
  BY DEF Init, StartsAt
<1> DEFINE f == Min2(Files)
           synced == [id |-> f, fp |-> 1, md5 |-> 1, stat |-> 0, rev |-> 1, vv |-> vv]
           local(c) == [md5 |-> c, stat |-> 0]
<1>2. /\ drive = [g \in Files |-> IF g = f
                    THEN [st |-> "live", name |-> p, md5 |-> 1, rev |-> 1, vv |-> vv]
                    ELSE NoFile]
      /\ disk = [d \in Devices |-> [Nothing EXCEPT
                   ![p] = CASE start[d] = "empty" -> None
                            [] start[d] = "different" -> local(2)
                            [] OTHER -> local(1)]]
      /\ rec = [d \in Devices |-> [Nothing EXCEPT
                  ![p] = IF start[d] = "synced" THEN synced ELSE None]]
      /\ authored = IF \E d \in Devices : start[d] = "different" THEN {1, 2} ELSE {1}
  BY <1>1 DEF StartsAt
<1>3. /\ pc = [d \in Devices |-> "idle"] /\ mem = rec
      /\ todo = [d \in Devices |-> NoTasks]
  BY <1>1 DEF StartsAt
<1>4. f \in Files /\ 1 \in Contents /\ p \in Paths \ CopyPaths
  <2>1. f \in Files
    BY FilesAssumption, Min2InSet
  <2> QED
    BY <2>1, MaxContentAssumption DEF Contents, HomePaths
<1>5. drive[f].st = "live" /\ drive[f].md5 = 1 /\ drive[f].rev = 1
      /\ \A g \in Files \ {f} : ~Exists(g)
  BY <1>2, <1>4 DEF NoFile, Exists
<1>6. synced.id = f /\ synced.fp = 1 /\ synced.md5 = 1 /\ synced.rev = 1
      /\ local(1) # None /\ local(1).md5 = 1
  <2>1. local(1) \in LocalFile
    BY <1>4 DEF LocalFile
  <2> QED
    BY <2>1, NoEntryAssumption
<1> HIDE DEF synced, local, f
<1>7. ASSUME NEW d \in Devices, NEW q \in Paths
      PROVE  /\ pc[d] = "idle" /\ todo[d][q] = NoTask
             /\ mem[d][q] # None => mem[d][q] = synced /\ disk[d][q] = local(1)
             /\ q \in CopyPaths => disk[d][q] = None
  <2>1. pc[d] = "idle" /\ todo[d][q] = NoTask
    BY <1>3 DEF NoTasks
  <2>2. mem[d][q] # None => q = p /\ start[d] = "synced" /\ mem[d][q] = synced
    BY <1>2, <1>3, <1>4 DEF Nothing
  <2>3. start[d] = "synced" => disk[d][p] = local(1)
    BY <1>2, <1>4 DEF Nothing
  <2>4. q \in CopyPaths => disk[d][q] = None
    BY <1>2, <1>4 DEF Nothing
  <2> QED
    BY <2>1, <2>2, <2>3, <2>4
<1>8. Counted
  BY <1>5 DEF Counted
<1>9. OneOwner
  BY <1>7, PathsAssumption DEF OneOwner, Uses, Unnamed, NoTask
<1>10. Persisted
  BY <1>3 DEF Persisted
<1>11. 1 \in Kept
  BY <1>4, <1>5 DEF Kept, OnDrive, Exists
<1>12. ASSUME NEW d \in Devices, NEW q \in Paths
       PROVE  Good(d, q)
  <2>1. RecordGood(d, q)
    <3> SUFFICES ASSUME mem[d][q] # None
                 PROVE  RecordGood(d, q)
      BY DEF RecordGood
    <3>1. mem[d][q] = synced /\ disk[d][q] = local(1)
      BY <1>7
    <3> QED
      BY <1>4, <1>5, <1>6, <1>11, <3>1 DEF RecordGood, Truth, OnDisk
  <2>2. ScanGood(d, q) /\ ViewGood(d, q)
    BY <1>7 DEF ScanGood, ViewGood
  <2>3. TaskGood(d, q) /\ LinkGood(d, q)
    BY <1>7 DEF NoTask, TaskGood, DownloadGood, UploadGood, GuardGood, ShapeGood,
                LinkGood, Updating, Early, Landed
  <2> QED
    BY <2>1, <2>2, <2>3 DEF Good
<1>13. authored \subseteq OnDisks \cup Kept
  <2>1. ASSUME NEW d \in Devices, start[d] = "different"
        PROVE  2 \in OnDisks
    <3>1. disk[d][p] = local(2)
      BY <1>2, <1>4, <2>1 DEF Nothing
    <3>2. local(2) \in LocalFile /\ local(2).md5 = 2
      BY <2>1, MaxContentAssumption DEF LocalFile, Contents, local
    <3>3. disk[d][p] # None /\ disk[d][p].md5 = 2 /\ <<d, p>> \in Devices \X Paths
      BY <1>4, <3>1, <3>2, NoEntryAssumption
    <3> QED
      BY <3>3 DEF OnDisks
  <2> QED
    BY <1>2, <1>11, <2>1
<1> QED
  BY <1>8, <1>9, <1>10, <1>12, <1>13 DEF LInv

\* Faults are counted, one at a time.
LEMMA FaultsCounted ==
  ASSUME [Next]_vars
  PROVE  faults' = faults \/ (faults < MaxFaults /\ faults' = faults + 1)
<1> USE DEF boundVars
<1>1. ASSUME NEW d \in Devices, Prepare(d) \/ FinishCycle(d) \/ Hindrance(d)
      PROVE  faults' = faults \/ (faults < MaxFaults /\ faults' = faults + 1)
  BY <1>1 DEF Prepare, StartCycle, PersistPurge, ClearPurged, ScanLocal, FetchChanges, Relist,
     ListAll, GetStartPageToken, Decide, FinishCycle, Hindrance, Crash, DeferUpload, RequestFails,
     LoseAnswer
<1>2. ASSUME NEW d \in Devices, NEW p \in Paths, TaskStep(d, p)
      PROVE  faults' = faults
  <2>1. CASE Upload(d, p)
    <3>1. CASE CreateFile(d, p)
      BY <3>1 DEF CreateFile
    <3>2. CASE FindRemoteFileByContent(d, p) \/ CommitCreate(d, p)
      BY <3>2 DEF FindRemoteFileByContent, CommitCreate
    <3>3. CASE PatchMedia(d, p) \/ CommitUpdate(d, p)
      BY <3>3 DEF PatchMedia, CommitUpdate
    <3>4. CASE PlanUpload(d, p) \/ StartUpdate(d, p) \/ Preflight(d, p)
      BY <3>4 DEF PlanUpload, StartUpdate, Preflight
    <3> QED
      BY <2>1, <3>1, <3>2, <3>3, <3>4 DEF Upload
  <2>2. CASE Download(d, p) \/ Delete(d, p)
    BY <2>2 DEF Download, PlanDownload, StartDownload, WriteDownload, CommitDownload,
       Delete, ConfirmDelete, StartDelete, MoveToTrash, TrashRemote, CommitDelete
  <2> QED
    BY <1>2, <2>1, <2>2 DEF TaskStep, CleanupMetadata, TouchMetadata, BeginConflict,
       RevisionMismatch, MarkDone
<1>3. CASE User
  BY <1>3 DEF User, UserWrite, UserTouch, UserRemove, WebWrite, WebTrash, WebRestore, userFrame
<1>4. CASE UNCHANGED vars
  BY <1>4 DEF vars
<1> QED
  BY <1>1, <1>2, <1>3, <1>4 DEF Next, Work

\* Every step keeps the invariant when no device crashes, no request fails and
\* no answer is lost; the change token may expire.
LEMMA StepLInv ==
  ASSUME Resolution(Policy) = "keep_both", SafeDelete, CopyPaths \cap NumberedPaths = {},
         TInv, TInv', JInv, LInv, [Next]_vars,
         \A d \in Devices :
           ~Crash(d) /\ \A p \in Paths : ~RequestFails(d, p) /\ ~LoseAnswer(d, p)
  PROVE  LInv' /\ Grows
<1>1. ASSUME NEW d \in Devices, Prepare(d)
      PROVE  LInv' /\ Grows
  BY <1>1, StartCycleKeeps, PurgeKeeps, ScanLocalKeeps, FetchKeeps, DecideKeeps DEF Prepare
<1>2. ASSUME NEW d \in Devices, Hindrance(d)
      PROVE  LInv' /\ Grows
  BY <1>2, DeferKeeps DEF Hindrance
<1>3. CASE User
  BY <1>3, DiskUserKeeps, WebWriteKeeps, WebTrashKeeps DEF User
<1>4. CASE UNCHANGED vars
  <2> USE DEF vars, driveVars, diskVars, storeVars, cycleVars, userVars
  <2>1. UNCHANGED <<drive, disk, trash, settled, raced>>
    BY <1>4
  <2>2. Safe' = Safe /\ OnDrive' = OnDrive /\ OnDisks' = OnDisks /\ Unnamed' = Unnamed
    BY <2>1 DEF Safe, InTrash, OnDrive, OnDisks, Unnamed, Exists
  <2>3. Calm
    BY <2>1, <2>2 DEF Calm, Exists
  <2>4. /\ Grows /\ \A f \in Files : Exists(f)' => Exists(f)
        /\ \A e \in Devices, q \in Paths : StaysUnnamed(e, q)
    BY <2>3, CalmGrows DEF Calm
  <2>5. UNCHANGED userFrame
    BY <1>4 DEF userFrame, boundVars
  <2>6. \A e \in Devices, q \in Paths :
          /\ Yields(e, q) /\ (Exposed(e) => OnlyRaced(e, q)) /\ StaysUnnamed(e, q)
          /\ q \in Unnamed' /\ Uses(e, q)' => Uses(e, q)
    BY <1>4, <2>2, <2>4 DEF Yields, OnlyRaced, Uses
  <2> QED
    BY <1>4, <2>4, <2>5, <2>6, UserKeeps
<1> QED
  BY <1>1, <1>2, <1>3, <1>4, TaskKeeps, FinishKeeps DEF Next, Work

\* What the invariant says of every content.
LEMMA LInvTells ==
  ASSUME LInv
  PROVE  NoLossOutsideRaces
<1>1. Held \subseteq OnDisks
  <2> SUFFICES ASSUME NEW c \in Held
               PROVE  c \in OnDisks
    OBVIOUS
  <2>1. PICK d \in Devices, p \in Unnamed : disk[d][p] # None /\ disk[d][p].md5 = c
    BY DEF Held
  <2>2. <<d, p>> \in Devices \X Paths
    BY PathsAssumption DEF Unnamed
  <2> QED
    BY <2>1, <2>2 DEF OnDisks
<1> QED
  BY <1>1 DEF LInv, NoLossOutsideRaces, Kept, Safe

\* No edit is lost before the first fault: every content that anybody wrote
\* stays on some disk, in some .trash/ or on Drive, unless a user replaced it
\* or it met a window.  The guard of run_upload, the matrix and the copies of
\* conflicts together are why, however many devices, files and users there are.
THEOREM NothingLostBeforeFaults ==
  ASSUME Resolution(Policy) = "keep_both", SafeDelete, CopyPaths \cap NumberedPaths = {}
  PROVE  Spec => [](faults = 0 => NoLossOutsideRaces)
<1>1. Init => LInv
  BY InitLInv
<1>2. TInv /\ TInv' /\ JInv /\ (faults = 0 => LInv) /\ [Next]_vars => (faults = 0 => LInv)'
  <2> SUFFICES ASSUME TInv, TInv', JInv, faults = 0 => LInv, [Next]_vars, faults' = 0
               PROVE  LInv' /\ Grows
    OBVIOUS
  <2>1. faults \in Nat
    BY DEF TInv, UserOK
  <2>2. UNCHANGED faults /\ faults # faults + 1
    BY <2>1, FaultsCounted
  <2>3. \A d \in Devices :
          ~Crash(d) /\ \A p \in Paths : ~RequestFails(d, p) /\ ~LoseAnswer(d, p)
    BY <2>2 DEF Crash, RequestFails, LoseAnswer
  <2> QED
    BY <2>2, <2>3, StepLInv
<1>3. (faults = 0 => LInv) => (faults = 0 => NoLossOutsideRaces)
  BY LInvTells
<1> QED
  BY <1>1, <1>2, <1>3, TypeInvariance, Invariance, PTL DEF Spec

\* So none is lost at all when nothing fails.
THEOREM NothingLost ==
  ASSUME Resolution(Policy) = "keep_both", SafeDelete, CopyPaths \cap NumberedPaths = {},
         MaxFaults = 0
  PROVE  Spec => []NoLossOutsideRaces
<1>1. Init => faults = 0
  BY DEF Init
<1>2. faults = 0 /\ [Next]_vars => (faults = 0)'
  BY FaultsCounted
<1>3. Spec => [](faults = 0)
  BY <1>1, <1>2, PTL DEF Spec
<1> QED
  BY <1>3, NothingLostBeforeFaults, PTL

-----------------------------------------------------------------------------
(* Faults.  A crash brings back the records of redb, and a failed request  *)
(* leaves the record that a download was about to replace.  Both are safe  *)
(* when they speak of a content that is no longer on the disk only if that *)
(* is safe, or Drive has moved on.  One thing can spoil that: a path where *)
(* a download replaces what another file of Drive left there.  Its record  *)
(* is then current, and after the fault lets an upload overwrite the file. *)

\* No path is taken from one file of Drive by another.
PathsKeepFiles ==
  \A d \in Devices, p \in Paths :
    todo[d][p].act = "download" /\ todo[d][p].at = "ready" /\ mem[d][p] # None
    => todo[d][p].id = mem[d][p].id

\* What a record speaks of may go from the disk.
Left(m) == m # None => m.md5 \in Safe \/ ~Current(m)

\* A record in redb is one a crash may bring back.
StoredGood(d, p) ==
  LET m == rec[d][p]
  IN  m # None =>
        /\ Truth(m.id, m.rev, m.fp)
        /\ m.md5 \in Kept
        /\ Current(m) => m.fp = m.md5 \/ m.fp \in Safe
        /\ OnDisk(d, p, m.md5) \/ Left(m)

\* A download brings news to both records.
NewsGood(d, p) ==
  todo[d][p].act = "download" => Left(mem[d][p]) /\ Left(rec[d][p])

\* The invariant that faults keep.
CrashInv ==
  LInv /\ \A d \in Devices, p \in Paths : StoredGood(d, p) /\ NewsGood(d, p)

\* What may go may go for good.
LEMMA LeftStays ==
  ASSUME TInv, TInv', Grows, NEW m \in Record \cup {None}, Sound(m), Left(m),
         m # None => Truth(m.id, m.rev, m.fp)
  PROVE  m # None => m.md5 \in Safe' \/ m.rev # drive'[m.id].rev
<1> SUFFICES ASSUME m # None
             PROVE  m.md5 \in Safe' \/ m.rev # drive'[m.id].rev
  OBVIOUS
<1>1. m.id \in Files /\ Exists(m.id) /\ m.rev \in Nat
  BY DEF Record, Sound
<1>2. m.rev = drive'[m.id].rev => Current(m)
  BY <1>1, TruthStays
<1> QED
  BY <1>2 DEF Left, Grows

\* A record in redb stays good, unless something was downloaded.
LEMMA StoredStays ==
  ASSUME TInv, TInv', Grows, NEW d \in Devices, NEW p \in Paths, StoredGood(d, p),
         rec'[d][p] = rec[d][p], Yields(d, p) \/ Left(rec[d][p])
  PROVE  StoredGood(d, p)'
<1> DEFINE m == rec[d][p]
<1>1. m \in Record \cup {None} /\ Sound(m)
  BY DEF TInv, StoreOK
<1> SUFFICES ASSUME m # None
             PROVE  StoredGood(d, p)'
  BY DEF StoredGood
<1>2. m.id \in Files /\ Exists(m.id) /\ m.rev \in Nat /\ Truth(m.id, m.rev, m.fp)
  BY <1>1 DEF Record, Sound, StoredGood
<1>3. /\ m.md5 \in Kept /\ (Current(m) => m.fp = m.md5 \/ m.fp \in Safe)
      /\ OnDisk(d, p, m.md5) \/ Left(m)
  BY DEF StoredGood
<1>4. \/ disk'[d][p] # None /\ disk'[d][p].md5 = m.md5
      \/ m.md5 \in Safe' \/ Left(m)
  BY <1>3 DEF OnDisk, Yields
<1>5. rec'[d][p] = m
  OBVIOUS
<1> HIDE DEF m
<1>6. /\ m.fp \in Contents /\ m.rev <= drive'[m.id].rev
      /\ m.rev = drive'[m.id].rev => drive'[m.id].md5 = m.fp
      /\ m.rev = drive'[m.id].rev => Current(m)
  BY <1>2, TruthStays
<1>7. Left(m) => m.md5 \in Safe' \/ m.rev # drive'[m.id].rev
  BY <1>1, <1>2, LeftStays
<1>8. m.md5 \in Kept' /\ (m.rev = drive'[m.id].rev => m.fp = m.md5 \/ m.fp \in Safe')
  BY <1>3, <1>6 DEF Grows
<1> QED
  BY <1>4, <1>5, <1>6, <1>7, <1>8 DEF StoredGood, Truth, Current, OnDisk, Left

\* A record in memory that is good, and not about to be replaced, is good in
\* redb, and the other way round.
LEMMA StoredTells ==
  ASSUME NEW d \in Devices, NEW p \in Paths
  PROVE  /\ RecordGood(d, p)' /\ ~Landed(todo'[d][p]) /\ rec'[d][p] = mem'[d][p]
            => StoredGood(d, p)'
         /\ StoredGood(d, p)' /\ rec'[d][p] = mem'[d][p] => RecordGood(d, p)'
BY DEF StoredGood, RecordGood, Left, Truth, Current, OnDisk

-----------------------------------------------------------------------------
(* What steps do to disks, records and downloads.                          *)

\* Nothing but a download takes a content that is not safe from a disk.
LEMMA DisksYield ==
  ASSUME SafeDelete, TInv, TInv', [Next]_vars, NEW d \in Devices, NEW p \in Paths
  PROVE  Yields(d, p) \/ todo[d][p].act = "download"
<1> USE DEF diskVars
<1>1. ASSUME UNCHANGED disk
      PROVE  Yields(d, p)
  BY <1>1 DEF Yields
<1>2. ASSUME NEW e \in Devices, Prepare(e) \/ FinishCycle(e) \/ Hindrance(e)
      PROVE  UNCHANGED disk
  BY <1>2 DEF Prepare, StartCycle, PersistPurge, ClearPurged, ScanLocal, FetchChanges, Relist,
     ListAll, GetStartPageToken, Decide, FinishCycle, Hindrance, Crash, DeferUpload, RequestFails,
     LoseAnswer
<1>3. ASSUME NEW e \in Devices, NEW q \in Paths, TaskStep(e, q)
      PROVE  Yields(d, p) \/ todo[d][p].act = "download"
  <2>1. CASE Upload(e, q)
    <3>1. CASE CreateFile(e, q) \/ FindRemoteFileByContent(e, q) \/ CommitCreate(e, q)
      BY <1>1, <3>1 DEF CreateFile, FindRemoteFileByContent, CommitCreate
    <3>2. CASE PatchMedia(e, q) \/ CommitUpdate(e, q)
      BY <1>1, <3>2 DEF PatchMedia, CommitUpdate
    <3>3. CASE PlanUpload(e, q) \/ StartUpdate(e, q) \/ Preflight(e, q)
      BY <1>1, <3>3 DEF PlanUpload, StartUpdate, Preflight
    <3> QED
      BY <2>1, <3>1, <3>2, <3>3 DEF Upload
  <2>2. CASE WriteDownload(e, q)
    <3>1. todo[e][q].act = "download"
      BY <2>2 DEF WriteDownload, At
    <3>2. e # d \/ q # p => disk'[d][p] = disk[d][p]
      BY <2>2 DEF WriteDownload, TInv, UserOK
    <3> QED
      BY <3>1, <3>2 DEF Yields
  <2>3. CASE MoveToTrash(e, q)
    <3>1. e # d \/ q # p => disk'[d][p] = disk[d][p]
      BY <2>3 DEF MoveToTrash, TInv, UserOK
    <3>2. disk[e][q] # None => disk[e][q].md5 \in trash'[e]
      BY <2>3 DEF MoveToTrash, TInv, UserOK
    <3>3. disk[e][q] # None => disk[e][q].md5 \in Safe'
      BY <3>2 DEF Safe, InTrash
    <3> QED
      BY <3>1, <3>3 DEF Yields
  <2>4. CASE TaskStep(e, q) /\ ~Upload(e, q) /\ ~WriteDownload(e, q) /\ ~MoveToTrash(e, q)
    BY <1>1, <2>4 DEF TaskStep, Download, PlanDownload, StartDownload, CommitDownload,
       Delete, ConfirmDelete, StartDelete, TrashRemote, CommitDelete,
       CleanupMetadata, TouchMetadata, BeginConflict, RevisionMismatch, MarkDone
  <2> QED
    BY <1>3, <2>1, <2>2, <2>3, <2>4
<1>4. ASSUME NEW e \in Devices, NEW q \in Paths,
             UserWrite(e, q) \/ UserTouch(e, q) \/ UserRemove(e, q)
      PROVE  Yields(d, p)
  <2>1. e # d \/ q # p => disk'[d][p] = disk[d][p]
    BY <1>4 DEF UserWrite, UserTouch, UserRemove, TInv, UserOK
  <2>2. CASE UserTouch(e, q)
    <3>1. disk'[e][q] = [disk[e][q] EXCEPT !.stat = 1 - @] /\ disk[e][q] # None
      BY <2>2 DEF UserTouch, TInv, UserOK
    <3>2. disk[e][q] \in LocalFile
      BY <3>1, DiskTypes
    <3>3. disk'[e][q] \in LocalFile /\ disk'[e][q].md5 = disk[e][q].md5
      BY <3>1, <3>2 DEF LocalFile
    <3>4. disk'[e][q] # None
      BY <3>3, NoEntryAssumption
    <3> QED
      BY <2>1, <3>3, <3>4 DEF Yields
  <2>3. CASE UserWrite(e, q) \/ UserRemove(e, q)
    <3>1. Settle(disk[e][q]) /\ UNCHANGED trash /\ raced \subseteq raced'
      BY <2>3 DEF UserWrite, UserRemove, userFrame
    <3>2. disk[e][q] # None => disk[e][q].md5 \in Safe'
      BY <3>1, SettledIsSafe
    <3> QED
      BY <2>1, <3>2 DEF Yields
  <2> QED
    BY <1>4, <2>2, <2>3
<1>5. ASSUME NEW f \in Files, WebWrite(f) \/ WebTrash(f) \/ WebRestore(f)
      PROVE  UNCHANGED disk
  BY <1>5 DEF WebWrite, WebTrash, WebRestore
<1>6. CASE UNCHANGED vars
  BY <1>1, <1>6 DEF vars
<1> QED
  BY <1>1, <1>2, <1>3, <1>4, <1>5, <1>6 DEF Next, Work, User

\* redb changes only when all the records of a device go there.
LEMMA RecordsStored ==
  ASSUME TInv, TInv', [Next]_vars, NEW d \in Devices
  PROVE  \/ rec'[d] = rec[d]
         \/ pc'[d] \in {"purged", "idle"} /\ rec'[d] = mem'[d]
<1>1. ASSUME NEW e \in Devices, PersistPurge(e) \/ FinishCycle(e)
      PROVE  \/ rec'[d] = rec[d]
             \/ pc'[d] \in {"purged", "idle"} /\ rec'[d] = mem'[d]
  BY <1>1 DEF PersistPurge, FinishCycle, Persist, TInv, StoreOK, CycleOK
<1>2. ASSUME NEW e \in Devices, Prepare(e) \/ Hindrance(e), ~PersistPurge(e)
      PROVE  UNCHANGED rec
  BY <1>2 DEF Prepare, StartCycle, ClearPurged, ScanLocal, FetchChanges, Relist,
     ListAll, GetStartPageToken, Decide, Hindrance, Crash, DeferUpload, RequestFails,
     LoseAnswer, storeVars, taskFrame
<1>3. ASSUME NEW e \in Devices, NEW q \in Paths, TaskStep(e, q)
      PROVE  UNCHANGED rec
  <2>1. UNCHANGED taskFrame
    <3>1. CASE Upload(e, q)
      <4>1. CASE CreateFile(e, q) \/ FindRemoteFileByContent(e, q) \/ CommitCreate(e, q)
        BY <4>1 DEF CreateFile, FindRemoteFileByContent, CommitCreate
      <4>2. CASE PatchMedia(e, q) \/ CommitUpdate(e, q)
        BY <4>2 DEF PatchMedia, CommitUpdate
      <4>3. CASE PlanUpload(e, q) \/ StartUpdate(e, q) \/ Preflight(e, q)
        BY <4>3 DEF PlanUpload, StartUpdate, Preflight
      <4> QED
        BY <3>1, <4>1, <4>2, <4>3 DEF Upload
    <3>2. CASE ~Upload(e, q)
      BY <1>3, <3>2 DEF TaskStep, Download, PlanDownload, StartDownload, WriteDownload,
         CommitDownload, Delete, ConfirmDelete, StartDelete, MoveToTrash, TrashRemote,
         CommitDelete, CleanupMetadata, TouchMetadata, BeginConflict, RevisionMismatch, MarkDone
    <3> QED
      BY <3>1, <3>2
  <2> QED
    BY <2>1 DEF taskFrame
<1>4. CASE User
  BY <1>4 DEF User, UserWrite, UserTouch, UserRemove, WebWrite, WebTrash, WebRestore,
     userFrame, storeVars
<1>5. CASE UNCHANGED vars
  BY <1>5 DEF vars, storeVars
<1> QED
  BY <1>1, <1>2, <1>3, <1>4, <1>5 DEF Next, Work

\* What a task does is settled when it is made, and it ends when its record
\* changes; only the copies of conflicts are downloads that come later.
LEMMA ActsStay ==
  ASSUME TInv, NEW e \in Devices, NEW q \in Paths, TaskStep(e, q),
         ~BeginConflict(e, q), ~RevisionMismatch(e, q), NEW d \in Devices, NEW p \in Paths
  PROVE  \/ todo'[d][p].act = todo[d][p].act /\ mem'[d][p] = mem[d][p]
         \/ todo'[d][p].act = "none"
<1>1. todo \in [Devices -> [Paths -> Task]] /\ mem \in [Devices -> [Paths -> Record \cup {None}]]
  BY DEF TInv, TasksOK, StoreOK
<1>2. ASSUME \/ \E a : Goto(e, q, a)
             \/ End(e, q) \/ FailTask(e, q),
             UNCHANGED mem
      PROVE  \/ todo'[d][p].act = todo[d][p].act /\ mem'[d][p] = mem[d][p]
             \/ todo'[d][p].act = "none"
  <2>1. CASE \E a : Goto(e, q, a)
    <3>1. PICK a : Goto(e, q, a)
      BY <2>1
    <3> QED
      BY <1>1, <1>2, <3>1 DEF Goto, Task
  <2>2. CASE End(e, q)
    BY <1>1, <1>2, <2>2 DEF End, NoTask
  <2>3. CASE FailTask(e, q)
    BY <1>1, <1>2, <2>3 DEF FailTask, FailedTask, NoTask
  <2> QED
    BY <1>2, <2>1, <2>2, <2>3
<1>3. ASSUME NEW m, Upsert(e, q, m), End(e, q)
      PROVE  \/ todo'[d][p].act = todo[d][p].act /\ mem'[d][p] = mem[d][p]
             \/ todo'[d][p].act = "none"
  BY <1>1, <1>3 DEF End, Upsert, NoTask
<1>4. CASE Upload(e, q)
  <2>1. CASE PlanUpload(e, q)
    <3>1. UNCHANGED mem
      BY <2>1 DEF PlanUpload
    <3>2. CASE FailTask(e, q)
      BY <1>2, <3>1, <3>2
    <3>3. CASE ~FailTask(e, q)
      <4>1. todo' = [todo EXCEPT ![e][q].at = "planned", ![e][q].md5 = disk[e][q].md5]
        BY <2>1, <3>3 DEF PlanUpload
      <4>2. todo[e][q] \in Task
        BY <1>1
      <4>3. todo'[e][q].act = todo[e][q].act
        BY <1>1, <4>1, <4>2 DEF Task
      <4>4. e # d \/ q # p => todo'[d][p] = todo[d][p]
        BY <1>1, <4>1
      <4> QED
        BY <3>1, <4>3, <4>4
    <3> QED
      BY <3>2, <3>3
  <2>2. CASE StartUpdate(e, q)
    BY <1>2, <2>2 DEF StartUpdate
  <2>3. CASE Preflight(e, q)
    <3>1. /\ UNCHANGED mem
          /\ \/ todo' = [todo EXCEPT ![e][q].at = "checked",
                                     ![e][q].seen = drive[todo[e][q].id].rev]
             \/ todo' = [todo EXCEPT ![e][q].at = "mismatch",
                                     ![e][q].row = Row(todo[e][q].id)]
      BY <2>3 DEF Preflight
    <3>2. todo[e][q] \in Task
      BY <1>1
    <3>3. todo'[e][q].act = todo[e][q].act
      BY <1>1, <3>1, <3>2 DEF Task
    <3>4. e # d \/ q # p => todo'[d][p] = todo[d][p]
      BY <1>1, <3>1
    <3> QED
      BY <3>1, <3>3, <3>4
  <2>4. CASE PatchMedia(e, q)
    BY <1>2, <2>4 DEF PatchMedia
  <2>5. CASE CommitUpdate(e, q)
    BY <1>2, <1>3, <2>5 DEF CommitUpdate
  <2>6. CASE FindRemoteFileByContent(e, q)
    BY <1>1, <1>2, <2>6 DEF FindRemoteFileByContent, Task
  <2>7. CASE CreateFile(e, q)
    <3>1. UNCHANGED mem
      BY <2>7 DEF CreateFile
    <3>2. CASE FailTask(e, q)
      BY <1>2, <3>1, <3>2
    <3>3. CASE ~FailTask(e, q)
      <4>1. PICK f \in Files :
              todo' = [todo EXCEPT ![e][q].at = "effected", ![e][q].id = f]
        BY <2>7, <3>3 DEF CreateFile
      <4> QED
        BY <1>1, <3>1, <4>1 DEF Task
    <3> QED
      BY <3>2, <3>3
  <2>8. CASE CommitCreate(e, q)
    BY <1>2, <1>3, <2>8 DEF CommitCreate
  <2> QED
    BY <1>4, <2>1, <2>2, <2>3, <2>4, <2>5, <2>6, <2>7, <2>8 DEF Upload
<1>5. CASE Download(e, q)
  <2>1. CASE PlanDownload(e, q) \/ StartDownload(e, q)
    BY <1>2, <2>1 DEF PlanDownload, StartDownload
  <2>2. CASE WriteDownload(e, q)
    BY <1>1, <2>2 DEF WriteDownload, Task
  <2>3. CASE CommitDownload(e, q)
    BY <1>2, <1>3, <2>3 DEF CommitDownload
  <2> QED
    BY <1>5, <2>1, <2>2, <2>3 DEF Download
<1>6. CASE Delete(e, q)
  BY <1>2, <1>3, <1>6 DEF Delete, ConfirmDelete, StartDelete, MoveToTrash, TrashRemote,
     CommitDelete
<1>7. CASE CleanupMetadata(e, q) \/ TouchMetadata(e, q) \/ MarkDone(e, q)
  BY <1>2, <1>3, <1>7 DEF CleanupMetadata, TouchMetadata, MarkDone
<1> QED
  BY <1>4, <1>5, <1>6, <1>7 DEF TaskStep

\* A download goes on, or is decided, or is the copy of a conflict at a path
\* that nothing has.
LEMMA DownloadsCome ==
  ASSUME TInv, JInv, LInv, [Next]_vars, NEW d \in Devices, NEW p \in Paths,
         todo'[d][p].act = "download"
  PROVE  \/ todo[d][p].act = "download" /\ mem'[d][p] = mem[d][p]
         \/ Decide(d)
         \/ mem'[d][p] = None /\ disk'[d][p] = None
<1> DEFINE Goal == \/ todo[d][p].act = "download" /\ mem'[d][p] = mem[d][p]
                   \/ Decide(d)
                   \/ mem'[d][p] = None /\ disk'[d][p] = None
<1>1. /\ todo \in [Devices -> [Paths -> Task]]
      /\ mem \in [Devices -> [Paths -> Record \cup {None}]]
  BY DEF TInv, TasksOK, StoreOK
<1>2. CASE UNCHANGED <<todo, mem>>
  BY <1>2
<1>3. ASSUME NEW e \in Devices, StartCycle(e)
      PROVE  Goal
  <2>1. UNCHANGED todo /\ (e # d => mem'[d] = mem[d]) /\ pc[e] = "idle"
    BY <1>1, <1>3 DEF StartCycle
  <2>2. e # d
    BY <2>1, IdleTasks
  <2> QED
    BY <2>1, <2>2
<1>4. ASSUME NEW e \in Devices, Prepare(e), ~StartCycle(e), ~Decide(e)
      PROVE  Goal
  <2>1. UNCHANGED <<todo, mem>>
    BY <1>4 DEF Prepare, PersistPurge, ClearPurged, ScanLocal, FetchChanges, Relist,
       ListAll, GetStartPageToken
  <2> QED
    BY <2>1
<1>5. ASSUME NEW e \in Devices, Decide(e)
      PROVE  Goal
  <2>1. e # d => todo'[d] = todo[d] /\ mem'[d] = mem[d]
    BY <1>1, <1>5 DEF Decide
  <2> QED
    BY <1>5, <2>1
<1>6. ASSUME NEW e \in Devices, FinishCycle(e) \/ Crash(e)
      PROVE  Goal
  <2>1. e # d
    BY <1>1, <1>6 DEF FinishCycle, Crash, NoTasks, NoTask
  <2> QED
    BY <1>1, <1>6, <2>1 DEF FinishCycle, Crash
<1>7. ASSUME NEW e \in Devices, NEW q \in Paths,
             DeferUpload(e, q) \/ RequestFails(e, q) \/ LoseAnswer(e, q)
      PROVE  Goal
  <2>1. UNCHANGED mem /\ (End(e, q) \/ FailTask(e, q))
    BY <1>7 DEF DeferUpload, RequestFails, LoseAnswer
  <2>2. todo'[d][p] = todo[d][p] \/ todo'[d][p] \in {NoTask, FailedTask}
    BY <1>1, <2>1 DEF End, FailTask
  <2> QED
    BY <2>1, <2>2 DEF FailedTask, NoTask
<1>8. ASSUME NEW e \in Devices, NEW q \in Paths, BeginConflict(e, q) \/ RevisionMismatch(e, q)
      PROVE  Goal
  <2> DEFINE copy == [NoTask EXCEPT !.act = "download", !.at = "ready",
                                    !.id = todo[e][q].id, !.row = todo[e][q].row]
             upload(b) == [NoTask EXCEPT !.act = "update", !.at = "ready",
                             !.id = todo[e][q].id, !.row = todo[e][q].row, !.after = b]
  <2>1. PICK c \in CopyPaths :
          /\ \A g \in Devices : disk[g][c] = None /\ mem[g][c] = None
          /\ todo' = [todo EXCEPT ![e][c] = copy, ![e][q] = upload(c)]
    BY <1>8, Zenon DEF BeginConflict, RevisionMismatch, KeepBoth
  <2>2. UNCHANGED <<mem, disk>>
    BY <1>8 DEF BeginConflict, RevisionMismatch, diskVars
  <2>3. c \in Paths /\ upload(c).act = "update"
    BY PathsAssumption DEF NoTask
  <2> HIDE DEF copy, upload
  <2>4. \/ e = d /\ p = c
        \/ todo'[d][p] = todo[d][p]
        \/ todo'[d][p] = upload(c)
    BY <1>1, <2>1, <2>3
  <2> QED
    BY <2>1, <2>2, <2>3, <2>4
<1>9. ASSUME NEW e \in Devices, NEW q \in Paths, TaskStep(e, q)
      PROVE  Goal
  BY <1>8, <1>9, ActsStay
<1>10. CASE User \/ UNCHANGED vars
  <2>1. UNCHANGED <<todo, mem>>
    BY <1>10 DEF User, UserWrite, UserTouch, UserRemove, WebWrite, WebTrash, WebRestore,
       userFrame, cycleVars, vars
  <2> QED
    BY <2>1
<1> QED
  BY <1>3, <1>4, <1>5, <1>6, <1>7, <1>9, <1>10 DEF Next, Work, Hindrance

\* Decided downloads bring news, where a path keeps its file.
LEMMA DecidedNews ==
  ASSUME Resolution(Policy) = "keep_both", TInv, TInv', LInv, PathsKeepFiles',
         NEW d \in Devices, Decide(d), NEW p \in Paths, todo'[d][p].act = "download"
  PROVE  /\ mem'[d][p] = mem[d][p] /\ rec[d][p] = mem[d][p]
         /\ Left(mem[d][p])
<1> DEFINE ids == {view[d][q].id : q \in {k \in Paths : view[d][k] # None}}
           l == scan[d][p]
           r == view[d][p]
           m == mem[d][p]
           a == DetermineAction(l, r, m, None, ids)
           t == todo'[d][p]
<1>1. /\ l \in LocalFile \cup {None} /\ r \in Rows \cup {None}
      /\ m \in Record \cup {None} /\ Sound(m)
  BY DEF TInv, CycleOK, StoreOK, Rows, Sound
<1>2. pc[d] = "viewed" /\ t = TaskFor(a, r) /\ UNCHANGED mem
  BY DEF Decide, TInv, CycleOK, TasksOK
<1>3. rec[d] = mem[d]
  BY <1>2 DEF LInv, Persisted
<1>4. ViewGood(d, p) /\ RecordGood(d, p)
  BY DEF LInv, Good
<1>5. m # None => m.id # None /\ m.fp \in Contents
  BY <1>1, <1>4, NoneAssumption DEF Record, RecordGood, Truth
<1>6. /\ a.act \in {"skip", "upload", "conflict", "download", "delete_local",
                    "delete_remote", "cleanup", "touch"}
      /\ a.act \in {"conflict", "download"} => r # None /\ a.id = r.id
  <2>1. \A i : i = ids => DetermineAction(l, r, m, None, i) = a
    OBVIOUS
  <2> HIDE DEF l, r, m, ids
  <2> QED
    BY <1>1, <2>1, DecisionType
<1>7. a.act = "download" => r # None /\ (m # None => RemoteChanged(r, m))
  BY <1>5, DecisionReasons
<1> HIDE DEF a
<1>8. t.at = "ready" /\ t.id = a.id /\ a.act = "download"
  BY <1>2, <1>6, TaskForReasons DEF NoTask
<1>9. m # None => r.id = m.id
  BY <1>2, <1>6, <1>8 DEF PathsKeepFiles
<1>10. m # None => r.md5 = m.fp \/ ~Current(m)
  BY <1>2, <1>4, <1>7, <1>8, <1>9 DEF ViewGood, NoNews
<1>11. m # None => ~Current(m)
  BY <1>5, <1>7, <1>8, <1>10 DEF RemoteChanged, Fingerprint, NoMd5, Contents
<1> QED
  BY <1>2, <1>3, <1>11 DEF Left

-----------------------------------------------------------------------------
(* The faults.                                                             *)

\* A crash brings back the records of redb, and ends every task.
LEMMA CrashKeeps ==
  ASSUME TInv, TInv', JInv, CrashInv, NEW d \in Devices, Crash(d)
  PROVE  LInv' /\ Grows
<1>1. LInv /\ Calm /\ UNCHANGED <<disk, authored, rec>>
  <2>1. UNCHANGED <<drive, diskVars, userVars, rec>>
    BY DEF Crash, storeVars
  <2> QED
    BY <2>1, DriveCalm DEF diskVars, userVars, CrashInv
<1>2. /\ Grows /\ Unnamed' = Unnamed
      /\ \A f \in Files : Exists(f)' => Exists(f) \/ drive'[f].rev = 1
      /\ \A e \in Devices, q \in Paths : StaysUnnamed(e, q)
  BY <1>1, CalmGrows
<1>3. /\ pc'[d] = "idle" /\ mem'[d] = rec[d] /\ todo'[d] = NoTasks
      /\ \A e \in Devices \ {d} : /\ pc'[e] = pc[e] /\ mem'[e] = mem[e] /\ todo'[e] = todo[e]
                                  /\ scan'[e] = scan[e] /\ view'[e] = view[e]
  BY DEF Crash, TInv, CycleOK, StoreOK, TasksOK
<1>4. OthersStay(d)
  BY <1>1, <1>3 DEF OthersStay
<1>5. ASSUME NEW q \in Paths
      PROVE  Good(d, q)' /\ todo'[d][q] = NoTask
  <2>1. todo'[d][q] = NoTask
    BY <1>3 DEF NoTasks
  <2>2. StoredGood(d, q) /\ Yields(d, q) /\ rec'[d][q] = rec[d][q] /\ rec'[d][q] = mem'[d][q]
    BY <1>1, <1>3 DEF CrashInv, Yields
  <2>3. RecordGood(d, q)'
    BY <1>2, <2>2, StoredStays, StoredTells
  <2>4. ScanGood(d, q)' /\ ViewGood(d, q)'
    BY <1>3 DEF ScanGood, ViewGood
  <2>5. TaskGood(d, q)' /\ LinkGood(d, q)'
    BY <2>1, NothingToDo
  <2> QED
    BY <2>1, <2>3, <2>4, <2>5 DEF Good
<1>6. TakesOwn(d)
  BY <1>1, <1>2, <1>5, PathsAssumption DEF TakesOwn, Uses, Unnamed, NoTask
<1>7. \A q \in Paths : disk[d][q] # None =>
        \/ disk'[d][q] # None /\ disk'[d][q].md5 = disk[d][q].md5
        \/ disk[d][q].md5 \in Kept'
  BY <1>1
<1> QED
  BY <1>1, <1>2, <1>3, <1>4, <1>5, <1>6, <1>7, StepOfDevice

\* A request that fails ends its task, and the upload that waits for it.  The
\* record that stays is overtaken if the task was a download.
LEMMA RequestFailsKeeps ==
  ASSUME TInv, TInv', JInv, CrashInv, NEW d \in Devices, NEW p \in Paths, RequestFails(d, p)
  PROVE  LInv' /\ Grows
<1> DEFINE t == todo[d][p]
           m == mem[d][p]
<1>1. pc[d] = "running" /\ LInv
  BY DEF RequestFails, At, CrashInv
<1>2. Calm /\ UNCHANGED deviceFrame /\ UNCHANGED mem
  BY InnerCalm DEF RequestFails, taskFrame, deviceFrame
<1>3. Grows /\ Unnamed' = Unnamed /\ UNCHANGED disk
      /\ \A e \in Devices, q \in Paths : StaysUnnamed(e, q)
  BY <1>2, CalmGrows DEF Calm
<1>4. /\ Skips(d, p) /\ \A e \in Devices \ {d} : todo'[e] = todo[e]
      /\ todo'[d][p] = FailedTask
  BY TaskMoves DEF RequestFails
<1>5. \A q \in Paths : todo[d][q].after = p => todo'[d][q] = FailedTask
  BY DEF RequestFails, FailTask, TInv, TasksOK
<1>6. RecordGood(d, p) /\ Yields(d, p)
  BY <1>1, <1>3 DEF LInv, Good, Yields
<1>7. RecordGood(d, p)'
  <2>1. CASE ~Landed(t)
    BY <1>2, <1>3, <1>6, <2>1, RecordStays
  <2>2. CASE Landed(t) /\ m # None
    <3>1. Left(m)
      BY <2>2 DEF CrashInv, NewsGood, Landed
    <3>2. m \in Record /\ Sound(m) /\ m.id \in Files
      BY <2>2, RecordTypes DEF TInv, StoreOK
    <3>3. /\ m.fp \in Contents /\ m.rev <= drive[m.id].rev
          /\ m.rev = drive[m.id].rev => drive[m.id].md5 = m.fp
          /\ m.md5 \in Kept
          /\ m.rev = drive[m.id].rev => m.fp = m.md5 \/ m.fp \in Safe
      BY <1>6, <2>2 DEF RecordGood, Truth, Current
    <3>4. mem'[d][p] = m
      BY <1>2
    <3> HIDE DEF m
    <3>5. m.rev # drive[m.id].rev \/ m.md5 \in Safe
      BY <2>2, <3>1 DEF Left, Current
    <3>6. drive'[m.id].rev = drive[m.id].rev /\ drive'[m.id].md5 = drive[m.id].md5
      BY <1>2, <3>2 DEF Calm
    <3> QED
      BY <1>3, <3>3, <3>4, <3>5, <3>6 DEF RecordGood, Truth, Current, Grows
  <2>3. CASE m = None
    BY <1>2, <2>3 DEF RecordGood
  <2> QED
    BY <2>1, <2>2, <2>3
<1>8. TaskGood(d, p)' /\ LinkGood(d, p)'
  BY <1>4, NothingToDo
<1>9. \A q \in Paths \ {p} : todo[d][q].after = p /\ todo'[d][q] = todo[d][q]
                             => LinkGood(d, q)'
  BY <1>5, NothingToDo
<1>10. /\ \A e \in Devices \ {d} : mem'[e] = mem[e] /\ todo'[e] = todo[e] /\ disk'[e] = disk[e]
       /\ \A q \in Paths \ {p} : mem'[d][q] = mem[d][q] /\ disk'[d][q] = disk[d][q]
       /\ disk[d][p] # None => disk'[d][p] # None /\ disk'[d][p].md5 = disk[d][p].md5
       /\ \A f \in Files : Exists(f)' => Exists(f)
  BY <1>2, <1>3, <1>4 DEF Calm
<1>11. ~Uses(d, p)' \/ Uses(d, p)
  BY <1>3, <1>4 DEF Uses, FailedTask, NoTask
<1> QED
  BY <1>1, <1>2, <1>3, <1>4, <1>7, <1>8, <1>9, <1>10, <1>11, StepOfTask

-----------------------------------------------------------------------------
(* The theorem about faults.                                               *)

\* Every start has the invariant: the records in memory are those of redb.
LEMMA InitCrashInv ==
  ASSUME Init
  PROVE  CrashInv
<1>1. LInv
  BY InitLInv
<1>2. \A d \in Devices, p \in Paths : rec[d][p] = mem[d][p] /\ todo[d][p] = NoTask
  BY DEF Init, NoTasks
<1> SUFFICES ASSUME NEW d \in Devices, NEW p \in Paths
             PROVE  StoredGood(d, p) /\ NewsGood(d, p)
  BY <1>1 DEF CrashInv
<1>3. RecordGood(d, p) /\ rec[d][p] = mem[d][p] /\ todo[d][p].act = "none"
  BY <1>1, <1>2 DEF LInv, Good, NoTask
<1>4. StoredGood(d, p)
  BY <1>3 DEF StoredGood, RecordGood, Left, Landed
<1> QED
  BY <1>3, <1>4 DEF NewsGood

\* The records of redb stay good.
LEMMA StoredKeeps ==
  ASSUME SafeDelete, TInv, TInv', JInv', CrashInv, [Next]_vars, LInv', Grows,
         NEW d \in Devices, NEW p \in Paths
  PROVE  StoredGood(d, p)'
<1>1. CASE rec'[d] = rec[d]
  <2>1. StoredGood(d, p) /\ NewsGood(d, p)
    BY DEF CrashInv
  <2>2. Yields(d, p) \/ Left(rec[d][p])
    BY <2>1, DisksYield DEF NewsGood
  <2> QED
    BY <1>1, <2>1, <2>2, StoredStays
<1>2. CASE pc'[d] \in {"purged", "idle"} /\ rec'[d] = mem'[d]
  <2>1. todo'[d][p].at = "ended"
    BY <1>2 DEF JInv
  <2>2. RecordGood(d, p)' /\ ~Landed(todo'[d][p])
    BY <2>1 DEF LInv, Good, Landed
  <2> QED
    BY <1>2, <2>2, StoredTells
<1> QED
  BY <1>1, <1>2, RecordsStored

\* Downloads go on to bring news.
LEMMA NewsKeeps ==
  ASSUME Resolution(Policy) = "keep_both", TInv, TInv', JInv, JInv', CrashInv, [Next]_vars,
         LInv', Grows, PathsKeepFiles', NEW d \in Devices, NEW p \in Paths, StoredGood(d, p)'
  PROVE  NewsGood(d, p)'
<1> SUFFICES ASSUME todo'[d][p].act = "download"
             PROVE  NewsGood(d, p)'
  BY DEF NewsGood
<1>1. rec'[d] = rec[d]
  <2>1. todo'[d][p].at # "ended"
    BY DEF LInv, Good, TaskGood, ShapeGood
  <2>2. pc'[d] = "running"
    BY <2>1 DEF JInv
  <2> QED
    BY <2>2, RecordsStored
<1>2. ASSUME NEW m \in {mem[d][p], rec[d][p]}, Left(m)
      PROVE  m # None => m.md5 \in Safe' \/ m.rev # drive'[m.id].rev
  <2>1. m \in Record \cup {None} /\ Sound(m)
    BY DEF TInv, StoreOK
  <2>2. m # None => Truth(m.id, m.rev, m.fp)
    BY DEF CrashInv, LInv, Good, RecordGood, StoredGood
  <2> QED
    BY <1>2, <2>1, <2>2, LeftStays
<1>3. CASE Left(mem[d][p]) /\ Left(rec[d][p]) /\ mem'[d][p] = mem[d][p]
  BY <1>1, <1>2, <1>3 DEF NewsGood, Left, Current
<1>4. CASE todo[d][p].act = "download" /\ mem'[d][p] = mem[d][p]
  BY <1>3, <1>4 DEF CrashInv, NewsGood
<1>5. CASE Decide(d)
  BY <1>3, <1>5, DecidedNews DEF CrashInv
<1>6. CASE mem'[d][p] = None /\ disk'[d][p] = None
  BY <1>6 DEF NewsGood, StoredGood, Left, OnDisk
<1> QED
  BY <1>4, <1>5, <1>6, DownloadsCome DEF CrashInv

\* Every step keeps the invariant, faults too, where paths keep their files.
LEMMA StepCrashInv ==
  ASSUME Resolution(Policy) = "keep_both", SafeDelete, CopyPaths \cap NumberedPaths = {},
         TInv, TInv', JInv, JInv', CrashInv, [Next]_vars, PathsKeepFiles'
  PROVE  CrashInv'
<1>1. LInv' /\ Grows
  BY CrashKeeps, RequestFailsKeeps, LoseAnswerKeeps, StepLInv DEF CrashInv
<1>2. \A d \in Devices, p \in Paths : StoredGood(d, p)'
  BY <1>1, StoredKeeps
<1>3. \A d \in Devices, p \in Paths : NewsGood(d, p)'
  BY <1>1, <1>2, NewsKeeps
<1> QED
  BY <1>1, <1>2, <1>3 DEF CrashInv

\* No edit is lost to crashes, failed requests and expired tokens, however many
\* there are, as long as no path is taken from one file of Drive by another:
\* redb and .trash/, the journal and the records that stay when a download
\* fails are enough to go on from.  Without that hypothesis one failed request
\* is enough to lose an edit (README.md).
THEOREM NothingLostByFaults ==
  ASSUME Resolution(Policy) = "keep_both", SafeDelete, CopyPaths \cap NumberedPaths = {}
  PROVE  Spec /\ []PathsKeepFiles => []NoLossOutsideRaces
<1>1. Init => CrashInv
  BY InitCrashInv
<1>2. TInv /\ TInv' /\ JInv /\ JInv' /\ CrashInv /\ [Next]_vars /\ PathsKeepFiles' => CrashInv'
  BY StepCrashInv
<1>3. CrashInv => NoLossOutsideRaces
  BY LInvTells DEF CrashInv
<1> QED
  BY <1>1, <1>2, <1>3, TypeInvariance, Invariance, PTL DEF Spec

=============================================================================
