----------------------------- MODULE SyncCycle ------------------------------
(***************************************************************************)
(* The sync cycle of src/sync/engine.rs and src/sync/executor.rs, run by   *)
(* every device that shares one Drive folder, with the durable store of    *)
(* each device (src/store), the Drive folder and its change feed, and the  *)
(* users who edit files on disk and on the web.                            *)
(*                                                                         *)
(* A cycle loads the records from redb, recovers the operations a crash    *)
(* interrupted, scans the disk, fetches the remote view, decides one       *)
(* action per path, executes the actions as concurrent tasks and persists  *)
(* the records together with the change token.  A crash may fall between   *)
(* any two steps: only rec, jrn, tomb, cursor and the disk survive it.     *)
(*                                                                         *)
(* Abstractions.                                                           *)
(*  - Binary files in one flat folder: no Workspace files, no subfolders.  *)
(*  - A content is a number; an MD5 identifies it.                         *)
(*  - The modification time and size of a local file are one bit, flipped  *)
(*    by whatever writes the file.                                         *)
(*  - The change token is the set of files that changed after it.          *)
(*  - Requests are atomic; a request that fails, or whose answer is lost   *)
(*    after every retry, is a task that fails before or after its effect.  *)
(*  - A step that only touches memory is part of the step before it.       *)
(*  - Paths have an extension: "a (2).txt" sorts before "a.txt".           *)
(***************************************************************************)
EXTENDS Decision, Sequences

CONSTANTS
  Files,        \* Drive file ids, ordered as naturals
  Paths,        \* relative paths, also the names Drive files carry
  CopyPaths,    \* the paths conflict copies get
  Numbered,     \* Numbered[p]: the paths p with a suffix "(2)", "(3)", ...
  MaxContent,   \* contents are 1..MaxContent
  Policy,       \* conflict_policy of the configuration
  SafeDelete,   \* safe_delete of the configuration
  Starts,       \* how a device may stand before its first cycle
  Racing,       \* may users act while a cycle runs?
  Removers,     \* where users remove files: "disk", "web"
  MaxRemovals,  \* files removed or restored by users
  MaxTouches,   \* files whose modification time alone changes
  MaxFaults,    \* crashes, failed requests, expired tokens
  MaxDefers     \* uploads put off: open lock file, lease, file still changing

Contents == 1..MaxContent

NumberedPaths == UNION {{Numbered[p][i] : i \in DOMAIN Numbered[p]} : p \in Paths}

\* Where users create files.
HomePaths == Paths \ (CopyPaths \cup NumberedPaths)

ASSUME FilesAssumption == Files \subseteq Nat /\ IsFiniteSet(Files) /\ Files # {}
ASSUME PathsAssumption == CopyPaths \subseteq Paths /\ HomePaths # {}
ASSUME NumberedAssumption == Numbered \in [Paths -> Seq(Paths)]
ASSUME NoneAssumption ==
  /\ None \notin Paths
  /\ None \notin Files
ASSUME MaxContentAssumption ==
  MaxContent \in Nat \ {0} /\ ("different" \in Starts => MaxContent >= 2)
ASSUME PolicyAssumption ==
  Policy \in {"conflict_copy", "rename", "local_wins", "remote_wins"}
ASSUME SwitchesAssumption == SafeDelete \in BOOLEAN /\ Racing \in BOOLEAN
ASSUME StartsAssumption == Starts \subseteq {"synced", "empty", "same", "different"}
ASSUME RemoversAssumption == Removers \subseteq {"disk", "web"}
ASSUME BoundsAssumption ==
  /\ MaxRemovals \in Nat
  /\ MaxTouches \in Nat
  /\ MaxFaults \in Nat
  /\ MaxDefers \in Nat

VARIABLES
  (*************************** Drive and its feed **************************)
  drive,     \* drive[f]: the file with id f
  before,    \* <<f, g>>: the last change of f precedes the last change of g
  unseen,    \* unseen[d]: files changed after the change token d has stored
  fresh,     \* fresh[d]: files changed after the token this cycle will store
  (*************************** durable, per device *************************)
  disk,      \* disk[d][p]: the local file
  trash,     \* trash[d]: contents in .trash/
  rec,       \* rec[d][p]: the sync record in redb
  jrn,       \* jrn[d][p]: the pending operation in redb
  tomb,      \* tomb[d][p]: confirmations of the tombstone, NoTomb if none
  cursor,    \* cursor[d]: is a change token stored?
  (*************************** in memory, per device ***********************)
  pc,        \* pc[d]: the phase of the cycle
  mem,       \* mem[d][p]: the record in the in-memory store
  scan,      \* scan[d][p]: the local file as scanned
  view,      \* view[d][p]: the Drive file in the remote view
  todo,      \* todo[d][p]: the task of the path
  errs,      \* errs[d]: has the report an error?
  (*************************** users and bounds ****************************)
  authored,  \* contents written so far
  settled,   \* contents a user replaced or removed
  restored,  \* those of them that a user brought back since
  raced,     \* contents that met one of the windows named below
  removals, touches, faults, defers

driveVars == <<drive, before, unseen, fresh>>
diskVars == <<disk, trash>>
storeVars == <<rec, jrn, tomb, cursor>>
cycleVars == <<pc, mem, scan, view, todo, errs>>
userVars == <<authored, settled, restored, raced, removals, touches>>
boundVars == <<faults, defers>>
vars == <<driveVars, diskVars, storeVars, cycleVars, userVars, boundVars>>

-----------------------------------------------------------------------------
(* Types.                                                                  *)

NoTomb == -1

DriveFile == [st : {"none", "live", "trashed"}, name : Paths \cup {None},
              md5 : Contents \cup {NoMd5}, rev : Nat, vv : Vector]
LocalFile == [md5 : Contents, stat : {0, 1}]
Snapshot == [id : Files, md5 : Contents \cup {NoMd5}, rev : Nat, vv : Vector]
Record == [id : Files, fp : Contents \cup {NoMd5}, md5 : Contents,
           stat : {0, 1}, rev : Nat, vv : Vector]
Kinds == {"Upload", "Download", "DeleteLocal", "DeleteRemote"}
Stages == {"Planned", "SideEffectStarted", "SideEffectDone",
           "MetadataCommitted"}
PendingOp == [kind : Kinds, stage : Stages]
Phases == {"idle", "recovering", "purged", "recovered", "scanned", "relist",
           "listed", "viewed", "running"}
Acts == {"none", "cleanup", "touch", "conflict", "update", "create",
         "download", "delete_local", "delete_remote"}
Steps == {"ready", "planned", "started", "checked", "mismatch", "linked",
          "effected", "done", "ended", "failed"}
Task == [act : Acts, at : Steps, id : Files \cup {None},
         md5 : Contents \cup {NoMd5}, row : Snapshot \cup {None},
         guarded : BOOLEAN, after : Paths \cup {None}, seen : Nat]

ASSUME NoEntryAssumption ==
  None \notin DriveFile \cup LocalFile \cup Snapshot \cup Record \cup PendingOp

NoTask == [act |-> "none", at |-> "ended", id |-> None, md5 |-> NoMd5,
           row |-> None, guarded |-> FALSE, after |-> None, seen |-> 0]
FailedTask == [NoTask EXCEPT !.at = "failed"]

Nothing == [p \in Paths |-> None]
NoTasks == [p \in Paths |-> NoTask]

TypeOK ==
  /\ drive \in [Files -> DriveFile]
  /\ before \in SUBSET (Files \X Files)
  /\ unseen \in [Devices -> SUBSET Files]
  /\ fresh \in [Devices -> SUBSET Files]
  /\ disk \in [Devices -> [Paths -> LocalFile \cup {None}]]
  /\ trash \in [Devices -> SUBSET Contents]
  /\ rec \in [Devices -> [Paths -> Record \cup {None}]]
  /\ jrn \in [Devices -> [Paths -> PendingOp \cup {None}]]
  /\ tomb \in [Devices -> [Paths -> {NoTomb, 0, 1}]]
  /\ cursor \in [Devices -> BOOLEAN]
  /\ pc \in [Devices -> Phases]
  /\ mem \in [Devices -> [Paths -> Record \cup {None}]]
  /\ scan \in [Devices -> [Paths -> LocalFile \cup {None}]]
  /\ view \in [Devices -> [Paths -> Snapshot \cup {None}]]
  /\ todo \in [Devices -> [Paths -> Task]]
  /\ errs \in [Devices -> BOOLEAN]
  /\ authored \in SUBSET Contents
  /\ settled \in SUBSET Contents /\ restored \in SUBSET Contents
  /\ raced \in SUBSET Contents
  /\ removals \in Nat /\ touches \in Nat /\ faults \in Nat /\ defers \in Nat

-----------------------------------------------------------------------------
(* Drive.                                                                  *)

Live(f) == drive[f].st = "live"
Exists(f) == drive[f].st # "none"

\* What a listing, a change or a metadata request says of f.
Row(f) == [id |-> f, md5 |-> drive[f].md5, rev |-> drive[f].rev,
           vv |-> drive[f].vv]

\* Wrong: the token is only fetched when the tasks are over.
TrackingLate(d) == FALSE

\* Is a token that this cycle will store already fetched?
Tracking(d) == pc[d] \in {"relist", "viewed", "running"}

\* f becomes file; the change goes to the end of every device's feed.
ChangeDrive(f, file) ==
  /\ drive' = [drive EXCEPT ![f] = file]
  /\ before' = {e \in before : e[1] # f /\ e[2] # f}
                 \cup {<<g, f>> : g \in {h \in Files : h # f /\ Exists(h)}}
  /\ unseen' = [d \in Devices |-> unseen[d] \cup {f}]
  /\ fresh' = [d \in Devices |->
                 IF Tracking(d) THEN fresh[d] \cup {f} ELSE fresh[d]]

WithContent(f, c) == [drive[f] EXCEPT !.md5 = c, !.rev = @ + 1]

-----------------------------------------------------------------------------
(* The remote view.                                                        *)

Min2(S) == CHOOSE x \in S : \A y \in S : x <= y

\* The path given to file f named q in view v: q unless another file has it,
\* then the first free numbered one.
PlaceWithoutClobber(v, q, f) ==
  LET free == {i \in DOMAIN Numbered[q] : v[Numbered[q][i]] = None}
  IN  IF v[q] = None \/ v[q].id = f THEN q
      ELSE IF free = {} THEN None
      ELSE Numbered[q][Min2(free)]

Put(v, q, f) ==
  LET place == PlaceWithoutClobber(v, q, f)
  IN  IF place = None THEN v ELSE [v EXCEPT ![place] = Row(f)]

ListedBefore(f, g) ==
  LET numbered(h) == drive[h].name \in NumberedPaths
  IN  IF numbered(f) = numbered(g) THEN f < g ELSE numbered(f)

\* A full listing: live files in name order, each at the first path free.
ListAllFiles ==
  LET live == {f \in Files : Live(f)}
      placed[S \in SUBSET live] ==
        IF S = {} THEN Nothing
        ELSE LET last == CHOOSE f \in S :
                           \A g \in S \ {f} : ListedBefore(g, f)
             IN  Put(placed[S \ {last}], drive[last].name, last)
  IN  placed[live]

\* The Drive file a record stands for when the feed says nothing of it.
Stub(m) ==
  IF m = None THEN None
  ELSE [id |-> m.id, md5 |-> m.fp, rev |-> m.rev, vv |-> m.vv]

\* Where the records of d know each file; records of one file under several
\* paths leave the choice to the order of a HashMap.
KnownPaths(d) ==
  {at \in [Files -> Paths \cup {None}] : \A f \in Files :
     LET known == {p \in Paths : mem[d][p] # None /\ mem[d][p].id = f}
     IN  IF known = {} THEN at[f] = None ELSE at[f] \in known}

\* One change of the feed, applied to s = [view, at, ok].  A rename stops
\* the whole batch.
ApplyRemoteChange(s, f) ==
  LET q == IF s.at[f] = None THEN drive[f].name ELSE s.at[f]
      place == PlaceWithoutClobber(s.view, q, f)
  IN  CASE ~s.ok -> s
        [] s.ok /\ q # drive[f].name -> [s EXCEPT !.ok = FALSE]
        [] s.ok /\ q = drive[f].name /\ ~Live(f) ->
             [s EXCEPT !.view[q] = None, !.at[f] = None]
        [] OTHER -> [s EXCEPT !.view = Put(s.view, q, f), !.at[f] = place]

\* The records of d with every unseen change applied, oldest first.
IncrementalView(d, known) ==
  LET applied[S \in SUBSET unseen[d]] ==
        IF S = {}
        THEN [view |-> [p \in Paths |-> Stub(mem[d][p])], at |-> known,
              ok |-> TRUE]
        ELSE LET last == CHOOSE f \in S : \A g \in S \ {f} : <<g, f>> \in before
             IN  ApplyRemoteChange(applied[S \ {last}], last)
  IN  applied[unseen[d]]

-----------------------------------------------------------------------------
(* A cycle up to its decisions.                                            *)

\* Wrong: a deletion that took place keeps its record.
PurgesStarted(op) == op.stage = "SideEffectStarted"

\* Recovery drops the record of an interrupted operation when its effect is
\* unknown, and of a deletion that took place.
Purges(op) ==
  \/ op.stage = "SideEffectStarted"
  \/ /\ op.kind \in {"DeleteLocal", "DeleteRemote"}
     /\ op.stage \in {"SideEffectDone", "MetadataCommitted"}

PurgedPaths(d) == {p \in Paths : jrn[d][p] # None /\ Purges(jrn[d][p])}

\* Load the records; drop the journal entries that need nothing else.
StartCycle(d) ==
  /\ pc[d] = "idle"
  /\ mem' = [mem EXCEPT ![d] = [p \in Paths |->
                IF p \in PurgedPaths(d) THEN None ELSE rec[d][p]]]
  /\ jrn' = [jrn EXCEPT ![d] = [p \in Paths |->
                IF p \in PurgedPaths(d) THEN jrn[d][p] ELSE None]]
  /\ pc' = [pc EXCEPT ![d] =
              IF PurgedPaths(d) = {} THEN "recovered" ELSE "recovering"]
  /\ UNCHANGED <<driveVars, diskVars, rec, tomb, cursor, scan, view, todo,
                 errs, userVars, boundVars>>

\* One transaction replaces every row of redb by the records in memory.
Persist(d) == rec' = [rec EXCEPT ![d] = mem[d]]

\* The purged records leave redb before their journal entries do.
PersistPurge(d) ==
  /\ pc[d] = "recovering"
  /\ Persist(d)
  /\ pc' = [pc EXCEPT ![d] = "purged"]
  /\ UNCHANGED <<driveVars, diskVars, jrn, tomb, cursor, mem, scan, view, todo,
                 errs, userVars, boundVars>>

ClearPurged(d) ==
  /\ pc[d] = "purged"
  /\ jrn' = [jrn EXCEPT ![d] = Nothing]
  /\ pc' = [pc EXCEPT ![d] = "recovered"]
  /\ UNCHANGED <<driveVars, diskVars, rec, tomb, cursor, mem, scan, view, todo,
                 errs, userVars, boundVars>>

ScanLocal(d) ==
  /\ pc[d] = "recovered"
  /\ scan' = [scan EXCEPT ![d] = disk[d]]
  /\ pc' = [pc EXCEPT ![d] = "scanned"]
  /\ UNCHANGED <<driveVars, diskVars, storeVars, mem, view, todo, errs,
                 userVars, boundVars>>

\* Fetch the changes after the token; a batch that cannot be applied leaves
\* the next token in hand and asks for a full listing.
FetchChanges(d) ==
  /\ pc[d] = "scanned" /\ cursor[d]
  /\ \E known \in KnownPaths(d) :
       LET built == IncrementalView(d, known)
       IN  IF built.ok
           THEN /\ view' = [view EXCEPT ![d] = built.view]
                /\ pc' = [pc EXCEPT ![d] = "viewed"]
           ELSE /\ pc' = [pc EXCEPT ![d] = "relist"]
                /\ UNCHANGED view
  /\ fresh' = [fresh EXCEPT ![d] = {}]
  /\ UNCHANGED <<drive, before, unseen, diskVars, storeVars, mem, scan, todo,
                 errs, userVars, boundVars>>

Relist(d) ==
  /\ pc[d] = "relist"
  /\ view' = [view EXCEPT ![d] = ListAllFiles]
  /\ pc' = [pc EXCEPT ![d] = "viewed"]
  /\ UNCHANGED <<driveVars, diskVars, storeVars, mem, scan, todo, errs,
                 userVars, boundVars>>

\* No token, or one that Drive answers with 410: list first, and only then
\* ask for a token.
ListAll(d) ==
  /\ pc[d] = "scanned"
  /\ \/ ~cursor[d] /\ UNCHANGED faults
     \/ cursor[d] /\ faults < MaxFaults /\ faults' = faults + 1
  /\ view' = [view EXCEPT ![d] = ListAllFiles]
  /\ pc' = [pc EXCEPT ![d] = "listed"]
  /\ UNCHANGED <<driveVars, diskVars, storeVars, mem, scan, todo, errs,
                 userVars, defers>>

GetStartPageToken(d) ==
  /\ pc[d] = "listed"
  /\ fresh' = [fresh EXCEPT ![d] = {}]
  /\ pc' = [pc EXCEPT ![d] = "viewed"]
  /\ UNCHANGED <<drive, before, unseen, diskVars, storeVars, mem, scan, view,
                 todo, errs, userVars, boundVars>>

\* A conflict that one side wins is a transfer without a guard.
ConflictTask(task) ==
  CASE Resolution(Policy) = "local_wins" -> [task EXCEPT !.act = "update"]
    [] Resolution(Policy) = "remote_wins" -> [task EXCEPT !.act = "download"]
    [] OTHER -> task

\* The task that carries out decision a, whose row in the view is r.
TaskFor(a, r) ==
  LET task == [NoTask EXCEPT !.act = a.act, !.at = "ready", !.id = a.id,
                             !.row = r]
  IN  CASE a.act = "skip" -> NoTask
        [] a.act = "upload" /\ a.id # None ->
             [task EXCEPT !.act = "update", !.guarded = TRUE]
        [] a.act = "upload" /\ a.id = None -> [task EXCEPT !.act = "create"]
        [] a.act = "conflict" -> ConflictTask(task)
        [] OTHER -> task

\* Decide every path, and forget the tombstones of paths not to be deleted.
Decide(d) ==
  LET ids == {view[d][p].id : p \in {q \in Paths : view[d][q] # None}}
      action(p) == DetermineAction(scan[d][p], view[d][p], mem[d][p], None, ids)
  IN  /\ pc[d] = "viewed"
      /\ todo' = [todo EXCEPT ![d] =
                    [p \in Paths |-> TaskFor(action(p), view[d][p])]]
      /\ tomb' = [tomb EXCEPT ![d] = [p \in Paths |->
                    IF action(p).act \in {"delete_local", "delete_remote"}
                    THEN tomb[d][p] ELSE NoTomb]]
      /\ pc' = [pc EXCEPT ![d] = "running"]
      /\ scan' = [scan EXCEPT ![d] = Nothing]
      /\ view' = [view EXCEPT ![d] = Nothing]
      /\ UNCHANGED <<driveVars, diskVars, rec, jrn, cursor, mem, errs,
                     userVars, boundVars>>

-----------------------------------------------------------------------------
(* Tasks.  An inline task (conflict, touch, cleanup, delete_local, and the *)
(* confirmation of delete_remote) holds up the loop over the actions; the  *)
(* others are spawned and run concurrently.                                *)

taskFrame == <<rec, cursor, pc, scan, view, authored, settled, restored,
               removals, touches>>

Over(t) == t.at \in {"ended", "failed"}
At(d, p, acts, at) ==
  pc[d] = "running" /\ todo[d][p].act \in acts /\ todo[d][p].at = at

\* The upload of a conflict waits for the download of its copy.
Ready(d, p, acts) ==
  /\ At(d, p, acts, "ready")
  /\ todo[d][p].after # None => todo[d][todo[d][p].after].at = "ended"

InlineLeft(d) ==
  \E p \in Paths :
    /\ todo[d][p].at = "ready"
    /\ todo[d][p].act \in {"conflict", "touch", "cleanup", "delete_local",
                           "delete_remote"}
Busy(d) ==
  \E p \in Paths :
    /\ ~Over(todo[d][p])
    /\ \/ todo[d][p].after # None
       \/ todo[d][p].act = "delete_local" /\ todo[d][p].at # "ready"

Goto(d, p, at) == todo' = [todo EXCEPT ![d][p].at = at]
End(d, p) == todo' = [todo EXCEPT ![d][p] = NoTask]

\* The task of p reports an error; the upload that waits for it is skipped.
FailTask(d, p) ==
  /\ todo' = [todo EXCEPT ![d] = [q \in Paths |->
                IF q = p \/ todo[d][q].after = p THEN FailedTask
                ELSE todo[d][q]]]
  /\ errs' = [errs EXCEPT ![d] = TRUE]

KindOf(act) ==
  CASE act \in {"update", "create"} -> "Upload"
    [] act = "download" -> "Download"
    [] act = "delete_local" -> "DeleteLocal"
    [] OTHER -> "DeleteRemote"

SetPendingOp(d, p, stage) ==
  jrn' = [jrn EXCEPT ![d][p] = [kind |-> KindOf(todo[d][p].act),
                                stage |-> stage]]
ClearPendingOp(d, p) == jrn' = [jrn EXCEPT ![d][p] = None]

Upsert(d, p, m) == mem' = [mem EXCEPT ![d][p] = m]

\* The record of file f as row r says, with checksum c and the modification
\* time the local file has now.
RecordOf(r, c, local) ==
  [id |-> r.id, fp |-> r.md5, md5 |-> c, stat |-> local.stat, rev |-> r.rev,
   vv |-> r.vv]

CleanupMetadata(d, p) ==
  /\ At(d, p, {"cleanup"}, "ready") /\ ~Busy(d)
  /\ Upsert(d, p, None)
  /\ End(d, p)
  /\ UNCHANGED <<taskFrame, driveVars, diskVars, jrn, tomb, errs, raced,
                 boundVars>>

\* The file is hashed again: whatever it holds now counts as synced.
TouchMetadata(d, p) ==
  /\ At(d, p, {"touch"}, "ready") /\ ~Busy(d)
  /\ IF disk[d][p] = None
     THEN FailTask(d, p) /\ UNCHANGED mem
     ELSE /\ Upsert(d, p, [mem[d][p] EXCEPT !.md5 = disk[d][p].md5,
                                            !.stat = disk[d][p].stat])
          /\ End(d, p)
          /\ UNCHANGED errs
  /\ UNCHANGED <<taskFrame, driveVars, diskVars, jrn, tomb, raced, boundVars>>

\* Keep both: the remote content goes to a copy, then the local file replaces
\* it on Drive without a guard.
KeepBoth(d, p) ==
  LET unused == {c \in CopyPaths :
                   /\ \A e \in Devices : disk[e][c] = None /\ mem[e][c] = None
                                           /\ todo[e][c].at = "ended"
                   /\ \A f \in Files : drive[f].name # c}
      t == todo[d][p]
  IN  \E c \in unused :
        /\ c = CHOOSE b \in unused : TRUE
        /\ todo' = [todo EXCEPT
             ![d][c] = [NoTask EXCEPT !.act = "download", !.at = "ready",
                                      !.id = t.id, !.row = t.row],
             ![d][p] = [NoTask EXCEPT !.act = "update", !.at = "ready",
                                      !.id = t.id, !.row = t.row, !.after = c]]

BeginConflict(d, p) ==
  /\ At(d, p, {"conflict"}, "ready") /\ ~Busy(d)
  /\ KeepBoth(d, p)
  /\ UNCHANGED <<taskFrame, driveVars, diskVars, jrn, tomb, mem, errs, raced,
                 boundVars>>

\* A failed guard ends in a conflict too, with the row the preflight saw, once
\* the loop over the actions is done.
RevisionMismatch(d, p) ==
  /\ At(d, p, {"update"}, "mismatch") /\ ~InlineLeft(d) /\ ~Busy(d)
  /\ KeepBoth(d, p)
  /\ UNCHANGED <<taskFrame, driveVars, diskVars, jrn, tomb, mem, errs, raced,
                 boundVars>>

-----------------------------------------------------------------------------
(* Upload.                                                                 *)

\* A lock file beside it, a foreign lease or a recent write: not this cycle.
DeferUpload(d, p) ==
  /\ Ready(d, p, {"update", "create"})
  /\ defers < MaxDefers /\ defers' = defers + 1
  /\ End(d, p)
  /\ UNCHANGED <<taskFrame, driveVars, diskVars, jrn, tomb, mem, errs, raced,
                 faults>>

PlanUpload(d, p) ==
  /\ Ready(d, p, {"update", "create"})
  /\ IF disk[d][p] = None
     THEN FailTask(d, p) /\ UNCHANGED jrn
     ELSE /\ todo' = [todo EXCEPT ![d][p].at = "planned",
                                  ![d][p].md5 = disk[d][p].md5]
          /\ SetPendingOp(d, p, "Planned")
          /\ UNCHANGED errs
  /\ UNCHANGED <<taskFrame, driveVars, diskVars, tomb, mem, raced, boundVars>>

\* The record's vector and the row's, merged, and one more write of d.
NextVector(d, p) ==
  LET of(r) == IF r = None THEN EmptyVector ELSE r.vv
      row == todo[d][p].row
  IN  Written(Increment(Merge(of(mem[d][p]), of(row)), d), d, of(row))

StartUpdate(d, p) ==
  /\ At(d, p, {"update"}, "planned")
  /\ SetPendingOp(d, p, "SideEffectStarted")
  /\ Goto(d, p, IF todo[d][p].guarded THEN "started" ELSE "checked")
  /\ UNCHANGED <<taskFrame, driveVars, diskVars, tomb, mem, errs, raced,
                 boundVars>>

\* Wrong: the vectors compared instead, which edits in a browser leave alone.
VectorGuardMatches(d, p, f) ==
  mem[d][p] = None \/ mem[d][p].vv = drive[f].vv

\* The guard: the record's head revision against the one Drive has now.
RevisionGuardMatches(d, p, f) ==
  mem[d][p] = None \/ mem[d][p].rev = drive[f].rev

Preflight(d, p) ==
  LET f == todo[d][p].id
  IN  /\ At(d, p, {"update"}, "started")
      /\ IF RevisionGuardMatches(d, p, f)
         THEN /\ todo' = [todo EXCEPT ![d][p].at = "checked",
                                      ![d][p].seen = drive[f].rev]
              /\ UNCHANGED jrn
         ELSE /\ todo' = [todo EXCEPT ![d][p].at = "mismatch",
                                      ![d][p].row = Row(f)]
              /\ ClearPendingOp(d, p)
      /\ UNCHANGED <<taskFrame, driveVars, diskVars, tomb, mem, errs, raced,
                     boundVars>>

\* The bytes sent are those on disk now.  Another write that landed on f since
\* this task looked at it is the first window: its content is overwritten.
PatchMedia(d, p) ==
  LET f == todo[d][p].id
  IN  /\ At(d, p, {"update"}, "checked")
      /\ IF disk[d][p] = None
         THEN FailTask(d, p) /\ UNCHANGED <<driveVars, raced>>
         ELSE /\ ChangeDrive(f, WithContent(f, disk[d][p].md5))
              /\ raced' = IF drive[f].rev = todo[d][p].seen THEN raced
                          ELSE raced \cup {drive[f].md5}
              /\ Goto(d, p, "effected")
              /\ UNCHANGED errs
      /\ UNCHANGED <<taskFrame, diskVars, jrn, tomb, mem, boundVars>>

MarkDone(d, p) ==
  /\ At(d, p, {"update", "create", "download", "delete_local",
               "delete_remote"}, "effected")
  /\ SetPendingOp(d, p, "SideEffectDone")
  /\ Goto(d, p, "done")
  /\ UNCHANGED <<taskFrame, driveVars, diskVars, tomb, mem, errs, raced,
                 boundVars>>

\* The vector goes to Drive; the answer of that request becomes the record.
\* The second window: the answer tells of a content other than the one
\* uploaded, which the record then takes for synced.
CommitUpdate(d, p) ==
  LET t == todo[d][p]
      f == t.id
      row == [Row(f) EXCEPT !.vv = NextVector(d, p)]
  IN  /\ At(d, p, {"update"}, "done")
      /\ ChangeDrive(f, [drive[f] EXCEPT !.vv = NextVector(d, p)])
      /\ IF disk[d][p] = None
         THEN FailTask(d, p) /\ UNCHANGED <<mem, jrn, raced>>
         ELSE /\ Upsert(d, p, RecordOf(row, t.md5, disk[d][p]))
              /\ SetPendingOp(d, p, "MetadataCommitted")
              /\ raced' = IF row.md5 = t.md5 THEN raced
                          ELSE raced \cup {row.md5}
              /\ End(d, p)
              /\ UNCHANGED errs
      /\ UNCHANGED <<taskFrame, diskVars, tomb, boundVars>>

\* An identical live file of that name is linked instead of duplicated.
FindRemoteFileByContent(d, p) ==
  LET same == {f \in Files : Live(f) /\ drive[f].name = p
                               /\ drive[f].md5 = todo[d][p].md5}
  IN  /\ At(d, p, {"create"}, "planned")
      /\ IF same # {}
         THEN /\ todo' = [todo EXCEPT ![d][p].at = "linked",
                                      ![d][p].id = Min2(same)]
              /\ UNCHANGED jrn
         ELSE /\ SetPendingOp(d, p, "SideEffectStarted")
              /\ Goto(d, p, "started")
      /\ UNCHANGED <<taskFrame, driveVars, diskVars, tomb, mem, errs, raced,
                     boundVars>>

CreateFile(d, p) ==
  LET unused == {f \in Files : ~Exists(f)}
  IN  /\ At(d, p, {"create"}, "started")
      /\ IF disk[d][p] = None
         THEN FailTask(d, p) /\ UNCHANGED driveVars
         ELSE \E f \in unused :
              /\ f = Min2(unused)
              /\ ChangeDrive(f, [st |-> "live", name |-> p, rev |-> 1,
                                 md5 |-> disk[d][p].md5,
                                 vv |-> NextVector(d, p)])
              /\ todo' = [todo EXCEPT ![d][p].at = "effected",
                                      ![d][p].id = f]
              /\ UNCHANGED errs
      /\ UNCHANGED <<taskFrame, diskVars, jrn, tomb, mem, raced, boundVars>>

CommitCreate(d, p) ==
  LET t == todo[d][p]
  IN  /\ At(d, p, {"create"}, "done") \/ At(d, p, {"create"}, "linked")
      /\ IF disk[d][p] = None
         THEN FailTask(d, p) /\ UNCHANGED <<mem, jrn, raced>>
         ELSE /\ Upsert(d, p, RecordOf(Row(t.id), t.md5, disk[d][p]))
              /\ SetPendingOp(d, p, "MetadataCommitted")
              /\ raced' = IF drive[t.id].md5 = t.md5 THEN raced
                          ELSE raced \cup {drive[t.id].md5}
              /\ End(d, p)
              /\ UNCHANGED errs
      /\ UNCHANGED <<taskFrame, driveVars, diskVars, tomb, boundVars>>

-----------------------------------------------------------------------------
(* Download.                                                               *)

PlanDownload(d, p) ==
  /\ At(d, p, {"download"}, "ready")
  /\ SetPendingOp(d, p, "Planned")
  /\ Goto(d, p, "planned")
  /\ UNCHANGED <<taskFrame, driveVars, diskVars, tomb, mem, errs, raced,
                 boundVars>>

\* Wrong: the download starts without telling the journal.
StartDownloadUnjournaled(d, p) ==
  /\ At(d, p, {"download"}, "planned")
  /\ Goto(d, p, "started")
  /\ UNCHANGED <<taskFrame, driveVars, diskVars, jrn, tomb, mem, errs, raced,
                 boundVars>>

StartDownload(d, p) ==
  /\ At(d, p, {"download"}, "planned")
  /\ SetPendingOp(d, p, "SideEffectStarted")
  /\ Goto(d, p, "started")
  /\ UNCHANGED <<taskFrame, driveVars, diskVars, tomb, mem, errs, raced,
                 boundVars>>

\* The content Drive has now replaces whatever is at the path now.  A waiting
\* upload has thereby looked at the file.
WriteDownload(d, p) ==
  LET f == todo[d][p].id
      stat == IF disk[d][p] = None THEN 0 ELSE 1 - disk[d][p].stat
  IN  /\ At(d, p, {"download"}, "started")
      /\ disk' = [disk EXCEPT ![d][p] = [md5 |-> drive[f].md5, stat |-> stat]]
      /\ todo' = [todo EXCEPT ![d] = [q \in Paths |->
                    IF q = p THEN [todo[d][q] EXCEPT !.at = "effected"]
                    ELSE IF todo[d][q].after = p
                    THEN [todo[d][q] EXCEPT !.seen = drive[f].rev]
                    ELSE todo[d][q]]]
      /\ UNCHANGED <<taskFrame, driveVars, trash, jrn, tomb, mem, errs, raced,
                     boundVars>>

\* The remote half of the record is the row decided on, the local half what
\* the disk holds now.  The fourth window: the file is gone again, and the
\* record that stays is of the content the download replaced; while Drive has
\* that content, it lets an upload overwrite it.
CommitDownload(d, p) ==
  LET m == mem[d][p]
  IN  /\ At(d, p, {"download"}, "done")
      /\ IF disk[d][p] = None
         THEN /\ FailTask(d, p)
              /\ raced' = IF m = None \/ m.rev # drive[m.id].rev THEN raced
                          ELSE raced \cup {m.md5}
              /\ UNCHANGED <<mem, jrn>>
         ELSE /\ Upsert(d, p, RecordOf(todo[d][p].row, disk[d][p].md5,
                                      disk[d][p]))
              /\ SetPendingOp(d, p, "MetadataCommitted")
              /\ End(d, p)
              /\ UNCHANGED <<errs, raced>>
      /\ UNCHANGED <<taskFrame, driveVars, diskVars, tomb, boundVars>>

-----------------------------------------------------------------------------
(* Deletion, in both directions.                                           *)

\* The first observation writes the tombstone and leaves the file alone.
ConfirmDelete(d, p) ==
  /\ At(d, p, {"delete_local", "delete_remote"}, "ready") /\ ~Busy(d)
  /\ IF tomb[d][p] = NoTomb
     THEN /\ tomb' = [tomb EXCEPT ![d][p] = 0]
          /\ End(d, p)
          /\ UNCHANGED jrn
     ELSE /\ tomb' = [tomb EXCEPT ![d][p] = 1]
          /\ SetPendingOp(d, p, "Planned")
          /\ Goto(d, p, "planned")
  /\ UNCHANGED <<taskFrame, driveVars, diskVars, mem, errs, raced, boundVars>>

StartDelete(d, p) ==
  /\ At(d, p, {"delete_local", "delete_remote"}, "planned")
  /\ SetPendingOp(d, p, "SideEffectStarted")
  /\ Goto(d, p, "started")
  /\ UNCHANGED <<taskFrame, driveVars, diskVars, tomb, mem, errs, raced,
                 boundVars>>

MoveToTrash(d, p) ==
  /\ At(d, p, {"delete_local"}, "started")
  /\ IF disk[d][p] = None
     THEN FailTask(d, p) /\ ClearPendingOp(d, p) /\ UNCHANGED diskVars
     ELSE /\ disk' = [disk EXCEPT ![d][p] = None]
          /\ trash' = IF SafeDelete
                      THEN [trash EXCEPT ![d] = @ \cup {disk[d][p].md5}]
                      ELSE trash
          /\ Goto(d, p, "effected")
          /\ UNCHANGED <<jrn, errs>>
  /\ UNCHANGED <<taskFrame, driveVars, tomb, mem, raced, boundVars>>

TrashRemote(d, p) ==
  LET f == todo[d][p].id
  IN  /\ At(d, p, {"delete_remote"}, "started")
      /\ ChangeDrive(f, [drive[f] EXCEPT !.st = "trashed"])
      /\ Goto(d, p, "effected")
      /\ UNCHANGED <<taskFrame, diskVars, jrn, tomb, mem, errs, raced,
                     boundVars>>

CommitDelete(d, p) ==
  /\ At(d, p, {"delete_local", "delete_remote"}, "done")
  /\ Upsert(d, p, None)
  /\ SetPendingOp(d, p, "MetadataCommitted")
  /\ tomb' = [tomb EXCEPT ![d][p] = 0]
  /\ End(d, p)
  /\ UNCHANGED <<taskFrame, driveVars, diskVars, errs, raced, boundVars>>

-----------------------------------------------------------------------------
(* The end of a cycle, failures and crashes.                               *)

\* The request fails before its effect, or its answer is lost at a step whose
\* effect was a step of its own.
RequestFails(d, p) ==
  /\ \E at \in {"planned", "started", "checked", "effected", "done", "linked"} :
       At(d, p, {"update", "create", "download", "delete_remote"}, at)
  /\ faults < MaxFaults /\ faults' = faults + 1
  /\ FailTask(d, p)
  /\ UNCHANGED <<taskFrame, driveVars, diskVars, jrn, tomb, mem, raced, defers>>

\* Drive has taken the vector, and the answer is lost: no record.
LoseAnswer(d, p) ==
  LET f == todo[d][p].id
  IN  /\ At(d, p, {"update"}, "done")
      /\ faults < MaxFaults /\ faults' = faults + 1
      /\ ChangeDrive(f, [drive[f] EXCEPT !.vv = NextVector(d, p)])
      /\ FailTask(d, p)
      /\ UNCHANGED <<taskFrame, diskVars, jrn, tomb, mem, raced, defers>>

\* Wrong: the token is stored whatever failed.
FinishCycleRegardless(d) ==
  /\ pc[d] = "running" /\ \A p \in Paths : Over(todo[d][p])
  /\ Persist(d)
  /\ jrn' = [jrn EXCEPT ![d] = [p \in Paths |->
               IF jrn[d][p] # None /\ jrn[d][p].stage = "MetadataCommitted"
               THEN None ELSE jrn[d][p]]]
  /\ cursor' = [cursor EXCEPT ![d] = TRUE]
  /\ unseen' = [unseen EXCEPT ![d] = fresh[d]]
  /\ fresh' = [fresh EXCEPT ![d] = {}]
  /\ todo' = [todo EXCEPT ![d] = NoTasks]
  /\ errs' = [errs EXCEPT ![d] = FALSE]
  /\ pc' = [pc EXCEPT ![d] = "idle"]
  /\ UNCHANGED <<drive, before, diskVars, tomb, mem, scan, view, userVars,
                 boundVars>>

\* Records, token and finished journal entries are persisted together; the
\* token only when nothing failed.
FinishCycle(d) ==
  /\ pc[d] = "running" /\ \A p \in Paths : Over(todo[d][p])
  /\ Persist(d)
  /\ jrn' = [jrn EXCEPT ![d] = [p \in Paths |->
               IF jrn[d][p] # None /\ jrn[d][p].stage = "MetadataCommitted"
               THEN None ELSE jrn[d][p]]]
  /\ cursor' = [cursor EXCEPT ![d] = cursor[d] \/ ~errs[d]]
  /\ unseen' = [unseen EXCEPT ![d] = IF errs[d] THEN unseen[d] ELSE fresh[d]]
  /\ fresh' = [fresh EXCEPT ![d] = {}]
  /\ todo' = [todo EXCEPT ![d] = NoTasks]
  /\ errs' = [errs EXCEPT ![d] = FALSE]
  /\ pc' = [pc EXCEPT ![d] = "idle"]
  /\ UNCHANGED <<drive, before, diskVars, tomb, mem, scan, view, userVars,
                 boundVars>>

\* The process dies, or the cycle returns early with an error.
Crash(d) ==
  /\ pc[d] # "idle"
  /\ faults < MaxFaults /\ faults' = faults + 1
  /\ pc' = [pc EXCEPT ![d] = "idle"]
  /\ mem' = [mem EXCEPT ![d] = rec[d]]
  /\ scan' = [scan EXCEPT ![d] = Nothing]
  /\ view' = [view EXCEPT ![d] = Nothing]
  /\ todo' = [todo EXCEPT ![d] = NoTasks]
  /\ errs' = [errs EXCEPT ![d] = FALSE]
  /\ fresh' = [fresh EXCEPT ![d] = {}]
  /\ UNCHANGED <<drive, before, unseen, diskVars, storeVars, userVars, defers>>

-----------------------------------------------------------------------------
(* Users.                                                                  *)

userFrame == <<storeVars, cycleVars, trash, boundVars>>

UsersMayAct == Racing \/ \A d \in Devices : pc[d] = "idle"

NewContent == Cardinality(authored) + 1

\* The content a user replaces or removes: they saw it.
Settle(local) ==
  LET seen == IF local = None THEN {} ELSE {local.md5}
  IN  settled' = settled \cup seen /\ restored' = restored \ seen

\* The third window: what is written after the scan may be overwritten by a
\* download, moved away by a deletion or taken for synced by a touch.
UserWrite(d, p) ==
  LET local == disk[d][p]
  IN  /\ UsersMayAct /\ NewContent \in Contents
      /\ p \in HomePaths \/ local # None
      /\ disk' = [disk EXCEPT ![d][p] =
                    [md5 |-> NewContent,
                     stat |-> IF local = None THEN 0 ELSE 1 - local.stat]]
      /\ Settle(local)
      /\ authored' = authored \cup {NewContent}
      /\ raced' = IF pc[d] \in {"scanned", "relist", "listed", "viewed",
                                "running"}
                  THEN raced \cup {NewContent} ELSE raced
      /\ UNCHANGED <<userFrame, driveVars, removals, touches>>

UserTouch(d, p) ==
  /\ UsersMayAct /\ disk[d][p] # None
  /\ touches < MaxTouches /\ touches' = touches + 1
  /\ disk' = [disk EXCEPT ![d][p].stat = 1 - @]
  /\ UNCHANGED <<userFrame, driveVars, authored, settled, restored, raced,
                 removals>>

UserRemove(d, p) ==
  /\ UsersMayAct /\ disk[d][p] # None /\ "disk" \in Removers
  /\ removals < MaxRemovals /\ removals' = removals + 1
  /\ disk' = [disk EXCEPT ![d][p] = None]
  /\ Settle(disk[d][p])
  /\ UNCHANGED <<userFrame, driveVars, authored, raced, touches>>

\* An edit in the browser: Drive keeps the ox_vv property.
WebWrite(f) ==
  /\ UsersMayAct /\ NewContent \in Contents /\ Live(f)
  /\ ChangeDrive(f, WithContent(f, NewContent))
  /\ Settle(drive[f])
  /\ authored' = authored \cup {NewContent}
  /\ UNCHANGED <<userFrame, disk, raced, removals, touches>>

WebTrash(f) ==
  /\ UsersMayAct /\ Live(f) /\ "web" \in Removers
  /\ removals < MaxRemovals /\ removals' = removals + 1
  /\ ChangeDrive(f, [drive[f] EXCEPT !.st = "trashed"])
  /\ Settle(drive[f])
  /\ UNCHANGED <<userFrame, disk, authored, raced, touches>>

\* Back from the trash of Drive: its content is wanted again.
WebRestore(f) ==
  /\ UsersMayAct /\ drive[f].st = "trashed" /\ "web" \in Removers
  /\ removals < MaxRemovals /\ removals' = removals + 1
  /\ ChangeDrive(f, [drive[f] EXCEPT !.st = "live"])
  /\ restored' = restored \cup {drive[f].md5}
  /\ UNCHANGED <<userFrame, disk, authored, settled, raced, touches>>

-----------------------------------------------------------------------------
(* The specification.                                                      *)

NoFile == [st |-> "none", name |-> None, md5 |-> NoMd5, rev |-> 0,
           vv |-> EmptyVector]

\* One file, the first, is on Drive with content 1; each device stands to it
\* in one of the ways of Starts.
Init ==
  \E p \in HomePaths, vv \in {EmptyVector} \cup
                       {Increment(EmptyVector, d) : d \in Devices},
     start \in [Devices -> Starts] :
    LET f == Min2(Files)
        synced == [id |-> f, fp |-> 1, md5 |-> 1, stat |-> 0, rev |-> 1,
                   vv |-> vv]
        local(c) == [md5 |-> c, stat |-> 0]
        at(d) == CASE start[d] = "empty" -> None
                   [] start[d] = "different" -> local(2)
                   [] OTHER -> local(1)
    IN  /\ drive = [g \in Files |-> IF g = f
                      THEN [st |-> "live", name |-> p, md5 |-> 1, rev |-> 1,
                            vv |-> vv]
                      ELSE NoFile]
        /\ before = {}
        /\ unseen = [d \in Devices |-> {}]
        /\ fresh = [d \in Devices |-> {}]
        /\ disk = [d \in Devices |-> [Nothing EXCEPT ![p] = at(d)]]
        /\ trash = [d \in Devices |-> {}]
        /\ rec = [d \in Devices |-> [Nothing EXCEPT
                    ![p] = IF start[d] = "synced" THEN synced ELSE None]]
        /\ jrn = [d \in Devices |-> Nothing]
        /\ tomb = [d \in Devices |-> [q \in Paths |-> NoTomb]]
        /\ cursor = [d \in Devices |-> start[d] = "synced"]
        /\ pc = [d \in Devices |-> "idle"]
        /\ mem = rec
        /\ scan = [d \in Devices |-> Nothing]
        /\ view = [d \in Devices |-> Nothing]
        /\ todo = [d \in Devices |-> NoTasks]
        /\ errs = [d \in Devices |-> FALSE]
        /\ authored = IF \E d \in Devices : start[d] = "different"
                      THEN {1, 2} ELSE {1}
        /\ settled = {} /\ restored = {}
        /\ raced = {}
        /\ removals = 0 /\ touches = 0 /\ faults = 0 /\ defers = 0

\* The steps before the tasks, by phase.
Prepare(d) ==
  \/ StartCycle(d) \/ PersistPurge(d) \/ ClearPurged(d) \/ ScanLocal(d)
  \/ FetchChanges(d) \/ Relist(d) \/ ListAll(d) \/ GetStartPageToken(d)
  \/ Decide(d)

Upload(d, p) ==
  \/ PlanUpload(d, p) \/ StartUpdate(d, p) \/ Preflight(d, p)
  \/ PatchMedia(d, p) \/ CommitUpdate(d, p)
  \/ FindRemoteFileByContent(d, p) \/ CreateFile(d, p) \/ CommitCreate(d, p)

Download(d, p) ==
  \/ PlanDownload(d, p) \/ StartDownload(d, p) \/ WriteDownload(d, p)
  \/ CommitDownload(d, p)

Delete(d, p) ==
  \/ ConfirmDelete(d, p) \/ StartDelete(d, p) \/ MoveToTrash(d, p)
  \/ TrashRemote(d, p) \/ CommitDelete(d, p)

TaskStep(d, p) ==
  \/ CleanupMetadata(d, p) \/ TouchMetadata(d, p) \/ BeginConflict(d, p)
  \/ RevisionMismatch(d, p)
  \/ Upload(d, p) \/ Download(d, p) \/ Delete(d, p) \/ MarkDone(d, p)

\* What the daemon does unless it is hindered.
Work(d) == Prepare(d) \/ (\E p \in Paths : TaskStep(d, p)) \/ FinishCycle(d)

Hindrance(d) ==
  \/ Crash(d)
  \/ \E p \in Paths :
       DeferUpload(d, p) \/ RequestFails(d, p) \/ LoseAnswer(d, p)

User ==
  \/ \E d \in Devices, p \in Paths :
       UserWrite(d, p) \/ UserTouch(d, p) \/ UserRemove(d, p)
  \/ \E f \in Files : WebWrite(f) \/ WebTrash(f) \/ WebRestore(f)

Next == (\E d \in Devices : Work(d) \/ Hindrance(d)) \/ User

Spec == Init /\ [][Next]_vars

\* The daemon starts a cycle every sync_interval and runs it to its end.
FairSpec == Spec /\ \A d \in Devices : WF_vars(Work(d))

=============================================================================
