# Formal models of oxidrive

TLA+ models of oxidrive, a command-line daemon that keeps a local folder and a
Google Drive folder the same on any number of devices. This directory holds the
modules, the TLC configurations that check them on small instances, and proofs
for TLAPS. `PROJECT.json` ties every definition to the source lines it models,
and lists the runs, the mutants that show each property can fail, the hazards
the properties are about, the findings and the theorems.

Paths like `engine.rs:175` are below `src/src/` (`sync/engine.rs`,
`sync/executor.rs`, `sync/decision.rs`, `sync/coordination.rs`,
`drive/upload.rs`, ...); docs are below `src/docs/`.

## The system

| Part | Source | State it keeps | Operations |
|---|---|---|---|
| sync cycle | `sync/engine.rs` | none of its own; reads and writes the store | load, recover, scan, fetch the remote view, decide, execute, persist |
| executor | `sync/executor.rs` | the tasks of one cycle | upload (update, create, link), download, conflict, both deletions, touch, cleanup; the journal and the tombstones around them |
| decision matrix | `sync/decision.rs` | none | one action per path from local file, Drive file and record |
| version vectors | `sync/coordination.rs` | the `ox_vv` property of each Drive file | merge, increment, dominance, trimming to the property |
| session store | `store/session.rs` | records, conversions, upload sessions, folder ids, in memory | get, upsert, remove, load, persist |
| redb | `store/db.rs` | the same tables, journal, tombstones, change token, device id | transactions |
| Drive listing and feed | `drive/list.rs`, `drive/changes.rs` | none; Drive keeps files and feed | full listing, changes after a token, lookup by content |
| uploads, downloads | `drive/upload.rs`, `drive/download.rs` | resumable sessions (on Drive, cursor in the store) | guarded and unguarded updates, creation, chunks; download through a `.part` file |
| Drive client | `drive/client.rs`, `utils/retry.rs` | pacing slots | requests with pacing, retry and one renewal of the token |
| authentication | `auth.rs` | token file, refresh lock | stored token, refresh, save, setup |
| folders | `drive/folders.rs` | folder ids in the store | find or create the parents of a path |
| daemon, watcher | `daemon.rs`, `watch/local.rs` | event channel | one cycle per interval or burst of events; last persist on shutdown |
| leases | `drive/locks.rs` | properties of a Drive file | read before an upload; nothing acquires one |
| others | `config.rs`, `main.rs`, `service.rs`, `index/`, `sync/observability.rs` | configuration, index, conflict log | outside the sync protocol |

How they interact. The daemon starts a cycle; one device never runs two cycles
at once. The engine loads redb into the session store, lets recovery clean up
what a crash left, scans the disk, and builds the *remote view*: with a stored
change token, the records (one stub per record) overlaid with the changes of
the feed; without one, or when the token has expired or a change is a rename, a
full listing. The matrix gives each path one action, the executor runs the
actions as concurrent tasks that all write to the same in-memory store and to
the journal in redb, and the engine persists records, finished journal entries
and, if no task failed, the new token in one transaction. Devices meet only on
Drive: through file contents, head revisions, the vector property and the feed.
Every request to Drive goes through one client per process, whose tasks share
pacing slots, a lock around the renewal of the access token, and the token file.

What is hard here, and what must be right about it:

* **Two devices, their users and a browser act in the middle of each other's
  cycles.** A cycle decides from a scan and a view that are old by the time a
  task runs. No edit may be lost (`NoLossOutsideRaces`).
* **The process dies, or a request fails, between any two steps.** Every effect
  must find its journal entry durable (`WriteAhead`); recovery must neither lose
  an edit nor undo a user's wish (`NoLossOutsideRaces`, `DeletionsFollowUsers`),
  and the mirror must become whole again (`Converges`).
* **A token that moves too far hides a file for ever** (`NothingMissed`,
  `SyncedAgrees`, `Arrives`).
* **Deletions travel in two cycles**, through tombstones that have to survive
  and to be cleared at the right moment
  (`DeletionsFollowUsers`; `WebDeletes` is violated, see below).
* **Double edits are judged by vectors** that live in 124 bytes, saturate and
  are not moved by a browser (`VectorsTellCausality`, `VectorsNeverExaggerate`,
  `VectorsGrow`).
* **A batch of changes, the records and the folder ids have to add up to the
  tree** that a listing would show, whatever the order of the feed; and a folder
  an upload needs may be created twice, renamed or gone (`ViewIsListing`,
  `UploadsWhereShown`).
* **Rows, journal and token are saved together or not at all**, also when the
  process dies inside the transaction, a transaction fails, or a row no longer
  decodes (`ImplementsCheckpoint`, `JournalFollowsRows`, `TokenWithRows`).
* **Many tasks share one login**, and the token server replaces a refresh token
  when it is used (`RotatedOnce`, `LoginKept`, `RateLimited`, `CallsEnd`).
* **A large file is many requests**, between which it is edited, chunks and
  answers are lost and sessions expire, and yet one attempt is one write
  (`ImplementsTransfer`, `NoDuplicates`, `CommitTellsTruth`, `UploadArrives`;
  `ResumesWhereItStopped` is violated, see below).
* **File events come while a cycle runs**, through a bounded channel, from a
  thread that does not hear everything and that hears the daemon's own
  downloads (`QuietMeansSynced`, `ChangesAreSynced`, `Settles`), and a signal
  stops the whole at any moment (`SignalStops`, `ShutdownKeepsRecords`).

## Modules

```
VersionVectors ---- CausalVectors ---- CausalVectors_proofs
      |
  Decision ---- SyncCycle ---- SyncProperties ---- MCSyncCycle
                                     |
                              SyncCycle_proofs ---- NothingLost_proofs
                                     |
                              Fingerprints_proofs
  Checkpoint <--refines-- SessionStore ---- SessionStore_proofs
  FolderView ---- MCFolderView
  Transfer <--refines-- ResumableUpload ---- ResumableUpload_proofs
  DriveClient ---- DriveClient_proofs
  Daemon ---- Daemon_proofs
```

`SyncCycle` is the middle. The other machines each open up one thing that is a
step, or an assumption, there: `ResumableUpload` a transfer, `SessionStore` a
load and a persist, `FolderView` the remote view and the parent of an upload,
`DriveClient` a request, `Daemon` what starts a cycle.

`VersionVectors` is `coordination.rs`. A vector maps every device to a counter,
0 for an absent entry; `Increment` saturates at `MaxCount`; `Bounded` drops the
entries that `bounded_app_property_value` drops when the property is full, in
its order (`MaxEntries` stands for the 124 bytes); `Written` is what
`write_into_app_properties` leaves, the old property if nothing fits.

`CausalVectors` puts devices around it that upload and download one file, with
the causal history each vector should describe as an auxiliary variable (`seen`)
and a flag for the first trimming (`trimmed`). `Edit` is a change that no vector
counts: the browser, or a property update that never came.

`Decision` is the matrix of `decision.rs`, cell by cell, in its plain and its
converted form.

`SyncCycle` is the core: engine, executor, store, Drive, feed and users, for any
set of devices. Its state is

* Drive: `drive` (files with state, name, checksum, revision, vector), `before`
  (the order of their last changes), and per device `unseen` and `fresh`, which
  stand for the stored change token and the one the running cycle will store: a
  token is the set of files that changed after it;
* durable, per device: `disk`, `trash`, `rec` (records), `jrn` (pending
  operations), `tomb` (tombstones), `cursor` (is a token stored);
* in memory, per device: `pc` (phase), `mem` (records), `scan`, `view`, `todo`
  (one task per path) and `errs`;
* about users: `authored`, `settled` (contents a user replaced or removed, hence
  saw; it only grows), `restored` (those of them that a user brought back since)
  and `raced` (contents that met one of four named windows).

| Phase | Actions | Code |
|---|---|---|
| start | `StartCycle`, `PersistPurge`, `ClearPurged` | `engine.rs:55-56`, `209-322`; `session.rs:186` |
| scan | `ScanLocal` | `engine.rs:58`, `scan.rs:115` |
| view | `FetchChanges`, `Relist`, `ListAll`, `GetStartPageToken` | `engine.rs:375-654`, `changes.rs`, `list.rs` |
| decide | `Decide` (with `TaskFor`, `ConflictTask`) | `engine.rs:70-141`, `decision.rs` |
| tasks | `CleanupMetadata`, `TouchMetadata`, `BeginConflict`, `RevisionMismatch`, `DeferUpload`, `PlanUpload`, `StartUpdate`, `Preflight`, `PatchMedia`, `MarkDone`, `CommitUpdate`, `FindRemoteFileByContent`, `CreateFile`, `CommitCreate`, `PlanDownload`, `StartDownload`, `WriteDownload`, `CommitDownload`, `ConfirmDelete`, `StartDelete`, `MoveToTrash`, `TrashRemote`, `CommitDelete` | `executor.rs:106-1829`, `upload.rs`, `download.rs` |
| end | `FinishCycle` | `engine.rs:143-207`, `session.rs:325-474` |
| faults | `Crash`, `RequestFails`, `LoseAnswer` (the property update took effect, its answer did not come), an expired token in `ListAll` | every await |
| users | `UserWrite`, `UserTouch`, `UserRemove`, `WebWrite`, `WebTrash`, `WebRestore` | external |

A step is what happens between two awaits, or two durable writes, that another
process or a crash could see. A step that only changes memory is part of the
step before it. Tasks of one cycle interleave freely, except that actions the
executor runs inside its loop (conflicts, deletions) wait for each other as they
do there (`InlineLeft`, `Busy`).

The four windows. A write that lands between the preflight and the media PATCH
is overwritten (`PatchMedia`); a write that lands between the PATCH and the
property update, whose answer becomes the record, is taken for synced
(`CommitUpdate`, `CommitCreate`); a local write after the scan may be overwritten
by the download, moved away by the deletion or declared synced by the touch that
was decided for its predecessor (`UserWrite`); a file that a download has just
written and a user removes before the record is made leaves the record of what
the download replaced, and while Drive has that revision, an upload guarded by
this record may overwrite it although nobody kept a copy (`CommitDownload`).
Drive offers no conditional update that would close the first two, and they are
as long as one request; the last one was met in the proof of `NothingLost`.
The model marks the contents concerned in `raced`; every property that is about
losing contents says what holds outside the windows, so a fifth way to lose an
edit would be found.

The views are recursive functions over finite sets, not RECURSIVE operators, so
that they can be reasoned about: `ListAllFiles` gives the files of Drive their paths one
by one in the order of the listing, `IncrementalView` applies the changes of the
feed one by one.

`SyncProperties` states what the cycle promises, `MCSyncCycle` instantiates it:
users write at `a`, a second Drive file of that name goes to `a2` as
`dedupe_name_for_folder` numbers it, conflict copies take `c`, `e`, `g`.

`ResumableUpload` opens up the one step that a transfer is in `SyncCycle`: one
device, one large file, its chunks, Drive's side of each session (`server`),
the client's (`sess`, `offset`, `used`), the session in redb (`saved`), and the
cycle around it reduced to what decides whether and how a transfer starts.
`StartUpload` is the choice between resuming and starting anew
(`executor.rs:956-994`), `SendChunk` to `SendToGone` are the answers of
`upload_resumable_bytes` one by one, `Commit` is the record, `StartCycle` is
load and recovery. A conflict that keeps both contents, the default, downloads
Drive's one to a path of its own and uploads the local one to the same Drive file
(`executor.rs:175-283`): the copy is another file, in `SyncCycle`, and what is
left of the conflict here is an upload (`PlanUpload`). Only `remote_wins`
replaces the local file when both sides changed (`TakeRemote`). The policies are
a set, since the configuration may be another one when the process starts again.

`Transfer` is what `SyncCycle` takes for granted of it: an attempt has a checksum
(`claim`), changes at most one file of Drive, at most once and as a whole (`Land`,
remembered in `landed`), and ends with a record of just that file (`Confirm`), or
with none (`GiveUp`, `Crash`); a new file has a content no other one has. A record
need not be true if the attempt changed nothing: it found its file by content, or
its session was finished by an earlier one. `ResumableUpload` is shown to
implement it, where `claim` is the checksum while an attempt runs (`Claim`),
`landed` what the attempt's own session has finished, nothing while it resumes
another's (`Landed`), `record` and `stored` the record in memory and in redb, and
`torn` the files of edited uploads (`raced`).

`SessionStore` is the way rows travel between the maps of a session, the tables
of redb and the journal. A row is a table (records, conversions, upload sessions,
folder ids) and a path, a value is the number of the operation that wrote it.

| Part | State | Actions | Code |
|---|---|---|---|
| process | `pc`, `mem` | `Open`, `Crash`, `StoreFails` | `session.rs:127-139`, `db.rs:50-116` |
| load, recovery | `rows`, `journal`, `todo`, `recovered` | `Load`, `DropPending`, `PurgePath`, `RecoveryDone`, `ForgetRecovered` | `session.rs:186-322`, `engine.rs:209-322` |
| tasks | `running`, `failed`, `result`, `ops` | `Plan`, `Advance`, `SaveSession`, `Settle`, `TaskFails`, `RevisionMismatch`, `SetFolderId`, `PurgeStaleSessions` | `executor.rs:526-1285`, `1458-1480`, `session.rs:575-650` |
| persist | `batch`, `why`, `written`, `draft`, `token` | `FinishCycle`, `Shutdown`, `BeginWrite`, `WriteTable`, `Commit` | `session.rs:372-495`, `db.rs:734-844`, `engine.rs:174-187`, `daemon.rs:91` |
| damage | `faults` | `Damage` | a row that no longer decodes |

`Checkpoint` is what the rest of the program relies on: a memory, a saved copy
that changes only as a whole and into what the memory holds, and a token. The
refinement maps its `saved` to what a load would find, `Loaded(rows)`.

`FolderView` is the tree. Drive's objects have an id, a name and a parent; paths
are sequences of names with the number `dedupe_name_for_folder` gives to siblings
of one name.

| Part | State | Actions | Code |
|---|---|---|---|
| Drive | `objects`, `log` (the feed), `fresh` | `WebEdit` | external |
| view | `hasToken`, `records`, `known`, `view`, `source` | `Fetch` (with `Change`, `Place`, `Incremental`), `List`, `StartToken` | `engine.rs:375-672`, `list.rs`, `changes.rs` |
| folders | `folders`, `target`, `need` | `Decide`, `LookUp`, `CreateFolder`, `Upload` | `engine.rs:62-132`, `folders.rs:38-190`, `session.rs:682-716` |
| end | | `Settle`, `Abort` | `engine.rs:136-207` |

Two auxiliary variables name what a view may be wrong about. `odd`, for good:
objects that shared a name with a sibling, folders that were edited, a file whose
place another file's record still held, a file with two records. `stale`, until
the next view that is told of it: what changed between a full listing and the
start token, and what a cycle left without a record. Each of them is a gap of the
code, most of them with a finding below; the properties say that there is no
other.

`DriveClient` is one process's tasks, each somewhere between its slot, the lock,
the token server and Drive.

| Part | State | Actions | Code |
|---|---|---|---|
| attempts | `at`, `attempt` | `Call`, `Retry` (with `Fail`, `Return`) | `client.rs:108-153`, `retry.rs:58-92` |
| pacing | `ahead`, `wait` | `Pace`, `Wake`, `Tick` | `client.rs:30-50` |
| tokens | `line` (the lock), `file`, `copy`, `bearer` | `UseStored`, `Load`, `LoadFails`, `Exchange`, `Save` | `auth.rs:187-261` |
| requests | `again` | `Send` | `client.rs:156-171` |
| around | | `Expire`, `Revoke`, `Setup`, `Crash` | clocks, Google, `oxidrive setup` |

Auxiliary: `level` (requests sent, one less with every interval), `lost` (a new
refresh token was never saved) and `replaced` (a setup was overtaken by a refresh
of the login before).

`Daemon` is the loop of `daemon.rs` and the thread of `watch/local.rs`. A cycle
is reduced to what the loop can see of it: it loads the records, scans, runs one
task per path and persists. A file is a stamp, fresh at every change, that stands
for content and modification time.

| Part | State | Actions | Code |
|---|---|---|---|
| loop | `pc`, `first`, `signalled`, `listening` | `StartWatcher`, `Tick`, `ReceiveEvent`, `Drain`, `WatcherStopped`, `Signal`, `Shutdown`, `Stop` | `daemon.rs:23-94`, `146-189` |
| cycle | `redb`, `mem`, `scanned`, `fetched`, `left` | `LoadFromRedb`, `LoadFails`, `ScanAndFetch`, `Upload`, `Download`, `TaskFails`, `Persist`, `SomethingFails` | `engine.rs:42-207`, `session.rs` |
| thread | `watcher`, `raw`, `known`, `sending`, `queued` | `Watch`, `Forward`, `Poll`, `SendPolled`, `LoseEvents`, `ThreadDies` | `local.rs:57-269` |
| process | | `Die`, `Restart` | `main.rs:401-431` |
| users | `disk`, `incoming` | `UserWrite`, `UserRemove`, `UserRename`, `OtherDevice` | external |

The auxiliary variable `unheard` holds the paths whose last change no event will
announce, and each way into it is a gap of the code that has a name: there is no
watcher yet, or none any more (`ChangeFolder`, `ThreadDies`); a file is back as it
was at the last poll (`Unannounced`); a rename has an ignored name on one side
(`Forward`); events were dropped (`LoseEvents`); the cycle an event started failed
(`CycleFails`, `TaskFails`). A second auxiliary variable, `loaded`, says that a
cycle of this process got past `load_from_redb`. For the paths of `unheard` the
interval is all there is, and `ChangesAreSynced` says it suffices; for all others
`QuietMeansSynced` says that a daemon with nothing left to do has synced them.

## Runs

| Run | Module | Instance | Shows |
|---|---|---|---|
| `causal` | CausalVectors | 3 devices, 3 writes each, 2 uncounted edits, room for 2 entries | vectors tell causality until the first is trimmed, grow until then, never exaggerate |
| `race` | MCSyncCycle | 2 devices, 3 contents, users act at any moment | no edit lost outside the windows |
| `crash` | MCSyncCycle | 1 device, 3 contents, 1 removal, 1 fault, users at any moment; synced or in first contact with a different file | no edit lost, effects never ahead of the journal |
| `mirror` | MCSyncCycle, fair | 2 devices, 2 contents, users between cycles | sides become one, tokens and records never ahead of what was seen |
| `mirror_crash` | MCSyncCycle, fair | 1 device, 3 contents, 1 fault | sides become one after a fault |
| `removal` | MCSyncCycle | 1 device, 2 removals, a touch, a deferred upload, saturated counter | only users delete |
| `removal_crash` | MCSyncCycle | 2 devices, 2 removals or restorations on the web, 2 faults | recovery of a deletion deletes nothing that came back |
| `resumable` | ResumableUpload, fair | 3 chunks, 1 edit, 3 faults, policies `conflict_copy` and `remote_wins` | refines `Transfer`; no duplicate, no false record, the file arrives |
| `session` | SessionStore | 2 paths, 4 tables, 2 operations, 2 cycles, 2 faults (crash, failing transaction, damaged row) | refines `Checkpoint`; journal and token never ahead of the rows |
| `folders` | MCFolderView | 2 folders, 2 files, 2 web edits, 1 local file in a directory Drive lacks, expired tokens, failed tasks | every view is what a listing would be; a file is created where Drive shows its directory |
| `client` | DriveClient, fair | 2 tasks, 1 retry, tokens that expire, are revoked, rotated or not saved, setups, crashes | slots not shared, no refresh token used twice, no login lost by a task, calls end |
| `daemon` | Daemon, fair | 1 path and an ignored name, channel of 1, either watcher, 3 changes, 1 fault, any number of signals and restarts | at rest all that was heard is synced, the rest later; echoes end, signals stop, the last persist forgets nothing that was loaded |

Why the bounds are enough. Every hazard the runs are for needs at most two
writers of one file and a third content to tell a lost edit from an old one;
three contents on two devices give every order of local edit, remote edit and
cycle. Two Drive files let a name be used twice and a copy be uploaded. One
fault is a crash, a failed request or an expired token at any step; a second one
is given where recovery itself must be interrupted (`removal_crash`). A run that
needs conflict copies has as many copy paths as conflicts can occur; where they
could run out (two devices that meet each other's copies) the bound on contents
prevents it. In `resumable` three chunks tell a first, a middle and a last one
apart, so a range answer may be behind, at or beyond the client. With one user,
Drive's version differs from the record only after an upload whose record was
lost, and then the local file differs from that record as well; so Drive's version
wins (`TakeRemote`) under `remote_wins` only. The run has the default policy and
that one; a cycle takes either, which includes every behaviour under one of them. In `daemon`
one path suffices for the liveness properties, since nothing in the loop relates
two of them; safety was also checked once with two paths, where one burst has
several events (9 million states, too many for a run that is repeated). A channel
of one makes the thread block as often as it can; three changes are one before,
one during and one after a cycle.

In `session` two faults are a damaged row and a crash, or a crash and another
one in its recovery; two operations are two tasks of one cycle or a first value
and its replacement. In `folders` one file is there from the start and one
comes, from the web or from a user; two edits bring a change before its folder,
a folder the upload is looking for between lookup and creation, or a change in
each of two batches. `FolderEdits` is `FALSE` in the run, since edited folders
are exempt anyhow and the state space grows too large for a run that is repeated
(with `TRUE`, 5.3 million states were explored without a violation and not to
the end). In `client` two tasks suffice for one to hold the lock and one to
wait; two retries, and three tasks without retries, were checked once. In
`resumable`, four files, six sessions and three edits and faults with two chunks
were checked for `NoDuplicates` once (15 million states).

Deadlock is checked wherever the cfg does not say otherwise: in `causal`, `race`,
`crash`, `removal` and `removal_crash` the users and the faults run out and an
idle device may simply stop being modelled; they have no fairness, and deadlock
is not checked.

Each property of a passing run has a mutant (a dropped guard, a missing entry, a
token stored too early, ...) that violates it under the run's own configuration;
the operators marked `Wrong:` are those.

### Fairness

`FairSpec` of `SyncCycle` has weak fairness of `Work(d)` for each device: a
cycle that can take a step does, and a new one starts. `run_daemon`
(`daemon.rs:23-94`) starts a cycle at every tick of the sync interval and runs
it inline to its end, so no cycle waits for another one and none is skipped for
ever. There is no fairness on single tasks beyond that: `Work(d)` is their
disjunction, and each task has finitely many steps. Faults and users are not
fair: they may stop at any time, and the bounds make them stop. `ResumableUpload`
assumes the same.

`FairSpec` of `Daemon`: the loop and the thread run (weak fairness). The three
branches of `select!` (`Tick`, `ReceiveEvent`, `Shutdown`) get strong fairness,
since each of them may be ready, passed over for another, and not be ready while
that one's cycle runs. `tokio::select!` without `biased` picks at random among the
ready branches, the interval ticks for ever, and a cancelled token stays
cancelled. The mutant `FairSpecBiased` shows that weak fairness would not do for
the signal. Users, signals, restarts and faults are not fair.

`FairSpec` of `DriveClient`: weak fairness of time (`Tick`) and of every task's
own steps (`Step(t)`), which tokio's scheduler, its fair mutex and the end of a
sleep give. `Step` includes the answers of Drive and of the token server, which
the code does *not* guarantee: neither HTTP client has a timeout. That a request
is answered, or its connection breaks, is an assumption, and a finding. The
mutant `FailUncounted` shows that the bound on retries is needed.

`SessionStore`, `FolderView` and `Checkpoint` state no liveness.

## Proofs

TLC checks the instances above; the theorems hold for every value of the
constants that satisfies the named assumptions.

`SyncCycle_proofs`, three parts. **JournalFirst** (`Spec => WriteAhead`): no step of the
executor changes Drive or a disk before the pending operation of that path is in
redb, started, and of the right kind; for any number of devices, files, paths,
contents, faults, and under every policy. `WriteAhead` is about steps. What makes
it true is an invariant, `JInv` (theorem **Invariance**): a task between its
first effect and its end has the entry its last journal write left, and no task
exists outside a running cycle. The second half is needed because recovery
rewrites the whole journal: without it a task could outlive the crash that ended
its cycle. The proof has one lemma per kind of step (a step of a running device
that touches only its own task, a step that resets the cycle, a step that leaves
tasks and journal alone) and one step per action.

**TypeCorrect** (`Spec => []TypeOK`), from `TInv` (theorem **TypeInvariance**). What
makes the types hold is what the parts know of each other: a record, a row of a
view and a change of the feed speak of a file that exists and has a content and
a name (`Sound`, `FilesHaveContents`), `before` orders those files totally, and a
task has what its next step needs (`Fit`: an update its file, a download its row,
a touch its record). The order is needed because both views are recursive
functions over a finite set of files, which take the last element of what is
left.

The third part is about those two functions, `ListAllFiles` and `IncrementalView`.
The library's induction rules take an operator for a parameter. So induction over
the subsets of a finite set takes a smallest counterexample from the well-founded
subset order; `ListingInduction` and `IncrementalInduction` state what it gives, once
for each function, for any set `Good` of views that every step of the code keeps:
then the result is in it. A proof about a view names a set and shows one step.
`FromRecords` does the same for the view made of records, and with them the range
of both views follows for any number of files.

`NothingLost_proofs`: **NothingLostBeforeFaults** (`Spec => [](faults = 0 =>
NoLossOutsideRaces)`) and **NothingLost** (with `MaxFaults = 0`, `Spec =>
[]NoLossOutsideRaces`), for any number of devices, files, paths, contents and
removals, every start, and users and browsers that act between any two steps.
**NothingLostByFaults** (`Spec /\ []PathsKeepFiles => []NoLossOutsideRaces`) adds
any number of crashes, failed requests, lost answers and expired tokens.
The hypotheses are those without which the code loses edits, or may:

* nothing has failed so far, or `PathsKeepFiles`: no download is decided for a path
  whose record is of another file of Drive. Without either, one failed request is
  enough to lose an edit where three files may have one name (below);
* `Resolution(Policy) = "keep_both"`, the default: `local_wins` and `remote_wins`
  lose one side of a conflict by intention;
* `SafeDelete`, the default (`config.rs:164`): otherwise a deletion keeps nothing;
* `CopyPaths \cap NumberedPaths = {}`: the name of a conflict's copy is not one
  that `dedupe_name_for_folder` would give to a twin. In the program the first
  has a time stamp, the second a number in parentheses; copies of copies are
  covered.

The invariant, `LInv`, follows a content from place to place. `Safe` is what is in
some `.trash/`, was replaced by a user or met a window, and that is for good.
`Kept` is what is safe, on Drive, or at the path of a copy that no file of Drive
is named after (`Held`): it stays kept whatever anybody does. What has to be
shown is that no step overwrites anything else, and why not depends on the step:

* `RecordGood`: what a record speaks of is kept. If its revision is still Drive's,
  its fingerprint is what Drive has, and what the disk had when the record was
  made is there still or was replaced by a user.
* `ScanGood`, `ViewGood`: what the matrix compares. A local file that differs from
  its scan is one that met the third window; a copy that only this device has is
  at a path where the view has nothing new.
* `DownloadGood`: a task that is to overwrite a local file overwrites what is kept
  elsewhere; `UploadGood`: what is being sent is on the disk or was replaced.
* `GuardGood`: a guarded update overwrites the content of the record it is guarded
  by, which a user replaced on disk, or finds that Drive has moved on.
  `LinkGood`: the update that ends a conflict comes after its copy, and is refused
  unless the copy is of the very revision it replaces.
* `OneOwner`: the path of a copy is used by one device until a file is named
  after it. Without it two devices could each rely on the other's copy.

For faults, `CrashInv` adds what a crash brings back and what a failed
download leaves:

* `StoredGood`: a record in redb is good in the sense of `RecordGood`, without the
  exception that a download is about to replace it: if its content is no longer on
  the disk, it is safe or Drive has moved on. A crash makes it the record in memory.
* `NewsGood`: where a download is to come, that holds of both records already. The
  matrix asks for a download only when the row differs from the record, and if both
  are of one file, Drive has moved on since. If they are of two files, the record can
  be current: after a fault it lets a guarded upload overwrite the file it is of with
  the content of the other. That is the finding at `engine.rs:245`, and the only
  place where the proof needs `PathsKeepFiles`.

TLC agrees on one device with two files and two faults, one device with three files
and one fault, and two devices with two files and one fault. The hypothesis admits
every download of a newer revision, every first download and every copy of a conflict.

A step is one of a task, of the phases or of a user; for each kind a lemma says
which parts it can disturb (`Grows`, `Yields`, `OnlyRaced`), and one lemma per
action does the rest. The fourth window, and that `settled` must not shrink when a
trashed file is restored, were found here: the first drafts of `LInv` were not
inductive, and TLC then found the runs to it.

`Fingerprints_proofs`: **NothingStaleForGood** and **SyncedDevicesAgree** (`Spec /\
[]Undisturbed /\ []Unmixed => []SyncedAgrees`), for any number of devices, files,
paths, contents, removals and *faults*, every policy and start, and users who act
at any moment. A crash, a failed request or an expired token never makes a device
stand still on old content. The hypotheses are about the environment, of every
moment of a behaviour, and each of them is needed:

* `OneFilePerName`: no two files of Drive have one name. Twins change places with
  each other's records (below);
* `ListingsCurrent`: nothing changes between a full listing and its start token;
* `defers = 0`: no upload is put off, since the token passes what it should wait for;
* for the agreement also `Unmixed`: no content meets a window, and a download gets
  what its row said. Otherwise a record can pair one content's fingerprint with
  another's local checksum (below).

In every state of the run `mirror` all of them hold, so they leave room for what the
theorem is about.

`FInv` follows a fingerprint from the row to redb. As long as the feed has no news
of its file: a record, in redb or in memory, has the checksum Drive has; a view has
it too, and shows every live file that a record speaks of; so a record that is no
longer true is renewed by the task of its path, or that task fails, and then the
token is not stored. The records of a cycle that dies are those of before, with the
token of before, hence the same news; that recovery only drops records is what makes
faults harmless here. The proof needs what an incremental view *is* and not only
where it lives: that with one file per name it shows exactly the file of that name,
as the feed or the record has it (by `IncrementalInduction`). `MInv` is the other
half: that the two checksums of a record are of one content, for which a touch and
a download that has been written must find the disk as they left it (`Trusting`,
`Justified`).

`CausalVectors_proofs`, for any finite set of devices:

* **TypeCorrect** and **NeverExaggerate**, from the invariant `WInv`: every
  vector claims only writes its owner has seen, every device's own counter in
  its record is its last write unless it was trimmed away, and equal revisions
  carry equal states. Neither needs that nothing is trimmed, since trimming only
  takes entries away.
* **TellCausality** and **Grow**, until a vector is trimmed: `Exact` says that
  while nothing was trimmed the vector of the Drive file counts exactly the
  writes in it and every record is behind it (`IInv`). Both properties need it:
  dominance compares what vectors *say*, and that is causality only if nothing
  is missing.
* **NeverTrimmed**: while the property has room for an entry of every device,
  nothing is ever trimmed. With the two above, up to that many devices may rely
  on vectors for good.

`Daemon_proofs`, for any folder, any capacity of the channel, any number of
changes and faults, with and without a folder id: **TypeCorrect** (the channel
never holds more than its capacity) and **RestIsSynced** (`Spec =>
[]QuietMeansSynced`). `QuietMeansSynced` speaks of a daemon at rest and is far from
inductive: what makes it true is `Covered`, which says of every path not in
`unheard` why it will be looked at. While the loop waits, a file that differs from
its record is announced (in the channel, in the kernel's events, or to be found by
the next poll); while tasks run, every path is announced, or scanned as it is, or
recorded as it is, synced or not, because what the persist will save is what the
cycle has caught. Between `ReceiveEvent` and the scan nothing is demanded: that
the drain comes before the scan is what the proof needs of `run_daemon`.
`ThreadInLoop` says that no thread watches during the first cycle, whose end
starts one. **Invariance** proves both with the types.

`SessionStore_proofs`, for any set of paths and any number of operations, cycles
and faults: **StoreImplementsCheckpoint** (the refinement of `Checkpoint`),
**JournalIsKept**, **TokenIsEarned** and **TypeCorrect**, from **Invariance**.
Its parts follow the rows on their way. `BatchInv`: until its commit a batch is
that of the memory and disk it was made from, which is why nothing may change
memory meanwhile. `DraftInv`: the open transaction holds the batch in the tables
written so far and the disk in the others. With both, the commit is one step of
`Checkpoint`, and every step before it a stutter. `RecoveryInv`: a journal row
that recovery has purged is kept until the purge is on disk. `ResultInv`: in a
running cycle a committed journal row is one whose task has left its rows in
memory; recovery starts from no such row.

`DriveClient_proofs`, for any finite set of tasks and any number of retries:
**TypeCorrect**, **ExchangedOnce** and **LoginStays** from **Invariance**, and
**RateIsLimited**. `Locked` says that only the head of the line has a refresh
token in hand and that it is the one in the file or one of a former login;
`Login` says where the current refresh token is when it is not in the file.
`LineOK` makes the line a queue without repetitions of exactly those that want
the lock. For the rate, `RInv` counts: what was sent plus the slots in hand is at
most the number of tasks plus the slots ahead; every slot ahead has a task that
sleeps for it. The second half is what lets an interval pass.

`ResumableUpload_proofs`, for any number of files, sessions, chunks, edits and
faults and under every policy: **TypeCorrect** and **OneFilePerContent** (`Spec =>
NoDuplicates`), from **Invariance**. A creation looks for an identical file once,
before its first chunk; that none exists has to last until the last chunk, over
lost answers, expired sessions and their replacement (`CreationInv`). What makes
that true lies outside the transfer: a session that survives its attempt is never
one that Drive still has open (`SessionInv`), because recovery drops the session of
every transfer that was interrupted. The finding about resumption below is thus
the other face of this theorem: were interrupted uploads resumed, the identical
file would have to be looked for again.

The same module has **UploadImplementsTransfer** (`Spec => ImplementsTransfer`),
action by action (`QuietLands`, `FailLands`, `CycleLands`, `CommitLands`,
`ArrivedLands`): the last chunk is `Land`, whether its answer arrives or not, and
asking again is a stutter. `LandInv` says why it can be no second one: a session
has no file while Drive has it open, one that is sent to and open belongs to the
running attempt (`OwnSession`), and what it has finished is the attempt's content
or torn. That a new file is no duplicate is `CreationInv` again. And it has
**OneFaultTellsTruth**: if `MaxFaults <= 1`, `Spec => CommitTellsTruth`, under every
policy and for any number of edits. `TruthInv` carries it: a stored session that
has finished stands for what is on Drive, because before the first fault no session
outlives its attempt, and after it no crash brings one back from redb. The bound
is sharp: with two faults records can be false (below).

**StopKeepsRecords** (`Daemon_proofs`, `Spec => ShutdownKeepsRecords`): the last
persist of a process that has loaded the records once keeps that of every file
which is on the disk as recorded. `Remembered` says that after the load memory has
such a record too, or the running task is about to write it; `StampsOld` says that
a change gets a stamp nobody holds, so that no changed file looks unchanged.

Only model-checked:

* liveness (`Converges`, `Arrives`, `UploadArrives`, `ChangesAreSynced`, `Settles`,
  `SignalStops`, `CallsEnd`), which is out of the prover's reach;
* `NoLossOutsideRaces` after a fault without `PathsKeepFiles`, `SyncedAgrees` without
  the hypotheses above and `CommitTellsTruth` with two faults and more: true of some instances only;
* `DeletionsFollowUsers`. It holds of the runs, which have either conflict copies or
  removals, and one kind of surprise at a time. For more the code breaks it in five
  ways (copies, deferred uploads, trashed twins, unguarded deletions, restored files;
  below), all of which a theorem would have to exclude;
* `NothingMissed`. It compares revisions, and while `FInv` carries fingerprints
  through purged records and contents that come back, revisions do not survive
  them: a record may be of an older revision with the same content;
* all of `FolderView`, whose paths are RECURSIVE operators, for which no prover
  has a rule here.

## What the models found

`findings` in `PROJECT.json` has the lines. Each is reproduced by changing the
constants, or one property, of a run.

* **A deletion in the browser never reaches the disk.** A trashed file is rebuilt
  from its record in the very cycle that should confirm the deletion
  (`engine.rs:540`), and its tombstone is cleared. `docs/architecture/multi-user.md:87`
  says the deletion is confirmed. `mirror` with one device, `Files = {1, 2}`,
  `MaxContent = 3`, `Removers = {"web"}`, `MaxRemovals = 1`: `WebDeletes` is violated.
* **Deleting a conflict copy trashes the canonical file**: the record of the copy
  carries its Drive id (`executor.rs:1352`). `removal` with `MaxCount = 4`,
  `Files = {1, 2}`, `MaxContent = 3`, `Paths = {"a","a2","c"}`, `CopyPaths = {"c"}`,
  `Starts = {"synced"}`, `Racing = FALSE`, `Removers = {"disk"}`, `MaxRemovals = 1`,
  `MaxTouches = 0`, `MaxDefers = 0`: `DeletionsFollowUsers` is violated.
* **A stop can delete every record.** If every cycle fails before it has loaded
  them, e.g. because `drive_folder_id` is missing, the last persist replaces them
  by nothing (`daemon.rs:91`). `daemon` with `Spec`, `Paths = {"a","b"}`,
  `Loads = FALSE`, `MaxChanges = 1`, `MaxFaults = 0`: `ShutdownSavesState` is
  violated. `ShutdownKeepsRecords` is what holds.
* **A folder is created twice** although `folders.rs:36` says otherwise: lookup and
  creation are two requests, and a lost answer repeats the second. `FolderView`
  with three folders, `MaxEdits = 0` and `UploadsWhereShown` without `Unsure`.
* **Folder ids are for ever** (`session.rs:692`): files go into folders that were
  renamed, moved or trashed. `FolderView` with `FolderEdits = TRUE`, `MaxEdits = 1`
  and `UploadsWhereShown` without `Unsure`.
* **Slots are paced, not requests** (`client.rs:15`): after a wait for the lock
  several leave at once. `client` with `level <= 1` for `RateLimited`.
* **No request has a timeout** (`client.rs:60`): one that is never answered, in the
  hands of the holder of the refresh lock, stops the process for good.
* **An upload that is put off hides an edit.** It is not an error
  (`executor.rs:889`), so the token passes an edit on the web that nobody has
  downloaded; a later local removal trashes it. `removal` with the constants of
  the conflict copy above and `MaxDefers = 1`: `DeletionsFollowUsers` is violated.
* **An interrupted upload never resumes.** Recovery purges its stored session
  (`engine.rs:306`). `resumable` with `Spec`, `MaxEdits = 0`, `MaxFaults = 1` and
  the property `ResumesWhereItStopped`, which is violated.
* **A rename with one ignored name is no event** (`local.rs:229`): a download
  tool that renames `x.part` to `x` is heard of at the next tick only, as
  `phase2-watcher.md:149` does not say. `daemon` without `unheard` in
  `QuietMeansSynced`.
* **The daemon hears itself** (`daemon.rs:72`): `phase2-watcher.md:123` has the
  events of files a cycle wrote filtered, and nothing does. Harmless, by
  `Settles`.
* **A finished transfer whose record was not committed can cost an edit.**
  `crash` with `Paths = {"a","a2","c"}`, `CopyPaths = {"c"}`, `MaxContent = 2`,
  `Starts = {"same"}`, `Racing = FALSE`, `MaxRemovals = 0`, `MaxFaults = 2`:
  `NoLossOutsideRaces` is violated. Recovery keeps the record of another Drive
  file (`engine.rs:245-248`). With users at any moment one failed request suffices:
  `Files = {1, 2, 3}`, `MaxContent = 3`, `Starts = {"same", "synced", "different"}`,
  `Racing = TRUE`, `MaxRemovals = 1`, `MaxFaults = 1` (65 states).
* **A trashed twin deletes the local copy of another file.** The change of a file
  nobody has a record of is placed by its name, and its trashing removes the entry
  of the tracked file of that name (`engine.rs:512`); twice in a row, that confirms a
  deletion. `removal_crash` with `Files = {1, 2}`, `Paths = {"a","a2","c"}`,
  `CopyPaths = {"c"}`, `MaxContent = 2`, `Starts = {"synced"}`, `Racing = FALSE`,
  `Removers = {"web"}`, `MaxRemovals = 5`, `MaxTouches = 0`, `MaxFaults = 0` and
  `MaxDefers = 0`: `DeletionsFollowUsers` is violated.
* **A download that is overtaken mixes two revisions in one record**
  (`executor.rs:1345-1353`): what Drive has now, with the fingerprint listed before.
  When Drive has the listed content again, nothing is new about the file, and the
  device keeps the other for good. `mirror` with `Spec`, `Files = {1}`,
  `Starts = {"same", "empty"}` and `Racing = TRUE`: `SyncedAgrees` is violated.
* **A confirmed deletion trashes what another device has just uploaded**: the
  request has no revision guard (`executor.rs:1434`). `removal_crash` with two
  devices, `Files = {1}`, `MaxContent = 2`, `Starts = {"synced"}`, `Racing = FALSE`,
  `Removers = {"disk"}`, `MaxRemovals = 1` and no faults: `DeletionsFollowUsers` is
  violated. Likewise, a file the user removed and a browser trashed and restored is
  trashed again by the device that had confirmed its removal.
* **A download that finds its file gone leaves a stale record** (the fourth window;
  `upsert_local_record` fails in `executor.rs:1356`, the record of what was
  replaced stays). `race` with one device, `Files = {1, 2}`, `MaxContent = 5`,
  `Paths = {"a","a2","c"}`, `Starts = {"same"}`, `Removers = {"disk"}`,
  `MaxRemovals = 1` and without `raced'` in `CommitDownload`: two twins of a name,
  the user removes what was just downloaded over one of them, and in a run of 68
  states the last copy of an edit is gone.
* **A file put back during its upload stays torn.** `resumable` with
  `MaxEdits = 2`, `MaxFaults = 0`: `UploadArrives` is violated. The stability
  test is done once, before the transfer.
* **A finished session can be resumed.** `resumable` with `MaxEdits = 2`,
  `MaxFaults = 2`: `CommitTellsTruth` is violated, after a request and the
  process failed at the right moments; the record claims a content that was
  never sent again. That is with `Policies = {"conflict_copy"}`, or
  `{"local_wins"}`; with `{"remote_wins"}` not within these bounds. One fault never
  suffices (`OneFaultTellsTruth`).

Observed, and of less weight:

* **Recovery does not evaluate from scratch.** After a purge the view is still
  built from feed and records, and the purged file is in neither
  (`engine.rs:243`). What it leads to is a link by content, a second Drive file
  or a copy, hence `Converges` still holds in `mirror_crash`.
* **Recovery makes conflict copies of equal files**, which `engine.rs:245-248`
  set out to avoid: after an upload that took effect, record and Drive differ
  and so do record and disk.
* **A conflict copy does not reach Drive** (`multi-user.md:75`): its record says
  it is the canonical file, so nothing is new about it.
* **First contact with an identical file stores no record** (`decision.rs:180`).
  `mirror` with one device and `Starts = {"same"}`: `Arrives` is violated, since a
  later edit on one side finds no record and a conflict ends it.
* **The listing is older than the token.** `mirror` with `Starts = {"empty"}`
  and `Racing = TRUE`: `NothingMissed` is violated by a change between the full
  listing and the request for the start token (`engine.rs:403-428`). In
  `FolderView` these changes are `missed`, and `stale`.
* **Vectors with too many devices.** Without `~trimmed`, `VectorsTellCausality`
  is violated in `causal` even with `MaxEdits = 0`.
* **Copies of copies** (`executor.rs:639`). `mirror` with `MaxContent = 3` and copy
  paths `c`, `e`, `g`: two devices use up any number of copy paths. The number of
  copy paths is the model's, so this is a tendency and no proof of one.

Eleven hazards are without a property. Nine are so because what they threaten is
what the code does, and the property that would say otherwise is violated or names
them as an exemption: a trashed file that comes back from its record
(`engine.rs:540`), the record of a conflict copy (`executor.rs:1352`), an upload
that is put off (`executor.rs:889`), trashed twins (`engine.rs:512`), the listing
that is older than its token (`engine.rs:420`), first contact (`decision.rs:180`),
folders created twice (`folders.rs:74`), folder ids that are never dropped
(`session.rs:692`) and the last persist of a store that was never loaded
(`daemon.rs:91`). The numbering of twins (`engine.rs:617`) differs between listing
and feed, and files do change places; `ViewIsListing` exempts twins, and in
`removal`, `crash` and the runs after faults, where two files of one name come
about, no property depends on which of them has the plain name. An empty vector
(`coordination.rs:93`) is modelled by `Written` and reached by no run.

The passing runs choose their constants so that these do not hide everything
else: one start at a time, users between cycles where a window would dominate.

## What is not modelled, and why

* **Tree and tasks at once.** `FolderView` settles a path in one step or leaves it
  as it was; `SyncCycle` has the tasks in one flat folder. The composition is
  far beyond TLC; each is checked with what it takes from the other left open
  (which paths fail, where a view comes from).
* **Paging, several parents, ignore patterns, symlinks.** A listing or a feed is
  read as one request that works or fails.
* **Workspace documents.** Only the matrix knows them. Export names, export
  fingerprints and the conversion table are missing.
* **A second process.** `handle_sync` (`main.rs:403`) reads the token file before it
  takes redb's lock; `Setup` in `DriveClient` is the only other process modelled.
  The browser flow before a setup's token is saved is not.
* **The client and the tasks at once.** In `SyncCycle` a request works or fails for
  good, before or after its effect; `DriveClient` knows nothing of what a request
  is for. `ResumableUpload` has chunks sent twice, `FolderView` creations.
* **The daemon and the tasks at once.** `Daemon` has cycles without journal,
  token, conflicts and deletions; `SyncCycle` has cycles that simply start again.
* **Timing.** The debounce, the half second before a drain and the interval have
  no length; what `persist_sync_summary` writes is read by `oxidrive status` only.
* **redb itself.** Its transactions are atomic; device identity and leases in redb
  have no effect on sync state.
* **Renames of a file by an editor during a transfer.** In `ResumableUpload` an
  edit writes in place; a rename would leave the open handle on the old file and
  is the harmless case.
* **Configuration, command line, service files, index, conflict log, logging.**
  I/O and presentation with no effect on sync state.

## Plan

Done: version vectors, matrix, sync cycle, resumable uploads and the transfer they
implement, daemon and watcher, session store and its checkpoint, folder tree, Drive
client and login, the eight modules of proofs. Next, in this order:

1. `DeletionsFollowUsers` as a theorem, in a model where the five defects behind it
   are mended: a change of an unknown file touches no other file's row, deletions
   carry a revision, a copy's record its own id.
2. An abstract mirror (a set of contents with owners) that `SyncCycle` without
   faults implements, as a refinement.
3. `CommitTellsTruth` for any number of faults, in a model where a finished session
   is dropped or asked for its file's content before it is trusted.
4. `FolderView` with folder edits in a run, once paths are functions of the
   tree that TLC evaluates faster; its properties without `odd` where the code
   is mended.
5. Workspace conversion in `SyncCycle`, as a second kind of file.
