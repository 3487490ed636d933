------------------------- MODULE Fingerprints_proofs -------------------------
(***************************************************************************)
(* What a device believes of Drive is true, or news is on its way:         *)
(* SyncedAgrees of SyncProperties, for every number of devices, files,     *)
(* paths and contents, every policy, every start, users who act at any     *)
(* moment, and any number of crashes, failed requests and expired tokens.  *)
(*                                                                         *)
(* The hypotheses are those without which the code breaks the promise      *)
(* (README.md has the counterexamples).  They speak of every moment of a   *)
(* behaviour, not of one step: no two files of Drive have the same name,   *)
(* nothing changes between a first listing and the token asked for after   *)
(* it, and no upload is put off.                                           *)
(*                                                                         *)
(* The invariant, FInv, follows the fingerprint of a record from the row   *)
(* it is taken from to redb.  As long as the feed has no news of the file: *)
(*  - a record, in redb or in memory, has the checksum Drive has;          *)
(*  - a view has it, and shows every live file that a record speaks of;    *)
(*  - so a record that is no longer true is renewed by the task of its     *)
(*    path, or that task fails, and then the token is not stored.          *)
(* A record is true again before its cycle ends, or the next cycle gets    *)
(* the same news.                                                          *)
(*                                                                         *)
(* A record also says what the device has.  The second invariant, MInv, is *)
(* that the two halves of a record are one content; it needs that no       *)
(* download is overtaken by a change after its row was listed.  The two    *)
(* invariants together are SyncedAgrees.                                   *)
(***************************************************************************)
EXTENDS SyncCycle_proofs

-----------------------------------------------------------------------------
(* The hypotheses.                                                         *)

\* No two files, in the trash or not, have the same name.
OneFilePerName ==
  \A f, g \in Files :
    (/\ Exists(f) /\ Exists(g)
     /\ drive[f].name = drive[g].name /\ drive[f].name \in HomePaths) => f = g

\* A listing that no token covers yet is what Drive has.
ListingsCurrent ==
  \A d \in Devices : pc[d] = "listed" => view[d] = ListAllFiles

Undisturbed == OneFilePerName /\ ListingsCurrent /\ defers = 0

-----------------------------------------------------------------------------
(* The invariant.                                                          *)

\* If f can still be seen, c is its checksum.
Has(f, c) == Live(f) => drive[f].md5 = c

\* A fingerprint in redb is that of the file on Drive, unless the feed has
\* news of that file: no change of Drive is missed for good.
FingerprintsTrue ==
  \A d \in Devices, p \in HomePaths :
    (rec[d][p] # None /\ rec[d][p].id \notin unseen[d])
    => Has(rec[d][p].id, rec[d][p].fp)

\* A row or a record at a path is of the file that has the name.
Names(r, p) == r # None => drive[r.id].name = p

\* A record is true, or its file is among the news.
Told(m, news) == m # None /\ m.id \notin news => Has(m.id, m.fp)

RecordsTrue(d, p) ==
  /\ Names(rec[d][p], p) /\ Told(rec[d][p], unseen[d])
  /\ Names(mem[d][p], p) /\ Told(mem[d][p], unseen[d])

\* The view a cycle decides on.
ViewTrue(d, p) ==
  LET m == mem[d][p]
      r == view[d][p]
  IN  /\ pc[d] \in {"listed", "viewed"} => Names(r, p)
      /\ pc[d] = "viewed" =>
           /\ m # None /\ m.id \notin fresh[d] /\ Live(m.id) => r # None
           /\ r # None /\ r.id \notin fresh[d] => Has(r.id, r.md5)

\* A task is about the file of that name; a download knows what it is to get.
TaskNamed(d, p) ==
  LET t == todo[d][p]
  IN  /\ Names(t.row, p)
      /\ t.id # None => Exists(t.id) /\ drive[t.id].name = p

TaskTrue(d, p) ==
  LET t == todo[d][p]
  IN  (/\ pc[d] = "running" /\ t.act = "download"
       /\ t.row # None /\ t.row.id \notin fresh[d])
      => Has(t.row.id, t.row.md5)

\* Has the record of the path to be written by the task t?
Renewing(t) == ~Over(t) /\ t.act \in {"conflict", "update", "download"}

\* A record that is not true is being renewed, or this token is not stored.
Renewed(d, p) ==
  LET m == mem[d][p]
  IN  pc[d] = "running" /\ ~errs[d]
      => Told(m, fresh[d]) \/ Renewing(todo[d][p])

Agrees(d, p) ==
  /\ RecordsTrue(d, p) /\ ViewTrue(d, p) /\ TaskNamed(d, p)
  /\ TaskTrue(d, p) /\ Renewed(d, p)

\* What is new for the token in hand is new for the one in redb.
FeedsNest == \A d \in Devices : fresh[d] \subseteq unseen[d]

\* The inductive invariant.
FInv == FeedsNest /\ \A d \in Devices, p \in HomePaths : Agrees(d, p)

-----------------------------------------------------------------------------
(* What goes on while Drive moves.                                         *)

\* Files keep their names.
NamesStay ==
  \A f \in Files : Exists(f) => Exists(f)' /\ drive'[f].name = drive[f].name

\* d is told of every file that changes.
Noted(d) ==
  /\ unseen[d] \subseteq unseen'[d] /\ fresh[d] \subseteq fresh'[d]
  /\ \A f \in Files : Exists(f) /\ drive'[f] # drive[f] =>
       f \in unseen'[d] /\ (Tracking(d) => f \in fresh'[d])

\* Every device is.
AllNoted == NamesStay /\ \A d \in Devices : Noted(d)

\* A change of Drive is noted.
LEMMA ChangeNoted ==
  ASSUME TInv, NEW f \in Files, NEW file, ChangeDrive(f, file), file.st # "none",
         Exists(f) => file.name = drive[f].name
  PROVE  AllNoted /\ (FeedsNest => FeedsNest')
<1>1. drive' = [drive EXCEPT ![f] = file] /\ drive \in [Files -> DriveFile]
  BY DEF ChangeDrive, TInv, DriveOK
<1>2. NamesStay
  BY <1>1 DEF NamesStay, Exists
<1>3. \A d \in Devices : Noted(d)
  BY <1>1 DEF Noted, ChangeDrive
<1>4. FeedsNest => FeedsNest'
  BY DEF FeedsNest, ChangeDrive
<1> QED
  BY <1>2, <1>3, <1>4 DEF AllNoted

\* So is nothing.
LEMMA QuietNoted ==
  ASSUME UNCHANGED driveVars
  PROVE  AllNoted /\ (FeedsNest => FeedsNest')
BY DEF driveVars, AllNoted, NamesStay, Noted, Exists, FeedsNest

\* A file the feed has no news of is what it was.
LEMMA HasStays ==
  ASSUME NEW d \in Devices, Noted(d), NEW f \in Files, Exists(f), NEW c, Has(f, c),
         f \notin unseen'[d] \/ (Tracking(d) /\ f \notin fresh'[d]),
         drive'[f].st = "live"
  PROVE  drive'[f].md5 = c
BY DEF Noted, Has, Live

\* A record, or the row it was, that nobody touches stays true.
LEMMA ToldStays ==
  ASSUME NEW d \in Devices, AllNoted, NEW id \in Files, Exists(id), NEW c
  PROVE  /\ drive'[id].name = drive[id].name
         /\ (id \notin unseen[d] => Has(id, c))
            => (id \notin unseen'[d] /\ drive'[id].st = "live" => drive'[id].md5 = c)
         /\ Tracking(d) /\ (id \notin fresh[d] => Has(id, c))
            => (id \notin fresh'[d] /\ drive'[id].st = "live" => drive'[id].md5 = c)
BY HasStays DEF AllNoted, NamesStay, Noted

-----------------------------------------------------------------------------
(* A path of a device whose phase stays.                                   *)

\* What becomes of the record in memory: it goes, or it is written anew from
\* what Drive has, or it stays, and with it what is to renew it.
RecordGoes(d, p) ==
  LET m == mem[d][p]
  IN  \/ m' = None
      \/ Names(m, p)' /\ Told(m, fresh[d])'
      \/ /\ m # None /\ m' # None /\ m'.id = m.id /\ m'.fp = m.fp
         /\ \/ errs'[d]
            \/ errs'[d] = errs[d] /\ (Renewing(todo[d][p]) => Renewing(todo'[d][p]))

\* A download goes on with the row it has.
TaskGoes(d, p) ==
  todo'[d][p].act = "download" =>
    todo[d][p].act = "download" /\ todo'[d][p].row = todo[d][p].row

\* Then what is said of the path goes on being true.
LEMMA AgreesStays ==
  ASSUME TInv, AllNoted, NEW d \in Devices, NEW p \in HomePaths, Agrees(d, p),
         fresh'[d] \subseteq unseen'[d], pc'[d] = pc[d], rec'[d][p] = rec[d][p],
         view'[d][p] = view[d][p], pc[d] # "running" => mem'[d][p] = mem[d][p],
         TaskNamed(d, p)', TaskGoes(d, p), RecordGoes(d, p)
  PROVE  Agrees(d, p)'
<1> p \in Paths
  BY DEF HomePaths
<1> DEFINE m == mem[d][p]
           k == rec[d][p]
           r == view[d][p]
           t == todo[d][p]
<1>1. /\ m # None => m.id \in Files /\ Exists(m.id)
      /\ k # None => k.id \in Files /\ Exists(k.id)
      /\ r # None => r.id \in Files /\ Exists(r.id)
      /\ t.row # None => t.row.id \in Files /\ Exists(t.row.id)
  BY DEF TInv, StoreOK, TasksOK, Task, Fit, Sound, Record, Snapshot
<1>2. Names(k, p)' /\ Told(k, unseen[d])'
  <2>1. k # None => Names(k, p) /\ (k.id \notin unseen[d] => Has(k.id, k.fp))
    BY DEF Agrees, RecordsTrue, Told
  <2> HIDE DEF k
  <2>2. k # None => /\ drive'[k.id].name = p
                    /\ k.id \notin unseen'[d] /\ drive'[k.id].st = "live"
                       => drive'[k.id].md5 = k.fp
    BY <1>1, <2>1, ToldStays DEF Names
  <2> QED
    BY <2>2 DEF Names, Told, Has, Live, k
<1>3. m # None => /\ drive'[m.id].name = p
                  /\ m.id \notin unseen'[d] /\ drive'[m.id].st = "live"
                     => drive'[m.id].md5 = m.fp
                  /\ /\ Tracking(d) /\ (m.id \notin fresh[d] => Has(m.id, m.fp))
                     /\ m.id \notin fresh'[d] /\ drive'[m.id].st = "live"
                     => drive'[m.id].md5 = m.fp
  <2>1. m # None => Names(m, p) /\ (m.id \notin unseen[d] => Has(m.id, m.fp))
    BY DEF Agrees, RecordsTrue, Told
  <2> HIDE DEF m
  <2> QED
    BY <1>1, <2>1, ToldStays DEF Names
<1>4. Names(m, p)' /\ Told(m, unseen[d])'
  BY <1>3 DEF RecordGoes, Names, Told, Has, Live
<1>5. RecordsTrue(d, p)'
  BY <1>2, <1>4 DEF RecordsTrue
<1>6. ViewTrue(d, p)'
  <2>1. pc[d] \in {"listed", "viewed"} /\ r # None => drive'[r.id].name = p
    <3>1. pc[d] \in {"listed", "viewed"} => Names(r, p)
      BY DEF Agrees, ViewTrue
    <3> HIDE DEF r
    <3> QED
      BY <1>1, <3>1, ToldStays DEF Names
  <2>2. ASSUME pc[d] = "viewed", r # None
        PROVE  r.id \notin fresh'[d] /\ drive'[r.id].st = "live" => drive'[r.id].md5 = r.md5
    <3>1. r.id \notin fresh[d] => Has(r.id, r.md5)
      BY <2>2 DEF Agrees, ViewTrue
    <3>2. Tracking(d)
      BY <2>2 DEF Tracking
    <3> HIDE DEF r
    <3> QED
      BY <1>1, <2>2, <3>1, <3>2, ToldStays
  <2>3. ASSUME pc[d] = "viewed", m # None, m.id \notin fresh'[d], drive'[m.id].st = "live"
        PROVE  r # None
    <3>1. m.id \notin fresh[d] /\ drive[m.id].st = "live"
      BY <1>1, <2>3 DEF AllNoted, Noted, Tracking
    <3> QED
      BY <2>3, <3>1 DEF Agrees, ViewTrue, Live
  <2> QED
    BY <2>1, <2>2, <2>3 DEF ViewTrue, Names, Has, Live
<1>7. TaskTrue(d, p)'
  <2> SUFFICES ASSUME pc[d] = "running", t'.act = "download", t'.row # None, t'.row.id \notin fresh'[d],
                      drive'[t'.row.id].st = "live"
               PROVE  drive'[t'.row.id].md5 = t'.row.md5
    BY DEF TaskTrue, Has, Live
  <2>1. t.act = "download" /\ t'.row = t.row
    BY DEF TaskGoes
  <2>2. t.row.id \notin fresh[d] => Has(t.row.id, t.row.md5)
    BY <2>1 DEF Agrees, TaskTrue
  <2>3. Tracking(d)
    BY DEF Tracking
  <2> HIDE DEF t
  <2> QED
    BY <1>1, <2>1, <2>2, <2>3, ToldStays
<1>8. Renewed(d, p)'
  <2> SUFFICES ASSUME pc[d] = "running", ~errs'[d], ~Renewing(t'), m' # None,
                      m'.id \notin fresh'[d], drive'[m'.id].st = "live"
               PROVE  drive'[m'.id].md5 = m'.fp
    BY DEF Renewed, Told, Has, Live
  <2>1. CASE Told(m, fresh[d])'
    BY <2>1 DEF Told, Has, Live
  <2>2. CASE m # None /\ m'.id = m.id /\ m'.fp = m.fp /\ ~errs[d] /\ ~Renewing(t)
    <3>1. Tracking(d) /\ (m.id \notin fresh[d] => Has(m.id, m.fp))
      BY <2>2 DEF Agrees, Renewed, Told, Tracking
    <3> QED
      BY <1>3, <2>2, <3>1
  <2> QED
    BY <2>1, <2>2 DEF RecordGoes
<1> QED
  BY <1>5, <1>6, <1>7, <1>8 DEF Agrees

\* A task about the same file, with the same row, is named as it was.
LEMMA TaskNamedStays ==
  ASSUME TInv, AllNoted, NEW d \in Devices, NEW p \in Paths, TaskNamed(d, p),
         todo'[d][p].id = todo[d][p].id,
         todo'[d][p].row \in {None, todo[d][p].row}
  PROVE  TaskNamed(d, p)'
<1> DEFINE t == todo[d][p]
<1>1. t.row # None => t.row.id \in Files /\ Exists(t.row.id)
  BY DEF TInv, TasksOK, Task, Fit, Sound, Snapshot
<1>2. t.id # None => t.id \in Files
  BY DEF TInv, TasksOK, Task
<1>3. /\ t.row # None => drive[t.row.id].name = p
      /\ t.id # None => drive[t.id].st # "none" /\ drive[t.id].name = p
  BY DEF TaskNamed, Names, Exists
<1> HIDE DEF t
<1>4. /\ t.row # None => drive'[t.row.id].name = p
      /\ t.id # None => drive'[t.id].st # "none" /\ drive'[t.id].name = p
  BY <1>1, <1>2, <1>3 DEF AllNoted, NamesStay, Exists
<1> QED
  BY <1>4 DEF TaskNamed, Names, Exists, t

\* A task with nothing to do names nothing.
LEMMA NoTaskNamed ==
  ASSUME NEW d \in Devices, NEW p \in Paths, todo'[d][p] \in {NoTask, FailedTask}
  PROVE  TaskNamed(d, p)'
BY DEF TaskNamed, Names, NoTask, FailedTask

\* A device that no step of its own touches.
LEMMA OtherAgrees ==
  ASSUME TInv, FInv, AllNoted, FeedsNest', NEW d \in Devices,
         UNCHANGED <<pc[d], rec[d], mem[d], view[d], todo[d], errs[d]>>
  PROVE  \A p \in HomePaths : Agrees(d, p)'
<1> SUFFICES ASSUME NEW p \in HomePaths
             PROVE  Agrees(d, p)'
  OBVIOUS
<1>1. p \in Paths /\ Agrees(d, p) /\ fresh'[d] \subseteq unseen'[d]
  BY DEF HomePaths, FInv, FeedsNest
<1>2. TaskNamed(d, p)'
  BY <1>1, TaskNamedStays DEF Agrees
<1>3. TaskGoes(d, p) /\ RecordGoes(d, p)
  BY DEF TaskGoes, RecordGoes
<1> QED
  BY <1>1, <1>2, <1>3, AgreesStays

\* A task that goes on as it is, is looked at, or fails with another.
Beside(d, q) ==
  LET t == todo[d][q]
      u == todo'[d][q]
  IN  \/ u = FailedTask /\ errs'[d]
      \/ u.act = t.act /\ u.at = t.at /\ u.id = t.id /\ u.row = t.row

\* A step of one task keeps the invariant when it keeps what is said of its path.
LEMMA StepOfPath ==
  ASSUME TInv, FInv, AllNoted, FeedsNest', NEW d \in Devices, NEW p \in Paths,
         pc[d] = "running", UNCHANGED <<rec, pc, view>>,
         \A e \in Devices \ {d} : mem'[e] = mem[e] /\ todo'[e] = todo[e] /\ errs'[e] = errs[e],
         errs'[d] \in {TRUE, errs[d]},
         \A q \in HomePaths \ {p} : mem'[d][q] = mem[d][q] /\ Beside(d, q),
         p \in HomePaths => TaskNamed(d, p)' /\ TaskGoes(d, p) /\ RecordGoes(d, p)
  PROVE  FInv'
<1>1. ASSUME NEW e \in Devices \ {d}
      PROVE  \A q \in HomePaths : Agrees(e, q)'
  BY OtherAgrees
<1>2. ASSUME NEW q \in HomePaths
      PROVE  Agrees(d, q)'
  <2>1. q \in Paths /\ Agrees(d, q) /\ fresh'[d] \subseteq unseen'[d]
    BY DEF HomePaths, FInv, FeedsNest
  <2>2. CASE q = p
    BY <2>1, <2>2, AgreesStays
  <2>3. CASE q # p
    <3>1. TaskNamed(d, q)'
      BY <2>1, <2>3, TaskNamedStays, NoTaskNamed DEF Agrees, Beside
    <3>2. TaskGoes(d, q)
      BY <2>3 DEF TaskGoes, Beside, FailedTask, NoTask
    <3>3. RecordGoes(d, q)
      BY <2>3 DEF RecordGoes, Beside, Renewing, Over
    <3> QED
      BY <2>1, <3>1, <3>2, <3>3, AgreesStays
  <2> QED
    BY <2>2, <2>3
<1> QED
  BY <1>1, <1>2 DEF FInv

-----------------------------------------------------------------------------
(* How a task steps.                                                       *)

\* A task that fails takes its error with it.
LEMMA FailAgrees ==
  ASSUME TInv, FInv, AllNoted, FeedsNest', NEW d \in Devices, NEW p \in Paths,
         pc[d] = "running", UNCHANGED <<rec, pc, view, mem>>, FailTask(d, p)
  PROVE  FInv'
<1>1. /\ todo' = [todo EXCEPT ![d] = [q \in Paths |->
                    IF q = p \/ todo[d][q].after = p THEN FailedTask ELSE todo[d][q]]]
      /\ todo \in [Devices -> [Paths -> Task]]
  BY DEF FailTask, TInv, TasksOK
<1>2. errs'[d] = TRUE /\ \A e \in Devices \ {d} : errs'[e] = errs[e]
  BY DEF FailTask, TInv, CycleOK
<1>3. \A e \in Devices \ {d} : todo'[e] = todo[e]
  BY <1>1
<1>4. \A q \in Paths : todo'[d][q] \in {FailedTask, todo[d][q]}
  BY <1>1
<1>5. todo'[d][p] = FailedTask
  BY <1>1
<1>6. p \in HomePaths => TaskNamed(d, p)' /\ TaskGoes(d, p) /\ RecordGoes(d, p)
  BY <1>2, <1>5, NoTaskNamed DEF TaskGoes, RecordGoes, FailedTask, NoTask
<1>7. \A q \in HomePaths \ {p} : Beside(d, q)
  BY <1>2, <1>4 DEF Beside, HomePaths
<1> QED
  BY <1>2, <1>3, <1>6, <1>7, StepOfPath

\* One task becomes u; the others stay.
LEMMA SetAgrees ==
  ASSUME TInv, FInv, AllNoted, FeedsNest', NEW d \in Devices, NEW p \in Paths,
         pc[d] = "running", UNCHANGED <<rec, pc, view, errs>>,
         NEW u, todo' = [todo EXCEPT ![d][p] = u],
         \A e \in Devices \ {d} : mem'[e] = mem[e],
         \A q \in Paths \ {p} : mem'[d][q] = mem[d][q],
         p \in HomePaths => TaskNamed(d, p)' /\ TaskGoes(d, p) /\ RecordGoes(d, p)
  PROVE  FInv'
<1>1. /\ \A e \in Devices \ {d} : todo'[e] = todo[e]
      /\ \A q \in Paths \ {p} : todo'[d][q] = todo[d][q]
  BY DEF TInv, TasksOK
<1>2. \A q \in HomePaths \ {p} : mem'[d][q] = mem[d][q] /\ Beside(d, q)
  BY <1>1 DEF Beside, HomePaths
<1> QED
  BY <1>1, <1>2, StepOfPath

\* A task goes to its next step.
LEMMA MoveAgrees ==
  ASSUME TInv, FInv, AllNoted, FeedsNest', NEW d \in Devices, NEW p \in Paths,
         pc[d] = "running", UNCHANGED <<rec, pc, view, errs, mem>>,
         NEW u, todo' = [todo EXCEPT ![d][p] = u],
         u.act = todo[d][p].act, u.row = todo[d][p].row, u.at \notin {"ended", "failed"},
         u.id = todo[d][p].id \/ (p \in HomePaths => TaskNamed(d, p)')
  PROVE  FInv'
<1>1. todo'[d][p] = u
  BY DEF TInv, TasksOK
<1>2. ASSUME p \in HomePaths
      PROVE  TaskNamed(d, p)' /\ TaskGoes(d, p) /\ RecordGoes(d, p)
  <2>1. TaskNamed(d, p)'
    BY <1>1, <1>2, TaskNamedStays DEF FInv, Agrees
  <2>2. TaskGoes(d, p) /\ RecordGoes(d, p)
    BY <1>1 DEF TaskGoes, RecordGoes, Renewing, Over
  <2> QED
    BY <2>1, <2>2
<1> QED
  BY <1>2, SetAgrees

\* A task ends; the record of its path goes, is written anew, or had nothing
\* to wait for.
LEMMA EndAgrees ==
  ASSUME TInv, FInv, AllNoted, FeedsNest', NEW d \in Devices, NEW p \in Paths,
         pc[d] = "running", UNCHANGED <<rec, pc, view, errs>>, End(d, p),
         \A e \in Devices \ {d} : mem'[e] = mem[e],
         \A q \in Paths \ {p} : mem'[d][q] = mem[d][q],
         p \in HomePaths => RecordGoes(d, p)
  PROVE  FInv'
<1>1. todo' = [todo EXCEPT ![d][p] = NoTask]
  BY DEF End
<1>2. todo'[d][p] = NoTask
  BY <1>1 DEF TInv, TasksOK
<1>3. TaskNamed(d, p)'
  BY <1>2, NoTaskNamed
<1>4. TaskGoes(d, p)
  BY <1>2 DEF TaskGoes, NoTask
<1> QED
  BY <1>1, <1>3, <1>4, SetAgrees

\* The record of one path is written.
LEMMA UpsertStays ==
  ASSUME TInv, NEW d \in Devices, NEW p \in Paths, NEW m, Upsert(d, p, m)
  PROVE  /\ mem'[d][p] = m
         /\ \A e \in Devices \ {d} : mem'[e] = mem[e]
         /\ \A q \in Paths \ {p} : mem'[d][q] = mem[d][q]
BY DEF Upsert, TInv, StoreOK

-----------------------------------------------------------------------------
(* The steps of tasks.                                                     *)

\* Steps that only take the task further.
LEMMA MovesAgree ==
  ASSUME TInv, FInv, NEW d \in Devices, NEW p \in Paths,
         \/ StartUpdate(d, p) \/ MarkDone(d, p) \/ PlanDownload(d, p)
         \/ StartDownload(d, p) \/ StartDelete(d, p)
  PROVE  FInv'
<1>1. AllNoted /\ FeedsNest'
  BY QuietNoted
  DEF FInv, StartUpdate, MarkDone, PlanDownload, StartDownload, StartDelete
<1>2. \E at \in Steps \ {"ended", "failed"} : Goto(d, p, at)
  BY DEF StartUpdate, MarkDone, PlanDownload, StartDownload, StartDelete, Steps
<1>3. PICK at \in Steps \ {"ended", "failed"} :
        todo' = [todo EXCEPT ![d][p] = [todo[d][p] EXCEPT !.at = at]]
  BY <1>2 DEF Goto
<1> DEFINE u == [todo[d][p] EXCEPT !.at = at]
<1>4. u.act = todo[d][p].act /\ u.row = todo[d][p].row /\ u.id = todo[d][p].id /\ u.at = at
  BY DEF TInv, TasksOK, Task
<1>5. pc[d] = "running" /\ UNCHANGED <<rec, pc, view, errs, mem>>
  BY DEF StartUpdate, MarkDone, PlanDownload, StartDownload, StartDelete, At, Ready, taskFrame
<1> HIDE DEF u
<1> QED
  BY <1>1, <1>3, <1>4, <1>5, MoveAgrees DEF u

\* A record goes with its task.
LEMMA DropsAgree ==
  ASSUME TInv, FInv, NEW d \in Devices, NEW p \in Paths,
         CleanupMetadata(d, p) \/ CommitDelete(d, p)
  PROVE  FInv'
<1>1. AllNoted /\ FeedsNest'
  BY QuietNoted DEF FInv, CleanupMetadata, CommitDelete
<1>2. /\ pc[d] = "running" /\ UNCHANGED <<rec, pc, view, errs>>
      /\ End(d, p) /\ Upsert(d, p, None)
  BY DEF CleanupMetadata, CommitDelete, At, taskFrame
<1>3. RecordGoes(d, p)
  BY <1>2, UpsertStays DEF RecordGoes
<1> QED
  BY <1>1, <1>2, <1>3, UpsertStays, EndAgrees

\* A touch takes the local half of the record anew; the remote half stays.
LEMMA TouchAgrees ==
  ASSUME TInv, FInv, NEW d \in Devices, NEW p \in Paths, TouchMetadata(d, p)
  PROVE  FInv'
<1>1. AllNoted /\ FeedsNest' /\ pc[d] = "running" /\ UNCHANGED <<rec, pc, view>>
  BY QuietNoted DEF FInv, TouchMetadata, At, taskFrame
<1>2. CASE disk[d][p] = None
  BY <1>1, <1>2, FailAgrees DEF TouchMetadata
<1>3. CASE disk[d][p] # None
  <2> DEFINE m == mem[d][p]
             n == [m EXCEPT !.md5 = disk[d][p].md5, !.stat = disk[d][p].stat]
  <2>1. Upsert(d, p, n) /\ End(d, p) /\ UNCHANGED errs
    BY <1>3 DEF TouchMetadata
  <2>2. todo[d][p].act = "touch" /\ m \in Record
    BY DEF TouchMetadata, At, TInv, TasksOK, StoreOK, Fit
  <2>3. n \in Record /\ n.id = m.id /\ n.fp = m.fp /\ m # None /\ n # None
    <3>1. disk[d][p].md5 \in Contents /\ disk[d][p].stat \in {0, 1}
      BY <1>3 DEF TInv, UserOK, LocalFile
    <3>2. None \notin Record
      BY NoEntryAssumption
    <3> HIDE DEF m
    <3>3. n \in Record /\ n.id = m.id /\ n.fp = m.fp
      BY <2>2, <3>1 DEF Record
    <3> QED
      BY <2>2, <3>2, <3>3
  <2>4. mem'[d][p] = n /\ ~Renewing(todo[d][p])
    BY <2>1, <2>2, UpsertStays DEF Renewing
  <2>5. RecordGoes(d, p)
    <3> HIDE DEF m, n
    <3>1. m = mem[d][p]
      BY DEF m
    <3> QED
      BY <2>1, <2>3, <2>4, <3>1 DEF RecordGoes
  <2> QED
    BY <1>1, <2>1, <2>5, UpsertStays, EndAgrees
<1> QED
  BY <1>2, <1>3

\* A conflict that keeps both renews the record with an update of the same
\* file; the copy is no path users write.
LEMMA KeepBothAgrees ==
  ASSUME TInv, FInv, NEW d \in Devices, NEW p \in Paths,
         BeginConflict(d, p) \/ RevisionMismatch(d, p)
  PROVE  FInv'
<1>1. AllNoted /\ FeedsNest' /\ pc[d] = "running" /\ UNCHANGED <<rec, pc, view, errs, mem>>
  BY QuietNoted DEF FInv, BeginConflict, RevisionMismatch, At, taskFrame
<1> DEFINE t == todo[d][p]
           copy == [NoTask EXCEPT !.act = "download", !.at = "ready",
                                  !.id = t.id, !.row = t.row]
           update(c) == [NoTask EXCEPT !.act = "update", !.at = "ready",
                                       !.id = t.id, !.row = t.row, !.after = c]
<1>2. PICK c \in CopyPaths : todo' = [todo EXCEPT ![d][c] = copy, ![d][p] = update(c)]
  <2>1. KeepBoth(d, p)
    BY DEF BeginConflict, RevisionMismatch
  <2> QED
    BY <2>1, Zenon DEF KeepBoth
<1>3. c \in Paths /\ c \notin HomePaths
  BY PathsAssumption DEF HomePaths
<1>4. /\ \A e \in Devices \ {d} : todo'[e] = todo[e]
      /\ \A q \in Paths \ {c, p} : todo'[d][q] = todo[d][q]
      /\ todo'[d][p] = update(c)
  BY <1>2, <1>3 DEF TInv, TasksOK
<1>5. \A q \in HomePaths \ {p} : Beside(d, q)
  BY <1>3, <1>4 DEF Beside, HomePaths
<1>6. /\ update(c).act = "update" /\ update(c).at = "ready"
      /\ update(c).id = t.id /\ update(c).row = t.row
  BY DEF NoTask
<1> HIDE DEF update, copy
<1>7. ASSUME p \in HomePaths
      PROVE  TaskNamed(d, p)' /\ TaskGoes(d, p) /\ RecordGoes(d, p)
  <2>1. TaskNamed(d, p)'
    BY <1>1, <1>4, <1>6, <1>7, TaskNamedStays DEF FInv, Agrees
  <2>2. TaskGoes(d, p)
    BY <1>4, <1>6 DEF TaskGoes
  <2>3. RecordGoes(d, p)
    BY <1>1, <1>4, <1>6 DEF RecordGoes, Renewing, Over
  <2> QED
    BY <2>1, <2>2, <2>3
<1> QED
  BY <1>1, <1>4, <1>5, <1>7, StepOfPath

\* An upload is planned, or its file is gone.
LEMMA PlanUploadAgrees ==
  ASSUME TInv, FInv, NEW d \in Devices, NEW p \in Paths, PlanUpload(d, p)
  PROVE  FInv'
<1>1. AllNoted /\ FeedsNest' /\ pc[d] = "running" /\ UNCHANGED <<rec, pc, view, mem>>
  BY QuietNoted DEF FInv, PlanUpload, Ready, At, taskFrame
<1>2. CASE disk[d][p] = None
  BY <1>1, <1>2, FailAgrees DEF PlanUpload
<1>3. CASE disk[d][p] # None
  <2> DEFINE u == [todo[d][p] EXCEPT !.at = "planned", !.md5 = disk[d][p].md5]
  <2>1. todo' = [todo EXCEPT ![d][p].at = "planned", ![d][p].md5 = disk[d][p].md5]
        /\ UNCHANGED errs
    BY <1>3 DEF PlanUpload
  <2>2. todo' = [todo EXCEPT ![d][p] = u]
    BY <2>1 DEF TInv, TasksOK, Task
  <2>3. u.act = todo[d][p].act /\ u.row = todo[d][p].row /\ u.id = todo[d][p].id
        /\ u.at = "planned"
    BY DEF TInv, TasksOK, Task
  <2> HIDE DEF u
  <2> QED
    BY <1>1, <2>1, <2>2, <2>3, MoveAgrees
<1> QED
  BY <1>2, <1>3

\* The row a preflight saw is one of the file the task is about.
LEMMA PreflightAgrees ==
  ASSUME TInv, FInv, NEW d \in Devices, NEW p \in Paths, Preflight(d, p)
  PROVE  FInv'
<1>1. AllNoted /\ FeedsNest' /\ pc[d] = "running"
      /\ UNCHANGED <<rec, pc, view, errs, mem, drive>>
  BY QuietNoted DEF FInv, Preflight, At, taskFrame, driveVars
<1> DEFINE t == todo[d][p]
           f == t.id
           u == [t EXCEPT !.at = "checked", !.seen = drive[f].rev]
           w == [t EXCEPT !.at = "mismatch", !.row = Row(f)]
<1>2. t \in Task /\ t.act = "update" /\ f # None
  BY NoneAssumption DEF Preflight, At, TInv, TasksOK, Fit
<1>3. CASE RevisionGuardMatches(d, p, f)
  <2>1. todo' = [todo EXCEPT ![d][p].at = "checked", ![d][p].seen = drive[f].rev]
    BY <1>3 DEF Preflight
  <2>2. todo' = [todo EXCEPT ![d][p] = u]
    BY <2>1 DEF TInv, TasksOK, Task
  <2>3. u.act = t.act /\ u.row = t.row /\ u.id = t.id /\ u.at = "checked"
    BY <1>2 DEF Task
  <2> HIDE DEF u
  <2> QED
    BY <1>1, <2>2, <2>3, MoveAgrees
<1>4. CASE ~RevisionGuardMatches(d, p, f)
  <2>1. todo' = [todo EXCEPT ![d][p].at = "mismatch", ![d][p].row = Row(f)]
    BY <1>4 DEF Preflight
  <2>2. todo' = [todo EXCEPT ![d][p] = w] /\ todo'[d][p] = w
    BY <2>1 DEF TInv, TasksOK, Task
  <2>3. w.act = "update" /\ w.id = f /\ w.at = "mismatch" /\ w.row = Row(f) /\ w.row.id = f
    BY <1>2 DEF Task, Row
  <2> HIDE DEF w
  <2>4. ASSUME p \in HomePaths
        PROVE  TaskNamed(d, p)' /\ TaskGoes(d, p) /\ RecordGoes(d, p)
    <3>1. Exists(f) /\ drive[f].name = p
      BY <1>2, <2>4 DEF FInv, Agrees, TaskNamed
    <3>2. TaskNamed(d, p)'
      BY <1>1, <2>2, <2>3, <3>1 DEF TaskNamed, Names, Exists
    <3>3. TaskGoes(d, p) /\ RecordGoes(d, p)
      BY <1>1, <2>2, <2>3 DEF TaskGoes, RecordGoes, Renewing, Over
    <3> QED
      BY <3>2, <3>3
  <2> QED
    BY <1>1, <2>2, <2>4, SetAgrees
<1> QED
  BY <1>3, <1>4

\* Bytes go to Drive: the feeds tell of the file.
LEMMA PatchMediaAgrees ==
  ASSUME TInv, FInv, NEW d \in Devices, NEW p \in Paths, PatchMedia(d, p)
  PROVE  FInv'
<1> DEFINE t == todo[d][p]
           f == t.id
<1>1. pc[d] = "running" /\ UNCHANGED <<rec, pc, view, mem>>
  BY DEF PatchMedia, At, taskFrame
<1>2. CASE disk[d][p] = None
  <2>1. AllNoted /\ FeedsNest'
    BY <1>2, QuietNoted DEF FInv, PatchMedia
  <2> QED
    BY <1>1, <1>2, <2>1, FailAgrees DEF PatchMedia
<1>3. CASE disk[d][p] # None
  <2>1. ChangeDrive(f, WithContent(f, disk[d][p].md5)) /\ Goto(d, p, "effected")
        /\ UNCHANGED errs
    BY <1>3 DEF PatchMedia
  <2>2. t \in Task /\ t.act = "update" /\ f \in Files /\ Exists(f)
    BY DEF PatchMedia, At, TInv, TasksOK, Fit
  <2>3. WithContent(f, disk[d][p].md5).st = drive[f].st
        /\ WithContent(f, disk[d][p].md5).name = drive[f].name
    BY <2>2 DEF WithContent, TInv, DriveOK, DriveFile
  <2>4. AllNoted /\ FeedsNest'
    <3> HIDE DEF f
    <3> QED
      BY <2>1, <2>2, <2>3, ChangeNoted DEF FInv, Exists
  <2> DEFINE u == [t EXCEPT !.at = "effected"]
  <2>5. todo' = [todo EXCEPT ![d][p] = u]
    BY <2>1 DEF Goto, TInv, TasksOK
  <2>6. u.act = t.act /\ u.row = t.row /\ u.id = t.id /\ u.at = "effected"
    BY <2>2 DEF Task
  <2> HIDE DEF u
  <2> QED
    BY <1>1, <2>1, <2>4, <2>5, <2>6, MoveAgrees
<1> QED
  BY <1>2, <1>3

\* The answer to the last request of an upload is the record: it says what
\* Drive has, whoever wrote that.
LEMMA CommitUpdateAgrees ==
  ASSUME TInv, FInv, NEW d \in Devices, NEW p \in Paths, CommitUpdate(d, p)
  PROVE  FInv'
<1> DEFINE t == todo[d][p]
           f == t.id
           row == [Row(f) EXCEPT !.vv = NextVector(d, p)]
           file == [drive[f] EXCEPT !.vv = NextVector(d, p)]
<1>1. pc[d] = "running" /\ UNCHANGED <<rec, pc, view>> /\ ChangeDrive(f, file)
  BY DEF CommitUpdate, At, taskFrame
<1>2. t \in Task /\ t.act = "update" /\ f \in Files /\ Exists(f)
  BY DEF CommitUpdate, At, TInv, TasksOK, Fit
<1>3. file.st = drive[f].st /\ file.name = drive[f].name /\ file.md5 = drive[f].md5
  BY <1>2 DEF TInv, DriveOK, DriveFile
<1>4. row.id = f /\ row.md5 = drive[f].md5
  BY DEF Row
<1>5. drive'[f] = file
  BY <1>1, <1>2 DEF ChangeDrive, TInv, DriveOK
<1>6. p \in HomePaths => drive[f].name = p
  BY <1>2, NoneAssumption DEF FInv, Agrees, TaskNamed
<1>7. CASE disk[d][p] = None
  <2>1. FailTask(d, p) /\ UNCHANGED mem
    BY <1>7 DEF CommitUpdate
  <2>2. AllNoted /\ FeedsNest'
    <3> HIDE DEF f, file
    <3> QED
      BY <1>1, <1>2, <1>3, ChangeNoted DEF FInv, Exists
  <2> QED
    BY <1>1, <2>1, <2>2, FailAgrees
<1>8. CASE disk[d][p] # None
  <2>1. Upsert(d, p, RecordOf(row, t.md5, disk[d][p])) /\ End(d, p) /\ UNCHANGED errs
    BY <1>8 DEF CommitUpdate
  <2> HIDE DEF row
  <2>2. AllNoted /\ FeedsNest'
    <3> HIDE DEF f, file
    <3> QED
      BY <1>1, <1>2, <1>3, ChangeNoted DEF FInv, Exists
  <2> HIDE DEF file
  <2>3. mem'[d][p].id = f /\ mem'[d][p].fp = drive[f].md5
    BY <1>4, <2>1, UpsertStays DEF RecordOf
  <2> HIDE DEF f
  <2>4. p \in HomePaths => RecordGoes(d, p)
    <3>1. p \in HomePaths => drive'[mem'[d][p].id].name = p
      BY <1>3, <1>5, <1>6, <2>3
    <3>2. drive'[mem'[d][p].id].md5 = mem'[d][p].fp
      BY <1>3, <1>5, <2>3
    <3> QED
      BY <3>1, <3>2 DEF RecordGoes, Names, Told, Has, Live
  <2> QED
    BY <1>1, <2>1, <2>2, <2>4, UpsertStays, EndAgrees
<1> QED
  BY <1>7, <1>8

\* When that answer is lost, Drive has the vector and the record is as before.
LEMMA LoseAnswerAgrees ==
  ASSUME TInv, FInv, NEW d \in Devices, NEW p \in Paths, LoseAnswer(d, p)
  PROVE  FInv'
<1> DEFINE f == todo[d][p].id
           file == [drive[f] EXCEPT !.vv = NextVector(d, p)]
<1>1. pc[d] = "running" /\ UNCHANGED <<rec, pc, view, mem>> /\ ChangeDrive(f, file)
      /\ FailTask(d, p)
  BY DEF LoseAnswer, At, taskFrame
<1>2. f \in Files /\ Exists(f)
  BY DEF LoseAnswer, At, TInv, TasksOK, Fit
<1>3. file.st = drive[f].st /\ file.name = drive[f].name
  BY <1>2 DEF TInv, DriveOK, DriveFile
<1>4. AllNoted /\ FeedsNest'
  <2> HIDE DEF f, file
  <2> QED
    BY <1>1, <1>2, <1>3, ChangeNoted DEF FInv, Exists
<1> QED
  BY <1>1, <1>4, FailAgrees

\* A file linked instead of created is one of that name.
LEMMA FindRemoteAgrees ==
  ASSUME TInv, FInv, NEW d \in Devices, NEW p \in Paths, FindRemoteFileByContent(d, p)
  PROVE  FInv'
<1> DEFINE t == todo[d][p]
           same == {f \in Files : Live(f) /\ drive[f].name = p /\ drive[f].md5 = t.md5}
<1>1. AllNoted /\ FeedsNest' /\ pc[d] = "running"
      /\ UNCHANGED <<rec, pc, view, errs, mem, drive>>
  BY QuietNoted DEF FInv, FindRemoteFileByContent, At, taskFrame, driveVars
<1>2. t \in Task
  BY DEF TInv, TasksOK
<1>3. CASE same # {}
  <2>1. todo' = [todo EXCEPT ![d][p].at = "linked", ![d][p].id = Min2(same)]
    BY <1>3 DEF FindRemoteFileByContent
  <2>2. Min2(same) \in same
    <3>1. same \subseteq Nat
      BY FilesAssumption
    <3> HIDE DEF same
    <3> QED
      BY <1>3, <3>1, Min2InSet
  <2> DEFINE g == Min2(same)
             u == [t EXCEPT !.at = "linked", !.id = g]
  <2>3. todo' = [todo EXCEPT ![d][p] = u] /\ todo'[d][p] = u
    BY <2>1 DEF TInv, TasksOK, Task
  <2>4. u.act = t.act /\ u.row = t.row /\ u.id = g /\ u.at = "linked"
    BY <1>2 DEF Task
  <2>5. Exists(g) /\ drive[g].name = p
    BY <2>2 DEF Exists, Live
  <2> HIDE DEF u, g
  <2>6. ASSUME p \in HomePaths
        PROVE  TaskNamed(d, p)'
    <3>1. Names(t.row, p)
      BY <2>6 DEF FInv, Agrees, TaskNamed
    <3> QED
      BY <1>1, <2>3, <2>4, <2>5, <3>1 DEF TaskNamed, Names, Exists
  <2> QED
    BY <1>1, <2>3, <2>4, <2>6, MoveAgrees
<1>4. CASE same = {}
  <2> DEFINE u == [t EXCEPT !.at = "started"]
  <2>1. todo' = [todo EXCEPT ![d][p] = u]
    BY <1>4 DEF FindRemoteFileByContent, Goto, TInv, TasksOK
  <2>2. u.act = t.act /\ u.row = t.row /\ u.id = t.id /\ u.at = "started"
    BY <1>2 DEF Task
  <2> HIDE DEF u
  <2> QED
    BY <1>1, <2>1, <2>2, MoveAgrees
<1> QED
  BY <1>3, <1>4

\* A new file has the name of its path.
LEMMA CreateFileAgrees ==
  ASSUME TInv, FInv, NEW d \in Devices, NEW p \in Paths, CreateFile(d, p)
  PROVE  FInv'
<1> DEFINE t == todo[d][p]
<1>1. pc[d] = "running" /\ UNCHANGED <<rec, pc, view, mem>>
  BY DEF CreateFile, At, taskFrame
<1>2. t \in Task
  BY DEF TInv, TasksOK
<1>3. CASE disk[d][p] = None
  <2>1. AllNoted /\ FeedsNest'
    BY <1>3, QuietNoted DEF FInv, CreateFile
  <2> QED
    BY <1>1, <1>3, <2>1, FailAgrees DEF CreateFile
<1>4. CASE disk[d][p] # None
  <2> DEFINE file == [st |-> "live", name |-> p, rev |-> 1, md5 |-> disk[d][p].md5,
                      vv |-> NextVector(d, p)]
  <2>1. PICK f \in Files : /\ ~Exists(f) /\ ChangeDrive(f, file) /\ UNCHANGED errs
                           /\ todo' = [todo EXCEPT ![d][p].at = "effected", ![d][p].id = f]
    BY <1>4 DEF CreateFile
  <2>2. file.st = "live" /\ file.name = p
    OBVIOUS
  <2>3. drive'[f] = file
    BY <2>1 DEF ChangeDrive, TInv, DriveOK
  <2> HIDE DEF file
  <2>4. AllNoted /\ FeedsNest'
    BY <2>1, <2>2, ChangeNoted DEF FInv
  <2> DEFINE u == [t EXCEPT !.at = "effected", !.id = f]
  <2>5. todo' = [todo EXCEPT ![d][p] = u] /\ todo'[d][p] = u
    BY <2>1 DEF TInv, TasksOK, Task
  <2>6. u.act = t.act /\ u.row = t.row /\ u.id = f /\ u.at = "effected"
    BY <1>2 DEF Task
  <2> HIDE DEF u
  <2>7. ASSUME p \in HomePaths
        PROVE  TaskNamed(d, p)'
    <3>1. t.row # None => t.row.id \in Files /\ Exists(t.row.id) /\ drive[t.row.id].name = p
      BY <2>7 DEF FInv, Agrees, TaskNamed, Names, TInv, TasksOK, Fit, Sound, Task, Snapshot
    <3> HIDE DEF t
    <3>2. t.row # None => drive'[t.row.id].name = p
      BY <2>4, <3>1 DEF AllNoted, NamesStay
    <3> QED
      BY <2>2, <2>3, <2>5, <2>6, <3>2 DEF TaskNamed, Names, Exists
  <2> QED
    BY <1>1, <2>1, <2>4, <2>5, <2>6, <2>7, MoveAgrees
<1> QED
  BY <1>3, <1>4

\* The record of a file created or linked is what Drive has.
LEMMA CommitCreateAgrees ==
  ASSUME TInv, FInv, NEW d \in Devices, NEW p \in Paths, CommitCreate(d, p)
  PROVE  FInv'
<1> DEFINE t == todo[d][p]
           f == t.id
<1>1. AllNoted /\ FeedsNest' /\ pc[d] = "running" /\ UNCHANGED <<rec, pc, view, drive>>
  BY QuietNoted DEF FInv, CommitCreate, At, taskFrame, driveVars
<1>2. f \in Files /\ Exists(f)
  BY DEF CommitCreate, At, TInv, TasksOK, Fit
<1>3. p \in HomePaths => drive[f].name = p
  BY <1>2, NoneAssumption DEF FInv, Agrees, TaskNamed
<1>4. CASE disk[d][p] = None
  BY <1>1, <1>4, FailAgrees DEF CommitCreate
<1>5. CASE disk[d][p] # None
  <2>1. Upsert(d, p, RecordOf(Row(f), t.md5, disk[d][p])) /\ End(d, p) /\ UNCHANGED errs
    BY <1>5 DEF CommitCreate
  <2>2. mem'[d][p].id = f /\ mem'[d][p].fp = drive[f].md5
    BY <2>1, UpsertStays DEF RecordOf, Row
  <2> HIDE DEF f
  <2>3. p \in HomePaths => RecordGoes(d, p)
    BY <1>1, <1>3, <2>2 DEF RecordGoes, Names, Told, Has, Live
  <2> QED
    BY <1>1, <2>1, <2>3, UpsertStays, EndAgrees
<1> QED
  BY <1>4, <1>5

\* A download written: the tasks beside it go on, one of them has looked.
LEMMA WriteDownloadAgrees ==
  ASSUME TInv, FInv, NEW d \in Devices, NEW p \in Paths, WriteDownload(d, p)
  PROVE  FInv'
<1> DEFINE t == todo[d][p]
           rev == drive[t.id].rev
           tasks == [q \in Paths |->
                      IF q = p THEN [todo[d][q] EXCEPT !.at = "effected"]
                      ELSE IF todo[d][q].after = p THEN [todo[d][q] EXCEPT !.seen = rev]
                      ELSE todo[d][q]]
<1>1. AllNoted /\ FeedsNest' /\ pc[d] = "running" /\ t.act = "download" /\ t.at = "started"
      /\ UNCHANGED <<rec, pc, view, errs, mem>>
  BY QuietNoted DEF FInv, WriteDownload, At, taskFrame
<1>2. todo' = [todo EXCEPT ![d] = tasks]
  BY DEF WriteDownload
<1>3. todo \in [Devices -> [Paths -> Task]]
  BY DEF TInv, TasksOK
<1>4. todo'[d] = tasks /\ \A e \in Devices \ {d} : todo'[e] = todo[e]
  BY <1>2, <1>3
<1>5. \A q \in Paths \ {p} :
        /\ tasks[q].act = todo[d][q].act /\ tasks[q].at = todo[d][q].at
        /\ tasks[q].id = todo[d][q].id /\ tasks[q].row = todo[d][q].row
  BY <1>3 DEF Task
<1>6. /\ tasks[p].act = t.act /\ tasks[p].at = "effected"
      /\ tasks[p].id = t.id /\ tasks[p].row = t.row
  BY <1>3 DEF Task
<1> HIDE DEF tasks
<1>7. \A q \in HomePaths \ {p} : mem'[d][q] = mem[d][q] /\ Beside(d, q)
  BY <1>1, <1>4, <1>5 DEF Beside, HomePaths
<1>8. ASSUME p \in HomePaths
      PROVE  TaskNamed(d, p)' /\ TaskGoes(d, p) /\ RecordGoes(d, p)
  <2>1. TaskNamed(d, p)'
    BY <1>1, <1>4, <1>6, <1>8, TaskNamedStays DEF FInv, Agrees
  <2>2. TaskGoes(d, p) /\ RecordGoes(d, p)
    BY <1>1, <1>4, <1>6 DEF TaskGoes, RecordGoes, Renewing, Over
  <2> QED
    BY <2>1, <2>2
<1> QED
  BY <1>1, <1>4, <1>7, <1>8, StepOfPath

\* The record of a download is the row it was for: what Drive has, or had
\* before a change that is among the news.
LEMMA CommitDownloadAgrees ==
  ASSUME TInv, FInv, NEW d \in Devices, NEW p \in Paths, CommitDownload(d, p)
  PROVE  FInv'
<1> DEFINE t == todo[d][p]
           row == t.row
<1>1. AllNoted /\ FeedsNest' /\ pc[d] = "running"
      /\ UNCHANGED <<rec, pc, view, drive, fresh>>
  BY QuietNoted DEF FInv, CommitDownload, At, taskFrame, driveVars
<1>2. t.act = "download" /\ row # None
  BY DEF CommitDownload, At, TInv, TasksOK, Fit
<1>3. CASE disk[d][p] = None
  BY <1>1, <1>3, FailAgrees DEF CommitDownload
<1>4. CASE disk[d][p] # None
  <2>1. Upsert(d, p, RecordOf(row, disk[d][p].md5, disk[d][p])) /\ End(d, p)
        /\ UNCHANGED errs
    BY <1>4 DEF CommitDownload
  <2>2. mem'[d][p].id = row.id /\ mem'[d][p].fp = row.md5
    BY <2>1, UpsertStays DEF RecordOf
  <2>3. ASSUME p \in HomePaths
        PROVE  RecordGoes(d, p)
    <3>1. drive[row.id].name = p /\ (row.id \notin fresh[d] => Has(row.id, row.md5))
      BY <1>1, <1>2, <2>3 DEF FInv, Agrees, TaskNamed, TaskTrue, Names
    <3> HIDE DEF row
    <3> QED
      BY <1>1, <2>2, <3>1 DEF RecordGoes, Names, Told, Has, Live
  <2> QED
    BY <1>1, <2>1, <2>3, UpsertStays, EndAgrees
<1> QED
  BY <1>3, <1>4

\* The first look at a deletion ends it, the second plans it.
LEMMA ConfirmAgrees ==
  ASSUME TInv, FInv, NEW d \in Devices, NEW p \in Paths, ConfirmDelete(d, p)
  PROVE  FInv'
<1>1. AllNoted /\ FeedsNest' /\ pc[d] = "running" /\ UNCHANGED <<rec, pc, view, errs, mem>>
  BY QuietNoted DEF FInv, ConfirmDelete, At, taskFrame
<1>2. CASE tomb[d][p] = NoTomb
  <2>1. End(d, p) /\ todo[d][p].act \notin {"conflict", "update", "download"}
    BY <1>2 DEF ConfirmDelete, At
  <2>2. RecordGoes(d, p)
    BY <1>1, <2>1 DEF RecordGoes, Renewing
  <2> QED
    BY <1>1, <2>1, <2>2, EndAgrees
<1>3. CASE tomb[d][p] # NoTomb
  <2> DEFINE u == [todo[d][p] EXCEPT !.at = "planned"]
  <2>1. todo' = [todo EXCEPT ![d][p] = u]
    BY <1>3 DEF ConfirmDelete, Goto, TInv, TasksOK
  <2>2. /\ u.act = todo[d][p].act /\ u.row = todo[d][p].row /\ u.id = todo[d][p].id
        /\ u.at = "planned"
    BY DEF TInv, TasksOK, Task
  <2> HIDE DEF u
  <2> QED
    BY <1>1, <2>1, <2>2, MoveAgrees
<1> QED
  BY <1>2, <1>3

\* A local file goes to the trash.
LEMMA MoveToTrashAgrees ==
  ASSUME TInv, FInv, NEW d \in Devices, NEW p \in Paths, MoveToTrash(d, p)
  PROVE  FInv'
<1>1. AllNoted /\ FeedsNest' /\ pc[d] = "running" /\ UNCHANGED <<rec, pc, view, mem>>
  BY QuietNoted DEF FInv, MoveToTrash, At, taskFrame
<1>2. CASE disk[d][p] = None
  BY <1>1, <1>2, FailAgrees DEF MoveToTrash
<1>3. CASE disk[d][p] # None
  <2> DEFINE u == [todo[d][p] EXCEPT !.at = "effected"]
  <2>1. todo' = [todo EXCEPT ![d][p] = u] /\ UNCHANGED errs
    BY <1>3 DEF MoveToTrash, Goto, TInv, TasksOK
  <2>2. /\ u.act = todo[d][p].act /\ u.row = todo[d][p].row /\ u.id = todo[d][p].id
        /\ u.at = "effected"
    BY DEF TInv, TasksOK, Task
  <2> HIDE DEF u
  <2> QED
    BY <1>1, <2>1, <2>2, MoveAgrees
<1> QED
  BY <1>2, <1>3

\* A Drive file goes to the trash, and the feeds tell of it.
LEMMA TrashRemoteAgrees ==
  ASSUME TInv, FInv, NEW d \in Devices, NEW p \in Paths, TrashRemote(d, p)
  PROVE  FInv'
<1> DEFINE t == todo[d][p]
           f == t.id
           file == [drive[f] EXCEPT !.st = "trashed"]
           u == [t EXCEPT !.at = "effected"]
<1>1. pc[d] = "running" /\ UNCHANGED <<rec, pc, view, mem, errs>> /\ ChangeDrive(f, file)
  BY DEF TrashRemote, At, taskFrame
<1>2. t \in Task /\ f \in Files
  BY DEF TrashRemote, At, TInv, TasksOK, Fit
<1>3. file.st = "trashed" /\ file.name = drive[f].name
  BY <1>2 DEF TInv, DriveOK, DriveFile
<1>4. AllNoted /\ FeedsNest'
  <2> HIDE DEF f, file
  <2> QED
    BY <1>1, <1>2, <1>3, ChangeNoted DEF FInv
<1>5. todo' = [todo EXCEPT ![d][p] = u]
  BY DEF TrashRemote, Goto, TInv, TasksOK
<1>6. u.act = t.act /\ u.row = t.row /\ u.id = t.id /\ u.at = "effected"
  BY <1>2 DEF Task
<1> HIDE DEF u
<1> QED
  BY <1>1, <1>4, <1>5, <1>6, MoveAgrees

\* A request that fails fails its task.
LEMMA RequestFailsAgrees ==
  ASSUME TInv, FInv, NEW d \in Devices, NEW p \in Paths, RequestFails(d, p)
  PROVE  FInv'
<1>1. AllNoted /\ FeedsNest' /\ pc[d] = "running" /\ UNCHANGED <<rec, pc, view, mem>>
      /\ FailTask(d, p)
  BY QuietNoted DEF FInv, RequestFails, At, taskFrame
<1> QED
  BY <1>1, FailAgrees

\* Every step of a task keeps the invariant.
LEMMA TaskAgrees ==
  ASSUME TInv, FInv, NEW d \in Devices, NEW p \in Paths,
         TaskStep(d, p) \/ RequestFails(d, p) \/ LoseAnswer(d, p)
  PROVE  FInv'
BY MovesAgree, DropsAgree, TouchAgrees, KeepBothAgrees, PlanUploadAgrees,
   PreflightAgrees, PatchMediaAgrees, CommitUpdateAgrees, FindRemoteAgrees,
   CreateFileAgrees, CommitCreateAgrees, WriteDownloadAgrees,
   CommitDownloadAgrees, ConfirmAgrees, MoveToTrashAgrees, TrashRemoteAgrees,
   RequestFailsAgrees, LoseAnswerAgrees
DEF TaskStep, Upload, Download, Delete

-----------------------------------------------------------------------------
(* The remote views.                                                       *)

\* A file put into a view leaves every path users write alone but its own.
LEMMA PutAtHome ==
  ASSUME NEW v \in Views, NEW q \in Paths, NEW f, NEW p \in HomePaths
  PROVE  Put(v, q, f)[p] = IF p = q /\ (v[q] = None \/ v[q].id = f) THEN Row(f) ELSE v[p]
<1> DEFINE place == PlaceWithoutClobber(v, q, f)
           free == {i \in DOMAIN Numbered[q] : v[Numbered[q][i]] = None}
<1>1. CASE v[q] = None \/ v[q].id = f
  <2>1. place = q
    BY <1>1 DEF PlaceWithoutClobber
  <2>2. q # None
    BY NoneAssumption
  <2> HIDE DEF place
  <2>3. Put(v, q, f) = [v EXCEPT ![q] = Row(f)]
    BY <2>1, <2>2 DEF Put, place
  <2> QED
    BY <1>1, <2>3 DEF Views, HomePaths
<1>2. CASE ~(v[q] = None \/ v[q].id = f)
  <2>1. place = IF free = {} THEN None ELSE Numbered[q][Min2(free)]
    BY <1>2 DEF PlaceWithoutClobber
  <2>2. place # None => place \in NumberedPaths
    <3>1. Numbered[q] \in Seq(Paths)
      BY NumberedAssumption
    <3>2. free \subseteq Nat
      BY <3>1
    <3>3. free # {} => Min2(free) \in DOMAIN Numbered[q]
      BY <3>2, Min2InSet
    <3> HIDE DEF free
    <3>4. ASSUME NEW i \in DOMAIN Numbered[q]
          PROVE  Numbered[q][i] \in NumberedPaths
      <4>1. Numbered[q][i] \in {Numbered[q][j] : j \in DOMAIN Numbered[q]}
        OBVIOUS
      <4> QED
        BY <4>1 DEF NumberedPaths
    <3> QED
      BY <2>1, <3>3, <3>4
  <2>3. place # p
    BY <2>2, NoneAssumption DEF HomePaths
  <2> HIDE DEF place
  <2>4. Put(v, q, f) = IF place = None THEN v ELSE [v EXCEPT ![place] = Row(f)]
    BY DEF Put, place
  <2> QED
    BY <1>2, <2>3, <2>4 DEF Views
<1> QED
  BY <1>1, <1>2

\* A view is what Drive has.
Exact(v) ==
  \A q \in HomePaths : v[q] # None =>
    v[q].id \in Files /\ drive[v[q].id].name = q /\ v[q].md5 = drive[v[q].id].md5

\* It has something at the name of every file of S.
Shows(S, v) ==
  \A f \in S : drive[f].name \in HomePaths => v[drive[f].name] # None

\* A full listing is what Drive has, all of it.
LEMMA ListingExact ==
  ASSUME TInv
  PROVE  Exact(ListAllFiles) /\ Shows({f \in Files : Live(f)}, ListAllFiles)
<1> DEFINE P == {e \in (SUBSET Files) \X Views : Exact(e[2]) /\ Shows(e[1], e[2])}
<1>1. DriveOK
  BY DEF TInv
<1>2. Nothing \in Views /\ \A q \in HomePaths : Nothing[q] = None
  BY DEF Nothing, Views, HomePaths
<1>3. <<{}, Nothing>> \in P
  BY <1>2 DEF Exact, Shows
<1>4. ASSUME NEW f \in Files, Live(f), NEW S \in SUBSET Files, NEW v \in Views, <<S, v>> \in P
      PROVE  <<S \cup {f}, Put(v, drive[f].name, f)>> \in P
  <2> DEFINE q == drive[f].name
             w == Put(v, q, f)
  <2>1. q \in Paths /\ Exists(f)
    BY <1>1, <1>4 DEF DriveOK, FilesHaveContents, Live, Exists
  <2>2. w \in Views
    BY <1>1, <2>1, PutType
  <2>3. \A p \in HomePaths :
          w[p] = IF p = q /\ (v[q] = None \/ v[q].id = f) THEN Row(f) ELSE v[p]
    BY <2>1, PutAtHome
  <2>4. Exact(v) /\ Shows(S, v)
    BY <1>4
  <2>5. /\ Row(f).id = f /\ Row(f).md5 = drive[f].md5 /\ Row(f) # None
    <3>1. Row(f) \in Snapshot
      BY <1>1, <2>1, RowType DEF Rows
    <3> QED
      BY <3>1, NoEntryAssumption DEF Row
  <2> HIDE DEF w
  <2>6. Exact(w)
    BY <2>3, <2>4, <2>5 DEF Exact
  <2>7. Shows(S \cup {f}, w)
    BY <2>3, <2>4, <2>5 DEF Shows
  <2> QED
    BY <2>2, <2>6, <2>7 DEF w
<1> HIDE DEF P
<1>5. <<{f \in Files : Live(f)}, ListAllFiles>> \in P
  BY <1>1, <1>3, <1>4, ListingInduction
<1> QED
  BY <1>5 DEF P

\* The rows of a batch of which the changes of S are applied.  No live file
\* that a record speaks of is missing: what takes a row away is a file in the
\* trash, and it has the name alone.
BatchTrue(d, S, s) ==
  s.ok => \A q \in HomePaths :
    LET r == s.view[q]
        m == mem[d][q]
    IN  /\ Names(r, q)
        /\ r # None /\ r.id \in S \cup (Files \ unseen[d]) => Has(r.id, r.md5)
        /\ m # None /\ Live(m.id) => r # None

\* One more change keeps them so.
LEMMA ApplyTrue ==
  ASSUME TInv, FInv, OneFilePerName, NEW d \in Devices, NEW f \in unseen[d],
         NEW S \in SUBSET unseen[d], NEW s \in Partial, BatchTrue(d, S, s)
  PROVE  BatchTrue(d, S \cup {f}, ApplyRemoteChange(s, f))
<1> DEFINE t == ApplyRemoteChange(s, f)
           q == IF s.at[f] = None THEN drive[f].name ELSE s.at[f]
<1>1. f \in Files /\ Exists(f) /\ DriveOK
  BY DEF TInv, DriveOK
<1>2. s.view \in Views
  BY DEF Partial
<1>3. CASE ~s.ok
  BY <1>3 DEF ApplyRemoteChange, BatchTrue
<1>4. CASE s.ok /\ q # drive[f].name
  BY <1>4 DEF ApplyRemoteChange, BatchTrue, Partial
<1>5. CASE s.ok /\ q = drive[f].name /\ ~Live(f)
  <2>1. t = [s EXCEPT !.view[q] = None, !.at[f] = None]
    BY <1>5 DEF ApplyRemoteChange
  <2>2. t.view = [s.view EXCEPT ![q] = None]
    BY <2>1 DEF Partial
  <2> HIDE DEF t, q
  <2> SUFFICES ASSUME NEW p \in HomePaths
               PROVE  LET r == t.view[p]
                          m == mem[d][p]
                      IN  /\ Names(r, p)
                          /\ r # None /\ r.id \in S \cup {f} \cup (Files \ unseen[d])
                             => Has(r.id, r.md5)
                          /\ m # None /\ Live(m.id) => r # None
    BY DEF BatchTrue, t
  <2>3. Names(mem[d][p], p) /\ p \in Paths
    BY DEF FInv, Agrees, RecordsTrue, HomePaths
  <2>4. mem[d][p] # None => mem[d][p].id \in Files
    BY <2>3 DEF TInv, StoreOK, Record
  <2>5. CASE p = q
    <3>1. t.view[p] = None
      BY <1>2, <2>2, <2>3, <2>5 DEF Views
    <3>2. ASSUME mem[d][p] # None, Live(mem[d][p].id)
          PROVE  FALSE
      <4>1. drive[mem[d][p].id].name = drive[f].name /\ drive[f].name = p
        BY <1>5, <2>3, <2>5, <3>2 DEF Names
      <4>2. mem[d][p].id = f
        BY <1>1, <2>4, <3>2, <4>1 DEF OneFilePerName, Exists, Live
      <4> QED
        BY <1>5, <3>2, <4>2
    <3> QED
      BY <3>1, <3>2 DEF Names
  <2>6. CASE p # q
    <3>1. t.view[p] = s.view[p]
      BY <1>2, <2>2, <2>3, <2>6 DEF Views
    <3>2. s.view[p] # None => s.view[p].id # f
      BY <1>5, <2>6 DEF BatchTrue, Names
    <3> QED
      BY <1>5, <3>1, <3>2 DEF BatchTrue
  <2> QED
    BY <2>5, <2>6
<1>6. CASE s.ok /\ q = drive[f].name /\ Live(f)
  <2>1. t.view = Put(s.view, q, f)
    BY <1>6 DEF ApplyRemoteChange, Partial
  <2>2. q \in Paths
    BY <1>1, <1>6 DEF DriveOK, FilesHaveContents
  <2>3. \A p \in HomePaths : t.view[p] =
          IF p = q /\ (s.view[q] = None \/ s.view[q].id = f) THEN Row(f) ELSE s.view[p]
    BY <1>2, <2>1, <2>2, PutAtHome
  <2>4. Row(f).id = f /\ Row(f).md5 = drive[f].md5 /\ Row(f) # None
    <3>1. Row(f) \in Snapshot
      BY <1>1, RowType DEF Rows
    <3> QED
      BY <3>1, NoEntryAssumption DEF Row
  <2> HIDE DEF t, q
  <2> SUFFICES ASSUME NEW p \in HomePaths
               PROVE  LET r == t.view[p]
                          m == mem[d][p]
                      IN  /\ Names(r, p)
                          /\ r # None /\ r.id \in S \cup {f} \cup (Files \ unseen[d])
                             => Has(r.id, r.md5)
                          /\ m # None /\ Live(m.id) => r # None
    BY DEF BatchTrue, t
  <2>5. CASE t.view[p] = Row(f) /\ p = q
    BY <1>6, <2>4, <2>5 DEF Names, Has
  <2>6. CASE t.view[p] = s.view[p] /\ (s.view[p] # None => s.view[p].id # f)
    BY <1>6, <2>6 DEF BatchTrue
  <2>7. s.view[p] # None /\ s.view[p].id = f => p = q
    BY <1>6 DEF BatchTrue, Names
  <2> QED
    BY <2>3, <2>5, <2>6, <2>7
<1> QED
  BY <1>3, <1>4, <1>5, <1>6

\* A batch that can be applied makes a view that is true.
LEMMA BatchExact ==
  ASSUME TInv, FInv, OneFilePerName, NEW d \in Devices,
         NEW known \in [Files -> Paths \cup {None}]
  PROVE  BatchTrue(d, unseen[d], IncrementalView(d, known))
<1> DEFINE P == {e \in (SUBSET unseen[d]) \X Partial : BatchTrue(d, e[1], e[2])}
<1>1. DriveOK /\ StoreOK
  BY DEF TInv
<1>2. FromRecords(d, known) \in Partial
  <2>1. \A p \in Paths : Stub(mem[d][p]) \in Rows \cup {None}
    BY <1>1, StubType DEF StoreOK
  <2> QED
    BY <2>1 DEF FromRecords, Partial, Views
<1>3. BatchTrue(d, {}, FromRecords(d, known))
  <2> SUFFICES ASSUME NEW q \in HomePaths
               PROVE  LET r == FromRecords(d, known).view[q]
                          m == mem[d][q]
                      IN  /\ Names(r, q)
                          /\ r # None /\ r.id \in {} \cup (Files \ unseen[d]) => Has(r.id, r.md5)
                          /\ m # None /\ Live(m.id) => r # None
    BY DEF BatchTrue
  <2>1. q \in Paths /\ Names(mem[d][q], q) /\ Told(mem[d][q], unseen[d])
    BY DEF FInv, Agrees, RecordsTrue, HomePaths
  <2>2. FromRecords(d, known).view[q] = Stub(mem[d][q])
    BY <2>1 DEF FromRecords
  <2>3. mem[d][q] # None => /\ Stub(mem[d][q]).id = mem[d][q].id
                            /\ Stub(mem[d][q]).md5 = mem[d][q].fp
                            /\ Stub(mem[d][q]) # None
    <3>1. Stub(mem[d][q]) \in Rows \cup {None} /\ (mem[d][q] # None => mem[d][q] \in Record)
      BY <1>1, <2>1, StubType DEF StoreOK
    <3>2. mem[d][q] # None => Stub(mem[d][q]) \in Snapshot
      BY <3>1 DEF Stub, Snapshot, Record
    <3> QED
      BY <3>2, NoEntryAssumption DEF Stub
  <2>4. mem[d][q] = None => Stub(mem[d][q]) = None
    BY DEF Stub
  <2> QED
    BY <2>1, <2>2, <2>3, <2>4 DEF Names, Told
<1>4. ASSUME NEW f \in unseen[d], NEW S \in SUBSET unseen[d], NEW s \in Partial, <<S, s>> \in P
      PROVE  <<S \cup {f}, ApplyRemoteChange(s, f)>> \in P
  <2>1. ApplyRemoteChange(s, f) \in Partial
    BY <1>1, ApplyType DEF DriveOK
  <2> QED
    BY <1>4, <2>1, ApplyTrue
<1>5. <<{}, FromRecords(d, known)>> \in P
  BY <1>2, <1>3
<1> HIDE DEF P
<1>6. <<unseen[d], IncrementalView(d, known)>> \in P
  BY <1>1, <1>4, <1>5, IncrementalInduction
<1> QED
  BY <1>6 DEF P

-----------------------------------------------------------------------------
(* The steps of a cycle.                                                   *)

\* A decision is about the file of the row or of the record; and where Drive
\* has a new content, whatever the disk has, the record is to be renewed.
LEMMA DecisionRenews ==
  ASSUME NEW l \in LocalFile \cup {None}, NEW r \in Rows \cup {None},
         NEW m \in Record \cup {None}, NEW ids,
         NEW a, a = DetermineAction(l, r, m, None, ids)
  PROVE  /\ a.id = None \/ (r # None /\ a.id = r.id) \/ (m # None /\ a.id = m.id)
         /\ r # None /\ m # None /\ RemoteChanged(r, m) =>
              a.act \in {"conflict", "download"} \/ (a.act = "upload" /\ a.id # None)
<1>1. r # None => r.id # None
  BY NoneAssumption DEF Rows, Snapshot
<1>2. m # None => m.id # None
  BY NoneAssumption DEF Record
<1> USE DEF Act
<1>3. CASE r # None /\ m # None /\ l # None
  <2>1. a = LocalRemoteAndRecord(l, r, m, None)
    BY <1>3 DEF DetermineAction
  <2>2. UploadTarget(r, m) = m.id
    BY <1>2, <1>3 DEF UploadTarget
  <2>3. ResolveDualContentChange(r, m) \in {Act("conflict", r.id), Act("upload", m.id)}
    BY <2>2 DEF ResolveDualContentChange
  <2>4. LocalDelta(l, m, None) \in {"content", "unchanged", "meta_only"}
    BY DEF LocalDelta
  <2>5. a \in {Act("conflict", r.id), Act("upload", m.id), Act("download", r.id),
               Act("touch", None), Act("skip", None)}
        /\ (RemoteChanged(r, m) =>
              a \in {Act("conflict", r.id), Act("upload", m.id), Act("download", r.id)})
    BY <2>1, <2>2, <2>3, <2>4 DEF LocalRemoteAndRecord
  <2> QED
    BY <1>1, <1>2, <1>3, <2>5
<1>4. CASE r # None /\ m # None /\ l = None
  <2>1. a \in {Act("download", r.id), Act("delete_remote", m.id)}
        /\ (RemoteChanged(r, m) => a = Act("download", r.id))
    BY <1>2, <1>4 DEF DetermineAction, RemoteAndRecord, UploadTarget
  <2> QED
    BY <1>1, <1>2, <1>4, <2>1
<1>5. CASE r = None /\ m # None /\ l # None
  <2>1. a \in {Act("upload", m.id), Act("upload", None), Act("skip", None),
               Act("delete_local", None)}
    BY <1>5 DEF DetermineAction, LocalAndRecord
  <2> QED
    BY <1>5, <2>1
<1>6. CASE m = None /\ l # None /\ r # None
  <2>1. a \in {Act("skip", None), Act("conflict", r.id)}
    BY <1>6 DEF DetermineAction, LocalAndRemote
  <2> QED
    BY <1>6, <2>1
<1>7. CASE m = None /\ l # None /\ r = None
  BY <1>7 DEF DetermineAction
<1>8. CASE m = None /\ l = None /\ r # None
  BY <1>8 DEF DetermineAction
<1>9. CASE l = None /\ r = None
  BY <1>9 DEF DetermineAction
<1> QED
  BY <1>3, <1>4, <1>5, <1>6, <1>7, <1>8, <1>9

\* So is its task.
LEMMA TaskRenews ==
  ASSUME NEW l \in LocalFile \cup {None}, NEW r \in Rows \cup {None},
         NEW m \in Record \cup {None}, Sound(m), NEW ids,
         NEW t, t = TaskFor(DetermineAction(l, r, m, None, ids), r)
  PROVE  /\ t.row \in {None, r} /\ (t.act = "download" => t.row = r)
         /\ t.id = None \/ (r # None /\ t.id = r.id) \/ (m # None /\ t.id = m.id)
         /\ r # None /\ m # None /\ RemoteChanged(r, m) => Renewing(t)
<1> DEFINE a == DetermineAction(l, r, m, None, ids)
           task == [NoTask EXCEPT !.act = a.act, !.at = "ready", !.id = a.id, !.row = r]
<1>1. /\ a.act \in {"skip", "upload", "conflict", "download", "delete_local",
                    "delete_remote", "cleanup", "touch"}
      /\ a.id = None \/ (r # None /\ a.id = r.id) \/ (m # None /\ a.id = m.id)
      /\ r # None /\ m # None /\ RemoteChanged(r, m) =>
           a.act \in {"conflict", "download"} \/ (a.act = "upload" /\ a.id # None)
  BY DecisionType, DecisionRenews
<1>2. task.at = "ready" /\ task.id = a.id /\ task.row = r /\ task.act = a.act
      /\ DOMAIN task = TaskFields /\ {"act", "guarded", "at", "id", "row"} \subseteq TaskFields
  BY DEF NoTask, TaskFields
<1>3. t = TaskFor(a, r)
  OBVIOUS
<1>4. TaskFor(a, r) =
        CASE a.act = "skip" -> NoTask
          [] a.act = "upload" /\ a.id # None ->
               [task EXCEPT !.act = "update", !.guarded = TRUE]
          [] a.act = "upload" /\ a.id = None -> [task EXCEPT !.act = "create"]
          [] a.act = "conflict" -> ConflictTask(task)
          [] OTHER -> task
  BY DEF TaskFor
<1> HIDE DEF a, task
<1>5. CASE a.act = "skip"
  BY <1>1, <1>3, <1>4, <1>5 DEF NoTask
<1>6. CASE a.act = "upload" /\ a.id # None
  <2>1. t = [task EXCEPT !.act = "update", !.guarded = TRUE]
    BY <1>3, <1>4, <1>6
  <2>2. t.row = r /\ t.id = a.id /\ t.act = "update" /\ t.at = "ready"
    BY <1>2, <2>1
  <2> QED
    BY <1>1, <2>2 DEF Renewing, Over
<1>7. CASE a.act = "upload" /\ a.id = None
  <2>1. t = [task EXCEPT !.act = "create"]
    BY <1>3, <1>4, <1>7
  <2>2. t.row = r /\ t.id = a.id
    BY <1>2, <2>1
  <2> QED
    BY <1>1, <1>7, <2>2
<1>8. CASE a.act = "conflict"
  <2>1. t = ConflictTask(task)
    BY <1>3, <1>4, <1>8
  <2>2. t.row = r /\ t.id = a.id /\ t.act \in {"conflict", "update", "download"} /\ t.at = "ready"
    BY <1>2, <1>8, <2>1 DEF ConflictTask
  <2> QED
    BY <1>1, <2>2 DEF Renewing, Over
<1>9. CASE a.act \in {"download", "delete_local", "delete_remote", "cleanup", "touch"}
  <2>1. t = task
    BY <1>3, <1>4, <1>9
  <2> QED
    BY <1>1, <1>2, <1>9, <2>1 DEF Renewing, Over
<1> QED
  BY <1>1, <1>5, <1>6, <1>7, <1>8, <1>9

\* A device nothing happens to.
LEMMA SameAgrees ==
  ASSUME FInv, NEW e \in Devices, UNCHANGED drive,
         UNCHANGED <<unseen[e], fresh[e], pc[e], rec[e], mem[e], view[e], todo[e], errs[e]>>
  PROVE  \A p \in HomePaths : Agrees(e, p)'
<1> SUFFICES ASSUME NEW p \in HomePaths
             PROVE  Agrees(e, p)'
  OBVIOUS
<1>1. Agrees(e, p)
  BY DEF FInv
<1> QED
  BY <1>1 DEF Agrees, RecordsTrue, ViewTrue, TaskNamed, TaskTrue, Renewed, Names, Told,
              Has, Live, Exists

\* A step of one device that leaves Drive alone.
LEMMA DeviceStep ==
  ASSUME TInv, FInv, NEW d \in Devices, UNCHANGED drive, fresh'[d] \subseteq unseen'[d],
         \A e \in Devices \ {d} :
           UNCHANGED <<unseen[e], fresh[e], pc[e], rec[e], mem[e], view[e], todo[e], errs[e]>>,
         \A p \in HomePaths : Agrees(d, p)'
  PROVE  FInv'
<1>1. \A e \in Devices \ {d} : \A p \in HomePaths : Agrees(e, p)'
  BY SameAgrees
<1>2. FeedsNest'
  BY DEF FInv, FeedsNest
<1> QED
  BY <1>1, <1>2 DEF FInv

\* Before there is a view, only records count.
LEMMA EarlyAgrees ==
  ASSUME TInv, FInv, NEW d \in Devices, NEW p \in HomePaths, UNCHANGED drive,
         unseen'[d] = unseen[d], pc'[d] \notin {"listed", "viewed", "running"},
         rec'[d][p] \in {None, rec[d][p], mem[d][p]},
         mem'[d][p] \in {None, rec[d][p], mem[d][p]},
         todo'[d][p] \in {NoTask, todo[d][p]}
  PROVE  Agrees(d, p)'
<1>1. RecordsTrue(d, p) /\ TaskNamed(d, p)
  BY DEF FInv, Agrees
<1>2. RecordsTrue(d, p)'
  BY <1>1 DEF RecordsTrue, Names, Told, Has, Live
<1>3. TaskNamed(d, p)'
  BY <1>1 DEF TaskNamed, Names, Exists, NoTask
<1> QED
  BY <1>2, <1>3 DEF Agrees, ViewTrue, TaskTrue, Renewed

\* The steps that come before the view.
LEMMA EarlySteps ==
  ASSUME TInv, FInv, NEW d \in Devices,
         StartCycle(d) \/ PersistPurge(d) \/ ClearPurged(d) \/ ScanLocal(d) \/ Crash(d)
  PROVE  FInv'
<1>1. UNCHANGED <<drive, unseen>> /\ pc'[d] \notin {"listed", "viewed", "running"}
  BY DEF StartCycle, PersistPurge, ClearPurged, ScanLocal, Crash, driveVars, TInv, CycleOK
<1>2. fresh'[d] \subseteq unseen'[d]
  BY DEF StartCycle, PersistPurge, ClearPurged, ScanLocal, Crash, driveVars, TInv, DriveOK,
         FInv, FeedsNest
<1>3. \A e \in Devices \ {d} :
        UNCHANGED <<unseen[e], fresh[e], pc[e], rec[e], mem[e], view[e], todo[e], errs[e]>>
  BY DEF StartCycle, PersistPurge, ClearPurged, ScanLocal, Crash, Persist, driveVars,
         storeVars, TInv, DriveOK, StoreOK, CycleOK, TasksOK
<1>4. ASSUME NEW p \in HomePaths
      PROVE  /\ rec'[d][p] \in {None, rec[d][p], mem[d][p]}
             /\ mem'[d][p] \in {None, rec[d][p], mem[d][p]}
             /\ todo'[d][p] \in {NoTask, todo[d][p]}
  <2>1. p \in Paths
    BY DEF HomePaths
  <2>2. CASE StartCycle(d)
    BY <2>1, <2>2 DEF StartCycle, TInv, StoreOK
  <2>3. CASE PersistPurge(d)
    BY <2>1, <2>3 DEF PersistPurge, Persist, TInv, StoreOK
  <2>4. CASE ClearPurged(d) \/ ScanLocal(d)
    BY <2>4 DEF ClearPurged, ScanLocal, storeVars
  <2>5. CASE Crash(d)
    BY <2>1, <2>5 DEF Crash, storeVars, NoTasks, TInv, StoreOK, TasksOK
  <2> QED
    BY <2>2, <2>3, <2>4, <2>5
<1>5. \A p \in HomePaths : Agrees(d, p)'
  BY <1>1, <1>4, EarlyAgrees
<1> QED
  BY <1>1, <1>2, <1>3, <1>5, DeviceStep

\* A view is made.
LEMMA ViewAgrees ==
  ASSUME TInv, FInv, NEW d \in Devices, UNCHANGED <<drive, unseen, rec, mem, todo, errs>>,
         pc'[d] # "running", fresh'[d] \subseteq unseen'[d],
         \A e \in Devices \ {d} : UNCHANGED <<fresh[e], pc[e], view[e]>>,
         \A p \in HomePaths : ViewTrue(d, p)'
  PROVE  FInv'
<1>1. ASSUME NEW p \in HomePaths
      PROVE  Agrees(d, p)'
  <2>1. RecordsTrue(d, p) /\ TaskNamed(d, p)
    BY DEF FInv, Agrees
  <2>2. RecordsTrue(d, p)' /\ TaskNamed(d, p)'
    BY <2>1 DEF RecordsTrue, TaskNamed, Names, Told, Has, Live, Exists
  <2> QED
    BY <2>2 DEF Agrees, ViewTrue, TaskTrue, Renewed
<1> QED
  BY <1>1, DeviceStep

\* Changes fetched: the view they make, or none.
LEMMA FetchAgrees ==
  ASSUME TInv, FInv, OneFilePerName, NEW d \in Devices, FetchChanges(d)
  PROVE  FInv'
<1>1. UNCHANGED <<drive, unseen, rec, mem, todo, errs>> /\ fresh' = [fresh EXCEPT ![d] = {}]
  BY DEF FetchChanges, storeVars
<1>2. fresh'[d] = {} /\ \A e \in Devices \ {d} : UNCHANGED fresh[e]
  BY <1>1 DEF TInv, DriveOK
<1>3. PICK known \in KnownPaths(d) :
        LET built == IncrementalView(d, known)
        IN  IF built.ok
            THEN view' = [view EXCEPT ![d] = built.view] /\ pc' = [pc EXCEPT ![d] = "viewed"]
            ELSE pc' = [pc EXCEPT ![d] = "relist"] /\ UNCHANGED view
  BY DEF FetchChanges
<1> DEFINE built == IncrementalView(d, known)
<1>4. known \in [Files -> Paths \cup {None}]
  BY DEF KnownPaths
<1>5. BatchTrue(d, unseen[d], built)
  BY <1>4, BatchExact
<1> HIDE DEF built
<1>6. pc \in [Devices -> Phases] /\ view \in [Devices -> [Paths -> Snapshot \cup {None}]]
  BY DEF TInv, CycleOK, StoreOK
<1>7. CASE built.ok
  <2>1. view' = [view EXCEPT ![d] = built.view] /\ pc' = [pc EXCEPT ![d] = "viewed"]
    BY <1>3, <1>7 DEF built
  <2>2. view'[d] = built.view /\ pc'[d] = "viewed"
        /\ \A e \in Devices \ {d} : UNCHANGED <<pc[e], view[e]>>
    BY <1>6, <2>1
  <2>3. ASSUME NEW p \in HomePaths
        PROVE  ViewTrue(d, p)'
    <3>1. view'[d][p] # None => view'[d][p].id \in Files
      <4>1. built \in Partial
        BY <1>4, IncrementalType DEF TInv, built
      <4> QED
        BY <2>2, <4>1 DEF Partial, Views, Rows, Snapshot, HomePaths
    <3>2. /\ Names(built.view[p], p)
          /\ built.view[p] # None => Has(built.view[p].id, built.view[p].md5)
          /\ mem[d][p] # None /\ Live(mem[d][p].id) => built.view[p] # None
      BY <1>5, <1>7, <2>2, <3>1 DEF BatchTrue
    <3> QED
      BY <1>1, <2>2, <3>2 DEF ViewTrue, Names, Has, Live
  <2> QED
    BY <1>1, <1>2, <2>2, <2>3, ViewAgrees
<1>8. CASE ~built.ok
  <2>1. pc' = [pc EXCEPT ![d] = "relist"] /\ UNCHANGED view
    BY <1>3, <1>8 DEF built
  <2>2. pc'[d] = "relist" /\ \A e \in Devices \ {d} : UNCHANGED <<pc[e], view[e]>>
    BY <1>6, <2>1
  <2>3. \A p \in HomePaths : ViewTrue(d, p)'
    BY <2>2 DEF ViewTrue
  <2> QED
    BY <1>1, <1>2, <2>2, <2>3, ViewAgrees
<1> QED
  BY <1>7, <1>8

\* What is there to see of a listing that is what Drive has.
LEMMA ListedTrue ==
  ASSUME TInv, FInv, NEW d \in Devices, NEW p \in HomePaths
  PROVE  LET r == ListAllFiles[p]
             m == mem[d][p]
         IN  Names(r, p) /\ (r # None => Has(r.id, r.md5))
             /\ (m # None /\ Live(m.id) => r # None)
<1>1. Exact(ListAllFiles) /\ Shows({f \in Files : Live(f)}, ListAllFiles)
  BY ListingExact
<1>2. p \in Paths /\ Names(mem[d][p], p)
  BY DEF FInv, Agrees, RecordsTrue, HomePaths
<1>3. mem[d][p] # None => mem[d][p].id \in Files
  BY <1>2 DEF TInv, StoreOK, Record
<1> QED
  BY <1>1, <1>2, <1>3 DEF Exact, Shows, Names, Has

\* A listing: with a token already, or without one; and the token.
LEMMA ListAgrees ==
  ASSUME TInv, FInv, ListingsCurrent, NEW d \in Devices,
         Relist(d) \/ ListAll(d) \/ GetStartPageToken(d)
  PROVE  FInv'
<1>1. UNCHANGED <<drive, unseen, rec, mem, todo, errs>>
  BY DEF Relist, ListAll, GetStartPageToken, driveVars, storeVars
<1>2. pc'[d] \in {"listed", "viewed"} /\ \A e \in Devices \ {d} : UNCHANGED <<pc[e], view[e]>>
  BY DEF Relist, ListAll, GetStartPageToken, TInv, CycleOK, StoreOK
<1>3. fresh'[d] \subseteq unseen'[d] /\ \A e \in Devices \ {d} : UNCHANGED fresh[e]
  BY DEF Relist, ListAll, GetStartPageToken, driveVars, TInv, DriveOK, FInv, FeedsNest
<1>4. view'[d] = ListAllFiles
  BY DEF Relist, ListAll, GetStartPageToken, TInv, StoreOK, ListingsCurrent
<1>5. ASSUME NEW p \in HomePaths
      PROVE  ViewTrue(d, p)'
  <2>1. LET r == ListAllFiles[p]
            m == mem[d][p]
        IN  Names(r, p) /\ (r # None => Has(r.id, r.md5))
            /\ (m # None /\ Live(m.id) => r # None)
    BY ListedTrue
  <2> DEFINE r == ListAllFiles[p]
  <2>2. view'[d][p] = r /\ mem'[d][p] = mem[d][p]
    BY <1>1, <1>4
  <2>3. Names(r, p) /\ (r # None => Has(r.id, r.md5))
        /\ (mem[d][p] # None /\ Live(mem[d][p].id) => r # None)
    BY <2>1
  <2> HIDE DEF r
  <2> QED
    BY <1>1, <2>2, <2>3 DEF ViewTrue, Names, Has, Live
<1> QED
  BY <1>1, <1>2, <1>3, <1>5, ViewAgrees

\* Every path is decided: a record that is not true gets a task to renew it.
LEMMA DecideAgrees ==
  ASSUME TInv, FInv, OneFilePerName, NEW d \in Devices, Decide(d)
  PROVE  FInv'
<1> DEFINE ids == {view[d][p].id : p \in {q \in Paths : view[d][q] # None}}
           task(p) == TaskFor(DetermineAction(scan[d][p], view[d][p], mem[d][p], None, ids),
                              view[d][p])
<1>1. UNCHANGED <<drive, unseen, fresh, rec, mem, errs>> /\ pc[d] = "viewed"
  BY DEF Decide, driveVars
<1>2. pc'[d] = "running"
      /\ \A e \in Devices \ {d} : UNCHANGED <<pc[e], view[e], todo[e]>>
  BY DEF Decide, TInv, CycleOK, StoreOK, TasksOK
<1>3. \A p \in Paths : todo'[d][p] = task(p)
  BY DEF Decide, TInv, TasksOK
<1>4. ASSUME NEW p \in HomePaths
      PROVE  Agrees(d, p)'
  <2> DEFINE l == scan[d][p]
             r == view[d][p]
             m == mem[d][p]
             t == todo'[d][p]
  <2>1. /\ p \in Paths /\ l \in LocalFile \cup {None} /\ r \in Rows \cup {None}
        /\ m \in Record \cup {None} /\ Sound(m)
    BY DEF TInv, CycleOK, StoreOK, Rows, Sound, HomePaths
  <2>2. t = TaskFor(DetermineAction(l, r, m, None, ids), r)
    BY <1>3, <2>1
  <2>3. /\ Names(r, p)
        /\ m # None /\ m.id \notin fresh[d] /\ Live(m.id) => r # None
        /\ r # None /\ r.id \notin fresh[d] => Has(r.id, r.md5)
        /\ Names(m, p) /\ RecordsTrue(d, p)
    BY <1>1 DEF FInv, Agrees, ViewTrue, RecordsTrue
  <2>4. /\ r # None => r.id \in Files /\ Exists(r.id)
        /\ m # None => m.id \in Files /\ Exists(m.id)
    BY <2>1 DEF Rows, Snapshot, Record, Sound
  <2> HIDE DEF l, ids
  <2>5. /\ t.row \in {None, r} /\ (t.act = "download" => t.row = r)
        /\ t.id = None \/ (r # None /\ t.id = r.id) \/ (m # None /\ t.id = m.id)
        /\ r # None /\ m # None /\ RemoteChanged(r, m) => Renewing(t)
    <3> HIDE DEF t, r, m
    <3> QED
      BY <2>1, <2>2, TaskRenews
  <2>6. RecordsTrue(d, p)'
    BY <1>1, <2>3 DEF RecordsTrue, Names, Told, Has, Live
  <2>7. TaskNamed(d, p)'
    <3>1. t.id # None => drive[t.id].st # "none" /\ drive[t.id].name = p
      BY <2>3, <2>4, <2>5 DEF Names, Exists
    <3>2. t.row # None => drive[t.row.id].name = p
      BY <2>3, <2>5 DEF Names
    <3> QED
      BY <1>1, <3>1, <3>2 DEF TaskNamed, Names, Exists
  <2>8. TaskTrue(d, p)'
    <3>1. t.act = "download" /\ t.row # None /\ t.row.id \notin fresh[d] => Has(t.row.id, t.row.md5)
      BY <2>3, <2>5
    <3> QED
      BY <1>1, <3>1 DEF TaskTrue, Has, Live
  <2>9. Renewed(d, p)'
    <3>1. ASSUME m # None, m.id \notin fresh[d], Live(m.id), drive[m.id].md5 # m.fp
          PROVE  Renewing(t)
      <4>1. r # None /\ r.id = m.id
        BY <2>3, <2>4, <3>1 DEF OneFilePerName, Names
      <4>2. r.md5 = drive[m.id].md5 /\ r.md5 \in Contents
        BY <2>3, <2>4, <3>1, <4>1 DEF Has, TInv, DriveOK, FilesHaveContents
      <4>3. RemoteChanged(r, m)
        BY <3>1, <4>2, MaxContentAssumption DEF RemoteChanged, Fingerprint, Contents, NoMd5
      <4> QED
        BY <2>5, <3>1, <4>1, <4>3
    <3>2. Told(m, fresh[d]) \/ Renewing(t)
      BY <3>1 DEF Told, Has
    <3> QED
      BY <1>1, <3>2 DEF Renewed, Told, Has, Live
  <2>10. ViewTrue(d, p)'
    BY <1>2 DEF ViewTrue
  <2> QED
    BY <2>6, <2>7, <2>8, <2>9, <2>10 DEF Agrees
<1>5. fresh'[d] \subseteq unseen'[d]
  BY <1>1 DEF FInv, FeedsNest
<1> QED
  BY <1>1, <1>2, <1>4, <1>5, DeviceStep

\* The end of a cycle: records and token go to redb together.
LEMMA FinishAgrees ==
  ASSUME TInv, FInv, NEW d \in Devices, FinishCycle(d)
  PROVE  FInv'
<1>1. /\ UNCHANGED <<drive, mem, view>> /\ rec' = [rec EXCEPT ![d] = mem[d]]
      /\ pc[d] = "running" /\ \A p \in Paths : Over(todo[d][p])
  BY DEF FinishCycle, Persist
<1>2. /\ pc'[d] = "idle" /\ fresh'[d] = {} /\ todo'[d] = NoTasks /\ rec'[d] = mem[d]
      /\ unseen'[d] = IF errs[d] THEN unseen[d] ELSE fresh[d]
  BY <1>1 DEF FinishCycle, TInv, DriveOK, StoreOK, CycleOK, TasksOK
<1>3. \A e \in Devices \ {d} :
        UNCHANGED <<unseen[e], fresh[e], pc[e], rec[e], mem[e], view[e], todo[e], errs[e]>>
  BY <1>1 DEF FinishCycle, TInv, DriveOK, StoreOK, CycleOK, TasksOK
<1>4. ASSUME NEW p \in HomePaths
      PROVE  Agrees(d, p)'
  <2>1. p \in Paths /\ Names(mem[d][p], p)
    BY DEF HomePaths, FInv, Agrees, RecordsTrue
  <2>2. Told(mem[d][p], IF errs[d] THEN unseen[d] ELSE fresh[d])
    BY <1>1, <2>1 DEF FInv, Agrees, RecordsTrue, Renewed, Renewing
  <2>3. RecordsTrue(d, p)'
    BY <1>1, <1>2, <2>1, <2>2 DEF RecordsTrue, Names, Told, Has, Live
  <2>4. TaskNamed(d, p)'
    BY <1>2, <2>1, NoTaskNamed DEF NoTasks
  <2> QED
    BY <1>2, <2>3, <2>4 DEF Agrees, ViewTrue, TaskTrue, Renewed
<1> QED
  BY <1>1, <1>2, <1>3, <1>4, DeviceStep

-----------------------------------------------------------------------------
(* Users, the start, and the theorem.                                      *)

\* What users do to Drive is noted; what they do to a disk is no matter here.
LEMMA UserAgrees ==
  ASSUME TInv, FInv, User
  PROVE  FInv'
<1>1. UNCHANGED <<storeVars, cycleVars>>
  BY DEF User, UserWrite, UserTouch, UserRemove, WebWrite, WebTrash, WebRestore, userFrame
<1>2. AllNoted /\ FeedsNest'
  <2>1. CASE \E d \in Devices, p \in Paths :
               UserWrite(d, p) \/ UserTouch(d, p) \/ UserRemove(d, p)
    <3>1. UNCHANGED driveVars
      BY <2>1 DEF UserWrite, UserTouch, UserRemove
    <3> QED
      BY <3>1, QuietNoted DEF FInv
  <2>2. CASE \E f \in Files : WebWrite(f) \/ WebTrash(f) \/ WebRestore(f)
    <3>1. PICK f \in Files : WebWrite(f) \/ WebTrash(f) \/ WebRestore(f)
      BY <2>2
    <3>2. drive[f] \in DriveFile
      BY DEF TInv, DriveOK
    <3>3. PICK file : /\ ChangeDrive(f, file) /\ file.name = drive[f].name
                      /\ file.st \in {"live", "trashed"}
      <4>1. CASE WebWrite(f)
        <5>1. ChangeDrive(f, WithContent(f, NewContent)) /\ Live(f)
          BY <4>1 DEF WebWrite
        <5>2. WithContent(f, NewContent).name = drive[f].name
              /\ WithContent(f, NewContent).st = drive[f].st
          BY <3>2 DEF WithContent, DriveFile
        <5> QED
          BY <5>1, <5>2 DEF Live
      <4>2. CASE WebTrash(f)
        <5>1. ChangeDrive(f, [drive[f] EXCEPT !.st = "trashed"])
          BY <4>2 DEF WebTrash
        <5>2. [drive[f] EXCEPT !.st = "trashed"].name = drive[f].name
              /\ [drive[f] EXCEPT !.st = "trashed"].st = "trashed"
          BY <3>2 DEF DriveFile
        <5> QED
          BY <5>1, <5>2
      <4>3. CASE WebRestore(f)
        <5>1. ChangeDrive(f, [drive[f] EXCEPT !.st = "live"])
          BY <4>3 DEF WebRestore
        <5>2. [drive[f] EXCEPT !.st = "live"].name = drive[f].name
              /\ [drive[f] EXCEPT !.st = "live"].st = "live"
          BY <3>2 DEF DriveFile
        <5> QED
          BY <5>1, <5>2
      <4> QED
        BY <3>1, <4>1, <4>2, <4>3
    <3> QED
      BY <3>3, ChangeNoted DEF FInv
  <2> QED
    BY <2>1, <2>2 DEF User
<1>3. \A d \in Devices : \A p \in HomePaths : Agrees(d, p)'
  BY <1>1, <1>2, OtherAgrees DEF storeVars, cycleVars
<1> QED
  BY <1>2, <1>3 DEF FInv

\* Every step keeps the invariant.
LEMMA StepAgrees ==
  ASSUME TInv, FInv, Undisturbed, Undisturbed', [Next]_vars
  PROVE  FInv'
<1>1. ASSUME NEW d \in Devices, Work(d)
      PROVE  FInv'
  BY <1>1, EarlySteps, FetchAgrees, ListAgrees, DecideAgrees, TaskAgrees, FinishAgrees
  DEF Work, Prepare, Undisturbed
<1>2. ASSUME NEW d \in Devices, Hindrance(d)
      PROVE  FInv'
  <2>1. ASSUME NEW p \in Paths, DeferUpload(d, p)
        PROVE  FALSE
    BY <2>1 DEF DeferUpload, Undisturbed
  <2> QED
    BY <1>2, <2>1, EarlySteps, TaskAgrees DEF Hindrance
<1>3. CASE User
  BY <1>3, UserAgrees
<1>4. CASE UNCHANGED vars
  <2>1. FeedsNest'
    BY <1>4 DEF FInv, FeedsNest, vars, driveVars
  <2>2. \A d \in Devices : \A p \in HomePaths : Agrees(d, p)'
    BY <1>4, SameAgrees DEF vars, driveVars, storeVars, cycleVars
  <2> QED
    BY <2>1, <2>2 DEF FInv
<1> QED
  BY <1>1, <1>2, <1>3, <1>4 DEF Next

\* At the start a record has the checksum of the one file, and no view is
\* made.
LEMMA InitAgrees ==
  ASSUME Init
  PROVE  FInv
<1> DEFINE f == Min2(Files)
<1>1. PICK p \in HomePaths, vv \in {EmptyVector} \cup {Increment(EmptyVector, d) : d \in Devices},
           start \in [Devices -> Starts] : StartsAt(p, vv, start)
  BY DEF Init, StartsAt
<1> DEFINE synced == [id |-> f, fp |-> 1, md5 |-> 1, stat |-> 0, rev |-> 1, vv |-> vv]
<1>2. f \in Files /\ p \in Paths
  BY FilesAssumption, Min2InSet DEF HomePaths
<1>3. drive[f].name = p /\ drive[f].md5 = 1
  BY <1>1, <1>2 DEF StartsAt
<1>4. /\ rec = [d \in Devices |-> [Nothing EXCEPT
                  ![p] = IF start[d] = "synced" THEN synced ELSE None]]
      /\ mem = rec
  BY <1>1 DEF StartsAt
<1>5. synced.id = f /\ synced.fp = 1
  OBVIOUS
<1>6. pc = [d \in Devices |-> "idle"] /\ todo = [d \in Devices |-> NoTasks]
      /\ fresh = [d \in Devices |-> {}]
  BY DEF Init
<1> HIDE DEF synced, f
<1>7. ASSUME NEW d \in Devices, NEW q \in HomePaths
      PROVE  Agrees(d, q)
  <2>1. q \in Paths
    BY DEF HomePaths
  <2>2. rec[d][q] = IF q = p /\ start[d] = "synced" THEN synced ELSE None
    BY <1>2, <1>4, <2>1 DEF Nothing
  <2>3. Names(rec[d][q], q) /\ Told(rec[d][q], unseen[d])
    BY <1>3, <1>5, <2>2 DEF Names, Told, Has
  <2>4. todo[d][q] = NoTask
    BY <1>6, <2>1 DEF NoTasks
  <2>5. TaskNamed(d, q)
    BY <2>4 DEF TaskNamed, Names, NoTask
  <2> QED
    BY <1>4, <1>6, <2>3, <2>5 DEF Agrees, RecordsTrue, ViewTrue, TaskTrue, Renewed
<1> QED
  BY <1>6, <1>7 DEF FInv, FeedsNest

\* While no two files have one name, no listing is older than its token and no
\* upload is put off: whatever users and devices do, and whatever fails, what
\* a record in redb says of a file is what Drive has, or the feed has news of
\* the file (fetch_changes_incremental, determine_action and the persistence
\* of records and token at the end of run_sync together).
THEOREM NothingStaleForGood == (Spec /\ []Undisturbed) => []FingerprintsTrue
<1>1. Init => FInv
  BY InitAgrees
<1>2. TInv /\ TInv' /\ Undisturbed /\ Undisturbed' /\ FInv /\ [Next]_vars => FInv'
  BY StepAgrees
<1>3. FInv => FingerprintsTrue
  BY DEF FInv, Agrees, RecordsTrue, FingerprintsTrue, Told
<1> QED
  BY <1>1, <1>2, <1>3, TypeInvariance, PTL DEF Spec

-----------------------------------------------------------------------------
(* The two halves of a record.  A fingerprint that is true says something  *)
(* of the local file only where the record is of one content.              *)

\* A download gets what was listed.
DownloadsCurrent ==
  \A d \in Devices, p \in Paths :
    At(d, p, {"download"}, "started") =>
      drive[todo[d][p].id].md5 = todo[d][p].row.md5

\* No content met a window, and no download was overtaken.
Unmixed == raced = {} /\ DownloadsCurrent

\* The content Drive had and the content the disk had, in one record.
OneContent(m) == m # None => m.fp = m.md5

\* What was scanned is there, or gone.
ScanTrue(d, p) ==
  (/\ pc[d] \in {"scanned", "relist", "listed", "viewed"}
   /\ scan[d][p] # None /\ disk[d][p] # None)
  => scan[d][p].md5 = disk[d][p].md5

\* A task that takes the disk at its word: a touch, and a download written.
Trusting(t) ==
  \/ t.act = "touch" /\ t.at = "ready"
  \/ t.act = "download" /\ t.at \in {"effected", "done"}

\* What such a task is to find, if l is the local file and m the record.
Justified(t, l, m) ==
  Trusting(t) /\ l # None => l.md5 = IF t.act = "touch" THEN m.md5 ELSE t.row.md5

\* The inductive invariant.
MInv ==
  \A d \in Devices, p \in Paths :
    /\ OneContent(rec[d][p]) /\ OneContent(mem[d][p])
    /\ ScanTrue(d, p) /\ Justified(todo[d][p], disk[d][p], mem[d][p])

\* A device nothing happens to but a content in place of another, with the
\* modification time changed, or none.
Kept(e) ==
  /\ UNCHANGED <<rec[e], mem[e], pc[e], scan[e], todo[e]>>
  /\ \A p \in Paths : \/ disk'[e][p] = None
                      \/ disk[e][p] # None /\ disk'[e][p].md5 = disk[e][p].md5

\* It keeps what is said of it.
LEMMA KeptOne ==
  ASSUME MInv, NEW e \in Devices, Kept(e), NEW p \in Paths
  PROVE  /\ OneContent(rec[e][p])' /\ OneContent(mem[e][p])'
         /\ ScanTrue(e, p)' /\ Justified(todo[e][p], disk[e][p], mem[e][p])'
BY DEF MInv, Kept, OneContent, ScanTrue, Justified, Trusting

\* A step of a task keeps the invariant when it keeps what is said of the
\* paths of its device.
LEMMA TaskKeepsOne ==
  ASSUME MInv, NEW d \in Devices, pc[d] = "running", UNCHANGED <<rec, pc, scan>>,
         \A e \in Devices \ {d} : UNCHANGED <<mem[e], todo[e], disk[e]>>,
         \A q \in Paths : OneContent(mem'[d][q]) /\ Justified(todo'[d][q], disk'[d][q], mem'[d][q])
  PROVE  MInv'
<1>1. ASSUME NEW e \in Devices \ {d}
      PROVE  Kept(e)
  BY DEF Kept
<1>2. \A q \in Paths : OneContent(rec'[d][q]) /\ ScanTrue(d, q)'
  BY DEF MInv, ScanTrue
<1> QED
  BY <1>1, <1>2, KeptOne DEF MInv

\* A task that ends, fails or goes on trusts nothing new.
LEMMA TaskLetsBe ==
  ASSUME TInv, MInv, NEW d \in Devices, NEW p \in Paths,
         pc[d] = "running", UNCHANGED <<rec, pc, scan>>,
         \A e \in Devices \ {d} : UNCHANGED <<mem[e], todo[e], disk[e]>>,
         \A q \in Paths \ {p} : mem'[d][q] = mem[d][q] /\ disk'[d][q] = disk[d][q],
         \A q \in Paths \ {p} : ~Trusting(todo'[d][q]) \/ todo'[d][q] = todo[d][q],
         ~Trusting(todo'[d][p]), OneContent(mem'[d][p])
  PROVE  MInv'
<1>1. ASSUME NEW q \in Paths
      PROVE  OneContent(mem'[d][q]) /\ Justified(todo'[d][q], disk'[d][q], mem'[d][q])
  BY DEF MInv, Justified
<1> QED
  BY <1>1, TaskKeepsOne

\* One task changes; the others and the records and the disk do not.
LEMMA SetLetsBe ==
  ASSUME TInv, MInv, NEW d \in Devices, NEW p \in Paths,
         pc[d] = "running", UNCHANGED <<rec, pc, scan, mem, disk>>,
         NEW u, todo' = [todo EXCEPT ![d][p] = u], ~Trusting(u)
  PROVE  MInv'
<1>1. /\ \A e \in Devices \ {d} : todo'[e] = todo[e]
      /\ \A q \in Paths \ {p} : todo'[d][q] = todo[d][q]
      /\ todo'[d][p] = u
  BY DEF TInv, TasksOK
<1>2. OneContent(mem'[d][p])
  BY DEF MInv
<1> QED
  BY <1>1, <1>2, TaskLetsBe

\* A task fails.
LEMMA FailLetsBe ==
  ASSUME TInv, MInv, NEW d \in Devices, NEW p \in Paths,
         pc[d] = "running", UNCHANGED <<rec, pc, scan, mem, disk>>, FailTask(d, p)
  PROVE  MInv'
<1>1. /\ todo' = [todo EXCEPT ![d] = [q \in Paths |->
                    IF q = p \/ todo[d][q].after = p THEN FailedTask ELSE todo[d][q]]]
      /\ todo \in [Devices -> [Paths -> Task]]
  BY DEF FailTask, TInv, TasksOK
<1>2. \A e \in Devices \ {d} : todo'[e] = todo[e]
  BY <1>1
<1>3. \A q \in Paths : todo'[d][q] \in {FailedTask, todo[d][q]}
  BY <1>1
<1>4. todo'[d][p] = FailedTask /\ ~Trusting(FailedTask)
  BY <1>1 DEF Trusting, FailedTask, NoTask
<1>5. OneContent(mem'[d][p])
  BY DEF MInv
<1> QED
  BY <1>2, <1>3, <1>4, <1>5, TaskLetsBe

\* A task writes a record of one content, or none, and ends.
LEMMA WriteLetsBe ==
  ASSUME TInv, MInv, NEW d \in Devices, NEW p \in Paths,
         pc[d] = "running", UNCHANGED <<rec, pc, scan, disk>>, End(d, p),
         NEW m, Upsert(d, p, m), OneContent(m)
  PROVE  MInv'
<1>1. /\ \A e \in Devices \ {d} : todo'[e] = todo[e] /\ mem'[e] = mem[e]
      /\ \A q \in Paths \ {p} : todo'[d][q] = todo[d][q] /\ mem'[d][q] = mem[d][q]
      /\ todo'[d][p] = NoTask /\ mem'[d][p] = m
  BY UpsertStays DEF End, TInv, TasksOK
<1>2. ~Trusting(NoTask)
  BY DEF Trusting, NoTask
<1> QED
  BY <1>1, <1>2, TaskLetsBe

\* Steps that neither touch a disk nor write a record.
LEMMA MovesLetBe ==
  ASSUME TInv, MInv, NEW d \in Devices, NEW p \in Paths,
         \/ StartUpdate(d, p) \/ PlanUpload(d, p) \/ Preflight(d, p) \/ PatchMedia(d, p)
         \/ FindRemoteFileByContent(d, p) \/ CreateFile(d, p) \/ PlanDownload(d, p)
         \/ StartDownload(d, p) \/ ConfirmDelete(d, p) \/ StartDelete(d, p)
         \/ TrashRemote(d, p) \/ DeferUpload(d, p) \/ RequestFails(d, p)
         \/ LoseAnswer(d, p)
  PROVE  MInv'
<1> USE DEF At, Ready, taskFrame
<1>1. pc[d] = "running" /\ UNCHANGED <<rec, pc, scan, mem, disk>>
  <2>1. CASE StartUpdate(d, p) \/ PlanUpload(d, p) \/ Preflight(d, p)
    BY <2>1 DEF StartUpdate, PlanUpload, Preflight, diskVars
  <2>4. CASE PatchMedia(d, p) \/ FindRemoteFileByContent(d, p) \/ CreateFile(d, p)
    BY <2>4 DEF PatchMedia, FindRemoteFileByContent, CreateFile, diskVars
  <2>2. CASE PlanDownload(d, p) \/ StartDownload(d, p) \/ ConfirmDelete(d, p)
             \/ StartDelete(d, p) \/ TrashRemote(d, p) \/ DeferUpload(d, p)
    BY <2>2 DEF PlanDownload, StartDownload, ConfirmDelete, StartDelete, TrashRemote,
                DeferUpload, diskVars
  <2>3. CASE RequestFails(d, p) \/ LoseAnswer(d, p)
    BY <2>3 DEF RequestFails, LoseAnswer, diskVars
  <2> QED
    BY <2>1, <2>2, <2>3, <2>4
<1>2. CASE FailTask(d, p)
  BY <1>1, <1>2, FailLetsBe
<1>3. ASSUME /\ \A e \in Devices \ {d} : todo'[e] = todo[e]
             /\ \A q \in Paths \ {p} : todo'[d][q] = todo[d][q]
             /\ ~Trusting(todo'[d][p])
      PROVE  MInv'
  <2>1. OneContent(mem'[d][p])
    BY <1>1 DEF MInv
  <2> QED
    BY <1>1, <1>3, <2>1, TaskLetsBe
<1>4. todo \in [Devices -> [Paths -> Task]]
  BY DEF TInv, TasksOK
<1>5. \A a : Goto(d, p, a) => /\ \A e \in Devices \ {d} : todo'[e] = todo[e]
                              /\ \A q \in Paths \ {p} : todo'[d][q] = todo[d][q]
                              /\ todo'[d][p].act = todo[d][p].act /\ todo'[d][p].at = a
  BY <1>4 DEF Goto, Task
<1>6. CASE StartUpdate(d, p) \/ PlanDownload(d, p) \/ StartDownload(d, p) \/ StartDelete(d, p)
           \/ TrashRemote(d, p)
  BY <1>3, <1>5, <1>6
  DEF StartUpdate, PlanDownload, StartDownload, StartDelete, TrashRemote, Trusting
<1>7. CASE ConfirmDelete(d, p) \/ DeferUpload(d, p)
  <2>1. End(d, p) \/ Goto(d, p, "planned")
    BY <1>7 DEF ConfirmDelete, DeferUpload
  <2>2. End(d, p) => /\ \A e \in Devices \ {d} : todo'[e] = todo[e]
                     /\ \A q \in Paths \ {p} : todo'[d][q] = todo[d][q]
                     /\ todo'[d][p] = NoTask
    BY <1>4 DEF End
  <2> QED
    BY <1>3, <1>5, <2>1, <2>2 DEF Trusting, NoTask
<1>8. CASE PlanUpload(d, p) /\ ~FailTask(d, p)
  <2>1. todo' = [todo EXCEPT ![d][p].at = "planned", ![d][p].md5 = disk[d][p].md5]
        /\ todo[d][p].act \in {"update", "create"}
    BY <1>8 DEF PlanUpload
  <2>2. /\ \A e \in Devices \ {d} : todo'[e] = todo[e]
        /\ \A q \in Paths \ {p} : todo'[d][q] = todo[d][q]
        /\ todo'[d][p].act = todo[d][p].act
    BY <1>4, <2>1 DEF Task
  <2> QED
    BY <1>3, <2>1, <2>2 DEF Trusting
<1>9. CASE Preflight(d, p)
  <2>1. \/ todo' = [todo EXCEPT ![d][p].at = "checked", ![d][p].seen = drive[todo[d][p].id].rev]
        \/ todo' = [todo EXCEPT ![d][p].at = "mismatch", ![d][p].row = Row(todo[d][p].id)]
    BY <1>9 DEF Preflight
  <2>2. /\ \A e \in Devices \ {d} : todo'[e] = todo[e]
        /\ \A q \in Paths \ {p} : todo'[d][q] = todo[d][q]
        /\ todo'[d][p].act = todo[d][p].act
    BY <1>4, <2>1 DEF Task
  <2> QED
    BY <1>3, <1>9, <2>2 DEF Trusting, Preflight
<1>10. CASE PatchMedia(d, p) /\ ~FailTask(d, p)
  <2>1. Goto(d, p, "effected") /\ todo[d][p].act = "update"
    BY <1>10 DEF PatchMedia
  <2> QED
    BY <1>3, <1>5, <2>1 DEF Trusting
<1>11. CASE FindRemoteFileByContent(d, p)
  <2>1. todo[d][p].act = "create" /\
        \/ \E g : todo' = [todo EXCEPT ![d][p].at = "linked", ![d][p].id = g]
        \/ Goto(d, p, "started")
    BY <1>11 DEF FindRemoteFileByContent
  <2>2. /\ \A e \in Devices \ {d} : todo'[e] = todo[e]
        /\ \A q \in Paths \ {p} : todo'[d][q] = todo[d][q]
        /\ todo'[d][p].act = todo[d][p].act
    BY <1>4, <1>5, <2>1 DEF Task
  <2> QED
    BY <1>3, <2>1, <2>2 DEF Trusting
<1>12. CASE CreateFile(d, p) /\ ~FailTask(d, p)
  <2>1. PICK g \in Files : todo' = [todo EXCEPT ![d][p].at = "effected", ![d][p].id = g]
    BY <1>12 DEF CreateFile
  <2>2. /\ \A e \in Devices \ {d} : todo'[e] = todo[e]
        /\ \A q \in Paths \ {p} : todo'[d][q] = todo[d][q]
        /\ todo'[d][p].act = todo[d][p].act /\ todo[d][p].act = "create"
    BY <1>4, <1>12, <2>1 DEF Task, CreateFile
  <2> QED
    BY <1>3, <2>2 DEF Trusting
<1>13. CASE RequestFails(d, p) \/ LoseAnswer(d, p)
  BY <1>2, <1>13 DEF RequestFails, LoseAnswer
<1> QED
  BY <1>2, <1>6, <1>7, <1>8, <1>9, <1>10, <1>11, <1>12, <1>13

\* Keeping both starts two tasks.
LEMMA KeepBothLetsBe ==
  ASSUME TInv, MInv, NEW d \in Devices, NEW p \in Paths,
         BeginConflict(d, p) \/ RevisionMismatch(d, p)
  PROVE  MInv'
<1>1. pc[d] = "running" /\ UNCHANGED <<rec, pc, scan, mem, disk>>
  BY DEF BeginConflict, RevisionMismatch, At, taskFrame, diskVars
<1> DEFINE t == todo[d][p]
           copy == [NoTask EXCEPT !.act = "download", !.at = "ready",
                                  !.id = t.id, !.row = t.row]
           update(c) == [NoTask EXCEPT !.act = "update", !.at = "ready",
                                       !.id = t.id, !.row = t.row, !.after = c]
<1>2. PICK c \in CopyPaths : todo' = [todo EXCEPT ![d][c] = copy, ![d][p] = update(c)]
  <2>1. KeepBoth(d, p)
    BY DEF BeginConflict, RevisionMismatch
  <2> QED
    BY <2>1, Zenon DEF KeepBoth
<1>3. c \in Paths
  BY PathsAssumption
<1>4. ~Trusting(copy) /\ ~Trusting(update(c))
  BY DEF Trusting, NoTask
<1> HIDE DEF copy, update
<1>5. /\ \A e \in Devices \ {d} : todo'[e] = todo[e]
      /\ \A q \in Paths \ {p} : todo'[d][q] \in {copy, todo[d][q]}
      /\ todo'[d][p] = update(c)
  BY <1>2, <1>3 DEF TInv, TasksOK
<1>6. OneContent(mem'[d][p])
  BY <1>1 DEF MInv
<1>7. /\ \A q \in Paths \ {p} : ~Trusting(todo'[d][q]) \/ todo'[d][q] = todo[d][q]
      /\ ~Trusting(todo'[d][p])
  BY <1>4, <1>5
<1> QED
  BY <1>1, <1>5, <1>6, <1>7, TaskLetsBe

\* Records that go, and records of a content on both sides.
LEMMA WritesLetBe ==
  ASSUME TInv, MInv, raced' = {}, NEW d \in Devices, NEW p \in Paths,
         \/ CleanupMetadata(d, p) \/ CommitDelete(d, p) \/ TouchMetadata(d, p)
         \/ CommitUpdate(d, p) \/ CommitCreate(d, p) \/ CommitDownload(d, p)
  PROVE  MInv'
<1> DEFINE t == todo[d][p]
           l == disk[d][p]
           m == mem[d][p]
<1>1. pc[d] = "running" /\ UNCHANGED <<rec, pc, scan, disk>>
  BY DEF CleanupMetadata, CommitDelete, TouchMetadata, CommitUpdate, CommitCreate,
         CommitDownload, At, taskFrame, diskVars
<1>2. CASE FailTask(d, p) /\ UNCHANGED mem
  BY <1>1, <1>2, FailLetsBe
<1>3. CASE CleanupMetadata(d, p) \/ CommitDelete(d, p)
  <2>1. End(d, p) /\ Upsert(d, p, None)
    BY <1>3 DEF CleanupMetadata, CommitDelete
  <2> QED
    BY <1>1, <2>1, WriteLetsBe DEF OneContent
<1>4. CASE TouchMetadata(d, p) /\ l # None
  <2> DEFINE n == [m EXCEPT !.md5 = l.md5, !.stat = l.stat]
  <2>1. End(d, p) /\ Upsert(d, p, n) /\ t.act = "touch" /\ t.at = "ready"
    BY <1>4 DEF TouchMetadata, At
  <2>2. m \in Record /\ m # None
    BY <2>1, NoEntryAssumption DEF TInv, TasksOK, StoreOK, Fit
  <2>3. l.md5 = m.md5 /\ m.fp = m.md5
    BY <1>4, <2>1, <2>2 DEF MInv, Justified, Trusting, OneContent
  <2>4. n.fp = n.md5
    BY <2>2, <2>3 DEF Record
  <2> HIDE DEF n
  <2> QED
    BY <1>1, <2>1, <2>4, WriteLetsBe DEF OneContent
<1>5. CASE CommitUpdate(d, p) /\ l # None
  <2> DEFINE row == [Row(t.id) EXCEPT !.vv = NextVector(d, p)]
             n == RecordOf(row, t.md5, l)
  <2>1. End(d, p) /\ Upsert(d, p, n)
        /\ raced' = IF row.md5 = t.md5 THEN raced ELSE raced \cup {row.md5}
    BY <1>5 DEF CommitUpdate
  <2>2. n.fp = n.md5
    BY <2>1 DEF RecordOf
  <2> HIDE DEF n
  <2> QED
    BY <1>1, <2>1, <2>2, WriteLetsBe DEF OneContent
<1>6. CASE CommitCreate(d, p) /\ l # None
  <2> DEFINE n == RecordOf(Row(t.id), t.md5, l)
  <2>1. End(d, p) /\ Upsert(d, p, n)
        /\ raced' = IF drive[t.id].md5 = t.md5 THEN raced ELSE raced \cup {drive[t.id].md5}
    BY <1>6 DEF CommitCreate
  <2>2. n.fp = n.md5
    BY <2>1 DEF RecordOf, Row
  <2> HIDE DEF n
  <2> QED
    BY <1>1, <2>1, <2>2, WriteLetsBe DEF OneContent
<1>7. CASE CommitDownload(d, p) /\ l # None
  <2> DEFINE n == RecordOf(t.row, l.md5, l)
  <2>1. End(d, p) /\ Upsert(d, p, n) /\ t.act = "download" /\ t.at = "done"
    BY <1>7 DEF CommitDownload, At
  <2>2. n.fp = n.md5
    BY <1>7, <2>1 DEF RecordOf, MInv, Justified, Trusting
  <2> HIDE DEF n
  <2> QED
    BY <1>1, <2>1, <2>2, WriteLetsBe DEF OneContent
<1>8. l = None => \/ FailTask(d, p) /\ UNCHANGED mem
                  \/ CleanupMetadata(d, p) \/ CommitDelete(d, p)
  BY DEF TouchMetadata, CommitUpdate, CommitCreate, CommitDownload
<1> QED
  BY <1>2, <1>3, <1>4, <1>5, <1>6, <1>7, <1>8

\* What a task does to the disk: a download writes what was listed.
LEMMA EffectsLetBe ==
  ASSUME TInv, MInv, DownloadsCurrent, NEW d \in Devices, NEW p \in Paths,
         WriteDownload(d, p) \/ MoveToTrash(d, p) \/ MarkDone(d, p)
  PROVE  MInv'
<1> DEFINE t == todo[d][p]
<1>1. pc[d] = "running" /\ UNCHANGED <<rec, pc, scan, mem>>
  BY DEF WriteDownload, MoveToTrash, MarkDone, At, taskFrame
<1>2. /\ todo \in [Devices -> [Paths -> Task]]
      /\ disk \in [Devices -> [Paths -> LocalFile \cup {None}]]
  BY DEF TInv, TasksOK, UserOK
<1>3. \A q \in Paths : OneContent(mem'[d][q])
  BY <1>1 DEF MInv
<1>4. CASE WriteDownload(d, p)
  <2> DEFINE f == t.id
             stat == IF disk[d][p] = None THEN 0 ELSE 1 - disk[d][p].stat
             file == [md5 |-> drive[f].md5, stat |-> stat]
             tasks == [q \in Paths |->
                        IF q = p THEN [todo[d][q] EXCEPT !.at = "effected"]
                        ELSE IF todo[d][q].after = p
                        THEN [todo[d][q] EXCEPT !.seen = drive[f].rev]
                        ELSE todo[d][q]]
  <2>1. /\ todo' = [todo EXCEPT ![d] = tasks] /\ disk' = [disk EXCEPT ![d][p] = file]
        /\ At(d, p, {"download"}, "started")
    BY <1>4 DEF WriteDownload
  <2>2. file.md5 = t.row.md5 /\ t.act = "download"
    BY <2>1 DEF DownloadsCurrent, At
  <2>3. \A q \in Paths \ {p} : /\ tasks[q].act = todo[d][q].act /\ tasks[q].at = todo[d][q].at
                               /\ tasks[q].row = todo[d][q].row
    BY <1>2 DEF Task
  <2>4. tasks[p].act = t.act /\ tasks[p].at = "effected" /\ tasks[p].row = t.row
    BY <1>2 DEF Task
  <2> HIDE DEF tasks, file
  <2>5. \A e \in Devices \ {d} : UNCHANGED <<mem[e], todo[e], disk[e]>>
    BY <1>1, <1>2, <2>1
  <2>6. todo'[d] = tasks /\ disk'[d][p] = file
        /\ \A q \in Paths \ {p} : disk'[d][q] = disk[d][q]
    BY <1>2, <2>1
  <2>7. ASSUME NEW q \in Paths \ {p}
        PROVE  Justified(todo'[d][q], disk'[d][q], mem'[d][q])
    BY <1>1, <2>3, <2>6 DEF MInv, Justified, Trusting
  <2>8. Justified(todo'[d][p], disk'[d][p], mem'[d][p])
    BY <2>2, <2>4, <2>6 DEF Justified
  <2> QED
    BY <1>1, <1>3, <2>5, <2>7, <2>8, TaskKeepsOne
<1>5. CASE MoveToTrash(d, p)
  <2>1. CASE disk[d][p] = None
    BY <1>1, <1>5, <2>1, FailLetsBe DEF MoveToTrash, diskVars
  <2>2. CASE disk[d][p] # None
    <3>1. /\ Goto(d, p, "effected") /\ t.act = "delete_local"
          /\ disk' = [disk EXCEPT ![d][p] = None]
      BY <1>5, <2>2 DEF MoveToTrash, At
    <3>2. /\ \A e \in Devices \ {d} : UNCHANGED <<mem[e], todo[e], disk[e]>>
          /\ \A q \in Paths \ {p} : UNCHANGED <<mem[d][q], todo[d][q], disk[d][q]>>
          /\ todo'[d][p].act = t.act
      BY <1>1, <1>2, <3>1 DEF Goto, Task
    <3>3. ~Trusting(todo'[d][p])
      BY <3>1, <3>2 DEF Trusting
    <3> QED
      BY <1>1, <1>3, <3>2, <3>3, TaskLetsBe
  <2> QED
    BY <2>1, <2>2
<1>6. CASE MarkDone(d, p)
  <2>1. Goto(d, p, "done") /\ t.at = "effected" /\ UNCHANGED disk
    BY <1>6 DEF MarkDone, At, diskVars
  <2>2. /\ \A e \in Devices \ {d} : UNCHANGED <<mem[e], todo[e], disk[e]>>
        /\ \A q \in Paths \ {p} : todo'[d][q] = todo[d][q]
        /\ todo'[d][p].act = t.act /\ todo'[d][p].row = t.row /\ todo'[d][p].at = "done"
    BY <1>1, <1>2, <2>1 DEF Goto, Task
  <2>3. ASSUME NEW q \in Paths
        PROVE  Justified(todo'[d][q], disk'[d][q], mem'[d][q])
    <3>1. CASE q = p
      BY <1>1, <2>1, <2>2, <3>1 DEF MInv, Justified, Trusting
    <3>2. CASE q # p
      BY <1>1, <2>1, <2>2, <3>2 DEF MInv
    <3> QED
      BY <3>1, <3>2
  <2> QED
    BY <1>1, <1>3, <2>2, <2>3, TaskKeepsOne
<1> QED
  BY <1>4, <1>5, <1>6

\* Every step of a task.
LEMMA TaskOneContent ==
  ASSUME TInv, MInv, DownloadsCurrent, raced' = {}, NEW d \in Devices, NEW p \in Paths,
         \/ TaskStep(d, p) \/ DeferUpload(d, p)
         \/ RequestFails(d, p) \/ LoseAnswer(d, p)
  PROVE  MInv'
BY MovesLetBe, KeepBothLetsBe, WritesLetBe, EffectsLetBe
DEF TaskStep, Upload, Download, Delete

\* A step of one device that leaves the disk alone.
LEMMA DeviceKeepsOne ==
  ASSUME MInv, NEW d \in Devices, UNCHANGED disk,
         \A e \in Devices \ {d} : UNCHANGED <<rec[e], mem[e], pc[e], scan[e], todo[e]>>,
         \A p \in Paths : /\ rec'[d][p] \in {None, rec[d][p], mem[d][p]}
                          /\ mem'[d][p] \in {None, rec[d][p], mem[d][p]}
                          /\ ScanTrue(d, p)'
                          /\ Justified(todo'[d][p], disk'[d][p], mem'[d][p])
  PROVE  MInv'
<1>1. ASSUME NEW e \in Devices \ {d}
      PROVE  Kept(e)
  BY DEF Kept
<1>2. \A p \in Paths : OneContent(rec'[d][p]) /\ OneContent(mem'[d][p])
  BY DEF MInv, OneContent
<1> QED
  BY <1>1, <1>2, KeptOne DEF MInv

\* Where no task runs, none trusts the disk.
LEMMA IdleTrustsNone ==
  ASSUME JInv, NEW d \in Devices, pc[d] # "running", NEW p \in Paths
  PROVE  ~Trusting(todo[d][p])
BY DEF JInv, Trusting

\* The steps before the decisions.
LEMMA PrepareOneContent ==
  ASSUME TInv, JInv, MInv, NEW d \in Devices,
         \/ StartCycle(d) \/ PersistPurge(d) \/ ClearPurged(d) \/ ScanLocal(d)
         \/ FetchChanges(d) \/ Relist(d) \/ ListAll(d) \/ GetStartPageToken(d)
  PROVE  MInv'
<1>1. UNCHANGED <<disk, todo>>
  BY DEF StartCycle, PersistPurge, ClearPurged, ScanLocal, FetchChanges, Relist, ListAll,
         GetStartPageToken, diskVars
<1>2. pc[d] # "running"
  BY DEF StartCycle, PersistPurge, ClearPurged, ScanLocal, FetchChanges, Relist, ListAll,
         GetStartPageToken
<1>3. ASSUME NEW p \in Paths
      PROVE  Justified(todo'[d][p], disk'[d][p], mem'[d][p])
  BY <1>1, <1>2, IdleTrustsNone DEF Justified
<1>4. CASE StartCycle(d) \/ PersistPurge(d) \/ ClearPurged(d)
  <2>1. \A e \in Devices \ {d} : UNCHANGED <<rec[e], mem[e], pc[e], scan[e], todo[e]>>
    BY <1>1, <1>4 DEF StartCycle, PersistPurge, ClearPurged, Persist, TInv, StoreOK, CycleOK
  <2>2. pc'[d] \in {"recovering", "purged", "recovered"}
    BY <1>4 DEF StartCycle, PersistPurge, ClearPurged, TInv, CycleOK
  <2>3. ASSUME NEW p \in Paths
        PROVE  /\ rec'[d][p] \in {None, rec[d][p], mem[d][p]}
               /\ mem'[d][p] \in {None, rec[d][p], mem[d][p]}
    BY <1>4 DEF StartCycle, PersistPurge, ClearPurged, Persist, TInv, StoreOK
  <2>4. \A p \in Paths : ScanTrue(d, p)'
    BY <2>2 DEF ScanTrue
  <2> QED
    BY <1>1, <1>3, <2>1, <2>3, <2>4, DeviceKeepsOne
<1>5. CASE ScanLocal(d)
  <2>1. /\ \A e \in Devices \ {d} : UNCHANGED <<rec[e], mem[e], pc[e], scan[e], todo[e]>>
        /\ UNCHANGED <<rec, mem>> /\ scan'[d] = disk[d]
    BY <1>1, <1>5 DEF ScanLocal, storeVars, TInv, StoreOK, CycleOK
  <2>2. \A p \in Paths : ScanTrue(d, p)'
    BY <1>1, <2>1 DEF ScanTrue
  <2> QED
    BY <1>1, <1>3, <2>1, <2>2, DeviceKeepsOne
<1>6. CASE FetchChanges(d) \/ Relist(d) \/ ListAll(d) \/ GetStartPageToken(d)
  <2>1. /\ \A e \in Devices \ {d} : pc'[e] = pc[e]
        /\ UNCHANGED <<rec, mem, scan>>
    BY <1>6 DEF FetchChanges, Relist, ListAll, GetStartPageToken, storeVars, TInv, CycleOK
  <2>2. pc[d] \in {"scanned", "relist", "listed", "viewed"}
    BY <1>6 DEF FetchChanges, Relist, ListAll, GetStartPageToken
  <2>3. \A p \in Paths : ScanTrue(d, p)'
    BY <1>1, <2>1, <2>2 DEF MInv, ScanTrue
  <2> QED
    BY <1>1, <1>3, <2>1, <2>3, DeviceKeepsOne
<1> QED
  BY <1>4, <1>5, <1>6

\* A touch is decided where the content is the one of the record.
LEMMA TouchDecided ==
  ASSUME NEW l, NEW r, NEW m, NEW ids,
         NEW t, t = TaskFor(DetermineAction(l, r, m, None, ids), r), Trusting(t)
  PROVE  t.act = "touch" /\ l # None /\ l.md5 = m.md5
<1> DEFINE a == DetermineAction(l, r, m, None, ids)
           task == [NoTask EXCEPT !.act = a.act, !.at = "ready", !.id = a.id, !.row = r]
<1>1. task.at = "ready" /\ task.act = a.act /\ DOMAIN task = DOMAIN NoTask
      /\ {"act", "guarded", "at"} \subseteq DOMAIN NoTask /\ ~Trusting(NoTask)
  BY DEF NoTask, Trusting
<1>2. t = CASE a.act = "skip" -> NoTask
            [] a.act = "upload" /\ a.id # None ->
                 [task EXCEPT !.act = "update", !.guarded = TRUE]
            [] a.act = "upload" /\ a.id = None -> [task EXCEPT !.act = "create"]
            [] a.act = "conflict" -> ConflictTask(task)
            [] OTHER -> task
  BY DEF TaskFor
<1> HIDE DEF a, task
<1>3. t.at = "ready" /\ t.act = "touch" /\ a.act = "touch"
  <2>1. CASE a.act = "skip"
    BY <1>1, <1>2, <2>1
  <2>2. CASE a.act = "upload" /\ a.id # None
    BY <1>1, <1>2, <2>2 DEF Trusting
  <2>3. CASE a.act = "upload" /\ a.id = None
    BY <1>1, <1>2, <2>3 DEF Trusting
  <2>4. CASE a.act = "conflict"
    <3>1. t = ConflictTask(task)
      BY <1>2, <2>4
    <3>2. t.at = "ready" /\ t.act \in {"conflict", "update", "download"}
      BY <1>1, <2>4, <3>1 DEF ConflictTask
    <3> QED
      BY <3>2 DEF Trusting
  <2>5. CASE a.act \notin {"skip", "upload", "conflict"}
    BY <1>1, <1>2, <2>5 DEF Trusting
  <2> QED
    BY <2>1, <2>2, <2>3, <2>4, <2>5
<1>4. l # None /\ r # None /\ m # None /\ a = LocalRemoteAndRecord(l, r, m, None)
  BY <1>3 DEF a, DetermineAction, LocalAndRemote, LocalAndRecord, RemoteAndRecord, Act
<1>5. LocalDelta(l, m, None) # "content"
  BY <1>3, <1>4 DEF LocalRemoteAndRecord, ResolveDualContentChange, Act
<1>6. l.md5 = m.md5
  BY <1>5 DEF LocalDelta, Baseline
<1> QED
  BY <1>3, <1>4, <1>6

\* The tasks of a cycle trust what was scanned.
LEMMA DecideOneContent ==
  ASSUME TInv, MInv, NEW d \in Devices, Decide(d)
  PROVE  MInv'
<1> DEFINE ids == {view[d][p].id : p \in {q \in Paths : view[d][q] # None}}
           task(p) == TaskFor(DetermineAction(scan[d][p], view[d][p], mem[d][p], None, ids),
                              view[d][p])
<1>1. UNCHANGED <<disk, rec, mem>> /\ pc[d] = "viewed" /\ pc'[d] = "running"
  BY DEF Decide, diskVars, TInv, CycleOK
<1>2. \A e \in Devices \ {d} : UNCHANGED <<pc[e], scan[e], todo[e]>>
  BY DEF Decide, TInv, CycleOK, TasksOK
<1>3. \A p \in Paths : todo'[d][p] = task(p)
  BY DEF Decide, TInv, TasksOK
<1>4. ASSUME NEW p \in Paths
      PROVE  Justified(todo'[d][p], disk'[d][p], mem'[d][p])
  <2> DEFINE t == todo'[d][p]
             l == scan[d][p]
             m == mem[d][p]
  <2>1. t = TaskFor(DetermineAction(l, view[d][p], m, None, ids), view[d][p])
    BY <1>3
  <2>2. Trusting(t) => t.act = "touch" /\ l # None /\ l.md5 = m.md5
    <3> HIDE DEF t, l, m, ids
    <3> QED
      BY <2>1, TouchDecided
  <2>3. l # None /\ disk[d][p] # None => l.md5 = disk[d][p].md5
    BY <1>1 DEF MInv, ScanTrue
  <2> QED
    BY <1>1, <2>2, <2>3 DEF Justified
<1>5. \A p \in Paths : ScanTrue(d, p)'
  BY <1>1 DEF ScanTrue
<1> QED
  BY <1>1, <1>2, <1>4, <1>5, DeviceKeepsOne

\* The end of a cycle, early or not.
LEMMA EndOneContent ==
  ASSUME TInv, MInv, NEW d \in Devices, FinishCycle(d) \/ Crash(d)
  PROVE  MInv'
<1>1. UNCHANGED disk /\ pc'[d] = "idle"
  BY DEF FinishCycle, Crash, diskVars, TInv, CycleOK
<1>2. \A e \in Devices \ {d} : UNCHANGED <<rec[e], mem[e], pc[e], scan[e], todo[e]>>
  BY DEF FinishCycle, Crash, Persist, storeVars, TInv, StoreOK, CycleOK, TasksOK
<1>3. todo'[d] = NoTasks
  BY DEF FinishCycle, Crash, TInv, TasksOK
<1>4. ASSUME NEW p \in Paths
      PROVE  /\ rec'[d][p] \in {None, rec[d][p], mem[d][p]}
             /\ mem'[d][p] \in {None, rec[d][p], mem[d][p]}
             /\ ScanTrue(d, p)' /\ Justified(todo'[d][p], disk'[d][p], mem'[d][p])
  <2>1. rec'[d][p] \in {rec[d][p], mem[d][p]} /\ mem'[d][p] \in {rec[d][p], mem[d][p]}
    BY DEF FinishCycle, Crash, Persist, storeVars, TInv, StoreOK
  <2>2. ~Trusting(todo'[d][p])
    BY <1>3 DEF NoTasks, NoTask, Trusting
  <2> QED
    BY <1>1, <2>1, <2>2 DEF ScanTrue, Justified
<1> QED
  BY <1>1, <1>2, <1>4, DeviceKeepsOne

\* Users write where nothing was scanned: elsewhere it is a race.
LEMMA UserOneContent ==
  ASSUME TInv, JInv, MInv, raced' = {}, User
  PROVE  MInv'
<1>1. UNCHANGED <<rec, mem, pc, scan, todo>>
  BY DEF User, UserWrite, UserTouch, UserRemove, WebWrite, WebTrash, WebRestore, userFrame,
         storeVars, cycleVars
<1>2. disk \in [Devices -> [Paths -> LocalFile \cup {None}]]
  BY DEF TInv, UserOK
<1>3. CASE UNCHANGED disk
  <2>1. \A e \in Devices : Kept(e)
    BY <1>1, <1>3 DEF Kept
  <2> QED
    BY <2>1, KeptOne DEF MInv
<1>4. ASSUME NEW d \in Devices, NEW p \in Paths, UserTouch(d, p) \/ UserRemove(d, p)
      PROVE  MInv'
  <2>1. disk[d][p] \in LocalFile /\ disk[d][p] # None
    BY <1>2, <1>4 DEF UserTouch, UserRemove
  <2>2. ASSUME NEW e \in Devices, NEW q \in Paths
        PROVE  \/ disk'[e][q] \in {None, disk[e][q]}
               \/ disk[e][q] # None /\ disk'[e][q].md5 = disk[e][q].md5
    <3>1. CASE UserTouch(d, p)
      <4> DEFINE file == [disk[d][p] EXCEPT !.stat = 1 - @]
      <4>1. disk' = [disk EXCEPT ![d][p] = file]
        BY <1>2, <3>1 DEF UserTouch
      <4>2. file.md5 = disk[d][p].md5
        BY <2>1 DEF LocalFile
      <4> HIDE DEF file
      <4> QED
        BY <1>2, <2>1, <4>1, <4>2
    <3>2. CASE UserRemove(d, p)
      <4>1. disk' = [disk EXCEPT ![d][p] = None]
        BY <3>2 DEF UserRemove
      <4> QED
        BY <1>2, <4>1
    <3> QED
      BY <1>4, <3>1, <3>2
  <2>3. ASSUME NEW e \in Devices
        PROVE  Kept(e)
    <3>1. ASSUME NEW q \in Paths
          PROVE  \/ disk'[e][q] = None
                 \/ disk[e][q] # None /\ disk'[e][q].md5 = disk[e][q].md5
      <4>1. CASE disk'[e][q] = disk[e][q]
        BY <4>1
      <4>2. CASE disk'[e][q] # disk[e][q]
        BY <2>2, <4>2
      <4> QED
        BY <4>1, <4>2
    <3> QED
      BY <1>1, <3>1 DEF Kept
  <2> QED
    BY <2>3, KeptOne DEF MInv
<1>5. ASSUME NEW d \in Devices, NEW p \in Paths, UserWrite(d, p)
      PROVE  MInv'
  <2>1. pc[d] \notin {"scanned", "relist", "listed", "viewed", "running"}
    BY <1>5 DEF UserWrite
  <2>2. \A e \in Devices \ {d} : disk'[e] = disk[e]
    BY <1>2, <1>5 DEF UserWrite
  <2>3. ASSUME NEW e \in Devices \ {d}
        PROVE  Kept(e)
    BY <1>1, <2>2 DEF Kept
  <2>4. ASSUME NEW q \in Paths
        PROVE  /\ OneContent(rec[d][q])' /\ OneContent(mem[d][q])'
               /\ ScanTrue(d, q)' /\ Justified(todo[d][q], disk[d][q], mem[d][q])'
    <3>1. ~Trusting(todo[d][q])
      BY <2>1, IdleTrustsNone
    <3> QED
      BY <1>1, <2>1, <3>1 DEF MInv, OneContent, ScanTrue, Justified, Trusting
  <2> QED
    BY <2>3, <2>4, KeptOne DEF MInv
<1>6. (\E f \in Files : WebWrite(f) \/ WebTrash(f) \/ WebRestore(f)) => UNCHANGED disk
  BY DEF WebWrite, WebTrash, WebRestore
<1> QED
  BY <1>3, <1>4, <1>5, <1>6 DEF User

\* Every step keeps a record of one content.
LEMMA StepOneContent ==
  ASSUME TInv, JInv, MInv, Unmixed, Unmixed', [Next]_vars
  PROVE  MInv'
<1>1. DownloadsCurrent /\ raced' = {}
  BY DEF Unmixed
<1>2. ASSUME NEW d \in Devices, Work(d)
      PROVE  MInv'
  BY <1>1, <1>2, PrepareOneContent, DecideOneContent, TaskOneContent, EndOneContent
  DEF Work, Prepare
<1>3. ASSUME NEW d \in Devices, Hindrance(d)
      PROVE  MInv'
  BY <1>1, <1>3, TaskOneContent, EndOneContent DEF Hindrance
<1>4. CASE UNCHANGED vars
  <2>1. \A e \in Devices : Kept(e)
    <3>1. UNCHANGED <<rec, mem, pc, scan, todo, disk>>
      BY <1>4 DEF vars, storeVars, cycleVars, diskVars
    <3>2. \A e \in Devices, p \in Paths : disk[e][p] \in LocalFile \cup {None}
      BY DEF TInv, UserOK
    <3> QED
      BY <3>1, <3>2 DEF Kept
  <2> QED
    BY <2>1, KeptOne DEF MInv
<1> QED
  BY <1>1, <1>2, <1>3, <1>4, UserOneContent DEF Next

\* At the start a record is of the one content.
LEMMA InitOneContent ==
  ASSUME Init
  PROVE  MInv
<1> DEFINE f == Min2(Files)
<1>1. PICK p \in HomePaths, vv \in {EmptyVector} \cup {Increment(EmptyVector, d) : d \in Devices},
           start \in [Devices -> Starts] : StartsAt(p, vv, start)
  BY DEF Init, StartsAt
<1> DEFINE synced == [id |-> f, fp |-> 1, md5 |-> 1, stat |-> 0, rev |-> 1, vv |-> vv]
<1>2. p \in Paths
  BY DEF HomePaths
<1>3. /\ rec = [d \in Devices |-> [Nothing EXCEPT
                  ![p] = IF start[d] = "synced" THEN synced ELSE None]]
      /\ mem = rec /\ pc = [d \in Devices |-> "idle"] /\ todo = [d \in Devices |-> NoTasks]
  BY <1>1 DEF StartsAt
<1>4. synced.fp = synced.md5
  OBVIOUS
<1> HIDE DEF synced
<1>5. ASSUME NEW d \in Devices, NEW q \in Paths
      PROVE  /\ OneContent(rec[d][q]) /\ OneContent(mem[d][q])
             /\ ScanTrue(d, q) /\ Justified(todo[d][q], disk[d][q], mem[d][q])
  <2>1. rec[d][q] \in {synced, None}
    BY <1>2, <1>3 DEF Nothing
  <2>2. todo[d][q] = NoTask
    BY <1>3 DEF NoTasks
  <2> QED
    BY <1>3, <1>4, <2>1, <2>2 DEF OneContent, ScanTrue, Justified, Trusting, NoTask
<1> QED
  BY <1>5 DEF MInv

\* While, besides, no content meets a window of NoLossOutsideRaces and no
\* download gets something else than was listed, a record is of one content
\* (upsert_local_record and TouchMetadata of executor.rs).
LEMMA RecordsOfOneContent == (Spec /\ []Unmixed) => []MInv
<1>1. Init => MInv
  BY InitOneContent
<1>2. TInv /\ JInv /\ Unmixed /\ Unmixed' /\ MInv /\ [Next]_vars => MInv'
  BY StepOneContent
<1> QED
  BY <1>1, <1>2, TypeInvariance, Invariance, PTL DEF Spec

\* Then SyncedAgrees holds for every value of the constants: a device that
\* stands still, with nothing to be told of a file, has what Drive has.
THEOREM SyncedDevicesAgree == (Spec /\ []Undisturbed /\ []Unmixed) => []SyncedAgrees
<1>1. FingerprintsTrue /\ MInv => SyncedAgrees
  <2> SUFFICES ASSUME FingerprintsTrue, MInv, NEW d \in Devices, NEW p \in HomePaths,
                      rec[d][p] # None, rec[d][p].id \notin unseen[d], Live(rec[d][p].id)
               PROVE  drive[rec[d][p].id].md5 = rec[d][p].md5
    BY DEF SyncedAgrees
  <2>1. drive[rec[d][p].id].md5 = rec[d][p].fp
    BY DEF FingerprintsTrue, Has
  <2>2. rec[d][p].fp = rec[d][p].md5
    BY DEF MInv, OneContent, HomePaths
  <2> QED
    BY <2>1, <2>2
<1> QED
  BY <1>1, NothingStaleForGood, RecordsOfOneContent, PTL
=============================================================================
