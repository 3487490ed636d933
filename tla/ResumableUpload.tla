--------------------------- MODULE ResumableUpload --------------------------
(***************************************************************************)
(* The transfer of a large file (src/drive/upload.rs) with the upload      *)
(* session that src/sync/executor.rs keeps for it: the client sends one    *)
(* chunk after the other from the file as it is then, Drive answers how    *)
(* far it got, and a session that was not finished may be resumed by a     *)
(* later attempt.  SyncCycle takes such a transfer for one step; here it   *)
(* is many, between which the user edits, requests fail and the process    *)
(* dies.                                                                   *)
(*                                                                         *)
(* Abstractions.                                                           *)
(*  - One device, one path, one name on Drive, no other writer.            *)
(*  - A version of the file has Chunks chunks; all versions have one size, *)
(*    so that only the checksum tells them apart.                          *)
(*  - A record makes its Drive file the one the view shows; without one    *)
(*    the view shows what the full listing or the change feed has, any     *)
(*    file of that name if there are several.                              *)
(*  - The configuration is read when the process starts; a user may change *)
(*    it between two cycles, and each takes any of Policies.               *)
(*  - Vectors are left out: when both sides differ from the record, they   *)
(*    may ask for an upload under every policy.  Its guard fails then, and *)
(*    both versions are kept: Drive's goes to a path of its own, which is  *)
(*    not shown, the local one to Drive.                                   *)
(*  - Recovery is one step and so is a download (their crashes are in      *)
(*    SyncCycle); the checksum is taken of one version; an edit writes in  *)
(*    place; a session's time limit is Drive forgetting it.                *)
(***************************************************************************)
EXTENDS Naturals, Sequences

CONSTANTS
  None,
  Files,        \* Drive file ids
  Sessions,     \* ids of upload sessions
  Chunks,       \* chunks of the file
  Versions,     \* what the user may have in the file
  Policies,     \* the conflict policies that cycles run with
  MaxEdits,     \* edits of the user
  MaxFaults     \* lost requests and answers, forgotten sessions, crashes

ASSUME SessionsAssumption == Sessions \subseteq Nat
ASSUME ChunksAssumption == Chunks \in Nat \ {0}
ASSUME PoliciesAssumption ==
  /\ Policies \subseteq {"conflict_copy", "rename", "local_wins", "remote_wins"}
  /\ Policies # {}
ASSUME BoundsAssumption == MaxEdits \in Nat /\ MaxFaults \in Nat

VARIABLES
  files,    \* files[f]: the chunks Drive has of file f
  server,   \* server[s]: Drive's side of session s
  disk,     \* the chunks of the local file
  rec,      \* the record in redb
  saved,    \* the upload session in redb
  jrn,      \* the stage of the pending upload in redb
  news,     \* files the change feed shows since the stored token
  view,     \* files the cycle's view has without a record
  pc,       \* where the cycle stands
  mem,      \* the record in memory
  sess,     \* the upload session in memory
  md5,      \* the checksum taken before the transfer
  target,   \* the Drive file to update, None to create one
  offset,   \* the next chunk the client sends
  used,     \* is the session one of an earlier attempt?
  raced,    \* files written from a file that was edited meanwhile
  edits, faults

driveVars == <<files, server, news>>
durable == <<rec, saved, jrn>>
task == <<md5, target, offset, used>>
vars == <<driveVars, disk, durable, view, pc, mem, sess, task, raced, edits, faults>>

Absent == <<>>
Whole(v) == [i \in 1..Chunks |-> v]
Exists(f) == files[f] # Absent

NoSession == [st |-> "none", target |-> None, got |-> <<>>, file |-> None]
Content == [1..Chunks -> Versions]
Body == {q \in Seq(Versions) : Len(q) <= Chunks}
ServerSession == [st : {"none", "open", "done", "gone"},
                  target : Files \cup {None}, got : Body,
                  file : Files \cup {None}]
UploadSession == [id : Sessions, target : Files \cup {None}, md5 : Content,
                  next : 0..Chunks]
Record == [id : Files, md5 : Content, remote_md5 : Content]

ASSUME NoneAssumption ==
  None \notin Files \cup Sessions \cup Content \cup UploadSession \cup Record

TypeOK ==
  /\ files \in [Files -> Body]
  /\ server \in [Sessions -> ServerSession]
  /\ disk \in Content
  /\ rec \in Record \cup {None} /\ mem \in Record \cup {None}
  /\ saved \in UploadSession \cup {None} /\ sess \in UploadSession \cup {None}
  /\ jrn \in {None, "Planned", "SideEffectStarted", "SideEffectDone",
              "MetadataCommitted"}
  /\ pc \in {"idle", "loaded", "planned", "started", "sending", "effected",
             "done", "linked", "over", "failed"}
  /\ news \in SUBSET Files /\ view \in SUBSET Files
  /\ md5 \in Content \cup {None}
  /\ target \in Files \cup {None}
  /\ offset \in 0..Chunks /\ used \in BOOLEAN
  /\ raced \in SUBSET Files
  /\ edits \in 0..MaxEdits /\ faults \in 0..MaxFaults

Init ==
  /\ files = [f \in Files |-> Absent]
  /\ server = [s \in Sessions |-> NoSession]
  /\ \E v \in Versions : disk = Whole(v)
  /\ rec = None /\ saved = None /\ jrn = None
  /\ pc = "idle" /\ mem = None /\ sess = None
  /\ news = {} /\ view = {}
  /\ md5 = None /\ target = None /\ offset = 0 /\ used = FALSE
  /\ raced = {} /\ edits = 0 /\ faults = 0

Fault == faults < MaxFaults /\ faults' = faults + 1

-----------------------------------------------------------------------------
(* The cycle up to the transfer.                                           *)

\* What recovery leaves of a path whose effect is unknown: neither the record
\* nor the session.
ClearPathStateForRecovery(m, u) == <<None, None>>

StartCycle ==
  /\ pc = "idle"
  /\ LET left == IF jrn = "SideEffectStarted"
                 THEN ClearPathStateForRecovery(rec, saved)
                 ELSE <<rec, saved>>
     IN  /\ mem' = left[1] /\ rec' = left[1]
         /\ sess' = left[2] /\ saved' = left[2]
  /\ jrn' = None
  /\ view' \in {news, {f \in Files : Exists(f)}}
  /\ pc' = "loaded"
  /\ UNCHANGED <<driveVars, disk, task, raced, edits, faults>>

\* May the view show Drive file f, or none, for the path?
Shown(f) ==
  IF mem # None THEN f = mem.id ELSE IF view = {} THEN f = None ELSE f \in view

LocalChanged == disk # mem.md5
RemoteChanged == files[mem.id] # mem.remote_md5

\* Both sides are as recorded, or a path without a record is the same on both.
Skip ==
  /\ pc = "loaded"
  /\ \/ mem # None /\ ~LocalChanged /\ ~RemoteChanged
     \/ mem = None /\ \E f \in view : files[f] = disk
  /\ pc' = "over"
  /\ UNCHANGED <<driveVars, disk, durable, view, mem, sess, task, raced, edits,
                 faults>>

\* The local file wins, or both are kept: take its checksum and decide what to
\* write to.
PlanUpload(f) ==
  /\ pc = "loaded" /\ Shown(f)
  /\ IF mem # None THEN LocalChanged
     ELSE f # None => files[f] # disk /\ Policies # {"remote_wins"}
  /\ md5' = disk
  /\ target' = f
  /\ jrn' = "Planned"
  /\ pc' = "planned"
  /\ UNCHANGED <<driveVars, disk, rec, saved, view, mem, sess, offset, used, raced,
                 edits, faults>>

\* Only the Drive file has changed, or it wins: it replaces the local one.
TakeRemote(f) ==
  /\ pc = "loaded" /\ Shown(f)
  /\ IF mem # None THEN RemoteChanged /\ (LocalChanged => "remote_wins" \in Policies)
     ELSE files[f] # disk /\ "remote_wins" \in Policies
  /\ disk' = files[f]
  /\ mem' = [id |-> f, md5 |-> files[f], remote_md5 |-> files[f]]
  /\ sess' = None
  /\ pc' = "over"
  /\ UNCHANGED <<driveVars, durable, view, task, raced, edits, faults>>

\* Wrong: any file of that name is new.
NoneIdentical(c) == {}

Identical(c) == {f \in Files : files[f] = c}

\* A file to be created may be on Drive already, from an attempt whose answer
\* was lost.
LinkIdentical ==
  /\ pc = "planned" /\ target = None /\ Identical(md5) # {}
  /\ target' \in Identical(md5)
  /\ sess' = None
  /\ pc' = "linked"
  /\ UNCHANGED <<driveVars, disk, durable, view, mem, md5, offset, used, raced,
                 edits, faults>>

\* Wrong: the session of another version is good enough.
AnySessionIsValid(u, f, c) == u # None /\ u.target = f /\ u.next < Chunks

\* May the stored session go on with version c of the file for f?
SessionIsValid(u, f, c) ==
  u # None /\ u.target = f /\ u.md5 = c /\ u.next < Chunks

StartUpload ==
  /\ pc = "planned" /\ (target = None => Identical(md5) = {})
  /\ jrn' = "SideEffectStarted"
  /\ IF SessionIsValid(sess, target, md5)
     THEN /\ used' = TRUE /\ offset' = sess.next
          /\ pc' = "sending"
          /\ UNCHANGED sess
     ELSE /\ used' = FALSE /\ offset' = 0
          /\ pc' = "started"
          /\ sess' = None
  /\ UNCHANGED <<driveVars, disk, rec, saved, view, mem, md5, target, raced, edits,
                 faults>>

-----------------------------------------------------------------------------
(* The transfer.                                                           *)

Progress(u, next) == [u EXCEPT !.next = next]

\* Drive opens a session; the client stores it with the version it is for.
StartResumableSession ==
  /\ pc = "started"
  /\ \E s \in Sessions :
       /\ server[s].st = "none"
       /\ \A r \in Sessions : r < s => server[r].st # "none"
       /\ server' = [server EXCEPT ![s] = [NoSession EXCEPT !.st = "open",
                                                            !.target = target]]
       /\ sess' = [id |-> s, target |-> target, md5 |-> md5, next |-> 0]
  /\ pc' = "sending"
  /\ UNCHANGED <<files, news, disk, durable, view, mem, task, raced, edits, faults>>

\* The file a finished session writes: the one it was opened for, or an unused
\* one (there are enough of them in the runs).
Written(s) ==
  IF server[s].target # None THEN server[s].target
  ELSE CHOOSE f \in Files : ~Exists(f)

\* Drive takes the next chunk of session s, read from the file just now.
Take(s) ==
  LET got == Append(server[s].got, disk[Len(server[s].got) + 1])
      whole == Len(got) = Chunks
  IN  /\ server[s].target # None \/ \E f \in Files : ~Exists(f)
      /\ server' = [server EXCEPT ![s].got = got,
                                  ![s].st = IF whole THEN "done" ELSE "open",
                                  ![s].file = IF whole THEN Written(s) ELSE None]
      /\ files' = IF whole THEN [files EXCEPT ![Written(s)] = got] ELSE files
      /\ news' = IF whole THEN news \cup {Written(s)} ELSE news
      /\ raced' = IF ~whole THEN raced
                  ELSE IF got = md5 THEN raced \ {Written(s)}
                  ELSE raced \cup {Written(s)}

\* The offset after the last byte of the range that Drive reports, n chunks.
ParseNextOffset(n) == n

\* 308: go on where Drive stands, if that is progress within the file.
Resume(next) ==
  IF next > offset /\ next <= Chunks
  THEN /\ offset' = next /\ sess' = Progress(sess, next)
       /\ UNCHANGED pc
  ELSE pc' = "failed" /\ UNCHANGED <<offset, sess>>

\* A chunk arrives and is answered.
SendChunk ==
  LET s == sess.id
  IN  /\ pc = "sending" /\ offset < Chunks
      /\ server[s].st = "open" /\ offset = Len(server[s].got)
      /\ Take(s)
      /\ IF server'[s].st = "done"
         THEN /\ target' = server'[s].file
              /\ pc' = "effected"
              /\ UNCHANGED <<offset, sess>>
         ELSE Resume(ParseNextOffset(offset + 1)) /\ UNCHANGED target
      /\ UNCHANGED <<disk, durable, view, mem, md5, used, edits, faults>>

\* A chunk arrives and the answer does not: the client sends it again.
LoseAnswer ==
  /\ pc = "sending" /\ offset < Chunks /\ Fault
  /\ server[sess.id].st = "open" /\ offset = Len(server[sess.id].got)
  /\ Take(sess.id)
  /\ UNCHANGED <<disk, durable, view, pc, mem, sess, task, edits>>

\* Drive has this chunk already and says how far it is.
SendAgain ==
  LET s == sess.id
  IN  /\ pc = "sending" /\ offset < Chunks
      /\ server[s].st = "open" /\ offset < Len(server[s].got)
      /\ Resume(ParseNextOffset(Len(server[s].got)))
      /\ UNCHANGED <<driveVars, disk, durable, view, mem, md5, target, used, raced,
                     edits, faults>>

\* A finished session answers with its file, whatever is sent.
SendToFinished ==
  LET s == sess.id
  IN  /\ pc = "sending" /\ offset < Chunks /\ server[s].st = "done"
      /\ target' = server[s].file
      /\ pc' = "effected"
      /\ UNCHANGED <<driveVars, disk, durable, view, mem, sess, md5, offset, used,
                     raced, edits, faults>>

\* Drive keeps nothing of the chunk.  Its 308 has no Range header when it has
\* nothing at all, and the client then takes the chunk for delivered.
DropChunk ==
  LET s == sess.id
  IN  /\ pc = "sending" /\ offset < Chunks /\ Fault
      /\ server[s].st = "open" /\ offset = Len(server[s].got)
      /\ IF server[s].got = <<>>
         THEN Resume(offset + 1)
         ELSE Resume(ParseNextOffset(Len(server[s].got)))
      /\ UNCHANGED <<driveVars, disk, durable, view, mem, md5, target, used, raced,
                     edits>>

\* A chunk beyond what Drive has, or after the end of the file, is an error.
SendBeyond ==
  /\ pc = "sending"
  /\ \/ offset = Chunks
     \/ server[sess.id].st = "open" /\ offset > Len(server[sess.id].got)
  /\ pc' = "failed"
  /\ UNCHANGED <<driveVars, disk, durable, view, mem, sess, task, raced, edits, faults>>

\* Wrong: a session that is gone is always replaced.
SendToGoneAgain ==
  /\ pc = "sending" /\ offset < Chunks /\ server[sess.id].st = "gone"
  /\ pc' = "started" /\ used' = FALSE /\ offset' = 0
  /\ UNCHANGED <<driveVars, disk, durable, view, mem, sess, md5, target, raced,
                 edits, faults>>

\* 404 or 410: a session of an earlier attempt is replaced once.
SendToGone ==
  /\ pc = "sending" /\ offset < Chunks /\ server[sess.id].st = "gone"
  /\ IF used
     THEN pc' = "started" /\ used' = FALSE /\ offset' = 0
     ELSE pc' = "failed" /\ UNCHANGED <<used, offset>>
  /\ UNCHANGED <<driveVars, disk, durable, view, mem, sess, md5, target, raced,
                 edits, faults>>

-----------------------------------------------------------------------------
(* The end of the transfer and of the cycle.                               *)

MarkDone ==
  /\ pc = "effected"
  /\ jrn' = "SideEffectDone"
  /\ pc' = "done"
  /\ UNCHANGED <<driveVars, disk, rec, saved, view, mem, sess, task, raced, edits,
                 faults>>

\* Wrong: the record is stored without the Drive file.
CommitUnlinked ==
  /\ pc \in {"done", "linked"}
  /\ mem' = [id |-> None, md5 |-> md5, remote_md5 |-> None]
  /\ sess' = None
  /\ jrn' = "MetadataCommitted"
  /\ pc' = "over"
  /\ UNCHANGED <<driveVars, disk, rec, saved, view, task, raced, edits, faults>>

\* Wrong: the record takes the checksum of the file as it is after the transfer.
CommitAfterwards ==
  /\ pc \in {"done", "linked"}
  /\ mem' = [id |-> target, md5 |-> disk, remote_md5 |-> files[target]]
  /\ sess' = None
  /\ jrn' = "MetadataCommitted"
  /\ pc' = "over"
  /\ UNCHANGED <<driveVars, disk, rec, saved, view, task, raced, edits, faults>>

\* The record takes the checksum of before the transfer and that of what Drive
\* now has; the session goes.
Commit ==
  /\ pc \in {"done", "linked"}
  /\ mem' = [id |-> target, md5 |-> md5, remote_md5 |-> files[target]]
  /\ sess' = None
  /\ jrn' = "MetadataCommitted"
  /\ pc' = "over"
  /\ UNCHANGED <<driveVars, disk, rec, saved, view, task, raced, edits, faults>>

\* A request fails for good: the property update, the init of a session, ...
RequestFails ==
  /\ pc \in {"planned", "started", "sending", "effected", "done", "linked"} /\ Fault
  /\ pc' = "failed"
  /\ UNCHANGED <<driveVars, disk, durable, view, mem, sess, task, raced, edits>>

FinishCycle ==
  /\ pc \in {"over", "failed"}
  /\ rec' = mem /\ saved' = sess
  /\ news' = IF pc = "failed" THEN news
             ELSE (news \ view) \cup (Files \cap {target})
  /\ view' = {}
  /\ jrn' = IF jrn = "MetadataCommitted" THEN None ELSE jrn
  /\ pc' = "idle"
  /\ md5' = None /\ target' = None /\ offset' = 0 /\ used' = FALSE
  /\ UNCHANGED <<files, server, disk, mem, sess, raced, edits, faults>>

Crash ==
  /\ pc # "idle" /\ Fault
  /\ mem' = rec /\ sess' = saved
  /\ pc' = "idle" /\ view' = {}
  /\ md5' = None /\ target' = None /\ offset' = 0 /\ used' = FALSE
  /\ UNCHANGED <<driveVars, disk, durable, raced, edits>>

Forget(s) ==
  /\ server[s].st \in {"open", "done"} /\ Fault
  /\ server' = [server EXCEPT ![s].st = "gone"]
  /\ UNCHANGED <<files, news, disk, durable, view, pc, mem, sess, task, raced, edits>>

UserEdit(v) ==
  /\ Whole(v) # disk /\ edits < MaxEdits /\ edits' = edits + 1
  /\ disk' = Whole(v)
  /\ UNCHANGED <<driveVars, durable, view, pc, mem, sess, task, raced, faults>>

Work ==
  \/ StartCycle \/ Skip \/ (\E f \in Files \cup {None} : PlanUpload(f))
  \/ (\E f \in Files : TakeRemote(f))
  \/ LinkIdentical \/ StartUpload \/ StartResumableSession
  \/ SendChunk \/ SendAgain \/ SendToFinished \/ SendBeyond \/ SendToGone
  \/ MarkDone \/ Commit \/ FinishCycle

Next ==
  \/ Work
  \/ LoseAnswer \/ DropChunk \/ RequestFails \/ Crash
  \/ (\E s \in Sessions : Forget(s)) \/ (\E v \in Versions : UserEdit(v))

Spec == Init /\ [][Next]_vars

\* Cycles start again and run to their end (daemon.rs).
FairSpec == Spec /\ WF_vars(Work)

-----------------------------------------------------------------------------
(* Properties.                                                             *)

\* A creation that is tried again after a lost answer, a crash or an edit never
\* makes a second file of a content: run_upload looks for an identical file
\* before it creates one (executor.rs 1122-1136).
NoDuplicates ==
  [][\A f \in Files :
       ~Exists(f) /\ files'[f] # Absent /\ f \notin raced' =>
         \A g \in Files : files[g] # files'[f]]_vars

\* What a record says was uploaded is what Drive has, chunk by chunk, whatever
\* sessions were resumed, unless the user edited the file while its chunks were
\* read (executor.rs 846-861, 1105-1121).
CommitTellsTruth ==
  [][mem' # mem /\ pc' = "over" =>
       files[mem'.id] = mem'.md5 \/ mem'.id \in raced]_vars

\* The checksum of a running attempt, and the file it has changed.
Claim == IF pc \in {"planned", "started", "sending", "effected", "done", "linked"}
         THEN md5 ELSE None
Landed == IF pc \in {"sending", "effected", "done"} /\ ~used
          THEN server[sess.id].file ELSE None

T == INSTANCE Transfer WITH Contents <- Content, torn <- raced, claim <- Claim,
                            landed <- Landed, record <- mem, stored <- rec

\* However it is cut into chunks, and whatever is lost, forgotten, sent again or
\* resumed, a transfer is for the sync cycle one write of one file of Drive that
\* an attempt makes at most once (upload.rs 273-380, executor.rs 956-1235).
ImplementsTransfer == T!Spec

\* Once the user stops, disk and Drive have the same file, however transfers and
\* cycles failed, and edits made during a transfer follow.  With a second edit
\* that puts the file back it does not hold: the record then pairs two contents
\* and nothing looks changed (upload.rs 273-380, executor.rs 956-1235).
UploadArrives ==
  <>[](IF mem = None THEN \E f \in Files : files[f] = disk
       ELSE files[mem.id] = disk)

\* Large uploads can resume after restart (types.rs 245): no attempt opens a new
\* session when Drive still has an open one with the first chunks of the same
\* version for the same file.
ResumesWhereItStopped ==
  [][pc = "started" /\ pc' = "sending" =>
       \A s \in Sessions :
         LET got == server[s].got
         IN  ~ /\ server[s].st = "open" /\ server[s].target = target
               /\ got # <<>> /\ got = SubSeq(md5, 1, Len(got))]_vars

=============================================================================
