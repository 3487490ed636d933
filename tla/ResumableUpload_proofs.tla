----------------------- MODULE ResumableUpload_proofs -----------------------
(***************************************************************************)
(* Proofs about ResumableUpload, for any number of files, sessions, chunks *)
(* and edits and under every policy: its types, that a retried creation    *)
(* never makes a second file of a content, that a transfer implements the  *)
(* one write of Transfer, and that no single fault makes a record lie.     *)
(*                                                                         *)
(* The second is no matter of the transfer alone.  A creation looks for an *)
(* identical file before its first chunk and never again, so what follows  *)
(* from it has to last until the last chunk: no other file may get the     *)
(* content meanwhile, and a session that is gone may be replaced within    *)
(* the same attempt only if it had not created its file already.  That is  *)
(* so because a session that survives its attempt is never one that Drive  *)
(* still has open (SessionInv below): recovery drops the session of every  *)
(* transfer that was interrupted.                                          *)
(*                                                                         *)
(* The third rests on the second, and on the sessions that Drive has open  *)
(* never having a file (LandInv).  The last is about the sessions that do  *)
(* survive (TruthInv): one that has finished outlives its attempt only by  *)
(* a fault, and is loaded after its file was written again only by another *)
(* one.                                                                    *)
(***************************************************************************)
EXTENDS ResumableUpload, SequenceTheorems, TLAPS

Busy == {"planned", "started", "sending", "effected", "done", "linked"}

\* Drive's files are whole, its open sessions are not, and the finished ones
\* have their file.
DriveInv ==
  /\ \A f \in Files : Exists(f) => files[f] \in Content
  /\ \A s \in Sessions :
       /\ server[s].st = "open" => Len(server[s].got) < Chunks
       /\ server[s].st = "done" => server[s].file \in Files /\ Exists(server[s].file)

\* Whatever the device knows of Drive is there.
KnownInv ==
  /\ \A f \in news \cup view : Exists(f)
  /\ target # None => Exists(target)
  /\ mem # None => Exists(mem.id)
  /\ rec # None => Exists(rec.id)

\* What the stages of a cycle have in common.
StageInv ==
  /\ pc \in {"idle", "loaded"} => target = None
  /\ pc = "loaded" => jrn = None
  /\ pc \in {"started", "sending", "effected"} => jrn = "SideEffectStarted"
  /\ pc \in Busy => md5 \in Content
  /\ pc \in {"effected", "done", "linked"} => target # None

IsOpen(u) == u # None /\ server[u.id].st = "open"

\* Stored sessions are for the target they name; an open one belongs to a
\* transfer that the journal says was not finished.
SessionInv ==
  /\ sess # None => server[sess.id].st # "none" /\ server[sess.id].target = sess.target
  /\ saved # None => server[saved.id].st # "none" /\ server[saved.id].target = saved.target
  /\ pc = "sending" => sess # None /\ sess.target = target
  /\ IsOpen(sess) => jrn = "SideEffectStarted" /\ pc \in {"sending", "failed", "idle"}
  /\ IsOpen(saved) => jrn = "SideEffectStarted" /\ pc = "idle"

\* While a creation may still happen, no file has its content.
CreationInv ==
  /\ pc = "started" => ~used
  /\ pc = "sending" /\ used => ~IsOpen(sess)
  /\ pc = "started" /\ target = None => Identical(md5) = {}
  /\ pc = "sending" /\ target = None /\ (used \/ IsOpen(sess)) => Identical(md5) = {}

IInv == TypeOK /\ DriveInv /\ KnownInv /\ StageInv /\ SessionInv /\ CreationInv

USE ChunksAssumption, NoneAssumption

-----------------------------------------------------------------------------

\* What Drive may hold of a version is a sequence, and no whole one is empty.
LEMMA Contents == /\ Content \subseteq Body
                  /\ Absent \in Body /\ Absent \notin Content
                  /\ \A v \in Versions : Whole(v) \in Content
<1>1. Content \subseteq Body
  BY DEF Content, Body
<1>2. Absent \in Body
  BY DEF Absent, Body
<1>3. Absent \notin Content
  <2> SUFFICES ASSUME Absent \in Content PROVE FALSE
    OBVIOUS
  <2>1. DOMAIN Absent = 1..Chunks
    BY DEF Content
  <2>2. DOMAIN Absent = {}
    BY DEF Absent
  <2> QED
    BY <2>1, <2>2
<1>4. \A v \in Versions : Whole(v) \in Content
  BY DEF Whole, Content
<1> QED
  BY <1>1, <1>2, <1>3, <1>4

\* The next chunk of a session that is not whole.
LEMMA NextChunk ==
  ASSUME NEW q \in Body, Len(q) < Chunks, NEW d \in Content
  PROVE  /\ Append(q, d[Len(q) + 1]) \in Body
         /\ Len(Append(q, d[Len(q) + 1])) = Len(q) + 1
         /\ Len(q) + 1 = Chunks => Append(q, d[Len(q) + 1]) \in Content
<1>1. q \in Seq(Versions) /\ Len(q) \in Nat
  BY DEF Body
<1>2. d[Len(q) + 1] \in Versions
  BY <1>1 DEF Content
<1>3. /\ Append(q, d[Len(q) + 1]) \in Seq(Versions)
      /\ Len(Append(q, d[Len(q) + 1])) = Len(q) + 1
  BY <1>1, <1>2
<1>4. ASSUME Len(q) + 1 = Chunks
      PROVE  Append(q, d[Len(q) + 1]) \in Content
  BY <1>3, <1>4, LenProperties DEF Content
<1> QED
  BY <1>1, <1>3, <1>4 DEF Body

\* The file a session writes.
LEMMA WrittenFile ==
  ASSUME TypeOK, NEW s \in Sessions,
         server[s].target # None \/ \E f \in Files : ~Exists(f)
  PROVE  /\ Written(s) \in Files
         /\ ~Exists(Written(s)) \/ Written(s) = server[s].target
<1>1. server[s].target \in Files \cup {None}
  BY DEF TypeOK, ServerSession
<1>2. CASE server[s].target # None
  BY <1>1, <1>2 DEF Written
<1>3. CASE server[s].target = None
  BY <1>3 DEF Written
<1> QED
  BY <1>2, <1>3

\* A chunk changes its session, and with the last one the file it writes.
LEMMA TakeStep ==
  ASSUME IInv, NEW s \in Sessions, server[s].st = "open", Take(s)
  PROVE  /\ files' \in [Files -> Body] /\ server' \in [Sessions -> ServerSession]
         /\ news' \in SUBSET Files /\ raced' \in SUBSET Files
         /\ DriveInv' /\ \A f \in news' : files'[f] # Absent
         /\ \A f \in Files : Exists(f) => files'[f] # Absent
         /\ \A r \in Sessions : server'[r].target = server[r].target
         /\ \A r \in Sessions : r # s => server'[r] = server[r]
         /\ server'[s].st \in {"open", "done"}
         /\ server'[s].st = "open" => files' = files
         /\ \A f \in Files : ~Exists(f) /\ files'[f] # Absent /\ f \notin raced' =>
              files'[f] = md5
              /\ (server[s].target = None \/ ~Exists(server[s].target))
<1> DEFINE got == Append(server[s].got, disk[Len(server[s].got) + 1])
           w == Written(s)
<1>1. /\ server[s] \in ServerSession /\ server[s].got \in Body
      /\ Len(server[s].got) < Chunks /\ disk \in Content
      /\ files \in [Files -> Body] /\ news \in SUBSET Files /\ raced \in SUBSET Files
      /\ server \in [Sessions -> ServerSession]
  BY DEF IInv, TypeOK, DriveInv, ServerSession
<1>2. /\ got \in Body /\ Len(got) = Len(server[s].got) + 1
      /\ Len(got) = Chunks => got \in Content
  BY <1>1, NextChunk
<1>3. Len(server[s].got) \in Nat /\ Len(got) <= Chunks
  BY <1>1, <1>2
<1>4. w \in Files /\ (~Exists(w) \/ w = server[s].target)
  BY WrittenFile DEF IInv, Take
<1> HIDE DEF got, w
<1>5. CASE Len(got) # Chunks
  <2>1. /\ server' = [server EXCEPT ![s].got = got, ![s].st = "open", ![s].file = None]
        /\ files' = files /\ news' = news /\ raced' = raced
    BY <1>5 DEF Take, got, w
  <2>2. server'[s] = [server[s] EXCEPT !.got = got, !.st = "open", !.file = None]
    BY <1>1, <2>1
  <2>3. /\ server'[s] \in ServerSession /\ server'[s].st = "open"
        /\ server'[s].got = got /\ server'[s].target = server[s].target
    BY <1>1, <1>2, <2>2 DEF ServerSession
  <2>4. \A r \in Sessions : r # s => server'[r] = server[r]
    BY <1>1, <2>1
  <2>5. server' \in [Sessions -> ServerSession]
    BY <1>1, <2>1, <2>3, <2>4
  <2>6. Len(got) < Chunks
    BY <1>2, <1>3, <1>5
  <2>7. DriveInv'
    BY <2>1, <2>3, <2>4, <2>6 DEF IInv, DriveInv, Exists
  <2> QED
    BY <1>1, <2>1, <2>3, <2>4, <2>5, <2>7 DEF IInv, KnownInv, Exists
<1>6. CASE Len(got) = Chunks
  <2>1. /\ server' = [server EXCEPT ![s].got = got, ![s].st = "done", ![s].file = w]
        /\ files' = [files EXCEPT ![w] = got] /\ news' = news \cup {w}
        /\ raced' = IF got = md5 THEN raced \ {w} ELSE raced \cup {w}
    BY <1>6 DEF Take, got, w
  <2>2. server'[s] = [server[s] EXCEPT !.got = got, !.st = "done", !.file = w]
    BY <1>1, <2>1
  <2>3. /\ server'[s] \in ServerSession /\ server'[s].st = "done"
        /\ server'[s].file = w /\ server'[s].target = server[s].target
    BY <1>1, <1>2, <1>4, <2>2 DEF ServerSession
  <2>4. \A r \in Sessions : r # s => server'[r] = server[r]
    BY <1>1, <2>1
  <2>5. server' \in [Sessions -> ServerSession]
    BY <1>1, <2>1, <2>3, <2>4
  <2>6. /\ files' \in [Files -> Body] /\ files'[w] = got /\ got # Absent
        /\ \A f \in Files : f # w => files'[f] = files[f]
    BY <1>1, <1>2, <1>4, <1>6, <2>1, Contents
  <2>7. DriveInv'
    BY <1>2, <1>4, <1>6, <2>3, <2>4, <2>6 DEF IInv, DriveInv, Exists
  <2>8. \A f \in Files : ~Exists(f) /\ files'[f] # Absent /\ f \notin raced' =>
              files'[f] = md5
              /\ (server[s].target = None \/ ~Exists(server[s].target))
    <3> SUFFICES ASSUME NEW f \in Files, ~Exists(f), files'[f] # Absent, f \notin raced'
                 PROVE  files'[f] = md5
                        /\ (server[s].target = None \/ ~Exists(server[s].target))
      OBVIOUS
    <3>1. f = w
      BY <2>6 DEF Exists
    <3>2. files'[f] = md5
      BY <2>1, <2>6, <3>1
    <3> QED
      BY <3>1, <3>2 DEF w, Written
  <2> QED
    BY <1>1, <1>4, <2>1, <2>3, <2>4, <2>5, <2>6, <2>7, <2>8 DEF IInv, KnownInv, Exists
<1> QED
  BY <1>5, <1>6

-----------------------------------------------------------------------------

\* The invariant holds initially.
LEMMA InitInv == Init => IInv
<1> SUFFICES ASSUME Init PROVE IInv
  OBVIOUS
<1>1. \A f \in Files : ~Exists(f)
  BY DEF Init, Exists
<1>2. \A s \in Sessions : server[s] = NoSession
  BY DEF Init
<1>3. NoSession \in ServerSession /\ NoSession.st = "none"
  BY Contents DEF NoSession, ServerSession, Absent
<1>4. TypeOK
  <2>1. files \in [Files -> Body] /\ disk \in Content
    BY Contents DEF Init
  <2>2. server \in [Sessions -> ServerSession]
    BY <1>3 DEF Init
  <2>3. offset \in 0..Chunks /\ edits \in 0..MaxEdits /\ faults \in 0..MaxFaults
    BY BoundsAssumption DEF Init
  <2> QED
    BY <2>1, <2>2, <2>3 DEF Init, TypeOK
<1> QED
  BY <1>1, <1>2, <1>3, <1>4 DEF Init, IInv, DriveInv, KnownInv, StageInv,
     SessionInv, CreationInv, Busy, IsOpen

\* The steps that change nothing on Drive: the invariant's parts about the
\* device, one by one.

\* A load knows what redb knew; recovery drops the session of a started transfer.
LEMMA StartCycleStep ==
  ASSUME IInv, StartCycle
  PROVE  IInv'
<1> USE DEF StartCycle, driveVars, task, Exists
<1>1. TypeOK'
  BY DEF IInv, TypeOK, ClearPathStateForRecovery
<1>2. DriveInv'
  BY DEF IInv, DriveInv
<1>3. KnownInv'
  BY DEF IInv, KnownInv, ClearPathStateForRecovery
<1>4. StageInv'
  BY DEF IInv, StageInv, Busy
<1>5. SessionInv'
  BY DEF IInv, SessionInv, IsOpen, ClearPathStateForRecovery
<1>6. CreationInv'
  BY DEF CreationInv
<1> QED
  BY <1>1, <1>2, <1>3, <1>4, <1>5, <1>6 DEF IInv

\* A cycle with nothing to do.
LEMMA SkipStep ==
  ASSUME IInv, Skip
  PROVE  IInv'
<1> USE DEF Skip, driveVars, durable, task, Exists
<1>1. TypeOK'
  BY DEF IInv, TypeOK
<1>2. DriveInv'
  BY DEF IInv, DriveInv
<1>3. KnownInv'
  BY DEF IInv, KnownInv
<1>4. StageInv'
  BY DEF StageInv, Busy
<1>5. SessionInv'
  BY DEF IInv, SessionInv, IsOpen
<1>6. CreationInv'
  BY DEF CreationInv
<1> QED
  BY <1>1, <1>2, <1>3, <1>4, <1>5, <1>6 DEF IInv

\* An upload is planned for a file the cycle knows, or for a new one.
LEMMA PlanUploadStep ==
  ASSUME IInv, NEW f \in Files \cup {None}, PlanUpload(f)
  PROVE  IInv'
<1> USE DEF PlanUpload, driveVars, Exists
<1>1. TypeOK'
  BY DEF IInv, TypeOK
<1>2. DriveInv'
  BY DEF IInv, DriveInv
<1>3. KnownInv'
  BY DEF IInv, KnownInv, Shown
<1>4. StageInv'
  BY DEF IInv, TypeOK, StageInv
<1>5. SessionInv'
  BY DEF IInv, SessionInv, IsOpen
<1>6. CreationInv'
  BY DEF CreationInv
<1> QED
  BY <1>1, <1>2, <1>3, <1>4, <1>5, <1>6 DEF IInv

\* A download records a file that is there.
LEMMA TakeRemoteStep ==
  ASSUME IInv, NEW f \in Files, TakeRemote(f)
  PROVE  IInv'
<1> USE DEF TakeRemote, driveVars, durable, task, Exists
<1>1. TypeOK'
  BY DEF IInv, TypeOK, DriveInv, KnownInv, Record, Shown
<1>2. DriveInv'
  BY DEF IInv, DriveInv
<1>3. KnownInv'
  BY DEF IInv, KnownInv, Shown
<1>4. StageInv'
  BY DEF StageInv, Busy
<1>5. SessionInv'
  BY DEF IInv, SessionInv, IsOpen
<1>6. CreationInv'
  BY DEF CreationInv
<1> QED
  BY <1>1, <1>2, <1>3, <1>4, <1>5, <1>6 DEF IInv

\* A link takes a file that is there.
LEMMA LinkIdenticalStep ==
  ASSUME IInv, LinkIdentical
  PROVE  IInv'
<1> USE DEF LinkIdentical, driveVars, durable, Exists
<1>1. TypeOK'
  BY DEF IInv, TypeOK, Identical
<1>2. DriveInv'
  BY DEF IInv, DriveInv
<1>3. KnownInv'
  BY Contents DEF IInv, KnownInv, StageInv, Busy, Identical
<1>4. StageInv'
  BY DEF IInv, StageInv, Busy, Identical
<1>5. SessionInv'
  BY DEF IInv, SessionInv, IsOpen
<1>6. CreationInv'
  BY DEF CreationInv
<1> QED
  BY <1>1, <1>2, <1>3, <1>4, <1>5, <1>6 DEF IInv

\* A creation starts only when no file has its content.
LEMMA StartUploadStep ==
  ASSUME IInv, StartUpload
  PROVE  IInv'
<1> USE DEF StartUpload, driveVars, Exists
<1>1. TypeOK'
  <2>1. SessionIsValid(sess, target, md5) => sess.next \in 0..Chunks
    BY DEF IInv, TypeOK, SessionIsValid, UploadSession
  <2>2. offset' \in 0..Chunks
    BY <2>1
  <2>3. sess' \in UploadSession \cup {None}
    BY DEF IInv, TypeOK
  <2> QED
    BY <2>2, <2>3 DEF IInv, TypeOK
<1>2. DriveInv'
  BY DEF IInv, DriveInv
<1>3. KnownInv'
  BY DEF IInv, KnownInv
<1>4. StageInv'
  BY DEF IInv, StageInv, Busy
<1>5. SessionInv'
  BY DEF IInv, SessionInv, IsOpen, SessionIsValid
<1>6. CreationInv'
  BY DEF IInv, CreationInv, SessionInv, IsOpen, Identical
<1> QED
  BY <1>1, <1>2, <1>3, <1>4, <1>5, <1>6 DEF IInv

\* A session that is on Drive tells how far it got.
LEMMA SendAgainStep ==
  ASSUME IInv, SendAgain
  PROVE  IInv'
<1> USE DEF SendAgain, driveVars, durable, Exists, Resume, ParseNextOffset, Progress
<1>1. TypeOK'
  BY DEF IInv, TypeOK, SessionInv, UploadSession
<1>2. DriveInv'
  BY DEF IInv, DriveInv
<1>3. KnownInv'
  BY DEF IInv, KnownInv
<1>4. StageInv'
  BY DEF IInv, TypeOK, StageInv, DriveInv, SessionInv, UploadSession
<1>5. SessionInv'
  <2>1. sess # None => sess \in UploadSession
    BY DEF IInv, TypeOK
  <2>2. sess' # None => sess # None /\ sess'.id = sess.id /\ sess'.target = sess.target
    BY <2>1 DEF IInv, SessionInv, UploadSession
  <2>3. sess' = sess \/ sess' = [sess EXCEPT !.next = offset']
    OBVIOUS
  <2>4. offset' \in 0..Chunks
    BY <1>1 DEF TypeOK
  <2>5. sess # None => sess' \in UploadSession
    BY <2>1, <2>3, <2>4 DEF UploadSession
  <2> QED
    BY <2>1, <2>2, <2>5 DEF IInv, SessionInv, IsOpen
<1>6. CreationInv'
  BY DEF IInv, CreationInv, SessionInv, IsOpen, Identical
<1> QED
  BY <1>1, <1>2, <1>3, <1>4, <1>5, <1>6 DEF IInv

\* The file of a finished session is there.
LEMMA SendToFinishedStep ==
  ASSUME IInv, SendToFinished
  PROVE  IInv'
<1> USE DEF SendToFinished, driveVars, durable, Exists
<1>1. TypeOK'
  BY DEF IInv, TypeOK, DriveInv, SessionInv, UploadSession
<1>2. DriveInv'
  BY DEF IInv, DriveInv
<1>3. KnownInv'
  BY DEF IInv, TypeOK, KnownInv, DriveInv, SessionInv, UploadSession
<1>4. StageInv'
  BY DEF IInv, TypeOK, StageInv, DriveInv, SessionInv, Busy, UploadSession
<1>5. SessionInv'
  BY DEF IInv, SessionInv, IsOpen
<1>6. CreationInv'
  BY DEF CreationInv
<1> QED
  BY <1>1, <1>2, <1>3, <1>4, <1>5, <1>6 DEF IInv

\* An attempt that cannot go on fails.
LEMMA SendBeyondStep ==
  ASSUME IInv, SendBeyond
  PROVE  IInv'
<1> USE DEF SendBeyond, driveVars, durable, task, Exists
<1>1. TypeOK'
  BY DEF IInv, TypeOK
<1>2. DriveInv'
  BY DEF IInv, DriveInv
<1>3. KnownInv'
  BY DEF IInv, KnownInv
<1>4. StageInv'
  BY DEF StageInv, Busy
<1>5. SessionInv'
  BY DEF IInv, SessionInv, IsOpen
<1>6. CreationInv'
  BY DEF CreationInv
<1> QED
  BY <1>1, <1>2, <1>3, <1>4, <1>5, <1>6 DEF IInv

\* A session that is gone leaves the choice of a new one.
LEMMA SendToGoneStep ==
  ASSUME IInv, SendToGone
  PROVE  IInv'
<1> USE DEF SendToGone, driveVars, durable, Exists
<1>1. TypeOK'
  <2>1. offset' \in 0..Chunks
    BY DEF IInv, TypeOK
  <2>2. used' \in BOOLEAN
    BY DEF IInv, TypeOK
  <2> QED
    BY <2>1, <2>2 DEF IInv, TypeOK
<1>2. DriveInv'
  BY DEF IInv, DriveInv
<1>3. KnownInv'
  BY DEF IInv, KnownInv
<1>4. StageInv'
  BY DEF IInv, StageInv, Busy
<1>5. SessionInv'
  BY DEF IInv, SessionInv, IsOpen
<1>6. CreationInv'
  BY DEF IInv, CreationInv, Identical
<1> QED
  BY <1>1, <1>2, <1>3, <1>4, <1>5, <1>6 DEF IInv

\* The effect is marked.
LEMMA MarkDoneStep ==
  ASSUME IInv, MarkDone
  PROVE  IInv'
<1> USE DEF MarkDone, driveVars, task, Exists
<1>1. TypeOK'
  BY DEF IInv, TypeOK
<1>2. DriveInv'
  BY DEF IInv, DriveInv
<1>3. KnownInv'
  BY DEF IInv, KnownInv
<1>4. StageInv'
  BY DEF IInv, StageInv, Busy
<1>5. SessionInv'
  BY DEF IInv, SessionInv, IsOpen
<1>6. CreationInv'
  BY DEF CreationInv
<1> QED
  BY <1>1, <1>2, <1>3, <1>4, <1>5, <1>6 DEF IInv

\* The record is of a file that is there.
LEMMA CommitStep ==
  ASSUME IInv, Commit
  PROVE  IInv'
<1> USE DEF Commit, driveVars, task, Exists
<1>1. TypeOK'
  BY DEF IInv, TypeOK, DriveInv, KnownInv, StageInv, Busy, Record
<1>2. DriveInv'
  BY DEF IInv, DriveInv
<1>3. KnownInv'
  BY DEF IInv, KnownInv, StageInv
<1>4. StageInv'
  BY DEF StageInv, Busy
<1>5. SessionInv'
  BY DEF IInv, SessionInv, IsOpen
<1>6. CreationInv'
  BY DEF CreationInv
<1> QED
  BY <1>1, <1>2, <1>3, <1>4, <1>5, <1>6 DEF IInv

\* A session may be saved while Drive has it open; the journal then says started.
LEMMA FinishCycleStep ==
  ASSUME IInv, FinishCycle
  PROVE  IInv'
<1> USE DEF FinishCycle, Exists
<1>1. TypeOK'
  <2>1. offset' \in 0..Chunks /\ news' \in SUBSET Files
    BY DEF IInv, TypeOK
  <2> QED
    BY <2>1 DEF IInv, TypeOK
<1>2. DriveInv'
  BY DEF IInv, DriveInv
<1>3. KnownInv'
  BY DEF IInv, KnownInv
<1>4. StageInv'
  BY DEF StageInv, Busy
<1>5. SessionInv'
  BY DEF IInv, SessionInv, IsOpen
<1>6. CreationInv'
  BY DEF CreationInv
<1> QED
  BY <1>1, <1>2, <1>3, <1>4, <1>5, <1>6 DEF IInv

\* A chunk that Drive did not take changes the offset only.
LEMMA DropChunkStep ==
  ASSUME IInv, DropChunk
  PROVE  IInv'
<1> USE DEF DropChunk, driveVars, durable, Exists, Fault, Resume, ParseNextOffset, Progress
<1>1. TypeOK'
  <2>1. /\ sess \in UploadSession /\ server[sess.id].got \in Body
        /\ offset \in 0..Chunks /\ offset < Chunks
    BY DEF IInv, TypeOK, SessionInv, UploadSession, ServerSession
  <2>2. Len(server[sess.id].got) \in 0..Chunks
    BY <2>1 DEF Body
  <2>3. offset' \in 0..Chunks
    BY <2>1, <2>2
  <2>4. sess' \in UploadSession
    BY <2>1, <2>3 DEF UploadSession
  <2>5. faults' \in 0..MaxFaults
    BY BoundsAssumption DEF IInv, TypeOK
  <2> QED
    BY <2>3, <2>4, <2>5 DEF IInv, TypeOK
<1>2. DriveInv'
  BY DEF IInv, DriveInv
<1>3. KnownInv'
  BY DEF IInv, KnownInv
<1>4. StageInv'
  BY DEF IInv, StageInv, Busy
<1>5. SessionInv'
  <2>1. sess # None => sess \in UploadSession
    BY DEF IInv, TypeOK
  <2>2. sess' # None => sess # None /\ sess'.id = sess.id /\ sess'.target = sess.target
    BY <2>1 DEF IInv, SessionInv, UploadSession
  <2>3. sess' = sess \/ sess' = [sess EXCEPT !.next = offset']
    OBVIOUS
  <2>4. offset' \in 0..Chunks
    BY <1>1
  <2>5. sess # None => sess' \in UploadSession
    BY <2>1, <2>3, <2>4 DEF UploadSession
  <2> QED
    BY <2>1, <2>2, <2>5 DEF IInv, SessionInv, IsOpen
<1>6. CreationInv'
  BY DEF IInv, CreationInv, SessionInv, IsOpen, Identical
<1> QED
  BY <1>1, <1>2, <1>3, <1>4, <1>5, <1>6 DEF IInv

\* A failed request ends the task.
LEMMA RequestFailsStep ==
  ASSUME IInv, RequestFails
  PROVE  IInv'
<1> USE DEF RequestFails, driveVars, durable, task, Exists, Fault
<1>1. TypeOK'
  BY BoundsAssumption DEF IInv, TypeOK
<1>2. DriveInv'
  BY DEF IInv, DriveInv
<1>3. KnownInv'
  BY DEF IInv, KnownInv
<1>4. StageInv'
  BY DEF StageInv, Busy
<1>5. SessionInv'
  BY DEF IInv, SessionInv, IsOpen
<1>6. CreationInv'
  BY DEF CreationInv
<1> QED
  BY <1>1, <1>2, <1>3, <1>4, <1>5, <1>6 DEF IInv

\* What a crash leaves is what redb has.
LEMMA CrashStep ==
  ASSUME IInv, Crash
  PROVE  IInv'
<1> USE DEF Crash, driveVars, durable, Exists, Fault
<1>1. TypeOK'
  <2>1. offset' \in 0..Chunks /\ faults' \in 0..MaxFaults
    BY BoundsAssumption DEF IInv, TypeOK
  <2> QED
    BY <2>1 DEF IInv, TypeOK
<1>2. DriveInv'
  BY DEF IInv, DriveInv
<1>3. KnownInv'
  BY DEF IInv, KnownInv
<1>4. StageInv'
  BY DEF StageInv, Busy
<1>5. SessionInv'
  BY DEF IInv, SessionInv, IsOpen
<1>6. CreationInv'
  BY DEF CreationInv
<1> QED
  BY <1>1, <1>2, <1>3, <1>4, <1>5, <1>6 DEF IInv

\* An edit changes the disk only.
LEMMA UserEditStep ==
  ASSUME IInv, NEW v \in Versions, UserEdit(v)
  PROVE  IInv'
<1> USE DEF UserEdit, driveVars, durable, task, Exists
<1>1. TypeOK'
  BY Contents, BoundsAssumption DEF IInv, TypeOK
<1>2. DriveInv'
  BY DEF IInv, DriveInv
<1>3. KnownInv'
  BY DEF IInv, KnownInv
<1>4. StageInv'
  BY DEF IInv, StageInv
<1>5. SessionInv'
  BY DEF IInv, SessionInv, IsOpen
<1>6. CreationInv'
  BY DEF IInv, CreationInv, IsOpen, Identical
<1> QED
  BY <1>1, <1>2, <1>3, <1>4, <1>5, <1>6 DEF IInv

-----------------------------------------------------------------------------

\* A new session is open, empty and of the task's target.
LEMMA StartResumableSessionStep ==
  ASSUME IInv, StartResumableSession
  PROVE  IInv'
<1> USE DEF durable, task, Exists
<1>1. PICK s \in Sessions :
        /\ server[s].st = "none"
        /\ server' = [server EXCEPT ![s] = [NoSession EXCEPT !.st = "open",
                                                            !.target = target]]
        /\ sess' = [id |-> s, target |-> target, md5 |-> md5, next |-> 0]
  BY DEF StartResumableSession
<1>2. /\ pc = "started" /\ pc' = "sending"
      /\ UNCHANGED <<files, news, disk, durable, view, mem, task, raced, edits, faults>>
  BY DEF StartResumableSession
<1>3. /\ server'[s].st = "open" /\ server'[s].target = target /\ server'[s].got = <<>>
      /\ server'[s] \in ServerSession
      /\ \A r \in Sessions : r # s => server'[r] = server[r]
      /\ server' \in [Sessions -> ServerSession]
  BY <1>1, Contents DEF IInv, TypeOK, NoSession, ServerSession, Absent
<1>4. sess' \in UploadSession /\ sess'.id = s /\ sess'.target = target
  BY <1>1, <1>2 DEF IInv, TypeOK, StageInv, Busy, UploadSession
<1>5. TypeOK'
  BY <1>2, <1>3, <1>4 DEF IInv, TypeOK
<1>6. DriveInv'
  BY <1>2, <1>3 DEF IInv, DriveInv
<1>7. KnownInv' /\ StageInv'
  BY <1>2 DEF IInv, KnownInv, StageInv, Busy
<1>8. SessionInv'
  <2>1. saved # None => saved.id \in Sessions /\ saved.id # s
    BY <1>1 DEF IInv, TypeOK, SessionInv, UploadSession
  <2> QED
    BY <1>2, <1>3, <1>4, <2>1 DEF IInv, StageInv, SessionInv, IsOpen
<1>9. CreationInv'
  BY <1>2 DEF IInv, CreationInv, Identical
<1> QED
  BY <1>5, <1>6, <1>7, <1>8, <1>9 DEF IInv

\* A session that Drive forgets is open no more.
LEMMA ForgetStep ==
  ASSUME IInv, NEW s \in Sessions, Forget(s)
  PROVE  IInv'
<1> USE DEF durable, task, Exists
<1>1. /\ server' = [server EXCEPT ![s].st = "gone"] /\ faults' \in 0..MaxFaults
      /\ server[s].st \in {"open", "done"}
      /\ UNCHANGED <<files, news, disk, durable, view, pc, mem, sess, task, raced, edits>>
  BY BoundsAssumption DEF Forget, Fault, IInv, TypeOK
<1>2. /\ server'[s].st = "gone" /\ server'[s].target = server[s].target
      /\ server'[s] \in ServerSession
      /\ \A r \in Sessions : r # s => server'[r] = server[r]
      /\ server' \in [Sessions -> ServerSession]
  BY <1>1 DEF IInv, TypeOK, ServerSession
<1>3. /\ sess # None => sess.id \in Sessions
      /\ saved # None => saved.id \in Sessions
  BY DEF IInv, TypeOK, UploadSession
<1>4. TypeOK'
  BY <1>1, <1>2 DEF IInv, TypeOK
<1>5. DriveInv' /\ KnownInv' /\ StageInv'
  BY <1>1, <1>2 DEF IInv, DriveInv, KnownInv, StageInv
<1>6. SessionInv'
  BY <1>1, <1>2, <1>3 DEF IInv, SessionInv, IsOpen
<1>7. CreationInv'
  BY <1>1, <1>2, <1>3 DEF IInv, CreationInv, IsOpen, Identical
<1> QED
  BY <1>4, <1>5, <1>6, <1>7 DEF IInv

\* A chunk that arrives, whether the answer does or not.
LEMMA ArrivedStep ==
  ASSUME IInv, pc = "sending", server[sess.id].st = "open", Take(sess.id),
         UNCHANGED <<disk, durable, view, mem, md5, used, edits>>,
         faults' \in 0..MaxFaults,
         \/ UNCHANGED <<pc, sess, target, offset>>
         \/ /\ server'[sess.id].st = "done" /\ target' = server'[sess.id].file
            /\ pc' = "effected" /\ UNCHANGED <<offset, sess>>
         \/ Resume(offset + 1) /\ UNCHANGED target
  PROVE  IInv'
<1> USE DEF durable, Exists
<1> DEFINE s == sess.id
<1>1. /\ sess \in UploadSession /\ s \in Sessions /\ sess.target = target
      /\ offset \in 0..Chunks
  BY DEF IInv, TypeOK, SessionInv, UploadSession
<1>2. /\ files' \in [Files -> Body] /\ server' \in [Sessions -> ServerSession]
      /\ news' \in SUBSET Files /\ raced' \in SUBSET Files
      /\ DriveInv' /\ \A f \in news' : files'[f] # Absent
      /\ \A f \in Files : Exists(f) => files'[f] # Absent
      /\ \A r \in Sessions : server'[r].target = server[r].target
      /\ \A r \in Sessions : r # s => server'[r] = server[r]
      /\ server'[s].st \in {"open", "done"}
      /\ server'[s].st = "open" => files' = files
  BY <1>1, TakeStep
<1> HIDE DEF s
<1>3. /\ offset' \in 0..Chunks
      /\ sess' = sess \/ sess' = [sess EXCEPT !.next = offset']
  BY <1>1 DEF Resume, Progress
<1>4. sess' \in UploadSession /\ sess'.id = s /\ sess'.target = sess.target
  BY <1>1, <1>3 DEF UploadSession, s
<1>5. target' = target \/ (target' \in Files /\ files'[target'] # Absent)
  <2>1. server'[s].st = "done" => server'[s].file \in Files /\ files'[server'[s].file] # Absent
    BY <1>1, <1>2 DEF DriveInv, s
  <2>2. target' = target \/ (server'[s].st = "done" /\ target' = server'[s].file)
    BY DEF s
  <2> QED
    BY <2>1, <2>2
<1>6. pc' \in {"sending", "effected", "failed"}
  BY DEF Resume
<1>7. pc' = "effected" => target' # None
  BY <1>1, <1>2 DEF DriveInv, s, Resume
<1>8. pc' = "sending" => target' = target
  OBVIOUS
<1>9. TypeOK'
  BY <1>2, <1>3, <1>4, <1>5, <1>6 DEF IInv, TypeOK
<1>10. KnownInv'
  BY <1>2, <1>5 DEF IInv, TypeOK, KnownInv, Record
<1>11. StageInv'
  BY <1>6, <1>7 DEF IInv, StageInv, Busy
<1>12. saved # None => saved.id \in Sessions /\ saved.id # s
  BY DEF IInv, TypeOK, SessionInv, UploadSession, IsOpen, s
<1>13. SessionInv'
  <2>1. jrn = "SideEffectStarted"
    BY DEF IInv, StageInv
  <2>2. server'[s].st # "none" /\ server'[s].target = sess.target
    BY <1>1, <1>2 DEF IInv, SessionInv, s
  <2>3. IsOpen(sess)' => pc' \in {"sending", "failed", "idle"}
    BY <1>4, <1>2 DEF IsOpen, s, Resume
  <2> QED
    BY <1>1, <1>2, <1>4, <1>8, <1>12, <2>1, <2>2, <2>3 DEF IInv, SessionInv, IsOpen
<1>14. CreationInv'
  <2>1. ~used
    BY <1>1 DEF IInv, CreationInv, IsOpen
  <2>2. target = None => Identical(md5) = {}
    BY <1>1 DEF IInv, CreationInv, IsOpen
  <2> QED
    BY <1>2, <1>4, <1>6, <1>8, <2>1, <2>2 DEF CreationInv, IsOpen, Identical
<1> QED
  BY <1>2, <1>9, <1>10, <1>11, <1>13, <1>14 DEF IInv

\* A chunk arrives, with its answer.
LEMMA SendChunkStep ==
  ASSUME IInv, SendChunk
  PROVE  IInv'
<1>1. faults' \in 0..MaxFaults
  BY DEF SendChunk, IInv, TypeOK
<1> QED
  BY <1>1, ArrivedStep DEF SendChunk, ParseNextOffset

\* A chunk arrives, and its answer is lost.
LEMMA LoseAnswerStep ==
  ASSUME IInv, LoseAnswer
  PROVE  IInv'
<1>1. faults' \in 0..MaxFaults
  BY BoundsAssumption DEF LoseAnswer, Fault, IInv, TypeOK
<1> QED
  BY <1>1, ArrivedStep DEF LoseAnswer, task

-----------------------------------------------------------------------------

\* Every step keeps the invariant.
LEMMA NextInv == IInv /\ [Next]_vars => IInv'
<1> SUFFICES ASSUME IInv, [Next]_vars PROVE IInv'
  OBVIOUS
<1>1. CASE StartCycle
  BY <1>1, StartCycleStep
<1>2. CASE Skip
  BY <1>2, SkipStep
<1>3. CASE \E f \in Files \cup {None} : PlanUpload(f)
  BY <1>3, PlanUploadStep
<1>4. CASE \E f \in Files : TakeRemote(f)
  BY <1>4, TakeRemoteStep
<1>5. CASE LinkIdentical
  BY <1>5, LinkIdenticalStep
<1>6. CASE StartUpload
  BY <1>6, StartUploadStep
<1>7. CASE StartResumableSession
  BY <1>7, StartResumableSessionStep
<1>8. CASE SendChunk
  BY <1>8, SendChunkStep
<1>9. CASE SendAgain
  BY <1>9, SendAgainStep
<1>10. CASE SendToFinished
  BY <1>10, SendToFinishedStep
<1>11. CASE SendBeyond
  BY <1>11, SendBeyondStep
<1>12. CASE SendToGone
  BY <1>12, SendToGoneStep
<1>13. CASE MarkDone
  BY <1>13, MarkDoneStep
<1>14. CASE Commit
  BY <1>14, CommitStep
<1>15. CASE FinishCycle
  BY <1>15, FinishCycleStep
<1>16. CASE LoseAnswer
  BY <1>16, LoseAnswerStep
<1>17. CASE DropChunk
  BY <1>17, DropChunkStep
<1>18. CASE RequestFails
  BY <1>18, RequestFailsStep
<1>19. CASE Crash
  BY <1>19, CrashStep
<1>20. CASE \E s \in Sessions : Forget(s)
  BY <1>20, ForgetStep
<1>21. CASE \E v \in Versions : UserEdit(v)
  BY <1>21, UserEditStep
<1>22. CASE UNCHANGED vars
  BY <1>22 DEF vars, driveVars, durable, task, IInv, TypeOK, DriveInv, KnownInv,
     StageInv, SessionInv, CreationInv, IsOpen, Exists, Identical
<1> QED
  BY <1>1, <1>2, <1>3, <1>4, <1>5, <1>6, <1>7, <1>8, <1>9, <1>10, <1>11, <1>12,
     <1>13, <1>14, <1>15, <1>16, <1>17, <1>18, <1>19, <1>20, <1>21, <1>22
     DEF Next, Work

\* What holds in every state: the types, and why the stages of a transfer, the
\* stored sessions and the journal fit together.
THEOREM Invariance == Spec => []IInv
<1>1. Init => IInv
  BY InitInv
<1>2. IInv /\ [Next]_vars => IInv'
  BY NextInv
<1> QED
  BY <1>1, <1>2, PTL DEF Spec

\* Every variable keeps its type: Drive's chunks, the client's offset and the
\* range it is told stay within the file, and a record always names a file.
THEOREM TypeCorrect == Spec => []TypeOK
<1>1. IInv => TypeOK
  BY DEF IInv
<1> QED
  BY <1>1, Invariance, PTL

\* A creation that is tried again, after lost answers, crashes, forgotten
\* sessions and edits in any number and order, never makes a second file of a
\* content (executor.rs 1122-1136).
THEOREM OneFilePerContent == Spec => NoDuplicates
<1> DEFINE Single == \A f \in Files :
                       ~Exists(f) /\ files'[f] # Absent /\ f \notin raced' =>
                         \A g \in Files : files[g] # files'[f]
<1>1. ASSUME IInv, [Next]_vars PROVE Single
  <2>1. CASE files' = files
    BY <2>1 DEF Exists
  <2>2. CASE files' # files
    <3>1. /\ pc = "sending" /\ server[sess.id].st = "open" /\ Take(sess.id)
      BY <1>1, <2>2 DEF Next, Work, vars, driveVars, StartCycle, Skip, PlanUpload,
         TakeRemote, LinkIdentical, StartUpload, StartResumableSession, SendChunk,
         SendAgain, SendToFinished, SendBeyond, SendToGone, MarkDone, Commit,
         FinishCycle, LoseAnswer, DropChunk, RequestFails, Crash, Forget, UserEdit
    <3>2. /\ sess # None /\ sess.id \in Sessions /\ server[sess.id].target = target
      BY <1>1, <3>1 DEF IInv, TypeOK, SessionInv, UploadSession
    <3>3. target # None => Exists(target)
      BY <1>1 DEF IInv, KnownInv
    <3>4. target = None => Identical(md5) = {}
      BY <1>1, <3>1, <3>2 DEF IInv, CreationInv, IsOpen
    <3>5. \A f \in Files : ~Exists(f) /\ files'[f] # Absent /\ f \notin raced' =>
            files'[f] = md5
            /\ (server[sess.id].target = None \/ ~Exists(server[sess.id].target))
      BY <1>1, <3>1, <3>2, TakeStep
    <3> QED
      BY <3>2, <3>3, <3>4, <3>5 DEF Identical
  <2> QED
    BY <2>1, <2>2
<1>2. Spec => []IInv
  BY Invariance
<1>3. Spec => [][Next]_vars
  BY DEF Spec
<1>4. Single => (\A f \in Files :
       ~Exists(f) /\ files'[f] # Absent /\ f \notin raced' =>
         \A g \in Files : files[g] # files'[f])
  OBVIOUS
<1> QED
  BY <1>1, <1>2, <1>3, PTL DEF NoDuplicates, Spec

-----------------------------------------------------------------------------
(* An attempt is one write.  The file it writes is that of its session, which *)
(* is opened without one; the sessions of earlier attempts do not count.     *)

\* What the finished session of an attempt has written is what the attempt is
\* about, or torn.
LandInv ==
  /\ \A s \in Sessions : server[s].st \in {"none", "open"} => server[s].file = None
  /\ pc \in {"sending", "effected", "done"} => sess # None
  /\ pc \in {"effected", "done"} /\ ~used => target = Landed
  /\ Landed # None => files[Landed] = md5 \/ Landed \in raced

\* A chunk leaves the session without a file, or lands the whole.
LEMMA TakeLands ==
  ASSUME IInv, LandInv, NEW s \in Sessions, server[s].st = "open", Take(s)
  PROVE  /\ \A r \in Sessions : server'[r].st \in {"none", "open"} => server'[r].file = None
         /\ \A r \in Sessions : r # s => server'[r] = server[r]
         /\ \/ /\ server'[s].st = "open" /\ server'[s].file = None
               /\ Len(server'[s].got) = Len(server[s].got) + 1
               /\ UNCHANGED <<files, raced>>
            \/ /\ server'[s].st = "done" /\ server'[s].file = Written(s)
               /\ Written(s) \in Files
               /\ \E c \in Content :
                    /\ files' = [files EXCEPT ![Written(s)] = c]
                    /\ raced' = IF c = md5 THEN raced \ {Written(s)}
                                ELSE raced \cup {Written(s)}
<1> DEFINE got == Append(server[s].got, disk[Len(server[s].got) + 1])
           w == Written(s)
<1>1. /\ server[s] \in ServerSession /\ server[s].got \in Body
      /\ Len(server[s].got) < Chunks /\ disk \in Content
      /\ server \in [Sessions -> ServerSession]
  BY DEF IInv, TypeOK, DriveInv, ServerSession
<1>2. /\ Len(got) = Len(server[s].got) + 1
      /\ Len(got) = Chunks => got \in Content
  BY <1>1, NextChunk
<1>3. w \in Files
  BY WrittenFile DEF IInv, Take
<1> HIDE DEF got, w
<1>4. CASE Len(got) # Chunks
  <2>1. /\ server' = [server EXCEPT ![s].got = got, ![s].st = "open", ![s].file = None]
        /\ UNCHANGED <<files, raced>>
    BY <1>4 DEF Take, got, w
  <2>2. server'[s] = [server[s] EXCEPT !.got = got, !.st = "open", !.file = None]
    BY <1>1, <2>1
  <2>3. /\ server'[s].st = "open" /\ server'[s].file = None
        /\ server'[s].got = got
    BY <1>1, <2>2 DEF ServerSession
  <2>4. \A r \in Sessions : r # s => server'[r] = server[r]
    BY <1>1, <2>1
  <2> QED
    BY <1>2, <2>1, <2>3, <2>4 DEF LandInv
<1>5. CASE Len(got) = Chunks
  <2>1. /\ server' = [server EXCEPT ![s].got = got, ![s].st = "done", ![s].file = w]
        /\ files' = [files EXCEPT ![w] = got]
        /\ raced' = IF got = md5 THEN raced \ {w} ELSE raced \cup {w}
    BY <1>5 DEF Take, got, w
  <2>2. server'[s] = [server[s] EXCEPT !.got = got, !.st = "done", !.file = w]
    BY <1>1, <2>1
  <2>3. server'[s].st = "done" /\ server'[s].file = w
    BY <1>1, <2>2 DEF ServerSession
  <2>4. \A r \in Sessions : r # s => server'[r] = server[r]
    BY <1>1, <2>1
  <2>5. \E c \in Content :
          /\ files' = [files EXCEPT ![w] = c]
          /\ raced' = IF c = md5 THEN raced \ {w} ELSE raced \cup {w}
    BY <1>2, <1>5, <2>1
  <2> QED
    BY <1>3, <2>3, <2>4, <2>5 DEF LandInv, w
<1> QED
  BY <1>4, <1>5

\* A session that Drive has open while it is sent to belongs to this attempt.
LEMMA OwnSession ==
  ASSUME IInv, pc = "sending"
  PROVE  /\ sess \in UploadSession /\ sess.id \in Sessions
         /\ sess.target = target /\ server[sess.id].target = target
         /\ server[sess.id].st = "open" => ~used
         /\ server[sess.id].st = "done" => server[sess.id].file \in Files
BY DEF IInv, TypeOK, SessionInv, CreationInv, IsOpen, DriveInv, UploadSession

\* Steps that leave Drive alone and end the attempt, or have none.
LEMMA NoLanding ==
  ASSUME LandInv, UNCHANGED <<files, server, raced>>,
         pc' \notin {"sending", "effected", "done"}
  PROVE  LandInv' /\ Landed' = None
BY DEF LandInv, Landed

\* Steps of a transfer that leave Drive and the session's id alone.
LEMMA SameLanding ==
  ASSUME LandInv, UNCHANGED <<files, server, raced, md5, used, target>>,
         pc \in {"sending", "effected", "done"},
         sess' # None, sess'.id = sess.id,
         pc' = pc \/ (pc = "effected" /\ pc' = "done")
  PROVE  LandInv' /\ Landed' = Landed
BY DEF LandInv, Landed

\* The last chunk, whether its answer arrives or not, is the one write.
LEMMA ArrivedLands ==
  ASSUME IInv, LandInv, pc = "sending", server[sess.id].st = "open", Take(sess.id),
         UNCHANGED <<mem, rec, md5, used>>,
         \/ UNCHANGED <<pc, sess, target, offset>>
         \/ /\ server'[sess.id].st = "done" /\ target' = server'[sess.id].file
            /\ pc' = "effected" /\ UNCHANGED <<offset, sess>>
         \/ /\ server'[sess.id].st = "open"
            /\ Resume(offset + 1) /\ UNCHANGED target
  PROVE  LandInv' /\ (T!Next \/ UNCHANGED T!transferVars)
<1> DEFINE s == sess.id
           w == Written(s)
<1>1. /\ sess \in UploadSession /\ s \in Sessions /\ ~used /\ sess # None
      /\ sess.target = target /\ server[s].target = target
  BY OwnSession, NoneAssumption
<1>2. /\ \A r \in Sessions : server'[r].st \in {"none", "open"} => server'[r].file = None
      /\ \/ /\ server'[s].st = "open" /\ server'[s].file = None
            /\ UNCHANGED <<files, raced>>
         \/ /\ server'[s].st = "done" /\ server'[s].file = w
            /\ w \in Files
            /\ \E c \in Content :
                 /\ files' = [files EXCEPT ![w] = c]
                 /\ raced' = IF c = md5 THEN raced \ {w} ELSE raced \cup {w}
  BY <1>1, TakeLands
<1>3. Landed = None /\ Claim = md5 /\ md5 # None
  BY <1>1, NoneAssumption DEF LandInv, Landed, Claim, IInv, StageInv, Busy
<1> HIDE DEF s
<1>4. sess' # None /\ sess'.id = s /\ pc' \in {"sending", "effected", "failed"}
  <2>1. CASE Resume(offset + 1) /\ sess' = Progress(sess, offset + 1)
             /\ offset + 1 <= Chunks
    <3>1. sess' \in UploadSession /\ sess'.id = s
      BY <1>1, <2>1 DEF IInv, TypeOK, Progress, UploadSession, s
    <3> QED
      BY <2>1, <3>1, NoneAssumption DEF Resume
  <2>2. CASE sess' = sess
    BY <1>1, <2>2 DEF Resume, s
  <2> QED
    BY <2>1, <2>2 DEF Resume
<1>5. CASE server'[s].st = "open"
  <2>1. server'[s].file = None /\ UNCHANGED <<files, raced>> /\ pc' # "effected"
    BY <1>2, <1>5 DEF s, Resume
  <2>2. Landed' = None
    BY <1>4, <2>1 DEF Landed
  <2>3. LandInv'
    BY <1>2, <1>4, <2>1, <2>2 DEF LandInv
  <2>4. Claim' = Claim \/ Claim' = None
    BY <1>4 DEF Claim
  <2> QED
    BY <1>3, <2>1, <2>2, <2>3, <2>4 DEF T!Next, T!GiveUp, T!transferVars
<1>6. CASE server'[s].st # "open"
  <2>1. PICK c \in Content :
          /\ server'[s].st = "done" /\ server'[s].file = w /\ w \in Files
          /\ files' = [files EXCEPT ![w] = c]
          /\ raced' = IF c = md5 THEN raced \ {w} ELSE raced \cup {w}
    BY <1>2, <1>6
  <2>2. files'[w] = c
    BY <2>1 DEF IInv, TypeOK
  <2> HIDE DEF w
  <2>3. /\ sess' = sess /\ pc' \in {"sending", "effected"}
        /\ pc' = "effected" => target' = w
    BY <1>4, <1>6, <2>1 DEF s
  <2>4. Landed' = w /\ Claim' = md5
    BY <1>1, <2>1, <2>3 DEF Landed, Claim, s
  <2>5. LandInv'
    BY <1>2, <1>4, <2>1, <2>2, <2>3, <2>4 DEF LandInv
  <2>6. T!Land(w)
    <3>1. ASSUME files[w] = Absent, c = md5
          PROVE  \A g \in Files : files[g] # c
      <4>1. target = None
        BY <1>1, <3>1 DEF IInv, KnownInv, Exists, Written, w
      <4>2. Identical(md5) = {}
        BY <1>1, <4>1 DEF IInv, CreationInv, IsOpen
      <4> QED
        BY <3>1, <4>2 DEF Identical
    <3> QED
      BY <1>3, <2>1, <2>4, <3>1 DEF T!Land
  <2> QED
    BY <2>1, <2>5, <2>6 DEF T!Next
<1> QED
  BY <1>5, <1>6


\* A step that starts no transfer, ends none and writes nothing.
LEMMA QuietLands ==
  ASSUME IInv, LandInv,
         Skip \/ LinkIdentical \/ StartUpload \/ StartResumableSession \/ SendAgain
         \/ SendToFinished \/ DropChunk \/ MarkDone \/ (\E s \in Sessions : Forget(s))
         \/ \E v \in Versions : UserEdit(v)
  PROVE  LandInv' /\ (T!GiveUp \/ UNCHANGED T!transferVars)
<1> USE DEF T!GiveUp, T!transferVars, driveVars, durable, task
<1>1. CASE Skip
  BY <1>1, NoLanding DEF Skip, Claim, Landed
<1>2. CASE LinkIdentical
  BY <1>2, NoLanding DEF LinkIdentical, Claim, Landed
<1>3. CASE StartUpload
  <2>1. SessionIsValid(sess, target, md5) => sess # None
    BY DEF SessionIsValid
  <2> QED
    BY <1>3, <2>1 DEF StartUpload, LandInv, Claim, Landed
<1>4. CASE StartResumableSession
  <2>1. PICK s \in Sessions :
          /\ server' = [server EXCEPT ![s] = [NoSession EXCEPT !.st = "open",
                                                               !.target = target]]
          /\ sess' = [id |-> s, target |-> target, md5 |-> md5, next |-> 0]
    BY <1>4 DEF StartResumableSession
  <2>2. server'[s].file = None /\ \A r \in Sessions : r # s => server'[r] = server[r]
    BY <2>1 DEF IInv, TypeOK, NoSession
  <2>3. sess' \in UploadSession /\ sess'.id = s
    BY <1>4, <2>1 DEF StartResumableSession, UploadSession, IInv, TypeOK, StageInv, Busy
  <2> QED
    BY <1>4, <2>2, <2>3, NoneAssumption DEF StartResumableSession, LandInv, Claim, Landed
<1>5. CASE SendAgain \/ DropChunk
  <2>1. PICK n \in Nat : Resume(n)
    <3>1. offset + 1 \in Nat
      BY DEF IInv, TypeOK
    <3>2. server[sess.id].got \in Seq(Versions)
      BY <1>5, OwnSession DEF SendAgain, DropChunk, IInv, TypeOK, ServerSession, Body
    <3>3. Len(server[sess.id].got) \in Nat
      BY <3>2
    <3> QED
      BY <1>5, <3>1, <3>3 DEF SendAgain, DropChunk, ParseNextOffset
  <2>2. /\ pc = "sending" /\ UNCHANGED <<files, server, raced, md5, used, target, mem, rec>>
    BY <1>5 DEF SendAgain, DropChunk
  <2>3. CASE pc' = "failed"
    BY <2>2, <2>3, NoLanding DEF Claim, Landed
  <2>4. CASE n > offset /\ n <= Chunks
    <3>1. sess' \in UploadSession /\ sess'.id = sess.id /\ pc' = pc
      BY <2>1, <2>2, <2>4, OwnSession DEF Resume, Progress, UploadSession
    <3> QED
      BY <2>2, <3>1, SameLanding, NoneAssumption DEF Claim
  <2> QED
    BY <2>1, <2>3, <2>4 DEF Resume
<1>6. CASE SendToFinished
  <2>1. Landed' = Landed /\ Claim' = Claim
    BY <1>6 DEF SendToFinished, Claim, Landed
  <2>2. target' = server[sess.id].file
    BY <1>6 DEF SendToFinished
  <2> QED
    BY <1>6, <2>1, <2>2 DEF SendToFinished, LandInv, Landed
<1>7. CASE MarkDone
  BY <1>7, SameLanding DEF MarkDone, LandInv, Claim
<1>8. ASSUME NEW s \in Sessions, Forget(s)
      PROVE  LandInv' /\ UNCHANGED T!transferVars
  <2>1. server' = [server EXCEPT ![s].st = "gone"]
    BY <1>8 DEF Forget
  <2>2. server'[s] = [server[s] EXCEPT !.st = "gone"]
        /\ \A r \in Sessions : r # s => server'[r] = server[r]
    BY <2>1 DEF IInv, TypeOK
  <2>3. server'[s].st = "gone" /\ server'[s].file = server[s].file
    BY <2>2 DEF IInv, TypeOK, ServerSession
  <2>4. \A r \in Sessions : server'[r].file = server[r].file
    BY <2>2, <2>3
  <2>5. Landed' = Landed
    <3>1. sess # None => sess.id \in Sessions
      BY DEF IInv, TypeOK, UploadSession
    <3> QED
      BY <1>8, <2>4, <3>1 DEF Forget, Landed, LandInv
  <2> QED
    BY <1>8, <2>2, <2>3, <2>5 DEF Forget, LandInv, Claim
<1>9. ASSUME NEW v \in Versions, UserEdit(v)
      PROVE  LandInv' /\ UNCHANGED T!transferVars
  BY <1>9 DEF UserEdit, LandInv, Landed, Claim
<1> QED
  BY <1>1, <1>2, <1>3, <1>4, <1>5, <1>6, <1>7, <1>8, <1>9

\* The steps that fail an attempt, and the replacement of a session that is gone.
LEMMA FailLands ==
  ASSUME IInv, LandInv, SendBeyond \/ SendToGone \/ RequestFails
  PROVE  LandInv' /\ (T!GiveUp \/ UNCHANGED T!transferVars)
<1> USE DEF T!GiveUp, T!transferVars, driveVars, durable, task
<1>1. UNCHANGED <<files, server, raced, mem, rec>>
  BY DEF SendBeyond, SendToGone, RequestFails
<1>2. CASE pc' = "failed"
  BY <1>1, <1>2, NoLanding DEF Claim, Landed
<1>3. CASE pc' # "failed"
  <2>1. SendToGone /\ used /\ pc' = "started"
    BY <1>3 DEF SendBeyond, SendToGone, RequestFails
  <2> QED
    BY <1>1, <2>1, NoLanding DEF SendToGone, Claim, Landed
<1> QED
  BY <1>2, <1>3

\* The bounds of a cycle: a plan, a download, a load, a save, a crash.
LEMMA CycleLands ==
  ASSUME IInv, LandInv,
         StartCycle \/ (\E f \in Files \cup {None} : PlanUpload(f))
         \/ (\E f \in Files : TakeRemote(f)) \/ FinishCycle \/ Crash
  PROVE  LandInv' /\ T!Next
<1> USE DEF driveVars, durable, task
<1>1. LandInv' /\ Landed' = None
  BY NoLanding DEF StartCycle, PlanUpload, TakeRemote, FinishCycle, Crash
<1>2. CASE StartCycle
  <2>1. Claim = None /\ Claim' = None /\ Landed = None
    BY <1>2 DEF StartCycle, Claim, Landed
  <2> QED
    BY <1>1, <1>2, <2>1 DEF StartCycle, ClearPathStateForRecovery, T!Next, T!Crash,
       T!Recover
<1>3. ASSUME NEW f \in Files \cup {None}, PlanUpload(f)
      PROVE  T!Plan
  <2>1. Claim = None /\ Claim' = disk /\ Landed = None
    BY <1>3 DEF PlanUpload, Claim, Landed
  <2> QED
    BY <1>1, <1>3, <2>1 DEF PlanUpload, T!Plan, IInv, TypeOK
<1>4. ASSUME NEW f \in Files, TakeRemote(f)
      PROVE  T!Adopt(f)
  <2>1. Claim = None /\ Claim' = None /\ Landed = None
    BY <1>4 DEF TakeRemote, Claim, Landed
  <2>2. Exists(f)
    BY <1>4 DEF TakeRemote, Shown, IInv, KnownInv
  <2> QED
    BY <1>1, <1>4, <2>1, <2>2 DEF TakeRemote, T!Adopt, T!RecordOf, Exists, Absent
<1>5. CASE FinishCycle
  <2>1. Claim = None /\ Claim' = None /\ Landed = None
    BY <1>5 DEF FinishCycle, Claim, Landed
  <2> QED
    BY <1>1, <1>5, <2>1 DEF FinishCycle, T!Next, T!Save
<1>6. CASE Crash
  BY <1>1, <1>6 DEF Crash, Claim, T!Next, T!Crash
<1> QED
  BY <1>1, <1>2, <1>3, <1>4, <1>5, <1>6 DEF T!Next

\* A commit is for the file the attempt has changed, or for one that was there.
LEMMA CommitLands ==
  ASSUME IInv, LandInv, Commit
  PROVE  LandInv' /\ T!Confirm(target)
<1> USE DEF Commit, driveVars, durable
<1>1. LandInv' /\ Landed' = None
  BY NoLanding
<1>2. Claim = md5 /\ Claim' = None /\ md5 # None
  BY NoneAssumption DEF Claim, IInv, StageInv, Busy
<1>3. target \in Files /\ files[target] # Absent
  BY NoneAssumption DEF IInv, TypeOK, StageInv, KnownInv, Exists
<1>4. Landed \in {None, target}
  BY DEF LandInv, Landed
<1>5. Landed = target => files[target] = md5 \/ target \in raced
  BY <1>3, NoneAssumption DEF LandInv
<1> QED
  BY <1>1, <1>2, <1>3, <1>4, <1>5 DEF T!Confirm, T!RecordOf

\* Every step of the transfer is a step of the abstract one, or none.
LEMMA TransferStep ==
  ASSUME IInv, LandInv, [Next]_vars
  PROVE  LandInv' /\ [T!Next]_T!transferVars
<1>1. ASSUME NEW f \in Files, T!Confirm(f)
      PROVE  T!Next
  BY <1>1 DEF T!Next
<1>2. CASE SendChunk
  BY <1>2, ArrivedLands, OwnSession, TakeStep
     DEF SendChunk, ParseNextOffset, durable, driveVars
<1>3. CASE LoseAnswer
  BY <1>3, ArrivedLands DEF LoseAnswer, durable, driveVars, task
<1>4. CASE Commit
  <2>1. target \in Files
    BY <1>4 DEF Commit, IInv, TypeOK, StageInv
  <2> QED
    BY <1>1, <1>4, <2>1, CommitLands
<1>5. CASE UNCHANGED vars
  BY <1>5 DEF vars, driveVars, durable, task, LandInv, Landed, Claim, T!transferVars
<1> QED
  BY <1>2, <1>3, <1>4, <1>5, QuietLands, FailLands, CycleLands DEF Next, Work, T!Next

\* Initially there is no attempt.
LEMMA TransferInit == Init => LandInv /\ T!Init
BY DEF Init, LandInv, Landed, Claim, NoSession, Absent, T!Init

\* However it is cut into chunks, and whatever is lost, forgotten, sent again or
\* resumed, a transfer is for the sync cycle one write of one file of Drive that
\* an attempt makes at most once (upload.rs 273-380, executor.rs 956-1235).
THEOREM UploadImplementsTransfer == Spec => ImplementsTransfer
<1>1. IInv /\ LandInv /\ [Next]_vars => LandInv' /\ [T!Next]_T!transferVars
  BY TransferStep
<1>2. Spec => []IInv
  BY Invariance
<1>3. Init => LandInv /\ T!Init
  BY TransferInit
<1> QED
  BY <1>1, <1>2, <1>3, PTL DEF Spec, ImplementsTransfer, T!Spec


-----------------------------------------------------------------------------
(* What a record says was uploaded.  A resumed session may have finished long *)
(* ago, before another one wrote its file.  It takes two faults to get there: *)
(* one that keeps the session in redb, and one that has it loaded again after *)
(* it was given up.                                                          *)

\* What the stored session has finished is on Drive, and so is what is about to
\* be recorded; before the first fault no session outlives its attempt.
TruthInv ==
  /\ sess # None /\ server[sess.id].st = "done" =>
       files[server[sess.id].file] = sess.md5 \/ server[sess.id].file \in raced
  /\ pc = "sending" => sess.md5 = md5
  /\ pc \in {"effected", "done", "linked"} => files[target] = md5 \/ target \in raced
  /\ pc = "idle" => sess = saved
  /\ pc = "started" => offset = 0
  /\ faults = 0 =>
       /\ saved = None /\ pc # "failed"
       /\ pc \in {"loaded", "planned", "over"} => sess = None
       /\ pc = "sending" => /\ ~used /\ server[sess.id].st = "open"
                            /\ offset = Len(server[sess.id].got)

\* The chunks: what the last one writes is what the session is for, or torn.
LEMMA ChunkTruth ==
  ASSUME IInv, LandInv, TruthInv, SendChunk \/ LoseAnswer
  PROVE  TruthInv'
<1> DEFINE s == sess.id
<1>1. /\ pc = "sending" /\ sess # None /\ server[s].st = "open" /\ Take(s)
      /\ sess \in UploadSession /\ s \in Sessions /\ offset = Len(server[s].got)
      /\ offset \in Nat /\ ~used /\ sess.md5 = md5 /\ faults \in Nat
      /\ Len(server[s].got) < Chunks
      /\ UNCHANGED <<saved, md5, used>>
  BY OwnSession DEF SendChunk, LoseAnswer, LandInv, TruthInv, IInv, TypeOK, DriveInv,
     durable, task
<1>2. \/ /\ server'[s].st = "open" /\ Len(server'[s].got) = Len(server[s].got) + 1
         /\ UNCHANGED <<files, raced>>
      \/ /\ server'[s].st = "done" /\ server'[s].file \in Files
         /\ files'[server'[s].file] = md5 \/ server'[s].file \in raced'
  <2>1. CASE server'[s].st = "open"
    BY <1>1, <2>1, TakeLands
  <2>2. CASE server'[s].st # "open"
    <3>1. PICK c \in Content :
            /\ server'[s].st = "done" /\ server'[s].file = Written(s)
            /\ Written(s) \in Files
            /\ files' = [files EXCEPT ![Written(s)] = c]
            /\ raced' = IF c = md5 THEN raced \ {Written(s)}
                        ELSE raced \cup {Written(s)}
      BY <1>1, <2>2, TakeLands
    <3> QED
      BY <3>1 DEF IInv, TypeOK
  <2> QED
    BY <2>1, <2>2
<1> HIDE DEF s
<1>3. CASE sess' = sess /\ target' = target /\ pc' = pc /\ faults' # 0
  BY <1>1, <1>2, <1>3 DEF TruthInv, s
<1>4. CASE server'[s].st = "done" /\ sess' = sess /\ target' = server'[s].file
           /\ pc' = "effected" /\ faults' = faults
  BY <1>1, <1>2, <1>4 DEF TruthInv, s
<1>5. CASE server'[s].st = "open" /\ Resume(offset + 1) /\ faults' = faults
  <2>1. /\ offset' = offset + 1 /\ sess' = Progress(sess, offset + 1) /\ pc' = pc
    BY <1>1, <1>5, ChunksAssumption DEF Resume
  <2>2. sess' \in UploadSession /\ sess'.id = s /\ sess'.md5 = md5
    BY <1>1, <2>1, ChunksAssumption DEF Progress, UploadSession, s
  <2> QED
    BY <1>1, <1>2, <1>5, <2>1, <2>2 DEF TruthInv, s
<1>6. SendChunk \/ LoseAnswer
  OBVIOUS
<1>7. faults + 1 # 0
  BY <1>1
<1>8. server'[s].st \in {"open", "done"}
  BY <1>2
<1> QED
  BY <1>3, <1>4, <1>5, <1>6, <1>7, <1>8
     DEF SendChunk, LoseAnswer, Fault, ParseNextOffset, task, s

\* The other answers.  One of a finished session is of this version.
LEMMA AnswerTruth ==
  ASSUME IInv, LandInv, TruthInv,
         SendAgain \/ SendToFinished \/ DropChunk \/ SendBeyond \/ SendToGone
         \/ StartResumableSession
  PROVE  TruthInv'
<1> USE DEF driveVars, durable, task
<1>1. faults \in Nat /\ faults + 1 # 0 /\ offset \in Nat
  BY DEF IInv, TypeOK
<1>2. CASE SendAgain \/ DropChunk
  <2>1. /\ pc = "sending" /\ sess # None /\ sess \in UploadSession
        /\ server[sess.id].st = "open" /\ offset < Chunks
        /\ UNCHANGED <<files, server, raced, md5, used, target, saved>>
    BY <1>2, OwnSession DEF SendAgain, DropChunk, LandInv
  <2>2. faults' # 0
    <3>1. CASE DropChunk
      BY <1>1, <3>1 DEF DropChunk, Fault
    <3>2. CASE SendAgain
      <4>1. offset # Len(server[sess.id].got)
        BY <1>1, <3>2 DEF SendAgain
      <4> QED
        BY <2>1, <3>2, <4>1 DEF SendAgain, TruthInv
    <3> QED
      BY <1>2, <3>1, <3>2
  <2>3. PICK n \in Nat : Resume(n)
    <3>1. server[sess.id].got \in Seq(Versions)
      BY <2>1 , OwnSession DEF IInv, TypeOK, ServerSession, Body
    <3>2. Len(server[sess.id].got) \in Nat
      BY <3>1
    <3> QED
      BY <1>1, <1>2, <3>2 DEF SendAgain, DropChunk, ParseNextOffset
  <2>4. CASE pc' = "failed" /\ sess' = sess
    BY <2>1, <2>2, <2>4 DEF TruthInv
  <2>5. CASE n > offset /\ n <= Chunks
    <3>1. sess' \in UploadSession /\ sess'.id = sess.id /\ sess'.md5 = sess.md5
          /\ pc' = pc
      BY <2>1, <2>3, <2>5 DEF Resume, Progress, UploadSession
    <3> QED
      BY <2>1, <2>2, <3>1 DEF TruthInv
  <2> QED
    BY <2>3, <2>4, <2>5 DEF Resume
<1>3. CASE SendToFinished
  BY <1>3, OwnSession DEF SendToFinished, LandInv, TruthInv
<1>4. CASE SendBeyond
  <2>1. faults # 0
    <3>1. server[sess.id].st = "open" => Len(server[sess.id].got) < Chunks
      BY <1>4, OwnSession DEF SendBeyond, IInv, DriveInv
    <3>2. server[sess.id].st = "open" => Len(server[sess.id].got) \in Nat
      BY <1>4, OwnSession DEF SendBeyond, IInv, TypeOK, ServerSession, Body
    <3> QED
      BY <1>1, <1>4, <3>1, <3>2, ChunksAssumption DEF SendBeyond, TruthInv
  <2> QED
    BY <1>4, <2>1 DEF SendBeyond, TruthInv
<1>5. CASE SendToGone
  BY <1>5 DEF SendToGone, TruthInv
<1>6. CASE StartResumableSession
  <2>1. PICK s \in Sessions :
          /\ server' = [server EXCEPT ![s] = [NoSession EXCEPT !.st = "open",
                                                               !.target = target]]
          /\ sess' = [id |-> s, target |-> target, md5 |-> md5, next |-> 0]
    BY <1>6 DEF StartResumableSession
  <2>2. server'[s].st = "open" /\ server'[s].got = <<>>
    BY <2>1 DEF IInv, TypeOK, NoSession
  <2>3. sess'.id = s /\ sess'.md5 = md5
    BY <2>1
  <2>4. Len(<<>>) = 0
    OBVIOUS
  <2> QED
    BY <1>6, <2>2, <2>3, <2>4 DEF StartResumableSession, IInv, CreationInv, TruthInv
<1> QED
  BY <1>2, <1>3, <1>4, <1>5, <1>6

\* The cycle around the transfer.  With one fault at most, a crash finds no
\* session in redb.
LEMMA CycleTruth ==
  ASSUME MaxFaults <= 1, IInv, LandInv, TruthInv,
         StartCycle \/ Skip \/ (\E f \in Files \cup {None} : PlanUpload(f))
         \/ (\E f \in Files : TakeRemote(f)) \/ LinkIdentical \/ StartUpload
         \/ MarkDone \/ Commit \/ RequestFails \/ FinishCycle \/ Crash
  PROVE  TruthInv'
<1> USE DEF driveVars, durable, task
<1>1. faults \in Nat /\ faults + 1 # 0 /\ (Fault => faults = 0)
  BY BoundsAssumption DEF IInv, TypeOK, Fault
<1>2. CASE StartCycle
  BY <1>2 DEF StartCycle, ClearPathStateForRecovery, TruthInv
<1>3. CASE Skip
  BY <1>3 DEF Skip, TruthInv
<1>4. CASE \E f \in Files \cup {None} : PlanUpload(f)
  BY <1>4 DEF PlanUpload, TruthInv
<1>5. CASE \E f \in Files : TakeRemote(f)
  BY <1>5 DEF TakeRemote, TruthInv
<1>6. CASE LinkIdentical
  BY <1>6 DEF LinkIdentical, Identical, TruthInv
<1>7. CASE StartUpload
  <2>1. SessionIsValid(sess, target, md5) => sess # None /\ sess.md5 = md5
    BY DEF SessionIsValid
  <2> QED
    BY <1>7, <2>1 DEF StartUpload, TruthInv
<1>8. CASE MarkDone
  BY <1>8 DEF MarkDone, TruthInv
<1>9. CASE Commit
  BY <1>9 DEF Commit, TruthInv
<1>10. CASE RequestFails
  BY <1>1, <1>10 DEF RequestFails, Fault, TruthInv
<1>11. CASE FinishCycle
  BY <1>11 DEF FinishCycle, TruthInv
<1>12. CASE Crash
  BY <1>1, <1>12 DEF Crash, Fault, TruthInv
<1> QED
  BY <1>2, <1>3, <1>4, <1>5, <1>6, <1>7, <1>8, <1>9, <1>10, <1>11, <1>12

\* Drive and the user.
LEMMA OtherTruth ==
  ASSUME IInv, LandInv, TruthInv,
         (\E s \in Sessions : Forget(s)) \/ (\E v \in Versions : UserEdit(v))
         \/ UNCHANGED vars
  PROVE  TruthInv'
<1> USE DEF driveVars, durable, task
<1>1. ASSUME NEW s \in Sessions, Forget(s)
      PROVE  TruthInv'
  <2>1. server' = [server EXCEPT ![s].st = "gone"] /\ faults' # 0
    BY <1>1 DEF Forget, Fault, IInv, TypeOK
  <2>2. server'[s] = [server[s] EXCEPT !.st = "gone"]
        /\ \A r \in Sessions : r # s => server'[r] = server[r]
    BY <2>1 DEF IInv, TypeOK
  <2>3. server'[s].st = "gone"
    BY <2>2 DEF IInv, TypeOK, ServerSession
  <2>4. sess # None => sess.id \in Sessions
    BY DEF IInv, TypeOK, UploadSession
  <2> QED
    BY <1>1, <2>1, <2>2, <2>3, <2>4 DEF Forget, TruthInv
<1>2. CASE \E v \in Versions : UserEdit(v)
  BY <1>2 DEF UserEdit, TruthInv
<1>3. CASE UNCHANGED vars
  BY <1>3 DEF vars, TruthInv
<1> QED
  BY <1>1, <1>2, <1>3

\* One fault, and a record never says more than what is on Drive: no answer or
\* request that is lost, no forgotten session and no crash makes it lie alone.
\* With two it may (executor.rs 846-861, 1105-1121, upload.rs 273-380).
THEOREM OneFaultTellsTruth ==
  ASSUME MaxFaults <= 1
  PROVE  Spec => CommitTellsTruth
<1>1. Init => LandInv /\ TruthInv
  <2>1. Init => TruthInv
    BY DEF Init, TruthInv
  <2> QED
    BY <2>1, TransferInit
<1>2. ASSUME IInv, LandInv, TruthInv, [Next]_vars
      PROVE  LandInv' /\ TruthInv'
  BY <1>2, TransferStep, ChunkTruth, AnswerTruth, CycleTruth, OtherTruth DEF Next, Work
<1>3. ASSUME IInv, LandInv, TruthInv, [Next]_vars, mem' # mem, pc' = "over"
      PROVE  files[mem'.id] = mem'.md5 \/ mem'.id \in raced
  <2>1. CASE Commit
    <3>1. mem'.id = target /\ mem'.md5 = md5 /\ pc \in {"done", "linked"}
      BY <2>1 DEF Commit
    <3> QED
      BY <1>3, <3>1 DEF TruthInv
  <2>2. CASE \E f \in Files : TakeRemote(f)
    BY <2>2 DEF TakeRemote
  <2> QED
    BY <1>3, <2>1, <2>2 DEF Next, Work, vars, StartCycle, Skip, PlanUpload,
       LinkIdentical, StartUpload, StartResumableSession, SendChunk, SendAgain,
       SendToFinished, SendBeyond, SendToGone, MarkDone, FinishCycle, LoseAnswer,
       DropChunk, RequestFails, Crash, Forget, UserEdit
<1>4. Spec => []IInv
  BY Invariance
<1> QED
  BY <1>1, <1>2, <1>3, <1>4, PTL DEF Spec, CommitTellsTruth

=============================================================================
