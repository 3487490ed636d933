------------------------------ MODULE Decision ------------------------------
(***************************************************************************)
(* The decision matrix of src/sync/decision.rs: what a sync cycle does     *)
(* with one path, from the local file found by the scan, the Drive file of *)
(* the remote view and the record of the last sync.                        *)
(*                                                                         *)
(* The three views (each may be None):                                     *)
(*   l : [md5, stat]               stat is the pair of mtime and size      *)
(*   r : [id, md5, at, rev, vv]    md5 is NoMd5 for a Workspace file       *)
(*   m : [id, fp, md5, stat, rev, vv]                                      *)
(*                                                                         *)
(* Abstractions.  Checksums are positive integers.  A fingerprint made of  *)
(* a modification time is the negated time, so it never equals a checksum, *)
(* as an "mtime:..." string never does.  Every record holds a fingerprint: *)
(* upsert_local_record stores one with each record it builds from a Drive  *)
(* file.                                                                   *)
(***************************************************************************)
EXTENDS VersionVectors, Integers

CONSTANT None   \* an absent view, Drive id or checksum

NoMd5 == 0

\* What a record stores to recognise the remote content.
Fingerprint(r) == IF r.md5 = NoMd5 THEN -r.at ELSE r.md5

\* Wrong: the record is taken for what Drive holds.
RemoteNeverChanged(r, m) == FALSE

RemoteChanged(r, m) == m.fp # Fingerprint(r)

\* A converted Workspace file is compared with its last export.  conv is None
\* for a file that is not converted, else [export] with the export's checksum.
Baseline(m, conv) ==
  IF conv # None /\ conv.export # None THEN conv.export ELSE m.md5

LocalDelta(l, m, conv) ==
  IF l.md5 # Baseline(m, conv) THEN "content"
  ELSE IF l.stat = m.stat THEN "unchanged" ELSE "meta_only"

\* The record's Drive object is still visible, maybe under another path.
DriveObjectStillPresent(m, ids) == m.id # None /\ m.id \in ids

-----------------------------------------------------------------------------

Act(act, id) == [act |-> act, id |-> id]

UploadTarget(r, m) == IF m.id # None THEN m.id ELSE r.id

\* Both sides changed: the vectors decide whether the upload may be tried.
ResolveDualContentChange(r, m) ==
  IF r.vv = EmptyVector /\ m.vv = EmptyVector
  THEN Act("conflict", r.id)
  ELSE IF Dominance(r.vv, m.vv) \in {"equal", "dominated"}
       THEN Act("upload", UploadTarget(r, m))
       ELSE Act("conflict", r.id)

LocalRemoteAndRecord(l, r, m, conv) ==
  CASE LocalDelta(l, m, conv) = "content" /\ RemoteChanged(r, m) ->
         ResolveDualContentChange(r, m)
    [] LocalDelta(l, m, conv) = "content" /\ ~RemoteChanged(r, m) ->
         Act("upload", UploadTarget(r, m))
    [] LocalDelta(l, m, conv) # "content" /\ RemoteChanged(r, m) ->
         Act("download", r.id)
    [] LocalDelta(l, m, conv) = "meta_only" /\ ~RemoteChanged(r, m) ->
         Act("touch", None)
    [] OTHER -> Act("skip", None)

LocalAndRemote(l, r) ==
  IF r.md5 # NoMd5 /\ r.md5 = l.md5
  THEN Act("skip", None)
  ELSE Act("conflict", r.id)

LocalAndRecord(l, m, ids, conv) ==
  IF LocalDelta(l, m, conv) = "content"
  THEN Act("upload", IF DriveObjectStillPresent(m, ids) THEN m.id ELSE None)
  ELSE IF DriveObjectStillPresent(m, ids)
       THEN Act("skip", None)
       ELSE Act("delete_local", None)

\* Wrong: a new content on Drive does not stop the deletion.
RemoteAndRecordBlind(r, m) == Act("delete_remote", UploadTarget(r, m))

RemoteAndRecord(r, m) ==
  IF RemoteChanged(r, m)
  THEN Act("download", r.id)
  ELSE Act("delete_remote", UploadTarget(r, m))

\* The matrix.  ids are the Drive ids of the whole remote view.
DetermineAction(l, r, m, conv, ids) ==
  CASE l # None /\ r # None /\ m # None -> LocalRemoteAndRecord(l, r, m, conv)
    [] l # None /\ r # None /\ m = None -> LocalAndRemote(l, r)
    [] l # None /\ r = None /\ m # None -> LocalAndRecord(l, m, ids, conv)
    [] l # None /\ r = None /\ m = None -> Act("upload", None)
    [] l = None /\ r # None /\ m # None -> RemoteAndRecord(r, m)
    [] l = None /\ r # None /\ m = None -> Act("download", r.id)
    [] l = None /\ r = None /\ m # None -> Act("cleanup", None)
    [] OTHER -> Act("skip", None)

\* What a conflict does: keep both contents, or let one side win.
Resolution(policy) ==
  IF policy \in {"conflict_copy", "rename"} THEN "keep_both" ELSE policy

=============================================================================
