------------------------------ MODULE Transfer ------------------------------
(***************************************************************************)
(* What the transfer of a file promises to the sync cycle, without chunks, *)
(* sessions and lost answers: an attempt takes a checksum, changes at most *)
(* one file of Drive, at most once and as a whole, and ends with a record  *)
(* of that file or without one.  PatchMedia, CreateFile and the commits of *)
(* SyncCycle are these steps.                                              *)
(***************************************************************************)
CONSTANTS Files, Contents,
          None,    \* no record, no attempt, no file
          Absent   \* what Drive has of a file that is not there

VARIABLES
  files,   \* Drive
  torn,    \* files written from a local file that was edited meanwhile
  claim,   \* the checksum of the running attempt
  landed,  \* the file that attempt has changed
  record,  \* what the device takes for synced
  stored   \* what it will take for synced after a crash

transferVars == <<files, torn, claim, landed, record, stored>>

RecordOf(f, c) == [id |-> f, md5 |-> c, remote_md5 |-> files[f]]

Init ==
  /\ files = [f \in Files |-> Absent] /\ torn = {}
  /\ claim = None /\ landed = None /\ record = None /\ stored = None

Plan ==
  /\ claim = None /\ claim' \in Contents
  /\ UNCHANGED <<files, torn, landed, record, stored>>

\* A new file gets a content that no other file has, unless it is torn.
Land(f) ==
  /\ claim # None /\ landed = None /\ landed' = f
  /\ \E c \in Contents :
       /\ files' = [files EXCEPT ![f] = c]
       /\ torn' = IF c = claim THEN torn \ {f} ELSE torn \union {f}
       /\ files[f] = Absent /\ c = claim => \A g \in Files : files[g] # c
  /\ UNCHANGED <<claim, record, stored>>

\* An attempt that changed nothing found its file on Drive.
Confirm(f) ==
  /\ claim # None /\ landed \in {None, f} /\ files[f] # Absent
  /\ landed = f => files[f] = claim \/ f \in torn
  /\ record' = RecordOf(f, claim)
  /\ claim' = None /\ landed' = None
  /\ UNCHANGED <<files, torn, stored>>

GiveUp ==
  /\ claim' = None /\ landed' = None
  /\ UNCHANGED <<files, torn, record, stored>>

\* The content of Drive is taken instead.
Adopt(f) ==
  /\ claim = None /\ files[f] # Absent /\ record' = RecordOf(f, files[f])
  /\ UNCHANGED <<files, torn, claim, landed, stored>>

Save ==
  /\ claim = None /\ stored' = record
  /\ UNCHANGED <<files, torn, claim, landed, record>>

Crash ==
  /\ record' = stored /\ claim' = None /\ landed' = None
  /\ UNCHANGED <<files, torn, stored>>

\* The effect of the last attempt is unknown.
Recover ==
  /\ claim = None /\ record' = None /\ stored' = None
  /\ UNCHANGED <<files, torn, claim, landed>>

Next ==
  \/ Plan \/ GiveUp \/ Save \/ Crash \/ Recover
  \/ \E f \in Files : Land(f) \/ Confirm(f) \/ Adopt(f)

Spec == Init /\ [][Next]_transferVars
=============================================================================
