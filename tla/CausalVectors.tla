---------------------------- MODULE CausalVectors ----------------------------
(***************************************************************************)
(* What the version vectors of one Drive file are worth to the devices     *)
(* that share it.  run_upload gives every write a vector; the decision     *)
(* matrix reads the vectors of two states to tell whether one of them has  *)
(* seen everything the other has.  Here every state also carries what it   *)
(* really has seen, the set of the writes it descends from, and the        *)
(* vectors are held against that.                                          *)
(*                                                                         *)
(* Abstractions.                                                           *)
(*  - Each upload is one step: no other write falls between its preflight  *)
(*    and its media update (SyncCycle models that window).                 *)
(*  - A write of device d is <<d, n>>, the n-th one of d.  An edit in the  *)
(*    browser is not one: vectors do not count it, the revision does.      *)
(*  - MaxCount bounds the writes of a device, below the saturation of its  *)
(*    counter; MaxEdits bounds the edits nobody counts.                    *)
(***************************************************************************)
EXTENDS VersionVectors

CONSTANT MaxEdits

ASSUME MaxEditsAssumption == MaxEdits \in Nat

VARIABLES
  remote,   \* the Drive file: its revision, vector and what it has seen
  record,   \* record[d]: the same three of the state d last synced with
  writes,   \* writes[d]: how many times d has uploaded
  edits,    \* how many edits no vector counts
  trimmed   \* has a vector lost an entry to the size of the property?

vars == <<remote, record, writes, edits, trimmed>>

Writes == Devices \X (1..MaxCount)
State == [rev : Nat, vv : Vector, seen : SUBSET Writes]

TypeOK ==
  /\ remote \in State
  /\ record \in [Devices -> State]
  /\ writes \in [Devices -> 0..MaxCount]
  /\ edits \in 0..MaxEdits
  /\ trimmed \in BOOLEAN

Init ==
  /\ remote = [rev |-> 0, vv |-> EmptyVector, seen |-> {}]
  /\ record = [d \in Devices |-> remote]
  /\ writes = [d \in Devices |-> 0]
  /\ edits = 0
  /\ trimmed = FALSE

\* The vector of d's next write.
NextVector(d) == Increment(Merge(record[d].vv, remote.vv), d)

\* The file after device d wrote over `remote` what descends from `seen`.
WrittenBy(d, seen) ==
  [rev |-> remote.rev + 1,
   vv |-> Written(NextVector(d), d, remote.vv),
   seen |-> seen \cup {<<d, writes[d] + 1>>}]

\* d uploads a local edit.  When its record is of the revision Drive has, the
\* guard lets it pass; otherwise the remote content is kept as a copy first,
\* and the upload descends from both.
Upload(d) ==
  /\ writes[d] < MaxCount
  /\ remote' = WrittenBy(d, IF record[d].rev = remote.rev
                            THEN record[d].seen
                            ELSE record[d].seen \cup remote.seen)
  /\ record' = [record EXCEPT ![d] = remote']
  /\ writes' = [writes EXCEPT ![d] = @ + 1]
  /\ trimmed' = (trimmed \/ remote'.vv # NextVector(d))
  /\ UNCHANGED edits

\* d downloads: the row replaces the whole record, vector included.
Download(d) ==
  /\ record[d].rev # remote.rev
  /\ record' = [record EXCEPT ![d] = remote]
  /\ UNCHANGED <<remote, writes, edits, trimmed>>

\* An edit in the browser, or a media update whose vector never followed it.
Edit ==
  /\ edits < MaxEdits
  /\ remote' = [remote EXCEPT !.rev = @ + 1]
  /\ edits' = edits + 1
  /\ UNCHANGED <<record, writes, trimmed>>

Next == Edit \/ \E d \in Devices : Upload(d) \/ Download(d)

Spec == Init /\ [][Next]_vars

-----------------------------------------------------------------------------
(* Properties.                                                             *)

\* As long as every vector fitted into the property: when the vectors say that
\* Drive holds nothing a device has not seen, which is when the matrix lets a
\* double edit be uploaded (decision.rs 118-121), the device has seen every
\* write that went into the Drive file.
VectorsTellCausality ==
  ~trimmed =>
    \A d \in Devices :
      Dominance(remote.vv, record[d].vv) \in {"equal", "dominated"}
      => remote.seen \subseteq record[d].seen

\* A device's vector never claims a write that the device has not seen, trimmed
\* or not.
VectorsNeverExaggerate ==
  \A d, e \in Devices, n \in 1..MaxCount :
    n <= record[d].vv[e] => <<e, n>> \in record[d].seen

\* As long as every vector fits, no write takes an entry of the Drive file's
\* vector back.
VectorsGrow == [][~trimmed' => Below(remote.vv, remote'.vv)]_vars

=============================================================================
