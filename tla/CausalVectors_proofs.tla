------------------------ MODULE CausalVectors_proofs ------------------------
(***************************************************************************)
(* Proofs about VersionVectors and CausalVectors, for any set of devices   *)
(* and any bound on their writes.  However vectors are trimmed, none of    *)
(* them claims a write its holder has not seen; until one is trimmed, they *)
(* tell causality; and none ever is while a vector with an entry for every *)
(* device fits into the property.                                          *)
(***************************************************************************)
EXTENDS CausalVectors, TLAPS, FiniteSetTheorems

\* A vector with an entry for every device still fits into the property.
NoTrimming == Cardinality(Devices) <= MaxEntries

-----------------------------------------------------------------------------
(* Lemmas about vectors.                                                   *)

\* Merging vectors yields a vector that is above both.
LEMMA MergeType ==
  ASSUME NEW v \in Vector, NEW w \in Vector
  PROVE  /\ Merge(v, w) \in Vector
         /\ Below(v, Merge(v, w))
         /\ Below(w, Merge(v, w))
BY MaxCountAssumption DEF Merge, Vector, Below

\* Merging a vector into one above it changes nothing.
LEMMA MergeBelow ==
  ASSUME NEW v \in Vector, NEW w \in Vector, Below(v, w)
  PROVE  Merge(v, w) = w
BY MaxCountAssumption DEF Merge, Vector, Below

\* increment keeps counters in range, saturating at the last one.
LEMMA IncrementType ==
  ASSUME NEW v \in Vector, NEW d \in Devices
  PROVE  /\ Increment(v, d) \in Vector
         /\ Below(v, Increment(v, d))
BY MaxCountAssumption DEF Increment, Vector, Below

\* Below is a partial order, so Dominance answers "equal" for equal vectors
\* only.
LEMMA DominanceEqual ==
  ASSUME NEW v \in Vector, NEW w \in Vector
  PROVE  Dominance(v, w) = "equal" <=> v = w
<1>1. ASSUME Below(v, w), Below(w, v) PROVE v = w
  <2>1. \A d \in Devices : v[d] = w[d]
    BY <1>1, MaxCountAssumption DEF Below, Vector
  <2> QED
    BY <2>1 DEF Vector
<1>2. Below(v, v)
  BY MaxCountAssumption DEF Below, Vector
<1> QED
  BY <1>1, <1>2 DEF Dominance

\* The two answers that let a double edit be uploaded mean Below.
LEMMA DominanceBelow ==
  ASSUME NEW v \in Vector, NEW w \in Vector,
         Dominance(v, w) \in {"equal", "dominated"}
  PROVE  Below(v, w)
BY DEF Dominance

\* Without trimming, what is sent is the vector itself.
LEMMA BoundedIsIdentity ==
  ASSUME NoTrimming, NEW v \in Vector, NEW o \in Devices
  PROVE  Bounded(v, o) = v
<1> DEFINE R == Removable(v, o)
<1> DEFINE enough == {n \in 0..Cardinality(R) : Fits(Trimmed(v, o, n))}
<1>1. /\ Entries(v) \subseteq Devices
      /\ R \subseteq Devices
  BY DEF Entries, Removable
<1>2. /\ IsFiniteSet(Entries(v)) /\ IsFiniteSet(R)
      /\ Cardinality(Entries(v)) <= Cardinality(Devices)
  BY <1>1, DevicesAssumption, FS_Subset
<1>3. /\ Cardinality(R) \in Nat /\ Cardinality(Entries(v)) \in Nat
      /\ Cardinality(Devices) \in Nat
  BY <1>2, DevicesAssumption, FS_CardinalityType
<1>4. FirstDropped(v, o, 0) = {}
  <2>1. ASSUME NEW d \in R
        PROVE  ~(Cardinality({e \in R : DropsBefore(v, e, d)}) < 0)
    <3>1. {e \in R : DropsBefore(v, e, d)} \subseteq R
      OBVIOUS
    <3>2. IsFiniteSet({e \in R : DropsBefore(v, e, d)})
      BY <3>1, <1>2, FS_Subset
    <3>3. Cardinality({e \in R : DropsBefore(v, e, d)}) \in Nat
      BY <3>2, FS_CardinalityType
    <3> QED
      BY <3>3
  <2> QED
    BY <2>1 DEF FirstDropped
<1>5. Trimmed(v, o, 0) = v
  BY <1>4 DEF Trimmed, Without, Vector
<1>6. Fits(v)
  BY <1>2, <1>3, MaxEntriesAssumption DEF Fits, NoTrimming
<1>7. 0 \in enough
  BY <1>3, <1>5, <1>6
<1>8. (CHOOSE n \in enough : \A k \in enough : n <= k) = 0
  <2>1. \A k \in enough : k \in Nat
    BY <1>3
  <2>2. \A k \in enough : 0 <= k
    BY <2>1
  <2>3. \A n \in enough : (\A k \in enough : n <= k) => n = 0
    BY <1>7, <2>1
  <2> HIDE DEF enough
  <2> QED
    BY <1>7, <2>2, <2>3
<1>9. enough # {}
  BY <1>7
<1> QED
  BY <1>5, <1>8, <1>9 DEF Bounded

\* Without trimming, the property takes every vector but the empty one.
LEMMA WrittenIsIdentity ==
  ASSUME NoTrimming, NEW v \in Vector, NEW o \in Devices, NEW b \in Vector,
         v # EmptyVector
  PROVE  Written(v, o, b) = v
BY BoundedIsIdentity DEF Written

-----------------------------------------------------------------------------
(* What holds however vectors are trimmed.  A state has seen all its       *)
(* vector claims, no vector counts more writes than there were, every      *)
(* write is known on Drive and to the device that made it, and a record of *)
(* Drive's revision is Drive's state.                                      *)

Claims(m) == \A e \in Devices, n \in 1..MaxCount :
               n <= m.vv[e] => <<e, n>> \in m.seen

CountsPast(m) == \A e \in Devices : m.vv[e] <= writes[e]

KeepsOwn(d) == \A n \in 1..writes[d] :
                 <<d, n>> \in record[d].seen /\ <<d, n>> \in remote.seen

Same(m) == m.rev <= remote.rev /\ (m.rev = remote.rev => m = remote)

WInv ==
  /\ TypeOK
  /\ Claims(remote) /\ CountsPast(remote)
  /\ \A d \in Devices : /\ Claims(record[d]) /\ CountsPast(record[d])
                        /\ KeepsOwn(d) /\ Same(record[d])

\* Trimming only takes entries away: what is written over b is b, or below
\* the vector it was made of.
LEMMA WrittenBelow ==
  ASSUME NEW v \in Vector, NEW o \in Devices, NEW b \in Vector
  PROVE  /\ Written(v, o, b) \in Vector
         /\ Written(v, o, b) = b \/ Below(Written(v, o, b), v)
<1>1. \A n : Trimmed(v, o, n) \in Vector /\ Below(Trimmed(v, o, n), v)
  BY MaxCountAssumption DEF Trimmed, Without, Vector, Below
<1>2. EmptyVector \in Vector
  BY MaxCountAssumption DEF EmptyVector, Vector
<1>3. Bounded(v, o) = EmptyVector \/ \E n : Bounded(v, o) = Trimmed(v, o, n)
  BY DEF Bounded
<1> QED
  BY <1>1, <1>2, <1>3 DEF Written

LEMMA InitWInv == Init => WInv
<1> SUFFICES ASSUME Init PROVE WInv
  OBVIOUS
<1>1. EmptyVector \in Vector
  BY MaxCountAssumption DEF EmptyVector, Vector
<1>2. TypeOK
  <2>1. trimmed \in BOOLEAN
    BY DEF Init
  <2> QED
    BY <1>1, <2>1, MaxCountAssumption, MaxEditsAssumption
       DEF Init, TypeOK, State
<1> QED
  BY <1>2, MaxCountAssumption
     DEF Init, WInv, Claims, CountsPast, KeepsOwn, Same, EmptyVector

\* The file after an upload: it has seen what Drive and the device had, and
\* claims no more.
LEMMA UploadClaims ==
  ASSUME WInv, NEW d \in Devices, Upload(d)
  PROVE  /\ remote' \in State
         /\ remote'.rev = remote.rev + 1
         /\ remote'.seen = remote.seen \cup record[d].seen
                             \cup {<<d, writes[d] + 1>>}
         /\ \A e \in Devices : remote'.vv[e] <= writes'[e]
         /\ \A e \in Devices, n \in 1..MaxCount :
              n <= remote'.vv[e] => <<e, n>> \in remote'.seen
<1> DEFINE g == Merge(record[d].vv, remote.vv)
           v == Increment(g, d)
           w == Written(v, d, remote.vv)
           S == remote.seen \cup record[d].seen \cup {<<d, writes[d] + 1>>}
<1>1. /\ remote \in State /\ record[d] \in State
      /\ writes \in [Devices -> 0..MaxCount] /\ writes[d] < MaxCount
      /\ writes' = [writes EXCEPT ![d] = @ + 1]
  BY DEF WInv, TypeOK, Upload
<1>2. /\ remote.vv \in Vector /\ record[d].vv \in Vector
      /\ remote.rev \in Nat
      /\ remote.seen \subseteq Writes /\ record[d].seen \subseteq Writes
  BY <1>1 DEF State
<1>3. g \in Vector /\ v \in Vector
  BY <1>2, MergeType, IncrementType
<1>4. w \in Vector /\ (w = remote.vv \/ Below(w, v))
  BY <1>2, <1>3, WrittenBelow
<1>5. remote' = [rev |-> remote.rev + 1, vv |-> w, seen |-> S]
  <2>1. record[d].rev = remote.rev => record[d] = remote
    BY DEF WInv, Same
  <2> QED
    BY <2>1 DEF Upload, WrittenBy, NextVector
<1>6. <<d, writes[d] + 1>> \in Writes
  BY <1>1, MaxCountAssumption DEF Writes
<1>7. \A e \in Devices : g[e] <= writes[e]
  BY <1>1, <1>2 DEF WInv, CountsPast, Merge
<1>8. \A e \in Devices : v[e] <= writes'[e] /\ (e # d => v[e] = g[e])
  BY <1>1, <1>3, <1>7, MaxCountAssumption DEF Increment, Vector
<1>9. ASSUME NEW e \in Devices PROVE w[e] <= writes'[e]
  BY <1>1, <1>2, <1>3, <1>4, <1>8, MaxCountAssumption
     DEF WInv, CountsPast, Below, Vector
<1>10. ASSUME NEW e \in Devices, NEW n \in 1..MaxCount, n <= w[e]
       PROVE  <<e, n>> \in S
  <2>1. CASE w = remote.vv
    BY <1>10, <2>1 DEF WInv, Claims
  <2>2. CASE Below(w, v) /\ e # d
    <3>1. n <= g[e]
      BY <1>3, <1>4, <1>8, <1>10, <2>2, MaxCountAssumption DEF Below, Vector
    <3>2. n <= record[d].vv[e] \/ n <= remote.vv[e]
      BY <3>1 DEF Merge
    <3> QED
      BY <3>2 DEF WInv, Claims
  <2>3. CASE e = d
    <3>1. n <= writes[d] + 1
      BY <1>1, <1>4, <1>9, <1>10, <2>3, MaxCountAssumption DEF Vector
    <3>2. n \in 1..writes[d] \/ n = writes[d] + 1
      BY <1>1, <3>1, MaxCountAssumption
    <3> QED
      BY <2>3, <3>2 DEF WInv, KeepsOwn
  <2> QED
    BY <1>4, <2>1, <2>2, <2>3
<1> HIDE DEF w, v, g, S
<1>11. S \subseteq Writes
  BY <1>2, <1>6 DEF S
<1> QED
  BY <1>2, <1>4, <1>5, <1>9, <1>10, <1>11 DEF State, S

LEMMA UploadWInv ==
  ASSUME WInv, NEW d \in Devices, Upload(d)
  PROVE  WInv'
<1>1. /\ remote \in State /\ writes \in [Devices -> 0..MaxCount]
      /\ record \in [Devices -> State]
      /\ writes[d] < MaxCount
      /\ record' = [record EXCEPT ![d] = remote']
      /\ writes' = [writes EXCEPT ![d] = @ + 1]
      /\ edits \in 0..MaxEdits /\ edits' = edits
      /\ trimmed' \in BOOLEAN
  BY DEF WInv, TypeOK, Upload
<1>2. remote.rev \in Nat /\ \A e \in Devices : record[e].rev \in Nat
  BY <1>1 DEF State
<1>3. TypeOK'
  BY <1>1, UploadClaims, MaxCountAssumption DEF TypeOK
<1>4. Claims(remote)' /\ CountsPast(remote)'
  BY UploadClaims DEF Claims, CountsPast
<1>5. ASSUME NEW e \in Devices
      PROVE  (Claims(record[e]) /\ CountsPast(record[e]) /\ Same(record[e]))'
  <2>1. CASE e = d
    <3>1. record'[e] = remote' /\ remote'.rev \in Nat
      BY <1>1, <1>2, <2>1, UploadClaims
    <3> QED
      BY <1>4, <3>1 DEF Claims, CountsPast, Same
  <2>2. CASE e # d
    <3>1. record'[e] = record[e]
      BY <1>1, <2>2
    <3>2. record[e].rev < remote'.rev
      BY <1>2, UploadClaims DEF WInv, Same
    <3>3. \A f \in Devices : writes[f] <= writes'[f] /\ writes[f] \in Nat
                             /\ writes'[f] \in Nat /\ record[e].vv[f] \in Nat
      BY <1>1, MaxCountAssumption DEF State, Vector
    <3>4. CountsPast(record[e])'
      BY <3>1, <3>3 DEF WInv, CountsPast
    <3>5. Claims(record[e])'
      BY <3>1 DEF WInv, Claims
    <3> QED
      BY <1>2, <3>1, <3>2, <3>4, <3>5, UploadClaims DEF Same
  <2> QED
    BY <2>1, <2>2
<1>6. ASSUME NEW e \in Devices PROVE KeepsOwn(e)'
  <2>1. ASSUME NEW n \in 1..writes'[e]
        PROVE  n \in 1..writes[e] \/ (e = d /\ n = writes[d] + 1)
    BY <1>1, MaxCountAssumption
  <2>2. CASE e = d
    BY <1>1, <2>1, <2>2, UploadClaims DEF WInv, KeepsOwn
  <2>3. CASE e # d
    BY <1>1, <2>1, <2>3, UploadClaims DEF WInv, KeepsOwn
  <2> QED
    BY <2>2, <2>3
<1> QED
  BY <1>3, <1>4, <1>5, <1>6 DEF WInv

LEMMA StepWInv ==
  ASSUME WInv, [Next]_vars
  PROVE  WInv'
<1>0. /\ remote \in State /\ record \in [Devices -> State]
      /\ writes \in [Devices -> 0..MaxCount] /\ edits \in 0..MaxEdits
      /\ trimmed \in BOOLEAN
  BY DEF WInv, TypeOK
<1>1. ASSUME NEW d \in Devices, Upload(d) PROVE WInv'
  BY <1>1, UploadWInv
<1>2. ASSUME NEW d \in Devices, Download(d) PROVE WInv'
  <2>1. /\ remote' = remote /\ writes' = writes /\ edits' = edits
        /\ record' = [record EXCEPT ![d] = remote] /\ trimmed' = trimmed
    BY <1>2 DEF Download
  <2>2. TypeOK'
    BY <1>0, <2>1 DEF TypeOK
  <2>3. remote.rev \in Nat
    BY <1>0 DEF State
  <2>4. ASSUME NEW e \in Devices
        PROVE  (/\ Claims(record[e]) /\ CountsPast(record[e])
                /\ KeepsOwn(e) /\ Same(record[e]))'
    <3>1. record'[e] = IF e = d THEN remote ELSE record[e]
      BY <1>0, <2>1
    <3> QED
      BY <2>1, <2>3, <3>1 DEF WInv, Claims, CountsPast, KeepsOwn, Same
  <2> QED
    BY <2>1, <2>2, <2>4 DEF WInv, Claims, CountsPast
<1>3. ASSUME Edit PROVE WInv'
  <2>1. /\ remote' = [remote EXCEPT !.rev = @ + 1]
        /\ record' = record /\ writes' = writes
        /\ edits < MaxEdits /\ edits' = edits + 1 /\ trimmed' = trimmed
    BY <1>3 DEF Edit
  <2>2. /\ remote'.rev = remote.rev + 1 /\ remote.rev \in Nat
        /\ remote'.vv = remote.vv /\ remote'.seen = remote.seen
        /\ remote' \in State
        /\ \A e \in Devices : record[e].rev \in Nat
    BY <1>0, <2>1 DEF State
  <2>3. TypeOK'
    BY <1>0, <2>1, <2>2, MaxEditsAssumption DEF TypeOK
  <2> QED
    BY <2>1, <2>2, <2>3 DEF WInv, Claims, CountsPast, KeepsOwn, Same
<1>4. CASE UNCHANGED vars
  BY <1>4 DEF vars, WInv, TypeOK, Claims, CountsPast, KeepsOwn, Same
<1> QED
  BY <1>1, <1>2, <1>3, <1>4 DEF Next

\* Vectors, records and the Drive file keep their types: no counter passes
\* its bound, however devices write, download and trim.
THEOREM TypeCorrect == Spec => []TypeOK
<1>1. Init => WInv
  BY InitWInv
<1>2. WInv /\ [Next]_vars => WInv'
  BY StepWInv
<1>3. WInv => TypeOK
  BY DEF WInv
<1> QED
  BY <1>1, <1>2, <1>3, PTL DEF Spec

\* A vector never claims a write that its device has not seen, so nothing
\* unseen is ever taken for known, trimmed or not (decision.rs 118-121).
THEOREM NeverExaggerate == Spec => []VectorsNeverExaggerate
<1>1. Init => WInv
  BY InitWInv
<1>2. WInv /\ [Next]_vars => WInv'
  BY StepWInv
<1>3. WInv => VectorsNeverExaggerate
  BY DEF WInv, Claims, VectorsNeverExaggerate
<1> QED
  BY <1>1, <1>2, <1>3, PTL DEF Spec

-----------------------------------------------------------------------------
(* What holds until a vector is trimmed.  The vector of the Drive file     *)
(* counts every write there was; a vector, wherever it is, counts exactly  *)
(* the writes its state has seen; no record is ahead of Drive, and one of  *)
(* the same revision is the same state.                                    *)

Counted(v) == {w \in Writes : w[2] <= v[w[1]]}

RemoteCountsAll ==
  /\ \A e \in Devices : remote.vv[e] = writes[e]
  /\ remote.seen = Counted(remote.vv)

RecordBehind(m) ==
  /\ m.seen = Counted(m.vv)
  /\ Below(m.vv, remote.vv)
  /\ m.rev <= remote.rev
  /\ m.rev = remote.rev => m = remote

IInv ==
  /\ TypeOK
  /\ RemoteCountsAll
  /\ \A d \in Devices : RecordBehind(record[d])

LEMMA InitIInv == Init => IInv
<1> SUFFICES ASSUME Init PROVE IInv
  OBVIOUS
<1>1. EmptyVector \in Vector
  BY MaxCountAssumption DEF EmptyVector, Vector
<1>2. Counted(EmptyVector) = {}
  BY MaxCountAssumption DEF Counted, EmptyVector, Writes
<1>3. Below(EmptyVector, EmptyVector)
  BY DEF Below, EmptyVector
<1>4. TypeOK
  <2>1. trimmed \in BOOLEAN
    BY DEF Init
  <2> QED
    BY <1>1, <2>1, MaxCountAssumption, MaxEditsAssumption
       DEF Init, TypeOK, State
<1>5. RemoteCountsAll
  BY <1>2 DEF Init, RemoteCountsAll, EmptyVector
<1>6. \A d \in Devices : RecordBehind(record[d])
  BY <1>2, <1>3 DEF Init, RecordBehind
<1> QED
  BY <1>4, <1>5, <1>6 DEF IInv

\* What an upload leaves on Drive: the old vector with one more write of d,
\* and exactly the writes that this vector counts.
LEMMA UploadEffect ==
  ASSUME IInv, NEW d \in Devices, Upload(d), ~trimmed'
  PROVE  /\ remote' = [rev  |-> remote.rev + 1,
                       vv   |-> [remote.vv EXCEPT ![d] = writes[d] + 1],
                       seen |-> remote.seen \cup {<<d, writes[d] + 1>>}]
         /\ remote' \in State
         /\ remote'.seen = Counted(remote'.vv)
<1> DEFINE v == [remote.vv EXCEPT ![d] = writes[d] + 1]
<1>1. /\ remote \in State /\ record[d] \in State
      /\ writes[d] \in 0..MaxCount /\ writes[d] < MaxCount
      /\ remote.vv[d] = writes[d]
  BY DEF IInv, TypeOK, RemoteCountsAll, Upload
<1>2. /\ remote.vv \in Vector /\ record[d].vv \in Vector
      /\ remote.rev \in Nat /\ remote.seen \subseteq Writes
  BY <1>1 DEF State
<1>3. Merge(record[d].vv, remote.vv) = remote.vv
  BY <1>2, MergeBelow DEF IInv, RecordBehind
<1>4. Increment(remote.vv, d) = v
  BY <1>1, <1>2, MaxCountAssumption DEF Increment, Vector
<1>5. v \in Vector /\ v # EmptyVector
  <2>1. v[d] = writes[d] + 1
    BY <1>2 DEF Vector
  <2>2. v[d] # 0
    BY <2>1, <1>1, MaxCountAssumption
  <2>3. v \in Vector
    BY <1>1, <1>2, MaxCountAssumption DEF Vector
  <2> QED
    BY <2>2, <2>3 DEF EmptyVector
<1>6. NextVector(d) = v /\ remote'.vv = v
  BY <1>3, <1>4 DEF Upload, NextVector
<1>7. record[d].seen \subseteq remote.seen
  BY <1>1, <1>2, MaxCountAssumption
     DEF IInv, RecordBehind, RemoteCountsAll, Counted, Below, Vector, Writes
<1>8. record[d].rev = remote.rev => record[d].seen = remote.seen
  BY DEF IInv, RecordBehind
<1>9. remote' = [rev |-> remote.rev + 1, vv |-> v,
                 seen |-> remote.seen \cup {<<d, writes[d] + 1>>}]
  BY <1>6, <1>7, <1>8 DEF Upload, WrittenBy
<1>10. <<d, writes[d] + 1>> \in Writes
  BY <1>1, MaxCountAssumption DEF Writes
<1>11. remote.seen \cup {<<d, writes[d] + 1>>} = Counted(v)
  <2>1. remote.seen = Counted(remote.vv)
    BY DEF IInv, RemoteCountsAll
  <2>2. ASSUME NEW e \in Devices, NEW n \in 1..MaxCount
        PROVE  n <= v[e] <=> n <= remote.vv[e] \/ <<e, n>> = <<d, writes[d] + 1>>
    BY <1>1, <1>2, MaxCountAssumption DEF Vector
  <2> HIDE DEF v
  <2>3. ASSUME NEW w \in Writes
        PROVE  w \in Counted(v) <=> w \in Counted(remote.vv)
                                     \/ w = <<d, writes[d] + 1>>
    <3>1. PICK e \in Devices, n \in 1..MaxCount : w = <<e, n>>
      BY DEF Writes
    <3> QED
      BY <2>2, <3>1 DEF Counted
  <2>4. Counted(v) \subseteq Writes /\ Counted(remote.vv) \subseteq Writes
    BY DEF Counted
  <2> QED
    BY <2>1, <2>3, <2>4, <1>10
<1> QED
  BY <1>2, <1>5, <1>9, <1>10, <1>11 DEF State

LEMMA UploadIInv ==
  ASSUME IInv, NEW d \in Devices, Upload(d), ~trimmed'
  PROVE  IInv'
<1>1. /\ remote \in State /\ writes \in [Devices -> 0..MaxCount]
      /\ record \in [Devices -> State]
      /\ writes[d] < MaxCount
      /\ record' = [record EXCEPT ![d] = remote']
      /\ writes' = [writes EXCEPT ![d] = @ + 1]
      /\ edits \in 0..MaxEdits /\ edits' = edits /\ trimmed' \in BOOLEAN
  BY DEF IInv, TypeOK, Upload
<1>2. /\ remote'.rev = remote.rev + 1
      /\ remote'.vv = [remote.vv EXCEPT ![d] = writes[d] + 1]
      /\ remote' \in State
      /\ remote'.seen = Counted(remote'.vv)
  BY UploadEffect
<1>3. remote.vv \in Vector /\ remote.rev \in Nat /\ remote'.vv \in Vector
  BY <1>1, <1>2 DEF State
<1>4. TypeOK'
  BY <1>1, <1>2, MaxCountAssumption DEF TypeOK
<1>5. RemoteCountsAll'
  <2>1. \A e \in Devices : remote'.vv[e] = writes'[e]
    BY <1>1, <1>2, <1>3 DEF IInv, RemoteCountsAll, Vector
  <2> QED
    BY <1>2, <2>1 DEF RemoteCountsAll, Counted, Writes
<1>6. Below(remote.vv, remote'.vv)
  BY <1>1, <1>2, <1>3, MaxCountAssumption
     DEF Below, Vector, IInv, RemoteCountsAll
<1>7. ASSUME NEW e \in Devices
      PROVE  RecordBehind(record[e])'
  <2>1. CASE e = d
    <3>1. record'[e] = remote'
      BY <1>1, <2>1
    <3>2. Below(remote'.vv, remote'.vv)
      BY <1>3, MaxCountAssumption DEF Below, Vector
    <3>3. remote'.rev <= remote'.rev
      BY <1>2, <1>3
    <3> QED
      BY <1>2, <3>1, <3>2, <3>3 DEF RecordBehind, Counted, Writes
  <2>2. CASE e # d
    <3>1. record'[e] = record[e] /\ record[e] \in State
      BY <1>1, <2>2
    <3>2. /\ record[e].seen = Counted(record[e].vv)
          /\ Below(record[e].vv, remote.vv)
          /\ record[e].rev <= remote.rev
      BY DEF IInv, RecordBehind
    <3>3. record[e].vv \in Vector /\ record[e].rev \in Nat
      BY <3>1 DEF State
    <3>4. Below(record[e].vv, remote'.vv)
      BY <1>3, <1>6, <3>2, <3>3, MaxCountAssumption DEF Below, Vector
    <3>5. record[e].rev < remote'.rev
      BY <1>2, <1>3, <3>2, <3>3
    <3> QED
      BY <1>2, <1>3, <3>1, <3>2, <3>3, <3>4, <3>5
         DEF RecordBehind, Counted, Writes
  <2> QED
    BY <2>1, <2>2
<1> QED
  BY <1>4, <1>5, <1>7 DEF IInv

LEMMA DownloadIInv ==
  ASSUME IInv, NEW d \in Devices, Download(d)
  PROVE  IInv'
<1>1. /\ remote \in State /\ record \in [Devices -> State]
      /\ remote' = remote /\ writes' = writes
      /\ record' = [record EXCEPT ![d] = remote]
      /\ edits' = edits /\ trimmed' = trimmed
  BY DEF IInv, TypeOK, Download
<1>2. TypeOK'
  BY <1>1 DEF IInv, TypeOK
<1>3. RemoteCountsAll'
  BY <1>1 DEF IInv, RemoteCountsAll, Counted, Writes
<1>4. RecordBehind(remote)
  <2>1. remote.vv \in Vector /\ remote.rev \in Nat
    BY <1>1 DEF State
  <2>2. Below(remote.vv, remote.vv) /\ remote.rev <= remote.rev
    BY <2>1, MaxCountAssumption DEF Below, Vector
  <2> QED
    BY <2>2 DEF IInv, RemoteCountsAll, RecordBehind
<1>5. ASSUME NEW e \in Devices
      PROVE  RecordBehind(record[e])'
  <2>1. record'[e] = remote \/ record'[e] = record[e]
    BY <1>1
  <2>2. RecordBehind(record'[e])
    BY <1>4, <2>1 DEF IInv
  <2> QED
    BY <1>1, <2>2 DEF RecordBehind, Counted, Writes
<1> QED
  BY <1>2, <1>3, <1>5 DEF IInv

LEMMA EditIInv ==
  ASSUME IInv, Edit
  PROVE  IInv'
<1>1. /\ remote \in State /\ record \in [Devices -> State]
      /\ remote' = [remote EXCEPT !.rev = @ + 1]
      /\ record' = record /\ writes' = writes
      /\ edits \in 0..MaxEdits /\ edits < MaxEdits /\ edits' = edits + 1
      /\ trimmed \in BOOLEAN /\ trimmed' = trimmed
  BY DEF IInv, TypeOK, Edit
<1>2. /\ remote'.rev = remote.rev + 1 /\ remote.rev \in Nat
      /\ remote'.vv = remote.vv /\ remote'.seen = remote.seen
      /\ remote' \in State
  BY <1>1 DEF State
<1>3. TypeOK'
  BY <1>1, <1>2, MaxEditsAssumption DEF IInv, TypeOK
<1>4. RemoteCountsAll'
  BY <1>1, <1>2 DEF IInv, RemoteCountsAll, Counted, Writes
<1>5. ASSUME NEW e \in Devices
      PROVE  RecordBehind(record[e])'
  <2>1. record[e].rev \in Nat
    BY <1>1 DEF State
  <2>2. RecordBehind(record[e])
    BY DEF IInv
  <2>3. record[e].rev < remote'.rev /\ record'[e] = record[e]
    BY <1>1, <1>2, <2>1, <2>2 DEF RecordBehind
  <2> QED
    BY <1>2, <2>1, <2>2, <2>3 DEF RecordBehind, Below, Counted, Writes
<1> QED
  BY <1>3, <1>4, <1>5 DEF IInv

LEMMA StepIInv ==
  ASSUME IInv, [Next]_vars, ~trimmed'
  PROVE  IInv'
<1>1. CASE Next
  <2>1. CASE Edit
    BY <2>1, EditIInv
  <2>2. CASE \E d \in Devices : Upload(d) \/ Download(d)
    BY <2>2, UploadIInv, DownloadIInv
  <2> QED
    BY <1>1, <2>1, <2>2 DEF Next
<1>2. CASE UNCHANGED vars
  BY <1>2 DEF vars, IInv, TypeOK, RemoteCountsAll, RecordBehind, Counted, Writes
<1> QED
  BY <1>1, <1>2

\* trimmed never becomes false again.
LEMMA TrimmedStays == [Next]_vars /\ ~trimmed' => ~trimmed
BY DEF Next, Upload, Download, Edit, vars

Exact == ~trimmed => IInv

LEMMA Inductive == Spec => []Exact
<1>1. Init => Exact
  BY InitIInv DEF Exact
<1>2. Exact /\ [Next]_vars => Exact'
  BY StepIInv, TrimmedStays DEF Exact
<1> QED
  BY <1>1, <1>2, PTL DEF Spec

\* Until a vector is trimmed: a device that the matrix lets upload over a double
\* edit, because the vectors say it is behind on nothing, has seen every write
\* that went into the Drive file (decision.rs 118-121).
THEOREM TellCausality == Spec => []VectorsTellCausality
<1>1. Exact => VectorsTellCausality
  <2> SUFFICES ASSUME IInv, NEW d \in Devices,
                      Dominance(remote.vv, record[d].vv)
                        \in {"equal", "dominated"}
               PROVE  remote.seen \subseteq record[d].seen
    BY DEF VectorsTellCausality, Exact
  <2>1. remote.vv \in Vector /\ record[d].vv \in Vector
    BY DEF IInv, TypeOK, State
  <2>2. Below(remote.vv, record[d].vv)
    BY <2>1, DominanceBelow
  <2>3. /\ remote.seen = Counted(remote.vv)
        /\ record[d].seen = Counted(record[d].vv)
    BY DEF IInv, RemoteCountsAll, RecordBehind
  <2> QED
    BY <2>1, <2>2, <2>3, MaxCountAssumption DEF Counted, Below, Vector, Writes
<1> QED
  BY <1>1, Inductive, PTL

\* Until a vector is trimmed, no upload takes an entry of the Drive file's
\* vector back.
THEOREM Grow == Spec => VectorsGrow
<1>1. Exact /\ [Next]_vars => [~trimmed' => Below(remote.vv, remote'.vv)]_vars
  <2> SUFFICES ASSUME Exact, [Next]_vars, ~UNCHANGED vars, ~trimmed'
               PROVE  Below(remote.vv, remote'.vv)
    OBVIOUS
  <2>0. IInv
    BY TrimmedStays DEF Exact
  <2>1. remote.vv \in Vector /\ writes \in [Devices -> 0..MaxCount]
    BY <2>0 DEF IInv, TypeOK, State
  <2>2. CASE Edit
    BY <2>1, <2>2, MaxCountAssumption DEF Edit, Below, Vector
  <2>3. ASSUME NEW d \in Devices, Upload(d)
        PROVE  Below(remote.vv, remote'.vv)
    <3>1. remote'.vv = [remote.vv EXCEPT ![d] = writes[d] + 1]
      BY <2>0, <2>3, UploadEffect
    <3> QED
      BY <2>0, <2>1, <3>1, MaxCountAssumption
         DEF Below, Vector, IInv, RemoteCountsAll
  <2>4. ASSUME NEW d \in Devices, Download(d)
        PROVE  Below(remote.vv, remote'.vv)
    BY <2>1, <2>4, MaxCountAssumption DEF Download, Below, Vector
  <2> QED
    BY <2>2, <2>3, <2>4 DEF Next
<1> QED
  BY <1>1, Inductive, PTL DEF Spec, VectorsGrow

-----------------------------------------------------------------------------
(* When trimming never happens.                                            *)

\* With an entry for every device the vector of an upload still fits, so it is
\* sent as it is.
LEMMA UploadUntrimmed ==
  ASSUME NoTrimming, WInv, NEW d \in Devices, Upload(d)
  PROVE  remote'.vv = NextVector(d)
<1>1. remote.vv \in Vector /\ record[d].vv \in Vector
  BY DEF WInv, TypeOK, State
<1>2. Merge(record[d].vv, remote.vv) \in Vector
  BY <1>1, MergeType
<1>3. NextVector(d) \in Vector
  BY <1>2, IncrementType DEF NextVector
<1>4. NextVector(d)[d] # 0
  BY <1>2, MaxCountAssumption DEF NextVector, Increment, Vector
<1>5. NextVector(d) # EmptyVector
  BY <1>4 DEF EmptyVector
<1>6. Written(NextVector(d), d, remote.vv) = NextVector(d)
  BY <1>1, <1>3, <1>5, WrittenIsIdentity
<1> QED
  BY <1>6 DEF Upload, WrittenBy

\* While the property has room for every device (coordination.rs 174-184), no
\* vector ever loses an entry, so the two theorems above hold for good.
THEOREM NeverTrimmed ==
  ASSUME NoTrimming
  PROVE  Spec => []~trimmed
<1>1. Init => WInv /\ ~trimmed
  BY InitWInv DEF Init
<1>2. WInv /\ ~trimmed /\ [Next]_vars => WInv' /\ ~trimmed'
  <2> SUFFICES ASSUME WInv, ~trimmed, [Next]_vars
               PROVE  ~trimmed'
    BY StepWInv
  <2>1. ASSUME NEW d \in Devices, Upload(d) PROVE ~trimmed'
    BY <2>1, UploadUntrimmed DEF Upload
  <2> QED
    BY <2>1 DEF Next, Download, Edit, vars
<1> QED
  BY <1>1, <1>2, PTL DEF Spec

=============================================================================
