--------------------------- MODULE VersionVectors ---------------------------
(***************************************************************************)
(* The version vectors of src/sync/coordination.rs.  A vector maps device  *)
(* ids to write counters; it travels in the Drive property ox_vv of a file *)
(* and in the sync record of every device.                                 *)
(*                                                                         *)
(* Abstractions.                                                           *)
(*  - A device without an entry has count 0: increment never leaves an     *)
(*    entry at 0, so the two cases never meet in a vector oxidrive wrote.  *)
(*  - Device ids are naturals; < on them is the order of the id strings    *)
(*    that trimming breaks ties with.                                      *)
(*  - The 124 bytes of a Drive property hold MaxEntries entries            *)
(*    (three, for 36-character ids).                                       *)
(*  - MaxCount stands for u64::MAX, where counters saturate.               *)
(***************************************************************************)
EXTENDS Naturals, FiniteSets

CONSTANTS
  Devices,      \* device ids
  MaxCount,     \* the counter at which increment saturates
  MaxEntries    \* entries that fit into the ox_vv property

ASSUME DevicesAssumption == Devices \subseteq Nat /\ IsFiniteSet(Devices)
ASSUME MaxCountAssumption == MaxCount \in Nat \ {0}
ASSUME MaxEntriesAssumption == MaxEntries \in Nat

Vector == [Devices -> 0..MaxCount]

EmptyVector == [d \in Devices |-> 0]

Entries(v) == {d \in Devices : v[d] > 0}

-----------------------------------------------------------------------------

\* Wrong: counters of the two vectors added up.
MergeAdding(v, w) == [d \in Devices |-> v[d] + w[d]]

\* Wrong: what the other vector knows is dropped.
MergeNothing(v, w) == v

\* The pointwise maximum of two vectors.
Merge(v, w) == [d \in Devices |-> IF v[d] >= w[d] THEN v[d] ELSE w[d]]

\* Wrong: a counter that passes its last value.
IncrementUnbounded(v, d) == [v EXCEPT ![d] = @ + 1]

\* Wrong: a write that is not counted.
IncrementNothing(v, d) == v

\* One more write of device d; the counter stays at MaxCount once there.
Increment(v, d) ==
  [v EXCEPT ![d] = IF v[d] = MaxCount THEN MaxCount ELSE v[d] + 1]

Below(v, w) == \A d \in Devices : v[d] <= w[d]

\* How v stands to w.
Dominance(v, w) ==
  IF Below(v, w)
  THEN IF Below(w, v) THEN "equal" ELSE "dominated"
  ELSE IF Below(w, v) THEN "dominates" ELSE "concurrent"

-----------------------------------------------------------------------------
(* Trimming a vector to what fits into the property.                       *)

Fits(v) == Cardinality(Entries(v)) <= MaxEntries

\* Entries are dropped from the least count up, ties by device id; the entry
\* of the writing device is never one of them.
Removable(v, origin) == Entries(v) \ {origin}

DropsBefore(v, d, e) == v[d] < v[e] \/ (v[d] = v[e] /\ d < e)

FirstDropped(v, origin, n) ==
  {d \in Removable(v, origin) :
     Cardinality({e \in Removable(v, origin) : DropsBefore(v, e, d)}) < n}

Without(v, dropped) == [d \in Devices |-> IF d \in dropped THEN 0 ELSE v[d]]

Trimmed(v, origin, n) == Without(v, FirstDropped(v, origin, n))

\* The vector as it is serialized: the fewest entries dropped that make it
\* fit, and the empty one when even the writer's own entry does not.
Bounded(v, origin) ==
  LET enough == {n \in 0..Cardinality(Removable(v, origin)) :
                   Fits(Trimmed(v, origin, n))}
  IN  IF enough = {}
      THEN EmptyVector
      ELSE Trimmed(v, origin,
                   CHOOSE n \in enough : \A k \in enough : n <= k)

\* What Drive holds after v is written over the property's value `before`:
\* an empty vector is never sent, so the property keeps its value.
Written(v, origin, before) ==
  IF Bounded(v, origin) = EmptyVector THEN before ELSE Bounded(v, origin)

=============================================================================
