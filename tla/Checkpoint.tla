----------------------------- MODULE Checkpoint -----------------------------
(***************************************************************************)
(* What the session store promises to the sync cycle, without tables,      *)
(* batches and transactions: a memory that is worked on, a saved copy that *)
(* is only ever replaced as a whole by what the memory holds, together     *)
(* with the change token, and a process that may forget its memory at any  *)
(* moment.  One saved row may become unreadable by itself; no other row    *)
(* may suffer from that.                                                   *)
(***************************************************************************)
EXTENDS Integers

CONSTANTS Rows,     \* the rows of all tables
          Savable,  \* the values the saved copy can hold
          Values,   \* the values the memory can hold, Savable among them
          Absent    \* no row

VARIABLES memory, saved, token

checkpointVars == <<memory, saved, token>>

Empty == [r \in Rows |-> Absent]

Kept(m) == [r \in Rows |-> IF m[r] \in Savable THEN m[r] ELSE Absent]

Init == memory = Empty /\ saved = Empty /\ token = 0

Load == memory' = saved /\ UNCHANGED <<saved, token>>

Forget == memory' = Empty /\ UNCHANGED <<saved, token>>

Work ==
  /\ memory' \in [Rows -> Values \union {Absent}]
  /\ UNCHANGED <<saved, token>>

Save ==
  /\ saved' = Kept(memory)
  /\ token' \in {token, token + 1}
  /\ UNCHANGED memory

LoseRow ==
  /\ \E r \in Rows : saved' = [saved EXCEPT ![r] = Absent]
  /\ UNCHANGED <<memory, token>>

Next == Load \/ Forget \/ Work \/ Save \/ LoseRow

Spec == Init /\ [][Next]_checkpointVars
=============================================================================
