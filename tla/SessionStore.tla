---------------------------- MODULE SessionStore ----------------------------
(***************************************************************************)
(* The session store and redb: the maps of a cycle in memory               *)
(* (store/session.rs), their tables, the journal and the change token on   *)
(* disk (store/db.rs), and the way rows travel between the two: load,      *)
(* recovery of the journal, the tasks' writes, the batch of upserts and    *)
(* stale keys, the write transaction, and a crash or a failing transaction *)
(* at any step.                                                            *)
(*                                                                         *)
(*  - A row is a pair of a table and a path.  A value is the number of the *)
(*    operation that wrote it.  Paths stand for safe relative paths.       *)
(*  - Oversized is a value the batch leaves out: an upload session above   *)
(*    MAX_UPLOAD_SESSION_BLOB_BYTES or an empty folder id.  Damaged is a   *)
(*    saved row that no longer decodes, for instance after an update of    *)
(*    the program that changed a type.                                     *)
(*  - redb runs one process at a time and its transactions are atomic; the *)
(*    steps of a transaction are here because the process may die between  *)
(*    them.                                                                *)
(*  - A task is what the journal sees of it; SyncCycle has its effects.    *)
(***************************************************************************)
EXTENDS Integers, Sequences

CONSTANTS Paths,
          Absent, Damaged, Oversized,
          MaxOps,      \* bound on the operations that write values
          MaxCycles,   \* bound on the cycles that store a token
          MaxFaults    \* bound on crashes, failing transactions and damage

ASSUME BoundsAssumption ==
  MaxOps \in Nat /\ MaxCycles \in Nat /\ MaxFaults \in Nat

ASSUME ValuesAssumption ==
  /\ Absent \notin Nat /\ Damaged \notin Nat /\ Oversized \notin Nat
  /\ Absent # Damaged /\ Absent # Oversized /\ Damaged # Oversized

Tables == {"record", "conversion", "session", "folder"}
TableOrder == <<"record", "conversion", "session", "folder">>
PathTables == {"record", "conversion", "session"}
Rows == Tables \X Paths
RowsOf(p) == PathTables \X {p}

Savable == 1..MaxOps
Values == Savable \union {Oversized}

Kinds == {"upload", "download", "delete"}
Stages == {"planned", "started", "done", "committed"}
NoOp == [kind |-> "none", stage |-> "none"]
PendingOps == [kind : Kinds, stage : Stages]

VARIABLES
  \* durable
  rows,        \* [Rows -> saved value, Damaged or Absent]
  token,       \* number of the last cycle whose change token is stored
  journal,     \* [Paths -> pending operation]
  \* in memory
  pc,          \* where the process is
  mem,         \* [Rows -> value or Absent]
  todo,        \* journal rows recovery has still to look at
  recovered,   \* journal rows recovery has purged
  running,     \* paths with a task
  failed,      \* a task of this cycle reported an error
  batch,       \* the prepared batch
  why,         \* what the batch is saved for
  written,     \* how many tables the open transaction has written
  draft,       \* the open transaction's rows
  \* bounds and history
  ops, faults,
  result       \* [Paths -> the rows its task has left to be saved, or nothing]

durable == <<rows, token, journal>>
cycle == <<todo, recovered, running, failed>>
transaction == <<batch, why, written, draft>>
vars == <<durable, pc, mem, cycle, transaction, ops, faults, result>>

NoRows == [r \in Rows |-> Absent]
NoBatch == [put |-> NoRows, stale |-> {}]
NoResult == [p \in Paths |-> {}]

\* Wrong: rows that do not decode are taken over.
LoadedAll(table) == table

\* load_from_redb: rows that do not decode, or are too large, are skipped.
Loaded(table) == [r \in Rows |-> IF table[r] \in Savable THEN table[r] ELSE Absent]

\* Wrong: nothing is removed from disk.
PreparedWithoutStale(m, table) ==
  [put |-> [r \in Rows |-> IF m[r] \in Savable THEN m[r] ELSE Absent],
   stale |-> {}]

\* A batch: what of the memory can be written, and the keys on disk that are
\* not among it, whether or not they decode.
Prepared(m, table) ==
  LET put == [r \in Rows |-> IF m[r] \in Savable THEN m[r] ELSE Absent]
  IN [put |-> put,
      stale |-> {r \in Rows : table[r] # Absent /\ put[r] = Absent}]

\* The rows of one table under a batch.
Applied(b, table, t) ==
  [r \in Rows |->
     IF r[1] # t THEN table[r]
     ELSE IF b.put[r] # Absent THEN b.put[r]
     ELSE IF r \in b.stale THEN Absent
     ELSE table[r]]

Init ==
  /\ rows = NoRows /\ token = 0 /\ journal = [p \in Paths |-> NoOp]
  /\ pc = "down" /\ mem = NoRows
  /\ todo = {} /\ recovered = {} /\ running = {} /\ failed = FALSE
  /\ batch = NoBatch /\ why = "cycle" /\ written = 0 /\ draft = NoRows
  /\ ops = 0 /\ faults = 0 /\ result = NoResult

-----------------------------------------------------------------------------
(* Start of a process and of a cycle                                       *)

\* Store::open: an empty session; whatever an earlier process had in memory
\* is gone.
Open ==
  /\ pc = "down" /\ pc' = "idle"
  /\ mem' = NoRows
  /\ UNCHANGED <<durable, cycle, transaction, ops, faults, result>>

\* load_from_redb, and the list of pending operations.
Load ==
  /\ pc = "idle" /\ token < MaxCycles
  /\ pc' = "recovering"
  /\ mem' = Loaded(rows)
  /\ todo' = {p \in Paths : journal[p] # NoOp}
  /\ recovered' = {} /\ running' = {} /\ failed' = FALSE
  /\ result' = NoResult
  /\ UNCHANGED <<durable, transaction, ops, faults>>

\* An operation that was only planned, or a transfer that reached its end:
\* the journal row goes, the record stays as it is.
Keeps(op) ==
  \/ op.stage = "planned"
  \/ op.kind # "delete" /\ op.stage \in {"done", "committed"}

DropPending(p) ==
  /\ pc = "recovering" /\ p \in todo /\ Keeps(journal[p])
  /\ journal' = [journal EXCEPT ![p] = NoOp]
  /\ todo' = todo \ {p}
  /\ UNCHANGED <<rows, token, pc, mem, recovered, running, failed, transaction,
                 ops, faults, result>>

\* Wrong: the journal row goes with the purge, before the purge is saved.
PurgePathAtOnce(p) ==
  /\ pc = "recovering" /\ p \in todo /\ ~Keeps(journal[p])
  /\ mem' = [r \in Rows |-> IF r \in RowsOf(p) THEN Absent ELSE mem[r]]
  /\ recovered' = recovered \union {p}
  /\ todo' = todo \ {p}
  /\ journal' = [journal EXCEPT ![p] = NoOp]
  /\ UNCHANGED <<rows, token, pc, running, failed, transaction, ops, faults, result>>

\* Anything else: record, conversion and upload session of the path go, the
\* journal row follows once that is saved.
PurgePath(p) ==
  /\ pc = "recovering" /\ p \in todo /\ ~Keeps(journal[p])
  /\ mem' = [r \in Rows |-> IF r \in RowsOf(p) THEN Absent ELSE mem[r]]
  /\ recovered' = recovered \union {p}
  /\ todo' = todo \ {p}
  /\ UNCHANGED <<durable, pc, running, failed, transaction, ops, faults, result>>

RecoveryDone ==
  /\ pc = "recovering" /\ todo = {}
  /\ IF recovered = {}
       THEN /\ pc' = "running"
            /\ UNCHANGED <<batch, why>>
       ELSE /\ pc' = "prepared" /\ why' = "recovery"
            /\ batch' = Prepared(mem, rows)
  /\ UNCHANGED <<durable, mem, cycle, written, draft, ops, faults, result>>

\* The purge is saved: the journal rows go, one transaction each.
ForgetRecovered(p) ==
  /\ pc = "forgetting" /\ p \in recovered
  /\ journal' = [journal EXCEPT ![p] = NoOp]
  /\ recovered' = recovered \ {p}
  /\ pc' = IF recovered' = {} THEN "running" ELSE pc
  /\ UNCHANGED <<rows, token, mem, todo, running, failed, transaction, ops,
                 faults, result>>

-----------------------------------------------------------------------------
(* The tasks of a cycle, as the store sees them                            *)

SetPending(p, kind, stage) ==
  journal' = [journal EXCEPT ![p] = [kind |-> kind, stage |-> stage]]

\* A path has one task in a cycle, or a second one after a mismatch.
Plan(p, kind) ==
  /\ pc = "running" /\ p \notin running /\ journal[p] = NoOp /\ ops < MaxOps
  /\ SetPending(p, kind, "planned")
  /\ running' = running \union {p}
  /\ ops' = ops + 1
  /\ UNCHANGED <<rows, token, pc, mem, todo, recovered, failed, transaction,
                 faults, result>>

Advance(p, from, to) ==
  /\ pc = "running" /\ p \in running /\ journal[p].stage = from
  /\ SetPending(p, journal[p].kind, to)
  /\ UNCHANGED <<rows, token, pc, mem, cycle, transaction, ops, faults, result>>

\* A chunk has arrived: the cursor of the upload is kept in memory.
SaveSession(p) ==
  /\ pc = "running" /\ p \in running
  /\ journal[p] = [kind |-> "upload", stage |-> "started"]
  /\ \E v \in {ops, Oversized} : mem' = [mem EXCEPT ![<<"session", p>>] = v]
  /\ UNCHANGED <<durable, pc, cycle, transaction, ops, faults, result>>

\* The effect is done: the path's rows change in memory, then the journal
\* says that they have. A transfer leaves a record, for an exported document a
\* conversion too, and no session; a deletion leaves nothing; the download of
\* a folder leaves the rows as they were.
Outcome(p, t, what) ==
  IF journal[p].kind = "delete" \/ t = "session" THEN Absent
  ELSE IF t = "record" \/ what = "exported" THEN ops
  ELSE Absent

Settled(p, what) ==
  [r \in Rows |-> IF r \in RowsOf(p) /\ what # "folder" THEN Outcome(p, r[1], what)
                  ELSE mem[r]]

Outcomes(p) ==
  {"file", "exported"} \union (IF journal[p].kind = "download" THEN {"folder"} ELSE {})

Settle(p) ==
  /\ pc = "running" /\ p \in running /\ journal[p].stage = "done"
  /\ \E what \in Outcomes(p) : mem' = Settled(p, what)
  /\ result' = [result EXCEPT ![p] = {[t \in PathTables |-> Loaded(mem')[<<t, p>>]]}]
  /\ SetPending(p, journal[p].kind, "committed")
  /\ running' = running \ {p}
  /\ UNCHANGED <<rows, token, pc, todo, recovered, failed, transaction, ops, faults>>

\* A task that ends with an error reports it. A deletion without effect clears
\* its journal row, if it can; any other row stays for recovery, also the one
\* that could not be marked committed although the rows have changed.
TaskFails(p) ==
  /\ pc = "running" /\ p \in running
  /\ failed' = TRUE /\ running' = running \ {p}
  /\ \/ UNCHANGED <<mem, journal>>
     \/ /\ journal[p].kind = "delete" /\ journal[p].stage # "done"
        /\ journal' = [journal EXCEPT ![p] = NoOp] /\ UNCHANGED mem
     \/ /\ journal[p].stage = "done" /\ UNCHANGED journal
        /\ \E what \in Outcomes(p) : mem' = Settled(p, what)
  /\ UNCHANGED <<rows, token, pc, todo, recovered, transaction, ops, faults, result>>

\* A revision mismatch is no error: nothing was sent, the journal row goes and
\* a conflict takes over.
RevisionMismatch(p) ==
  /\ pc = "running" /\ p \in running
  /\ journal[p] = [kind |-> "upload", stage |-> "started"]
  /\ running' = running \ {p}
  /\ journal' = [journal EXCEPT ![p] = NoOp]
  /\ UNCHANGED <<rows, token, pc, mem, todo, recovered, failed, transaction, ops,
                 faults, result>>

\* set_folder_id, for a folder seen in the view or created for an upload.
SetFolderId(p) ==
  /\ pc = "running" /\ ops < MaxOps
  /\ ops' = ops + 1
  /\ \E v \in {ops', Oversized} : mem' = [mem EXCEPT ![<<"folder", p>>] = v]
  /\ UNCHANGED <<durable, pc, cycle, transaction, faults, result>>

\* purge_stale_upload_sessions, before the first task.
PurgeStaleSessions ==
  /\ pc = "running" /\ running = {} /\ result = NoResult
  /\ \E stale \in SUBSET Paths :
       mem' = [r \in Rows |-> IF r[1] = "session" /\ r[2] \in stale THEN Absent
                              ELSE mem[r]]
  /\ UNCHANGED <<durable, pc, cycle, transaction, ops, faults, result>>

-----------------------------------------------------------------------------
(* Saving                                                                  *)

\* All tasks have ended: the batch of the cycle.
FinishCycle ==
  /\ pc = "running" /\ running = {}
  /\ pc' = "prepared" /\ why' = "cycle"
  /\ batch' = Prepared(mem, rows)
  /\ UNCHANGED <<durable, mem, cycle, written, draft, ops, faults, result>>

\* The last persist of a daemon, whatever its session holds.
Shutdown ==
  /\ pc = "idle"
  /\ pc' = "prepared" /\ why' = "shutdown"
  /\ batch' = Prepared(mem, rows)
  /\ UNCHANGED <<durable, mem, cycle, written, draft, ops, faults, result>>

\* Wrong: the token is stored in a transaction of its own.
BeginWriteTokenFirst ==
  /\ pc = "prepared" /\ pc' = "writing"
  /\ written' = 0 /\ draft' = rows
  /\ token' = IF why = "cycle" /\ ~failed THEN token + 1 ELSE token
  /\ UNCHANGED <<rows, journal, mem, cycle, batch, why, ops, faults, result>>

BeginWrite ==
  /\ pc = "prepared" /\ pc' = "writing"
  /\ written' = 0 /\ draft' = rows
  /\ UNCHANGED <<durable, mem, cycle, batch, why, ops, faults, result>>

WriteTable ==
  /\ pc = "writing" /\ written < Len(TableOrder)
  /\ draft' = Applied(batch, draft, TableOrder[written + 1])
  /\ written' = written + 1
  /\ UNCHANGED <<durable, pc, mem, cycle, batch, why, ops, faults, result>>

\* Rows, token and the journal rows of committed operations in one commit. A
\* cycle with an error keeps the token; recovery and the last persist clean
\* nothing up.
Commit ==
  /\ pc = "writing" /\ written = Len(TableOrder)
  /\ rows' = draft
  /\ token' = IF why = "cycle" /\ ~failed THEN token + 1 ELSE token
  /\ journal' = IF why # "cycle" THEN journal
                ELSE [p \in Paths |-> IF journal[p].stage = "committed" THEN NoOp
                                      ELSE journal[p]]
  /\ pc' = CASE why = "cycle" -> "idle"
             [] why = "recovery" -> "forgetting"
             [] why = "shutdown" -> "down"
  /\ UNCHANGED <<mem, cycle, transaction, ops, faults, result>>

-----------------------------------------------------------------------------
(* Faults                                                                  *)

\* A transaction or a read of redb fails: the cycle is over, the process and
\* its memory go on; the error of the last persist ends the process.
StoreFails ==
  /\ pc \in {"recovering", "prepared", "writing", "forgetting"}
  /\ faults < MaxFaults /\ faults' = faults + 1
  /\ pc' = IF why = "shutdown" /\ pc \in {"prepared", "writing"} THEN "down"
           ELSE "idle"
  /\ UNCHANGED <<durable, mem, cycle, transaction, ops, result>>

Crash ==
  /\ pc # "down" /\ faults < MaxFaults /\ faults' = faults + 1
  /\ pc' = "down"
  /\ UNCHANGED <<durable, mem, cycle, transaction, ops, result>>

\* A saved row no longer decodes.
Damage(r) ==
  /\ pc = "down" /\ faults < MaxFaults /\ faults' = faults + 1
  /\ rows[r] \in Savable
  /\ rows' = [rows EXCEPT ![r] = Damaged]
  /\ UNCHANGED <<token, journal, pc, mem, cycle, transaction, ops, result>>

Next ==
  \/ Open \/ Load \/ RecoveryDone
  \/ \E p \in Paths : DropPending(p) \/ PurgePath(p) \/ ForgetRecovered(p)
  \/ \E p \in Paths, kind \in Kinds : Plan(p, kind)
  \/ \E p \in Paths : Advance(p, "planned", "started")
  \/ \E p \in Paths : Advance(p, "started", "done")
  \/ \E p \in Paths : SaveSession(p) \/ Settle(p) \/ TaskFails(p)
                      \/ RevisionMismatch(p) \/ SetFolderId(p)
  \/ PurgeStaleSessions \/ FinishCycle \/ Shutdown
  \/ BeginWrite \/ WriteTable \/ Commit
  \/ StoreFails \/ Crash \/ (\E r \in Rows : Damage(r))

Spec == Init /\ [][Next]_vars

-----------------------------------------------------------------------------
(* Properties                                                              *)

\* Every variable keeps its type: no damaged row and no oversized value gets
\* past the filters of load and of the batch.
TypeOK ==
  /\ rows \in [Rows -> Savable \union {Absent, Damaged}]
  /\ token \in 0..MaxCycles
  /\ journal \in [Paths -> PendingOps \union {NoOp}]
  /\ pc \in {"down", "idle", "recovering", "running", "prepared", "writing",
             "forgetting"}
  /\ mem \in [Rows -> Values \union {Absent}]
  /\ todo \subseteq Paths /\ recovered \subseteq Paths /\ running \subseteq Paths
  /\ failed \in BOOLEAN
  /\ batch.put \in [Rows -> Savable \union {Absent}] /\ batch.stale \subseteq Rows
  /\ why \in {"cycle", "recovery", "shutdown"}
  /\ written \in 0..Len(TableOrder)
  /\ draft \in [Rows -> Savable \union {Absent, Damaged}]
  /\ ops \in 0..MaxOps /\ faults \in 0..MaxFaults

Promise == INSTANCE Checkpoint WITH memory <- mem, saved <- Loaded(rows)

\* The store implements the checkpoint: whatever fails and whenever, what a
\* load would find on disk changes only as a whole, into exactly what the
\* memory held that can be written; a removed row does not come back, and a
\* row that no longer decodes takes no other row with it.
ImplementsCheckpoint == Promise!Spec

SavedRows(p) == [t \in PathTables |-> Loaded(rows)[<<t, p>>]]
NoneSaved == [t \in PathTables |-> Absent]

\* A journal row goes only when nothing needs it any more: nothing was done
\* yet, the running executor itself gave up, recovery found a transfer at its
\* end, or the rows on disk show what was decided, in the same transaction
\* (end of a cycle) or before (recovery purges the path, saves, then forgets).
JournalFollowsRows ==
  [][\A p \in Paths : journal[p] # NoOp /\ journal'[p] = NoOp =>
       \/ pc = "running"
       \/ Keeps(journal[p]) /\ pc = "recovering"
       \/ journal[p].stage = "committed" /\ result[p] = {SavedRows(p)'}
       \/ SavedRows(p)' = NoneSaved]_vars

\* The token becomes durable together with the rows of every task of its
\* cycle, never before and never without one of them.
TokenWithRows ==
  [][token' # token =>
       \A p \in Paths : result[p] \in {{}, {SavedRows(p)'}}]_vars
=============================================================================
