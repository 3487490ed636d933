------------------------ MODULE SessionStore_proofs ------------------------
(***************************************************************************)
(* That the session store implements Checkpoint, and that journal rows and *)
(* the token follow the saved rows, for any set of paths and any bounds.   *)
(*                                                                         *)
(* The argument.  A batch is made from memory and disk, and neither        *)
(* changes until it is written (BatchInv), so that after the last table    *)
(* the draft is the memory's savable rows and nothing else (DraftInv):     *)
(* a row is put, or stale, or was not there.  Recovery keeps a journal row *)
(* until the rows of its path are gone from the disk (RecoveryInv), and a  *)
(* committed row of the running cycle stands for the rows its task left in *)
(* memory (ResultInv).                                                     *)
(***************************************************************************)
EXTENDS SessionStore, TLAPS

Saving(w) == pc \in {"prepared", "writing"} /\ why = w

\* A cycle is only begun while a token can still be stored.
CycleInv ==
  /\ pc \in {"recovering", "running", "forgetting"}
       \/ Saving("cycle") \/ Saving("recovery") => token < MaxCycles
  /\ running # {} => ops \in Savable

\* The batch is that of the memory and the disk.
BatchInv == pc \in {"prepared", "writing"} => batch = Prepared(mem, rows)

\* The draft holds the batch in the tables already written.
DraftInv ==
  pc = "writing" =>
    \A r \in Rows :
      draft[r] = IF \E i \in 1..written : TableOrder[i] = r[1]
                   THEN batch.put[r] ELSE rows[r]

\* A journal row recovery has purged is kept until the purge is on disk.
RecoveryInv ==
  /\ pc = "recovering" =>
       \A p \in Paths : journal[p] # NoOp => p \in todo \union recovered
  /\ pc = "recovering" \/ Saving("recovery") =>
       \A p \in recovered : \A r \in RowsOf(p) : mem[r] = Absent
  /\ Saving("recovery") \/ pc = "forgetting" =>
       \A p \in Paths : journal[p] # NoOp => p \in recovered
  /\ pc = "forgetting" =>
       \A p \in recovered : \A r \in RowsOf(p) : rows[r] = Absent
  /\ pc \in {"recovering", "forgetting"} \/ Saving("recovery") =>
       result = NoResult

\* In a cycle, the committed journal rows are those of the tasks that have
\* left a result, and the result is what the memory still holds.
ResultInv ==
  /\ result = [p \in Paths |-> result[p]]
  /\ pc = "running" \/ Saving("cycle") =>
       \A p \in Paths :
         IF journal[p].stage = "committed"
           THEN /\ p \notin running
                /\ result[p] = {[t \in PathTables |-> Loaded(mem)[<<t, p>>]]}
           ELSE result[p] = {}

IInv == TypeOK /\ CycleInv /\ BatchInv /\ DraftInv /\ RecoveryInv /\ ResultInv

-----------------------------------------------------------------------------
(* Rows, loading and the batch.                                            *)

\* A row is a table and a path; a path has three rows of its own.
LEMMA RowFacts ==
  /\ \A t \in Tables, p \in Paths : <<t, p>> \in Rows
  /\ \A r \in Rows : r[1] \in Tables /\ r[2] \in Paths
  /\ \A p \in Paths : RowsOf(p) \subseteq Rows
  /\ \A p \in Paths, t \in PathTables : <<t, p>> \in RowsOf(p) /\ t \in Tables
  /\ \A p \in Paths : \A r \in RowsOf(p) : r[1] \in PathTables /\ r[2] = p
  /\ PathTables \subseteq Tables
BY DEF Rows, RowsOf, Tables, PathTables

\* No marker is a value that can be saved.
LEMMA ValueFacts ==
  /\ Absent \notin Savable /\ Damaged \notin Savable /\ Oversized \notin Savable
  /\ Absent \notin Values
  /\ Savable \subseteq Values /\ Oversized \in Values
BY BoundsAssumption, ValuesAssumption DEF Savable, Values

\* What is loaded can be worked with.
LEMMA LoadedTypes ==
  ASSUME NEW table
  PROVE  /\ Loaded(table) \in [Rows -> Savable \union {Absent}]
         /\ Loaded(table) \in [Rows -> Values \union {Absent}]
BY DEF Loaded, Values

\* What is loaded of a path depends on its rows only.
LEMMA SameRowsLoad ==
  ASSUME NEW m, NEW n, NEW p \in Paths,
         \A t \in PathTables : m[<<t, p>>] = n[<<t, p>>]
  PROVE  [t \in PathTables |-> Loaded(m)[<<t, p>>]]
           = [t \in PathTables |-> Loaded(n)[<<t, p>>]]
<1>1. \A t \in PathTables : Loaded(m)[<<t, p>>] = Loaded(n)[<<t, p>>]
  BY RowFacts DEF Loaded
<1>2. QED
  BY <1>1

\* A batch holds savable values, and the memory's savable rows exactly.
LEMMA PreparedTypes ==
  ASSUME NEW m, NEW table
  PROVE  /\ Prepared(m, table).put \in [Rows -> Savable \union {Absent}]
         /\ Prepared(m, table).put = Loaded(m)
         /\ Prepared(m, table).stale \subseteq Rows
         /\ \A r \in Rows : r \in Prepared(m, table).stale
                              <=> table[r] # Absent /\ Loaded(m)[r] = Absent
BY DEF Prepared, Loaded

\* Stages and kinds make pending operations.
LEMMA PendingTypes ==
  /\ \A k \in Kinds, s \in Stages : [kind |-> k, stage |-> s] \in PendingOps
  /\ \A op \in PendingOps : op.kind \in Kinds /\ op.stage \in Stages
  /\ NoOp.stage \notin Stages /\ NoOp \notin PendingOps
  /\ Stages = {"planned", "started", "done", "committed"}
BY DEF PendingOps, NoOp, Stages, Kinds

\* The four tables of the transaction are all there are.
LEMMA OrderFacts ==
  /\ Len(TableOrder) = 4
  /\ \A t \in Tables : \E i \in 1..4 : TableOrder[i] = t
  /\ \A i \in 1..4 : TableOrder[i] \in Tables
  /\ \A i, j \in 1..4 : TableOrder[i] = TableOrder[j] => i = j
BY DEF TableOrder, Tables

-----------------------------------------------------------------------------
(* Types.                                                                  *)

\* Every step keeps the types.
LEMMA TypeStep ==
  ASSUME TypeOK, CycleInv, [Next]_vars
  PROVE  TypeOK'
<1>1. ASSUME Open PROVE TypeOK'
  BY <1>1 DEF TypeOK, durable, cycle, transaction, Open, NoRows
<1>2. ASSUME Load PROVE TypeOK'
  BY <1>2, LoadedTypes DEF TypeOK, durable, cycle, transaction, Load
<1>3. ASSUME RecoveryDone PROVE TypeOK'
  BY <1>3, RowFacts, ValueFacts, LoadedTypes, PreparedTypes, OrderFacts, BoundsAssumption DEF TypeOK, CycleInv, Saving, durable, cycle, transaction, RecoveryDone
<1>4. ASSUME NEW p \in Paths, DropPending(p) PROVE TypeOK'
  BY <1>4, RowFacts, ValueFacts, LoadedTypes, PreparedTypes, OrderFacts, BoundsAssumption DEF TypeOK, CycleInv, Saving, durable, cycle, transaction, DropPending
<1>5. ASSUME NEW p \in Paths, PurgePath(p) PROVE TypeOK'
  BY <1>5, RowFacts, ValueFacts, LoadedTypes, PreparedTypes, OrderFacts, BoundsAssumption DEF TypeOK, CycleInv, Saving, durable, cycle, transaction, PurgePath
<1>6. ASSUME NEW p \in Paths, ForgetRecovered(p) PROVE TypeOK'
  BY <1>6, RowFacts, ValueFacts, LoadedTypes, PreparedTypes, OrderFacts, BoundsAssumption DEF TypeOK, CycleInv, Saving, durable, cycle, transaction, ForgetRecovered
<1>7. ASSUME NEW p \in Paths, NEW kind \in Kinds, Plan(p, kind) PROVE TypeOK'
  <2>1. journal' \in [Paths -> PendingOps \union {NoOp}]
    BY <1>7, PendingTypes DEF TypeOK, Plan, SetPending
  <2>2. running' \subseteq Paths /\ ops' \in 0..MaxOps
    BY <1>7, BoundsAssumption DEF TypeOK, Plan
  <2>3. QED
    BY <1>7, <2>1, <2>2 DEF TypeOK, Plan, transaction
<1>8. ASSUME NEW p \in Paths, Advance(p, "planned", "started") PROVE TypeOK'
  <2>1. journal[p] \in PendingOps
    BY <1>8, PendingTypes DEF TypeOK, Advance
  <2>2. journal' \in [Paths -> PendingOps \union {NoOp}]
    BY <1>8, <2>1, PendingTypes DEF TypeOK, Advance, SetPending
  <2>3. QED
    BY <1>8, <2>2 DEF TypeOK, Advance, cycle, transaction
<1>9. ASSUME NEW p \in Paths, Advance(p, "started", "done") PROVE TypeOK'
  <2>1. journal[p] \in PendingOps
    BY <1>9, PendingTypes DEF TypeOK, Advance
  <2>2. journal' \in [Paths -> PendingOps \union {NoOp}]
    BY <1>9, <2>1, PendingTypes DEF TypeOK, Advance, SetPending
  <2>3. QED
    BY <1>9, <2>2 DEF TypeOK, Advance, cycle, transaction
<1>10. ASSUME NEW p \in Paths, SaveSession(p) PROVE TypeOK'
  <2>1. ops \in Values
    BY <1>10, ValueFacts DEF CycleInv, SaveSession
  <2>2. mem' \in [Rows -> Values \union {Absent}]
    <3>1. PICK v \in {ops, Oversized} : mem' = [mem EXCEPT ![<<"session", p>>] = v]
      BY <1>10 DEF SaveSession
    <3>2. v \in Values \union {Absent}
      BY <2>1, ValueFacts
    <3>3. QED
      BY <3>1, <3>2 DEF TypeOK
  <2>3. QED
    BY <1>10, <2>2 DEF TypeOK, SaveSession, durable, cycle, transaction
<1>11. ASSUME NEW p \in Paths, Settle(p) PROVE TypeOK'
  <2>1. journal[p] \in PendingOps
    BY <1>11, PendingTypes DEF TypeOK, Settle
  <2>2. journal' \in [Paths -> PendingOps \union {NoOp}]
    BY <1>11, <2>1, PendingTypes DEF TypeOK, Settle, SetPending
  <2>3. ops \in Savable
    BY <1>11 DEF CycleInv, Settle
  <2>4. \A t, e : Outcome(p, t, e) \in Values \union {Absent}
    BY <2>3, ValueFacts DEF Outcome
  <2>5. mem' \in [Rows -> Values \union {Absent}]
    <3>1. \A e : Settled(p, e) \in [Rows -> Values \union {Absent}]
      BY <2>4 DEF TypeOK, Settled
    <3>2. QED
      BY <1>11, <3>1 DEF Settle
  <2>6. QED
    BY <1>11, <2>2, <2>5 DEF TypeOK, Settle, transaction
<1>12. ASSUME NEW p \in Paths, TaskFails(p) PROVE TypeOK'
  <2>1. journal' \in [Paths -> PendingOps \union {NoOp}]
    BY <1>12, PendingTypes DEF TypeOK, TaskFails
  <2>2. ops \in Savable
    BY <1>12 DEF CycleInv, TaskFails
  <2>3. \A t, e : Outcome(p, t, e) \in Values \union {Absent}
    BY <2>2, ValueFacts DEF Outcome
  <2>4. \A e : Settled(p, e) \in [Rows -> Values \union {Absent}]
    BY <2>3 DEF TypeOK, Settled
  <2>5. mem' \in [Rows -> Values \union {Absent}]
    BY <1>12, <2>4 DEF TypeOK, TaskFails
  <2>6. QED
    BY <1>12, <2>1, <2>5 DEF TypeOK, TaskFails, transaction
<1>13. ASSUME NEW p \in Paths, RevisionMismatch(p) PROVE TypeOK'
  BY <1>13, RowFacts, ValueFacts, LoadedTypes, PreparedTypes, OrderFacts, BoundsAssumption DEF TypeOK, CycleInv, Saving, durable, cycle, transaction, RevisionMismatch
<1>14. ASSUME NEW p \in Paths, SetFolderId(p) PROVE TypeOK'
  <2>1. ops' \in 0..MaxOps /\ ops' \in Savable
    BY <1>14, BoundsAssumption DEF TypeOK, SetFolderId, Savable
  <2>2. mem' \in [Rows -> Values \union {Absent}]
    <3>1. PICK v \in {ops', Oversized} : mem' = [mem EXCEPT ![<<"folder", p>>] = v]
      BY <1>14 DEF SetFolderId
    <3>2. v \in Values \union {Absent}
      BY <2>1, ValueFacts
    <3>3. QED
      BY <3>1, <3>2 DEF TypeOK
  <2>3. QED
    BY <1>14, <2>1, <2>2 DEF TypeOK, SetFolderId, durable, cycle, transaction
<1>15. ASSUME PurgeStaleSessions PROVE TypeOK'
  BY <1>15, RowFacts, ValueFacts, LoadedTypes, PreparedTypes, OrderFacts, BoundsAssumption DEF TypeOK, CycleInv, Saving, durable, cycle, transaction, PurgeStaleSessions
<1>16. ASSUME FinishCycle PROVE TypeOK'
  BY <1>16, RowFacts, ValueFacts, LoadedTypes, PreparedTypes, OrderFacts, BoundsAssumption DEF TypeOK, CycleInv, Saving, durable, cycle, transaction, FinishCycle
<1>17. ASSUME Shutdown PROVE TypeOK'
  BY <1>17, RowFacts, ValueFacts, LoadedTypes, PreparedTypes, OrderFacts, BoundsAssumption DEF TypeOK, CycleInv, Saving, durable, cycle, transaction, Shutdown
<1>18. ASSUME BeginWrite PROVE TypeOK'
  BY <1>18, RowFacts, ValueFacts, LoadedTypes, PreparedTypes, OrderFacts, BoundsAssumption DEF TypeOK, CycleInv, Saving, durable, cycle, transaction, BeginWrite
<1>19. ASSUME WriteTable PROVE TypeOK'
  <2>1. written' \in 0..Len(TableOrder)
    BY <1>19, OrderFacts DEF TypeOK, WriteTable
  <2>2. draft' \in [Rows -> Savable \union {Absent, Damaged}]
    BY <1>19 DEF TypeOK, WriteTable, Applied
  <2>3. QED
    BY <1>19, <2>1, <2>2 DEF TypeOK, WriteTable, durable, cycle
<1>20. ASSUME Commit PROVE TypeOK'
  BY <1>20, RowFacts, ValueFacts, LoadedTypes, PreparedTypes, OrderFacts, BoundsAssumption DEF TypeOK, CycleInv, Saving, durable, cycle, transaction, Commit
<1>21. ASSUME StoreFails PROVE TypeOK'
  BY <1>21, RowFacts, ValueFacts, LoadedTypes, PreparedTypes, OrderFacts, BoundsAssumption DEF TypeOK, CycleInv, Saving, durable, cycle, transaction, StoreFails
<1>22. ASSUME Crash PROVE TypeOK'
  BY <1>22, RowFacts, ValueFacts, LoadedTypes, PreparedTypes, OrderFacts, BoundsAssumption DEF TypeOK, CycleInv, Saving, durable, cycle, transaction, Crash
<1>23. ASSUME NEW r \in Rows, Damage(r) PROVE TypeOK'
  BY <1>23, RowFacts, ValueFacts, LoadedTypes, PreparedTypes, OrderFacts, BoundsAssumption DEF TypeOK, CycleInv, Saving, durable, cycle, transaction, Damage
<1>24. CASE UNCHANGED vars
  BY <1>24 DEF TypeOK, CycleInv, Saving, durable, cycle, transaction, vars, durable, cycle, transaction
<1>25. QED
  BY <1>1, <1>2, <1>3, <1>4, <1>5, <1>6, <1>7, <1>8, <1>9, <1>10, <1>11, <1>12, <1>13, <1>14, <1>15, <1>16, <1>17, <1>18, <1>19, <1>20, <1>21, <1>22, <1>23, <1>24 DEF Next

\* A cycle in progress can still store its token.
LEMMA CycleStep ==
  ASSUME TypeOK, CycleInv, [Next]_vars
  PROVE  CycleInv'
<1>1. ASSUME Open PROVE CycleInv'
  BY <1>1, BoundsAssumption DEF TypeOK, CycleInv, Saving, durable, cycle, transaction, Savable, Open
<1>2. ASSUME Load PROVE CycleInv'
  BY <1>2, BoundsAssumption DEF TypeOK, CycleInv, Saving, durable, cycle, transaction, Savable, Load
<1>3. ASSUME RecoveryDone PROVE CycleInv'
  BY <1>3, BoundsAssumption DEF TypeOK, CycleInv, Saving, durable, cycle, transaction, Savable, RecoveryDone
<1>4. ASSUME NEW p \in Paths, DropPending(p) PROVE CycleInv'
  BY <1>4, BoundsAssumption DEF TypeOK, CycleInv, Saving, durable, cycle, transaction, Savable, DropPending
<1>5. ASSUME NEW p \in Paths, PurgePath(p) PROVE CycleInv'
  BY <1>5, BoundsAssumption DEF TypeOK, CycleInv, Saving, durable, cycle, transaction, Savable, PurgePath
<1>6. ASSUME NEW p \in Paths, ForgetRecovered(p) PROVE CycleInv'
  BY <1>6, BoundsAssumption DEF TypeOK, CycleInv, Saving, durable, cycle, transaction, Savable, ForgetRecovered
<1>7. ASSUME NEW p \in Paths, NEW kind \in Kinds, Plan(p, kind) PROVE CycleInv'
  BY <1>7, BoundsAssumption DEF TypeOK, CycleInv, Saving, durable, cycle, transaction, Savable, Plan, SetPending
<1>8. ASSUME NEW p \in Paths, Advance(p, "planned", "started") PROVE CycleInv'
  BY <1>8, BoundsAssumption DEF TypeOK, CycleInv, Saving, durable, cycle, transaction, Savable, Advance, SetPending
<1>9. ASSUME NEW p \in Paths, Advance(p, "started", "done") PROVE CycleInv'
  BY <1>9, BoundsAssumption DEF TypeOK, CycleInv, Saving, durable, cycle, transaction, Savable, Advance, SetPending
<1>10. ASSUME NEW p \in Paths, SaveSession(p) PROVE CycleInv'
  BY <1>10, BoundsAssumption DEF TypeOK, CycleInv, Saving, durable, cycle, transaction, Savable, SaveSession
<1>11. ASSUME NEW p \in Paths, Settle(p) PROVE CycleInv'
  BY <1>11, BoundsAssumption DEF TypeOK, CycleInv, Saving, durable, cycle, transaction, Savable, Settle, SetPending
<1>12. ASSUME NEW p \in Paths, TaskFails(p) PROVE CycleInv'
  BY <1>12, BoundsAssumption DEF TypeOK, CycleInv, Saving, durable, cycle, transaction, Savable, TaskFails
<1>13. ASSUME NEW p \in Paths, RevisionMismatch(p) PROVE CycleInv'
  BY <1>13, BoundsAssumption DEF TypeOK, CycleInv, Saving, durable, cycle, transaction, Savable, RevisionMismatch
<1>14. ASSUME NEW p \in Paths, SetFolderId(p) PROVE CycleInv'
  BY <1>14, BoundsAssumption DEF TypeOK, CycleInv, Saving, durable, cycle, transaction, Savable, SetFolderId
<1>15. ASSUME PurgeStaleSessions PROVE CycleInv'
  BY <1>15, BoundsAssumption DEF TypeOK, CycleInv, Saving, durable, cycle, transaction, Savable, PurgeStaleSessions
<1>16. ASSUME FinishCycle PROVE CycleInv'
  BY <1>16, BoundsAssumption DEF TypeOK, CycleInv, Saving, durable, cycle, transaction, Savable, FinishCycle
<1>17. ASSUME Shutdown PROVE CycleInv'
  BY <1>17, BoundsAssumption DEF TypeOK, CycleInv, Saving, durable, cycle, transaction, Savable, Shutdown
<1>18. ASSUME BeginWrite PROVE CycleInv'
  BY <1>18, BoundsAssumption DEF TypeOK, CycleInv, Saving, durable, cycle, transaction, Savable, BeginWrite
<1>19. ASSUME WriteTable PROVE CycleInv'
  BY <1>19, BoundsAssumption DEF TypeOK, CycleInv, Saving, durable, cycle, transaction, Savable, WriteTable
<1>20. ASSUME Commit PROVE CycleInv'
  BY <1>20, BoundsAssumption DEF TypeOK, CycleInv, Saving, durable, cycle, transaction, Savable, Commit
<1>21. ASSUME StoreFails PROVE CycleInv'
  BY <1>21, BoundsAssumption DEF TypeOK, CycleInv, Saving, durable, cycle, transaction, Savable, StoreFails
<1>22. ASSUME Crash PROVE CycleInv'
  BY <1>22, BoundsAssumption DEF TypeOK, CycleInv, Saving, durable, cycle, transaction, Savable, Crash
<1>23. ASSUME NEW r \in Rows, Damage(r) PROVE CycleInv'
  BY <1>23, BoundsAssumption DEF TypeOK, CycleInv, Saving, durable, cycle, transaction, Savable, Damage
<1>24. CASE UNCHANGED vars
  BY <1>24 DEF TypeOK, CycleInv, Saving, durable, cycle, transaction, Savable, vars, durable, cycle, transaction
<1>25. QED
  BY <1>1, <1>2, <1>3, <1>4, <1>5, <1>6, <1>7, <1>8, <1>9, <1>10, <1>11, <1>12, <1>13, <1>14, <1>15, <1>16, <1>17, <1>18, <1>19, <1>20, <1>21, <1>22, <1>23, <1>24 DEF Next
\* Memory and disk stand still between the batch and its commit.
LEMMA BatchStep ==
  ASSUME TypeOK, BatchInv, [Next]_vars
  PROVE  BatchInv'
<1>1. ASSUME Open PROVE BatchInv'
  BY <1>1 DEF BatchInv, durable, cycle, transaction, Open
<1>2. ASSUME Load PROVE BatchInv'
  BY <1>2 DEF BatchInv, durable, cycle, transaction, Load
<1>3. ASSUME RecoveryDone PROVE BatchInv'
  BY <1>3 DEF BatchInv, durable, cycle, transaction, RecoveryDone
<1>4. ASSUME NEW p \in Paths, DropPending(p) PROVE BatchInv'
  BY <1>4 DEF BatchInv, durable, cycle, transaction, DropPending
<1>5. ASSUME NEW p \in Paths, PurgePath(p) PROVE BatchInv'
  BY <1>5 DEF BatchInv, durable, cycle, transaction, PurgePath
<1>6. ASSUME NEW p \in Paths, ForgetRecovered(p) PROVE BatchInv'
  BY <1>6 DEF BatchInv, durable, cycle, transaction, ForgetRecovered
<1>7. ASSUME NEW p \in Paths, NEW kind \in Kinds, Plan(p, kind) PROVE BatchInv'
  BY <1>7 DEF BatchInv, durable, cycle, transaction, Plan, SetPending
<1>8. ASSUME NEW p \in Paths, Advance(p, "planned", "started") PROVE BatchInv'
  BY <1>8 DEF BatchInv, durable, cycle, transaction, Advance, SetPending
<1>9. ASSUME NEW p \in Paths, Advance(p, "started", "done") PROVE BatchInv'
  BY <1>9 DEF BatchInv, durable, cycle, transaction, Advance, SetPending
<1>10. ASSUME NEW p \in Paths, SaveSession(p) PROVE BatchInv'
  BY <1>10 DEF BatchInv, durable, cycle, transaction, SaveSession
<1>11. ASSUME NEW p \in Paths, Settle(p) PROVE BatchInv'
  BY <1>11 DEF BatchInv, durable, cycle, transaction, Settle, SetPending
<1>12. ASSUME NEW p \in Paths, TaskFails(p) PROVE BatchInv'
  BY <1>12 DEF BatchInv, durable, cycle, transaction, TaskFails
<1>13. ASSUME NEW p \in Paths, RevisionMismatch(p) PROVE BatchInv'
  BY <1>13 DEF BatchInv, durable, cycle, transaction, RevisionMismatch
<1>14. ASSUME NEW p \in Paths, SetFolderId(p) PROVE BatchInv'
  BY <1>14 DEF BatchInv, durable, cycle, transaction, SetFolderId
<1>15. ASSUME PurgeStaleSessions PROVE BatchInv'
  BY <1>15 DEF BatchInv, durable, cycle, transaction, PurgeStaleSessions
<1>16. ASSUME FinishCycle PROVE BatchInv'
  BY <1>16 DEF BatchInv, durable, cycle, transaction, FinishCycle
<1>17. ASSUME Shutdown PROVE BatchInv'
  BY <1>17 DEF BatchInv, durable, cycle, transaction, Shutdown
<1>18. ASSUME BeginWrite PROVE BatchInv'
  BY <1>18 DEF BatchInv, durable, cycle, transaction, BeginWrite
<1>19. ASSUME WriteTable PROVE BatchInv'
  BY <1>19 DEF BatchInv, durable, cycle, transaction, WriteTable
<1>20. ASSUME Commit PROVE BatchInv'
  BY <1>20 DEF TypeOK, BatchInv, Commit
<1>21. ASSUME StoreFails PROVE BatchInv'
  BY <1>21 DEF BatchInv, durable, cycle, transaction, StoreFails
<1>22. ASSUME Crash PROVE BatchInv'
  BY <1>22 DEF BatchInv, durable, cycle, transaction, Crash
<1>23. ASSUME NEW r \in Rows, Damage(r) PROVE BatchInv'
  BY <1>23 DEF BatchInv, durable, cycle, transaction, Damage
<1>24. CASE UNCHANGED vars
  BY <1>24 DEF BatchInv, durable, cycle, transaction, vars, durable, cycle, transaction
<1>25. QED
  BY <1>1, <1>2, <1>3, <1>4, <1>5, <1>6, <1>7, <1>8, <1>9, <1>10, <1>11, <1>12, <1>13, <1>14, <1>15, <1>16, <1>17, <1>18, <1>19, <1>20, <1>21, <1>22, <1>23, <1>24 DEF Next

\* Each table written is as the batch wants it, the others as on disk.
LEMMA DraftStep ==
  ASSUME TypeOK, BatchInv, DraftInv, [Next]_vars
  PROVE  DraftInv'
<1>1. ASSUME Open PROVE DraftInv'
  BY <1>1 DEF DraftInv, durable, cycle, transaction, Open
<1>2. ASSUME Load PROVE DraftInv'
  BY <1>2 DEF DraftInv, durable, cycle, transaction, Load
<1>3. ASSUME RecoveryDone PROVE DraftInv'
  BY <1>3 DEF DraftInv, durable, cycle, transaction, RecoveryDone
<1>4. ASSUME NEW p \in Paths, DropPending(p) PROVE DraftInv'
  BY <1>4 DEF DraftInv, durable, cycle, transaction, DropPending
<1>5. ASSUME NEW p \in Paths, PurgePath(p) PROVE DraftInv'
  BY <1>5 DEF DraftInv, durable, cycle, transaction, PurgePath
<1>6. ASSUME NEW p \in Paths, ForgetRecovered(p) PROVE DraftInv'
  BY <1>6 DEF DraftInv, durable, cycle, transaction, ForgetRecovered
<1>7. ASSUME NEW p \in Paths, NEW kind \in Kinds, Plan(p, kind) PROVE DraftInv'
  BY <1>7 DEF DraftInv, durable, cycle, transaction, Plan, SetPending
<1>8. ASSUME NEW p \in Paths, Advance(p, "planned", "started") PROVE DraftInv'
  BY <1>8 DEF DraftInv, durable, cycle, transaction, Advance, SetPending
<1>9. ASSUME NEW p \in Paths, Advance(p, "started", "done") PROVE DraftInv'
  BY <1>9 DEF DraftInv, durable, cycle, transaction, Advance, SetPending
<1>10. ASSUME NEW p \in Paths, SaveSession(p) PROVE DraftInv'
  BY <1>10 DEF DraftInv, durable, cycle, transaction, SaveSession
<1>11. ASSUME NEW p \in Paths, Settle(p) PROVE DraftInv'
  BY <1>11 DEF DraftInv, durable, cycle, transaction, Settle, SetPending
<1>12. ASSUME NEW p \in Paths, TaskFails(p) PROVE DraftInv'
  BY <1>12 DEF DraftInv, durable, cycle, transaction, TaskFails
<1>13. ASSUME NEW p \in Paths, RevisionMismatch(p) PROVE DraftInv'
  BY <1>13 DEF DraftInv, durable, cycle, transaction, RevisionMismatch
<1>14. ASSUME NEW p \in Paths, SetFolderId(p) PROVE DraftInv'
  BY <1>14 DEF DraftInv, durable, cycle, transaction, SetFolderId
<1>15. ASSUME PurgeStaleSessions PROVE DraftInv'
  BY <1>15 DEF DraftInv, durable, cycle, transaction, PurgeStaleSessions
<1>16. ASSUME FinishCycle PROVE DraftInv'
  BY <1>16 DEF DraftInv, durable, cycle, transaction, FinishCycle
<1>17. ASSUME Shutdown PROVE DraftInv'
  BY <1>17 DEF DraftInv, durable, cycle, transaction, Shutdown
<1>18. ASSUME BeginWrite PROVE DraftInv'
  BY <1>18 DEF DraftInv, durable, cycle, transaction, BeginWrite
<1>19. ASSUME WriteTable PROVE DraftInv'
  <2> DEFINE t == TableOrder[written + 1]
  <2>1. /\ pc = "writing" /\ written \in 0..3 /\ written' = written + 1
        /\ draft' = Applied(batch, draft, t)
        /\ UNCHANGED <<rows, mem, batch>>
    BY <1>19, OrderFacts DEF TypeOK, WriteTable, durable
  <2>2. \A r \in Rows : draft'[r] = IF r[1] # t THEN draft[r]
                                    ELSE IF batch.put[r] # Absent THEN batch.put[r]
                                    ELSE IF r \in batch.stale THEN Absent
                                    ELSE draft[r]
    BY <2>1 DEF Applied
  <2>3. \A r \in Rows : r \in batch.stale <=> rows[r] # Absent /\ batch.put[r] = Absent
    BY <2>1, PreparedTypes DEF BatchInv
  <2>4. ASSUME NEW r \in Rows
        PROVE  draft'[r] = IF \E i \in 1..written' : TableOrder[i] = r[1]
                             THEN batch.put[r] ELSE rows[r]
    <3>1. CASE r[1] # t
      <4>1. (\E i \in 1..written' : TableOrder[i] = r[1])
              <=> (\E i \in 1..written : TableOrder[i] = r[1])
        BY <3>1, <2>1
      <4>2. QED
        BY <4>1, <3>1, <2>1, <2>2 DEF DraftInv
    <3>2. CASE r[1] = t
      <4>1. ~ \E i \in 1..written : TableOrder[i] = r[1]
        BY <3>2, <2>1, OrderFacts
      <4>2. draft[r] = rows[r]
        BY <4>1, <2>1 DEF DraftInv
      <4>3. \E i \in 1..written' : TableOrder[i] = r[1]
        BY <3>2, <2>1
      <4>4. QED
        BY <4>2, <4>3, <3>2, <2>2, <2>3
    <3>3. QED
      BY <3>1, <3>2
  <2>5. QED
    BY <2>1, <2>4 DEF DraftInv
<1>20. ASSUME Commit PROVE DraftInv'
  BY <1>20 DEF DraftInv, durable, cycle, transaction, Commit
<1>21. ASSUME StoreFails PROVE DraftInv'
  BY <1>21 DEF DraftInv, durable, cycle, transaction, StoreFails
<1>22. ASSUME Crash PROVE DraftInv'
  BY <1>22 DEF DraftInv, durable, cycle, transaction, Crash
<1>23. ASSUME NEW r \in Rows, Damage(r) PROVE DraftInv'
  BY <1>23 DEF DraftInv, durable, cycle, transaction, Damage
<1>24. CASE UNCHANGED vars
  BY <1>24 DEF DraftInv, durable, cycle, transaction, vars, durable, cycle, transaction
<1>25. QED
  BY <1>1, <1>2, <1>3, <1>4, <1>5, <1>6, <1>7, <1>8, <1>9, <1>10, <1>11, <1>12, <1>13, <1>14, <1>15, <1>16, <1>17, <1>18, <1>19, <1>20, <1>21, <1>22, <1>23, <1>24 DEF Next

\* When the last table is written, the draft is the savable part of the memory.
LEMMA CommitSaves ==
  ASSUME TypeOK, BatchInv, DraftInv, pc = "writing", written = Len(TableOrder)
  PROVE  draft = Loaded(mem)
<1>1. batch.put = Loaded(mem)
  BY PreparedTypes DEF BatchInv
<1>2. \A r \in Rows : draft[r] = batch.put[r]
  BY OrderFacts, RowFacts DEF DraftInv
<1>3. QED
  BY <1>1, <1>2, LoadedTypes DEF TypeOK

\* A purged journal row waits for the purge to be on disk.
LEMMA RecoveryStep ==
  ASSUME TypeOK, BatchInv, DraftInv, RecoveryInv, [Next]_vars
  PROVE  RecoveryInv'
<1>1. ASSUME Open PROVE RecoveryInv'
  BY <1>1, RowFacts, ValueFacts DEF TypeOK, RecoveryInv, Saving, durable, cycle, transaction, Open
<1>2. ASSUME Load PROVE RecoveryInv'
  BY <1>2, RowFacts, ValueFacts DEF TypeOK, RecoveryInv, Saving, durable, cycle, transaction, Load
<1>3. ASSUME RecoveryDone PROVE RecoveryInv'
  BY <1>3, RowFacts, ValueFacts DEF TypeOK, RecoveryInv, Saving, durable, cycle, transaction, RecoveryDone
<1>4. ASSUME NEW p \in Paths, DropPending(p) PROVE RecoveryInv'
  BY <1>4, RowFacts, ValueFacts DEF TypeOK, RecoveryInv, Saving, durable, cycle, transaction, DropPending
<1>5. ASSUME NEW p \in Paths, PurgePath(p) PROVE RecoveryInv'
  BY <1>5, RowFacts, ValueFacts DEF TypeOK, RecoveryInv, Saving, durable, cycle, transaction, PurgePath
<1>6. ASSUME NEW p \in Paths, ForgetRecovered(p) PROVE RecoveryInv'
  BY <1>6, RowFacts, ValueFacts DEF TypeOK, RecoveryInv, Saving, durable, cycle, transaction, ForgetRecovered
<1>7. ASSUME NEW p \in Paths, NEW kind \in Kinds, Plan(p, kind) PROVE RecoveryInv'
  BY <1>7, RowFacts, ValueFacts DEF TypeOK, RecoveryInv, Saving, durable, cycle, transaction, Plan, SetPending
<1>8. ASSUME NEW p \in Paths, Advance(p, "planned", "started") PROVE RecoveryInv'
  BY <1>8, RowFacts, ValueFacts DEF TypeOK, RecoveryInv, Saving, durable, cycle, transaction, Advance, SetPending
<1>9. ASSUME NEW p \in Paths, Advance(p, "started", "done") PROVE RecoveryInv'
  BY <1>9, RowFacts, ValueFacts DEF TypeOK, RecoveryInv, Saving, durable, cycle, transaction, Advance, SetPending
<1>10. ASSUME NEW p \in Paths, SaveSession(p) PROVE RecoveryInv'
  BY <1>10, RowFacts, ValueFacts DEF TypeOK, RecoveryInv, Saving, durable, cycle, transaction, SaveSession
<1>11. ASSUME NEW p \in Paths, Settle(p) PROVE RecoveryInv'
  BY <1>11, RowFacts, ValueFacts DEF TypeOK, RecoveryInv, Saving, durable, cycle, transaction, Settle, SetPending
<1>12. ASSUME NEW p \in Paths, TaskFails(p) PROVE RecoveryInv'
  BY <1>12, RowFacts, ValueFacts DEF TypeOK, RecoveryInv, Saving, durable, cycle, transaction, TaskFails
<1>13. ASSUME NEW p \in Paths, RevisionMismatch(p) PROVE RecoveryInv'
  BY <1>13, RowFacts, ValueFacts DEF TypeOK, RecoveryInv, Saving, durable, cycle, transaction, RevisionMismatch
<1>14. ASSUME NEW p \in Paths, SetFolderId(p) PROVE RecoveryInv'
  BY <1>14, RowFacts, ValueFacts DEF TypeOK, RecoveryInv, Saving, durable, cycle, transaction, SetFolderId
<1>15. ASSUME PurgeStaleSessions PROVE RecoveryInv'
  BY <1>15, RowFacts, ValueFacts DEF TypeOK, RecoveryInv, Saving, durable, cycle, transaction, PurgeStaleSessions
<1>16. ASSUME FinishCycle PROVE RecoveryInv'
  BY <1>16, RowFacts, ValueFacts DEF TypeOK, RecoveryInv, Saving, durable, cycle, transaction, FinishCycle
<1>17. ASSUME Shutdown PROVE RecoveryInv'
  BY <1>17, RowFacts, ValueFacts DEF TypeOK, RecoveryInv, Saving, durable, cycle, transaction, Shutdown
<1>18. ASSUME BeginWrite PROVE RecoveryInv'
  BY <1>18, RowFacts, ValueFacts DEF TypeOK, RecoveryInv, Saving, durable, cycle, transaction, BeginWrite
<1>19. ASSUME WriteTable PROVE RecoveryInv'
  BY <1>19, RowFacts, ValueFacts DEF TypeOK, RecoveryInv, Saving, durable, cycle, transaction, WriteTable
<1>20. ASSUME Commit PROVE RecoveryInv'
  <2>1. draft = Loaded(mem)
    BY <1>20, CommitSaves DEF Commit
  <2>2. \A r \in Rows : mem[r] = Absent => rows'[r] = Absent
    BY <1>20, <2>1 DEF Commit, Loaded
  <2>3. CASE why = "recovery"
    BY <1>20, <2>2, <2>3, RowFacts DEF TypeOK, RecoveryInv, Saving, Commit, cycle, transaction
  <2>4. CASE why # "recovery"
    BY <1>20, <2>4 DEF TypeOK, RecoveryInv, Saving, Commit
  <2>5. QED
    BY <2>3, <2>4
<1>21. ASSUME StoreFails PROVE RecoveryInv'
  BY <1>21, RowFacts, ValueFacts DEF TypeOK, RecoveryInv, Saving, durable, cycle, transaction, StoreFails
<1>22. ASSUME Crash PROVE RecoveryInv'
  BY <1>22, RowFacts, ValueFacts DEF TypeOK, RecoveryInv, Saving, durable, cycle, transaction, Crash
<1>23. ASSUME NEW r \in Rows, Damage(r) PROVE RecoveryInv'
  BY <1>23, RowFacts, ValueFacts DEF TypeOK, RecoveryInv, Saving, durable, cycle, transaction, Damage
<1>24. CASE UNCHANGED vars
  BY <1>24 DEF TypeOK, RecoveryInv, Saving, durable, cycle, transaction, vars, durable, cycle, transaction
<1>25. QED
  BY <1>1, <1>2, <1>3, <1>4, <1>5, <1>6, <1>7, <1>8, <1>9, <1>10, <1>11, <1>12, <1>13, <1>14, <1>15, <1>16, <1>17, <1>18, <1>19, <1>20, <1>21, <1>22, <1>23, <1>24 DEF Next

\* Results stay what the memory holds until the cycle ends.
LEMMA ResultStep ==
  ASSUME TypeOK, CycleInv, RecoveryInv, ResultInv, [Next]_vars
  PROVE  ResultInv'
<1>1. ASSUME Open PROVE ResultInv'
  BY <1>1, RowFacts, ValueFacts DEF ResultInv, Saving, durable, cycle, transaction, Open
<1>2. ASSUME Load PROVE ResultInv'
  BY <1>2 DEF ResultInv, Saving, Load, NoResult
<1>3. ASSUME RecoveryDone PROVE ResultInv'
  <2>1. result' = result
    BY <1>3 DEF RecoveryDone
  <2>2. ASSUME recovered = {}
        PROVE  ResultInv'
    <3>1. \A p \in Paths : journal'[p] = NoOp /\ result'[p] = {}
      BY <1>3, <2>2 DEF RecoveryDone, RecoveryInv, NoResult, durable
    <3>2. QED
      BY <3>1, <2>1, PendingTypes DEF ResultInv, Stages
  <2>3. ASSUME recovered # {}
        PROVE  ResultInv'
    BY <1>3, <2>1, <2>3 DEF RecoveryDone, ResultInv, Saving
  <2>4. QED
    BY <2>2, <2>3
<1>4. ASSUME NEW p \in Paths, DropPending(p) PROVE ResultInv'
  BY <1>4, RowFacts, ValueFacts DEF ResultInv, Saving, durable, cycle, transaction, DropPending
<1>5. ASSUME NEW p \in Paths, PurgePath(p) PROVE ResultInv'
  BY <1>5, RowFacts, ValueFacts DEF ResultInv, Saving, durable, cycle, transaction, PurgePath
<1>6. ASSUME NEW p \in Paths, ForgetRecovered(p) PROVE ResultInv'
  <2>1. result' = result
    BY <1>6 DEF ForgetRecovered
  <2>2. ASSUME recovered' = {}
        PROVE  ResultInv'
    <3>1. \A q \in Paths : journal'[q] = NoOp
      BY <1>6, <2>2 DEF ForgetRecovered, RecoveryInv, TypeOK
    <3>2. \A q \in Paths : result'[q] = {}
      BY <1>6, <2>1 DEF ForgetRecovered, RecoveryInv, NoResult
    <3>3. QED
      BY <3>1, <3>2, <2>1, PendingTypes DEF ResultInv, Stages
  <2>3. ASSUME recovered' # {}
        PROVE  ResultInv'
    BY <1>6, <2>1, <2>3 DEF ForgetRecovered, ResultInv, Saving
  <2>4. QED
    BY <2>2, <2>3
<1>7. ASSUME NEW p \in Paths, NEW kind \in Kinds, Plan(p, kind) PROVE ResultInv'
  BY <1>7, PendingTypes DEF TypeOK, ResultInv, Saving, Plan, SetPending, transaction, Stages
<1>8. ASSUME NEW p \in Paths, Advance(p, "planned", "started") PROVE ResultInv'
  BY <1>8, RowFacts, ValueFacts DEF ResultInv, Saving, durable, cycle, transaction, Advance, SetPending
<1>9. ASSUME NEW p \in Paths, Advance(p, "started", "done") PROVE ResultInv'
  BY <1>9, RowFacts, ValueFacts DEF ResultInv, Saving, durable, cycle, transaction, Advance, SetPending
<1>10. ASSUME NEW p \in Paths, SaveSession(p) PROVE ResultInv'
  <2>1. PICK v : mem' = [mem EXCEPT ![<<"session", p>>] = v]
    BY <1>10 DEF SaveSession
  <2>2. \A q \in Paths \ {p} : \A t \in PathTables : mem'[<<t, q>>] = mem[<<t, q>>]
    BY <2>1, RowFacts DEF TypeOK
  <2>3. \A q \in Paths \ {p} :
          [t \in PathTables |-> Loaded(mem')[<<t, q>>]]
            = [t \in PathTables |-> Loaded(mem)[<<t, q>>]]
    BY <2>2, SameRowsLoad
  <2>4. journal[p].stage # "committed"
    BY <1>10 DEF SaveSession
  <2>5. /\ pc = "running" /\ pc' = "running" /\ result' = result
        /\ journal' = journal /\ running' = running
    BY <1>10 DEF SaveSession, durable, cycle
  <2>6. ASSUME NEW q \in Paths, journal[q].stage = "committed"
        PROVE  /\ q \notin running
               /\ result[q] = {[t \in PathTables |-> Loaded(mem')[<<t, q>>]]}
    BY <2>3, <2>4, <2>5, <2>6 DEF ResultInv
  <2>7. \A q \in Paths : journal[q].stage # "committed" => result[q] = {}
    BY <2>5 DEF ResultInv
  <2>8. QED
    BY <2>5, <2>6, <2>7 DEF ResultInv
<1>11. ASSUME NEW p \in Paths, Settle(p) PROVE ResultInv'
  <2>1. PICK what \in Outcomes(p) : mem' = Settled(p, what)
    BY <1>11 DEF Settle
  <2>2. \A q \in Paths \ {p} : \A t \in PathTables : mem'[<<t, q>>] = mem[<<t, q>>]
    BY <2>1, RowFacts DEF Settled
  <2>3. \A q \in Paths \ {p} :
          [t \in PathTables |-> Loaded(mem')[<<t, q>>]]
            = [t \in PathTables |-> Loaded(mem)[<<t, q>>]]
    BY <2>2, SameRowsLoad
  <2>4. \A q \in Paths \ {p} :
          /\ journal'[q] = journal[q] /\ result'[q] = result[q]
          /\ (q \in running' <=> q \in running)
    BY <1>11 DEF TypeOK, Settle, SetPending, ResultInv
  <2>5. /\ p \notin running' /\ journal'[p].stage = "committed"
        /\ result'[p] = {[t \in PathTables |-> Loaded(mem')[<<t, p>>]]}
    BY <1>11 DEF TypeOK, Settle, SetPending, ResultInv
  <2>6. result' = [q \in Paths |-> result'[q]]
    BY <1>11 DEF Settle, ResultInv
  <2>7. QED
    BY <1>11, <2>3, <2>4, <2>5, <2>6 DEF ResultInv, Settle
<1>12. ASSUME NEW p \in Paths, TaskFails(p) PROVE ResultInv'
  <2>1. CASE UNCHANGED mem
    BY <1>12, <2>1, PendingTypes DEF TypeOK, ResultInv, Saving, TaskFails, transaction, Stages
  <2>2. CASE journal[p].stage = "done" /\ UNCHANGED journal
    <3>1. PICK what \in Outcomes(p) : mem' = mem \/ mem' = Settled(p, what)
      BY <1>12, <2>2 DEF TaskFails, Outcomes
    <3>2. \A q \in Paths \ {p} : \A t \in PathTables : mem'[<<t, q>>] = mem[<<t, q>>]
      BY <3>1, RowFacts DEF Settled
    <3>3. \A q \in Paths \ {p} :
            [t \in PathTables |-> Loaded(mem')[<<t, q>>]]
              = [t \in PathTables |-> Loaded(mem)[<<t, q>>]]
      BY <3>2, SameRowsLoad
    <3>4. QED
      BY <1>12, <2>2, <3>3 DEF ResultInv, Saving, TaskFails, transaction
  <2>3. QED
    BY <1>12, <2>1, <2>2 DEF TaskFails
<1>13. ASSUME NEW p \in Paths, RevisionMismatch(p) PROVE ResultInv'
  BY <1>13, PendingTypes DEF TypeOK, ResultInv, Saving, RevisionMismatch, transaction, Stages
<1>14. ASSUME NEW p \in Paths, SetFolderId(p) PROVE ResultInv'
  <2>1. \A q \in Paths : \A r \in RowsOf(q) : mem'[r] = mem[r]
    <3>1. PICK v : mem' = [mem EXCEPT ![<<"folder", p>>] = v]
      BY <1>14 DEF SetFolderId
    <3>2. QED
      BY <3>1, RowFacts DEF TypeOK, PathTables
  <2>2. \A q \in Paths : \A t \in PathTables : mem'[<<t, q>>] = mem[<<t, q>>]
    BY <2>1, RowFacts
  <2>3. \A q \in Paths :
          [t \in PathTables |-> Loaded(mem')[<<t, q>>]]
            = [t \in PathTables |-> Loaded(mem)[<<t, q>>]]
    BY <2>2, SameRowsLoad
  <2>4. QED
    BY <1>14, <2>3
    DEF ResultInv, Saving, SetFolderId, durable, cycle, transaction
<1>15. ASSUME PurgeStaleSessions PROVE ResultInv'
  <2>1. /\ pc = "running" /\ pc' = "running" /\ result' = result
        /\ journal' = journal /\ running' = running /\ result = NoResult
    BY <1>15 DEF PurgeStaleSessions, durable, cycle
  <2>2. \A p \in Paths : journal[p].stage # "committed"
    BY <2>1 DEF ResultInv, NoResult
  <2>3. QED
    BY <2>1, <2>2 DEF ResultInv, NoResult
<1>16. ASSUME FinishCycle PROVE ResultInv'
  BY <1>16, RowFacts, ValueFacts DEF ResultInv, Saving, durable, cycle, transaction, FinishCycle
<1>17. ASSUME Shutdown PROVE ResultInv'
  BY <1>17, RowFacts, ValueFacts DEF ResultInv, Saving, durable, cycle, transaction, Shutdown
<1>18. ASSUME BeginWrite PROVE ResultInv'
  BY <1>18, RowFacts, ValueFacts DEF ResultInv, Saving, durable, cycle, transaction, BeginWrite
<1>19. ASSUME WriteTable PROVE ResultInv'
  BY <1>19, RowFacts, ValueFacts DEF ResultInv, Saving, durable, cycle, transaction, WriteTable
<1>20. ASSUME Commit PROVE ResultInv'
  BY <1>20 DEF TypeOK, ResultInv, Saving, Commit
<1>21. ASSUME StoreFails PROVE ResultInv'
  BY <1>21, RowFacts, ValueFacts DEF ResultInv, Saving, durable, cycle, transaction, StoreFails
<1>22. ASSUME Crash PROVE ResultInv'
  BY <1>22, RowFacts, ValueFacts DEF ResultInv, Saving, durable, cycle, transaction, Crash
<1>23. ASSUME NEW r \in Rows, Damage(r) PROVE ResultInv'
  BY <1>23, RowFacts, ValueFacts DEF ResultInv, Saving, durable, cycle, transaction, Damage
<1>24. CASE UNCHANGED vars
  BY <1>24 DEF ResultInv, Saving, durable, cycle, transaction, vars, durable, cycle, transaction
<1>25. QED
  BY <1>1, <1>2, <1>3, <1>4, <1>5, <1>6, <1>7, <1>8, <1>9, <1>10, <1>11, <1>12, <1>13, <1>14, <1>15, <1>16, <1>17, <1>18, <1>19, <1>20, <1>21, <1>22, <1>23, <1>24 DEF Next

-----------------------------------------------------------------------------
(* The invariant.                                                          *)

\* The strengthened invariant holds initially.
LEMMA InitInv == Init => IInv
<1> SUFFICES ASSUME Init PROVE IInv
  OBVIOUS
<1>1. TypeOK
  <2>1. rows \in [Rows -> Savable \union {Absent, Damaged}] /\ draft = rows
    BY DEF Init, NoRows
  <2>2. mem \in [Rows -> Values \union {Absent}]
    BY DEF Init, NoRows
  <2>3. journal \in [Paths -> PendingOps \union {NoOp}]
    BY DEF Init
  <2>4. /\ batch.put \in [Rows -> Savable \union {Absent}]
        /\ batch.stale \subseteq Rows
    BY DEF Init, NoBatch, NoRows
  <2>5. token \in 0..MaxCycles /\ ops \in 0..MaxOps /\ faults \in 0..MaxFaults
    BY BoundsAssumption DEF Init
  <2>6. written \in 0..Len(TableOrder)
    BY OrderFacts DEF Init
  <2>7. /\ pc = "down" /\ todo = {} /\ recovered = {} /\ running = {}
        /\ failed = FALSE /\ why = "cycle"
    BY DEF Init
  <2>8. QED
    BY <2>1, <2>2, <2>3, <2>4, <2>5, <2>6, <2>7 DEF TypeOK
<1>2. CycleInv /\ BatchInv /\ DraftInv
  BY DEF Init, CycleInv, BatchInv, DraftInv, Saving
<1>3. RecoveryInv /\ ResultInv
  BY DEF Init, RecoveryInv, ResultInv, Saving, NoResult
<1>4. QED
  BY <1>1, <1>2, <1>3 DEF IInv

\* Every step preserves it.
LEMMA StepInv == IInv /\ [Next]_vars => IInv'
BY TypeStep, CycleStep, BatchStep, DraftStep, RecoveryStep, ResultStep DEF IInv

\* The invariant of the store: whatever happens, batch, draft, journal and
\* results fit memory and disk.
THEOREM Invariance == Spec => []IInv
<1>1. Init => IInv
  BY InitInv
<1>2. IInv /\ [Next]_vars => IInv'
  BY StepInv
<1>3. QED
  BY <1>1, <1>2, PTL DEF Spec

\* Every variable of the store keeps its type (TypeOK).
THEOREM TypeCorrect == Spec => []TypeOK
<1>1. IInv => TypeOK
  BY DEF IInv
<1>2. QED
  BY <1>1, Invariance, PTL

-----------------------------------------------------------------------------
(* The refinement.                                                         *)

\* The disk of a fresh store holds nothing.
LEMMA InitRefines == Init => Promise!Init
BY ValueFacts DEF Init, Promise!Init, Promise!Empty, NoRows, Loaded

\* A step that leaves disk and token alone is work of the memory, or nothing.
LEMMA MemoryStepRefines ==
  ASSUME TypeOK', UNCHANGED <<rows, token>>
  PROVE  Promise!Work
BY DEF TypeOK, Promise!Work

\* The commit is a save: all tables and the token at once.
LEMMA CommitRefines ==
  ASSUME IInv, Commit
  PROVE  Promise!Save
<1>1. draft = Loaded(mem)
  BY CommitSaves DEF IInv, Commit
<1>2. Loaded(rows') = Loaded(mem)
  BY <1>1 DEF Commit, Loaded
<1>3. Loaded(mem) = Promise!Kept(mem)
  BY DEF Loaded, Promise!Kept
<1>4. Loaded(rows)' = Loaded(rows')
  BY DEF Loaded
<1>5. QED
  BY <1>2, <1>3, <1>4 DEF Promise!Save, Commit

\* A damaged row is lost, and no other.
LEMMA DamageRefines ==
  ASSUME IInv, NEW r \in Rows, Damage(r)
  PROVE  Promise!LoseRow
<1>1. Loaded(rows)' = [Loaded(rows) EXCEPT ![r] = Absent]
  BY ValueFacts DEF IInv, TypeOK, Damage, Loaded
<1>2. QED
  BY <1>1 DEF Damage, Promise!LoseRow

\* Every step of the store is a step of the checkpoint or none.
LEMMA StepRefines ==
  ASSUME IInv, IInv', [Next]_vars
  PROVE  [Promise!Next]_(Promise!checkpointVars)
<1>1. CASE UNCHANGED <<rows, token>>
  BY <1>1, MemoryStepRefines DEF IInv, Promise!Next
<1>2. CASE Commit
  BY <1>2, CommitRefines DEF Promise!Next
<1>3. CASE \E r \in Rows : Damage(r)
  BY <1>3, DamageRefines DEF Promise!Next
<1>4. UNCHANGED <<rows, token>> \/ Commit \/ \E r \in Rows : Damage(r)
  BY DEF Next, vars, durable, Open, Load, RecoveryDone, DropPending, PurgePath,
         ForgetRecovered, Plan, Advance, SaveSession, Settle, TaskFails,
         RevisionMismatch, SetFolderId, PurgeStaleSessions, FinishCycle,
         Shutdown, BeginWrite, WriteTable, StoreFails, Crash
<1>5. QED
  BY <1>1, <1>2, <1>3, <1>4

\* The session store implements Checkpoint (ImplementsCheckpoint): what a load
\* would find changes only as a whole, into exactly what the memory held that
\* can be written, for any set of paths and any number of operations, cycles
\* and faults.
THEOREM StoreImplementsCheckpoint == Spec => ImplementsCheckpoint
<1>1. Init => Promise!Init
  BY InitRefines
<1>2. IInv /\ IInv' /\ [Next]_vars => [Promise!Next]_(Promise!checkpointVars)
  BY StepRefines
<1>3. QED
  BY <1>1, <1>2, Invariance, PTL DEF Spec, ImplementsCheckpoint, Promise!Spec

-----------------------------------------------------------------------------
(* Journal and token.                                                      *)

\* What a load would find of a path once its rows are what memory holds.
LEMMA CommitShowsResults ==
  ASSUME IInv, Commit, why = "cycle", NEW p \in Paths,
         journal[p].stage = "committed"
  PROVE  result[p] = {SavedRows(p)'}
<1>1. result[p] = {[t \in PathTables |-> Loaded(mem)[<<t, p>>]]}
  BY DEF IInv, ResultInv, Saving, Commit
<1>2. Loaded(rows') = Loaded(mem)
  BY CommitSaves DEF IInv, Commit, Loaded
<1>3. SavedRows(p)' = [t \in PathTables |-> Loaded(rows')[<<t, p>>]]
  BY DEF SavedRows, Loaded
<1>4. QED
  BY <1>1, <1>2, <1>3

\* A purged path has no row left on disk when its journal row goes.
LEMMA ForgetShowsPurge ==
  ASSUME IInv, NEW p \in Paths, ForgetRecovered(p)
  PROVE  SavedRows(p)' = NoneSaved
<1>1. \A r \in RowsOf(p) : rows'[r] = Absent
  BY DEF IInv, RecoveryInv, ForgetRecovered
<1>2. \A t \in PathTables : Loaded(rows')[<<t, p>>] = Absent
  BY <1>1, RowFacts, ValueFacts DEF Loaded
<1>3. SavedRows(p)' = [t \in PathTables |-> Loaded(rows')[<<t, p>>]]
  BY DEF SavedRows, Loaded
<1>4. QED
  BY <1>2, <1>3 DEF NoneSaved

\* One step: a journal row only goes when nothing needs it.
LEMMA JournalStep ==
  ASSUME IInv, [Next]_vars, NEW p \in Paths, journal[p] # NoOp, journal'[p] = NoOp
  PROVE  \/ pc = "running"
         \/ Keeps(journal[p]) /\ pc = "recovering"
         \/ journal[p].stage = "committed" /\ result[p] = {SavedRows(p)'}
         \/ SavedRows(p)' = NoneSaved
<1>1. CASE \E q \in Paths : DropPending(q)
  BY <1>1 DEF IInv, TypeOK, DropPending
<1>2. CASE \E q \in Paths : ForgetRecovered(q)
  BY <1>2, ForgetShowsPurge DEF IInv, TypeOK, ForgetRecovered
<1>3. CASE Commit
  BY <1>3, CommitShowsResults DEF Commit
<1>4. CASE pc = "running"
  BY <1>4
<1>5. UNCHANGED journal \/ pc = "running" \/ Commit
        \/ \E q \in Paths : DropPending(q) \/ ForgetRecovered(q)
  BY DEF Next, vars, durable, Open, Load, RecoveryDone, PurgePath,
         Plan, Advance, SaveSession, Settle, TaskFails,
         RevisionMismatch, SetFolderId, PurgeStaleSessions, FinishCycle,
         Shutdown, BeginWrite, WriteTable, StoreFails, Crash, Damage
<1>6. QED
  BY <1>1, <1>2, <1>3, <1>4, <1>5

\* A journal row goes only when nothing needs it any more (JournalFollowsRows).
THEOREM JournalIsKept == Spec => JournalFollowsRows
<1>1. IInv /\ [Next]_vars =>
        [\A p \in Paths : journal[p] # NoOp /\ journal'[p] = NoOp =>
           \/ pc = "running"
           \/ Keeps(journal[p]) /\ pc = "recovering"
           \/ journal[p].stage = "committed" /\ result[p] = {SavedRows(p)'}
           \/ SavedRows(p)' = NoneSaved]_vars
  BY JournalStep
<1>2. QED
  BY <1>1, Invariance, PTL DEF Spec, JournalFollowsRows

\* One step: the token moves with the rows of every task of its cycle.
LEMMA TokenStep ==
  ASSUME IInv, [Next]_vars, token' # token, NEW p \in Paths
  PROVE  result[p] \in {{}, {SavedRows(p)'}}
<1>1. Commit /\ why = "cycle"
  BY DEF Next, vars, durable, Open, Load, RecoveryDone, DropPending, PurgePath,
         ForgetRecovered, Plan, Advance, SaveSession, Settle, TaskFails,
         RevisionMismatch, SetFolderId, PurgeStaleSessions, FinishCycle,
         Shutdown, BeginWrite, WriteTable, Commit, StoreFails, Crash, Damage
<1>2. CASE journal[p].stage = "committed"
  BY <1>1, <1>2, CommitShowsResults
<1>3. CASE journal[p].stage # "committed"
  BY <1>1, <1>3 DEF IInv, ResultInv, Saving, Commit
<1>4. QED
  BY <1>2, <1>3

\* The token becomes durable together with the rows of every task of its
\* cycle (TokenWithRows).
THEOREM TokenIsEarned == Spec => TokenWithRows
<1>1. IInv /\ [Next]_vars =>
        [token' # token =>
           \A p \in Paths : result[p] \in {{}, {SavedRows(p)'}}]_vars
  BY TokenStep
<1>2. QED
  BY <1>1, Invariance, PTL DEF Spec, TokenWithRows
=============================================================================
