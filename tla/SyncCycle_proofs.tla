-------------------------- MODULE SyncCycle_proofs ---------------------------
(***************************************************************************)
(* Proofs about the sync cycle, for every number of devices, files, paths  *)
(* and contents, every policy, every start, and any number of crashes.     *)
(*                                                                         *)
(* First part: no effect of the executor comes before its journal entry    *)
(* (WriteAhead of SyncProperties).  WriteAhead speaks of single steps;     *)
(* JInv is the invariant behind it.  It ties the journal entry of a path   *)
(* to where the task of the path stands: from the step that starts the     *)
(* effect to the one that commits it, the entry of that path, and of that  *)
(* kind of operation, is in redb.  It needs that a task cannot outlive its *)
(* cycle (no task is left while a device is not running), since recovery   *)
(* rewrites the whole journal.  Of the types it says no more than that     *)
(* tasks and journals have the shape of functions.                         *)
(*                                                                         *)
(* Second part: the types (TypeOK).  TInv is the invariant behind them: a  *)
(* task has what its steps need, whatever other devices and users do while *)
(* it runs; what a device knows is of files that exist; and the feed has   *)
(* the files that exist in one order, so that a batch of changes has a     *)
(* last one.  The remote views are built one file at a time by recursion   *)
(* over a set: the lemmas before the first part are for that.              *)
(***************************************************************************)
EXTENDS SyncProperties, FiniteSetTheorems, TLAPS

-----------------------------------------------------------------------------
(* Induction over finite sets, and functions defined by recursion over     *)
(* their subsets.  A set of pairs stands for an order, a function for a    *)
(* step, so that every lemma is about values; induction takes a smallest   *)
(* counterexample.                                                         *)

\* Induction over the subsets of a finite set, as minimal counterexample.
LEMMA MinimalSet ==
  ASSUME NEW F, IsFiniteSet(F), NEW C, C \subseteq SUBSET F, C # {}
  PROVE  \E S \in C : \A T \in C : T \subseteq S => T = S
<1> DEFINE R == StrictSubsetOrdering(F)
<1>1. IsWellFoundedOn(R, SUBSET F)
  BY FS_StrictSubsetOrderingWellFounded, FS_FiniteSubsetsOfFinite
<1> HIDE DEF R
<1>2. PICK S \in C : \A T \in C : ~ (<<T, S>> \in R)
  BY <1>1, WFMin
<1>3. ASSUME NEW T \in C, T \subseteq S, T # S
      PROVE  <<T, S>> \in R
  BY <1>3 DEF R, StrictSubsetOrdering
<1> WITNESS S \in C
<1> QED
  BY <1>2, <1>3

\* A total order, as a set of pairs, has a last element in any finite set.
LEMMA LastExists ==
  ASSUME NEW F, IsFiniteSet(F), F # {}, NEW R,
         \A x, y \in F : x # y => <<x, y>> \in R \/ <<y, x>> \in R,
         \A x, y, z \in F : <<x, y>> \in R /\ <<y, z>> \in R => <<x, z>> \in R
  PROVE  \E x \in F : \A y \in F \ {x} : <<y, x>> \in R
<1> DEFINE Good(S) == \E x \in S : \A y \in S \ {x} : <<y, x>> \in R
           C == {S \in SUBSET F : S # {} /\ ~Good(S)}
<1> SUFFICES ASSUME C # {} PROVE FALSE
  OBVIOUS
<1>1. C \subseteq SUBSET F
  OBVIOUS
<1> HIDE DEF C
<1>2. PICK S \in C : \A T \in C : T \subseteq S => T = S
  BY <1>1, MinimalSet
<1>3. S \subseteq F /\ S # {} /\ ~Good(S)
  BY DEF C
<1>4. PICK x \in S : TRUE
  BY <1>3
<1>5. S \ {x} \notin C
  BY <1>2
<1>6. CASE S \ {x} = {}
  BY <1>3, <1>6
<1>7. CASE S \ {x} # {}
  <2>1. Good(S \ {x})
    BY <1>3, <1>5, <1>7 DEF C
  <2>2. PICK y \in S \ {x} : \A z \in (S \ {x}) \ {y} : <<z, y>> \in R
    BY <2>1
  <2>3. CASE <<x, y>> \in R
    BY <1>3, <2>2, <2>3
  <2>4. CASE <<y, x>> \in R
    <3>1. \A z \in S \ {x} : <<z, x>> \in R
      BY <1>3, <2>2, <2>4
    <3> QED
      BY <1>3, <3>1
  <2> QED
    BY <1>3, <2>3, <2>4
<1> QED
  BY <1>6, <1>7

\* A set of naturals has a least element.
LEMMA LeastNatural ==
  ASSUME NEW S, S \subseteq Nat, S # {}
  PROVE  \E x \in S : \A y \in S : x <= y
<1>1. PICK k \in S : TRUE
  OBVIOUS
<1> DEFINE T == S \cap 0..k
           R == {e \in T \X T : e[1] > e[2]}
<1>2. IsFiniteSet(0..k) /\ T \in SUBSET (0..k) /\ k \in T
  BY <1>1, FS_Interval
<1>3. IsFiniteSet(T)
  BY <1>2, FS_Subset
<1>4. \A x, y \in T : <<x, y>> \in R <=> x > y
  OBVIOUS
<1>5. T \subseteq Nat
  OBVIOUS
<1> HIDE DEF R
<1>6. /\ \A x, y \in T : x # y => <<x, y>> \in R \/ <<y, x>> \in R
      /\ \A x, y, z \in T : <<x, y>> \in R /\ <<y, z>> \in R => <<x, z>> \in R
  BY <1>4, <1>5
<1>7. PICK x \in T : \A y \in T \ {x} : <<y, x>> \in R
  <2> HIDE DEF T
  <2> QED
    BY <1>2, <1>3, <1>6, LastExists
<1>8. ASSUME NEW y \in S, y < x
      PROVE  FALSE
  <2>1. y \in T
    BY <1>8
  <2>2. x \in Nat /\ y \in Nat /\ y # x
    BY <1>5, <1>8, <2>1
  <2>3. y > x
    BY <1>4, <1>7, <2>1, <2>2
  <2> QED
    BY <1>8, <2>2, <2>3
<1>9. \A y \in S : x <= y
  BY <1>5, <1>8
<1> QED
  BY <1>7, <1>9

-----------------------------------------------------------------------------
(* Functions defined by recursion over the subsets of a finite set: one    *)
(* element, the last, is taken away at a time.                             *)

\* last picks a member of every set that has one.
TakesLast(F, last) == \A S \in SUBSET F : S # {} => last[S] \in S

\* g is defined from base by step, one last element at a time.
Solves(g, F, base, last, step) ==
  \A S \in SUBSET F :
    g[S] = IF S = {} THEN base ELSE step[last[S]][g[S \ {last[S]}]]

\* What holds of the base and is kept by every step holds of every value.
LEMMA RecursionType ==
  ASSUME NEW F, IsFiniteSet(F), NEW V, NEW last, TakesLast(F, last), NEW h,
         h[{}] \in V,
         \A S \in SUBSET F : S # {} /\ h[S \ {last[S]}] \in V => h[S] \in V
  PROVE  \A S \in SUBSET F : h[S] \in V
<1> DEFINE C == {S \in SUBSET F : h[S] \notin V}
<1> SUFFICES ASSUME C # {} PROVE FALSE
  OBVIOUS
<1>1. C \subseteq SUBSET F
  OBVIOUS
<1> HIDE DEF C
<1>2. PICK S \in C : \A T \in C : T \subseteq S => T = S
  BY <1>1, MinimalSet
<1>3. S \in SUBSET F /\ h[S] \notin V
  BY DEF C
<1>4. S # {} /\ last[S] \in S
  BY <1>3 DEF TakesLast
<1>5. S \ {last[S]} \notin C
  BY <1>2, <1>4
<1> QED
  BY <1>3, <1>4, <1>5 DEF C

\* There is at most one such function.
LEMMA RecursionUnique ==
  ASSUME NEW F, IsFiniteSet(F), NEW base, NEW last, NEW step,
         TakesLast(F, last), NEW g, NEW h,
         Solves(g, F, base, last, step), Solves(h, F, base, last, step)
  PROVE  \A S \in SUBSET F : g[S] = h[S]
<1> DEFINE C == {S \in SUBSET F : g[S] # h[S]}
<1> SUFFICES ASSUME C # {} PROVE FALSE
  OBVIOUS
<1>1. C \subseteq SUBSET F
  OBVIOUS
<1> HIDE DEF C
<1>2. PICK S \in C : \A T \in C : T \subseteq S => T = S
  BY <1>1, MinimalSet
<1>3. S \in SUBSET F /\ g[S] # h[S]
  BY DEF C
<1>4. S # {} /\ last[S] \in S
  BY <1>3 DEF Solves, TakesLast
<1>5. S \ {last[S]} \notin C
  BY <1>2, <1>4
<1>6. g[S \ {last[S]}] = h[S \ {last[S]}]
  BY <1>3, <1>5 DEF C
<1> QED
  BY <1>3, <1>4, <1>6 DEF Solves

\* There is one.
LEMMA RecursionExists ==
  ASSUME NEW F, IsFiniteSet(F), NEW V, NEW base \in V, NEW last, NEW step,
         TakesLast(F, last), step \in [F -> [V -> V]]
  PROVE  \E g \in [SUBSET F -> V] : Solves(g, F, base, last, step)
<1> DEFINE Solutions(S) == {g \in [SUBSET S -> V] : Solves(g, S, base, last, step)}
           C == {S \in SUBSET F : Solutions(S) = {}}
<1> SUFFICES ASSUME C # {} PROVE FALSE
  OBVIOUS
<1>1. C \subseteq SUBSET F
  OBVIOUS
<1> HIDE DEF C
<1>2. PICK S \in C : \A T \in C : T \subseteq S => T = S
  BY <1>1, MinimalSet
<1>3. S \in SUBSET F /\ Solutions(S) = {}
  BY DEF C
<1> DEFINE G == [T \in SUBSET S |-> CHOOSE g : g \in Solutions(T)]
<1>4. ASSUME NEW T \in SUBSET S, T # S
      PROVE  G[T] \in Solutions(T)
  <2>1. T \notin C /\ T \in SUBSET F
    BY <1>2, <1>3, <1>4
  <2>2. Solutions(T) # {}
    BY <2>1 DEF C
  <2> QED
    BY <2>2
<1> HIDE DEF G
<1>5. ASSUME NEW T \in SUBSET S, NEW U \in SUBSET T, T # S
      PROVE  G[T][U] = G[U][U]
  <2>1. G[T] \in Solutions(T) /\ G[U] \in Solutions(U)
    BY <1>4, <1>5
  <2>2. Solves(G[T], T, base, last, step) /\ Solves(G[U], U, base, last, step)
    BY <2>1
  <2>3. Solves(G[T], U, base, last, step)
    BY <2>2 DEF Solves
  <2>4. IsFiniteSet(U) /\ TakesLast(U, last)
    BY <1>3, FS_Subset DEF TakesLast
  <2> HIDE DEF Solutions
  <2> QED
    BY <2>2, <2>3, <2>4, RecursionUnique
<1> DEFINE Rest == S \ {last[S]}
           Whole == IF S = {} THEN base ELSE step[last[S]][G[Rest][Rest]]
           g == [T \in SUBSET S |-> IF T = S THEN Whole ELSE G[T][T]]
<1>6. S # {} => last[S] \in S /\ Rest \in SUBSET S /\ Rest # S
  BY <1>3 DEF TakesLast
<1>7. \A T \in SUBSET S : T # S => G[T][T] \in V
  BY <1>4
<1>8. Whole \in V
  BY <1>3, <1>6, <1>7
<1>9. g \in [SUBSET S -> V]
  BY <1>7, <1>8
<1>10. ASSUME NEW T \in SUBSET S
       PROVE  g[T] = IF T = {} THEN base ELSE step[last[T]][g[T \ {last[T]}]]
  <2>1. CASE T = S
    BY <2>1, <1>6
  <2>2. CASE T # S
    <3>1. Solves(G[T], T, base, last, step)
      BY <1>4, <2>2
    <3>2. G[T][T] = IF T = {} THEN base ELSE step[last[T]][G[T][T \ {last[T]}]]
      BY <3>1 DEF Solves
    <3>3. T # {} => last[T] \in T /\ T \ {last[T]} \in SUBSET T
      BY <1>3 DEF TakesLast
    <3>4. T # {} => g[T \ {last[T]}] = G[T][T \ {last[T]}]
      BY <1>5, <2>2, <3>3
    <3> QED
      BY <2>2, <3>2, <3>4
  <2> QED
    BY <2>1, <2>2
<1>11. Solves(g, S, base, last, step)
  BY <1>10 DEF Solves
<1>12. g \in Solutions(S)
  BY <1>9, <1>11
<1> QED
  BY <1>3, <1>12

-----------------------------------------------------------------------------
(* Tasks: what the operators that move them leave alone.                   *)

\* The fields of a task, whatever they hold.
TaskFields == DOMAIN NoTask

\* Every device has a task for every path.
TasksShaped ==
  /\ DOMAIN todo = Devices
  /\ \A d \in Devices : DOMAIN todo[d] = Paths
  /\ \A d \in Devices, p \in Paths : DOMAIN todo[d][p] = TaskFields

\* Goto moves one task, keeps its action and touches no other.
LEMMA GotoEffect ==
  ASSUME TasksShaped, NEW d \in Devices, NEW p \in Paths, NEW a,
         Goto(d, p, a)
  PROVE  /\ TasksShaped'
         /\ \A e \in Devices \ {d} : todo'[e] = todo[e]
         /\ \A q \in Paths \ {p} : todo'[d][q] = todo[d][q]
         /\ todo'[d][p].at = a
         /\ todo'[d][p].act = todo[d][p].act
BY DEF Goto, TasksShaped, TaskFields, NoTask

\* End closes one task and touches no other.
LEMMA EndEffect ==
  ASSUME TasksShaped, NEW d \in Devices, NEW p \in Paths, End(d, p)
  PROVE  /\ TasksShaped'
         /\ \A e \in Devices \ {d} : todo'[e] = todo[e]
         /\ \A q \in Paths \ {p} : todo'[d][q] = todo[d][q]
         /\ todo'[d][p].at = "ended"
BY DEF End, TasksShaped, TaskFields, NoTask

\* FailTask closes its task and the ones that wait for it; the others, and
\* other devices, are left alone.
LEMMA FailEffect ==
  ASSUME TasksShaped, NEW d \in Devices, NEW p \in Paths, FailTask(d, p)
  PROVE  /\ TasksShaped'
         /\ \A e \in Devices \ {d} : todo'[e] = todo[e]
         /\ \A q \in Paths : \/ todo'[d][q] = todo[d][q]
                             \/ todo'[d][q].at = "failed"
         /\ todo'[d][p].at = "failed"
BY DEF FailTask, TasksShaped, TaskFields, NoTask, FailedTask

-----------------------------------------------------------------------------
(* The journal and the invariant.                                          *)

\* Every device has room for an entry for every path.
JournalShaped ==
  DOMAIN jrn = Devices /\ \A d \in Devices : DOMAIN jrn[d] = Paths

\* The journal entry that the task of p writes at a stage.
Entry(d, p, stage) == [kind |-> KindOf(todo[d][p].act), stage |-> stage]

\* A task that is past the start of its effect has the entry that says so.
Journaled(d, p) ==
  /\ todo[d][p].at \in {"started", "checked", "effected"}
     => jrn[d][p] = Entry(d, p, "SideEffectStarted")
  /\ todo[d][p].at = "done" => jrn[d][p] = Entry(d, p, "SideEffectDone")

\* The inductive invariant.
JInv ==
  /\ DOMAIN pc = Devices
  /\ TasksShaped
  /\ JournalShaped
  /\ \A d \in Devices, p \in Paths : Journaled(d, p)
  /\ \A d \in Devices : pc[d] # "running" =>
       \A p \in Paths : todo[d][p].at = "ended"

\* set_pending_op writes the entry of one path.
LEMMA SetEffect ==
  ASSUME JournalShaped, NEW d \in Devices, NEW p \in Paths, NEW stage,
         SetPendingOp(d, p, stage)
  PROVE  /\ JournalShaped'
         /\ \A e \in Devices \ {d} : jrn'[e] = jrn[e]
         /\ \A q \in Paths \ {p} : jrn'[d][q] = jrn[d][q]
         /\ jrn'[d][p] = Entry(d, p, stage)
BY DEF JournalShaped, SetPendingOp, Entry

\* Clearing an entry touches no other.
LEMMA ClearEffect ==
  ASSUME JournalShaped, NEW d \in Devices, NEW p \in Paths,
         ClearPendingOp(d, p)
  PROVE  /\ JournalShaped'
         /\ \A e \in Devices \ {d} : jrn'[e] = jrn[e]
         /\ \A q \in Paths \ {p} : jrn'[d][q] = jrn[d][q]
BY DEF JournalShaped, ClearPendingOp

\* A step of a running device that touches only its own tasks and journal.
LEMMA LocalStep ==
  ASSUME JInv, NEW d \in Devices, pc[d] = "running", pc' = pc,
         TasksShaped', JournalShaped',
         \A e \in Devices \ {d} : todo'[e] = todo[e] /\ jrn'[e] = jrn[e],
         \A q \in Paths : Journaled(d, q)'
  PROVE  JInv'
<1>1. \A e \in Devices \ {d}, q \in Paths : Journaled(e, q)'
  BY DEF JInv, Journaled, Entry
<1> QED
  BY <1>1 DEF JInv

\* The same, when the journal stays and no task gets an effect to answer for.
LEMMA QuietStep ==
  ASSUME JInv, NEW d \in Devices, pc[d] = "running", pc' = pc,
         TasksShaped', UNCHANGED jrn,
         \A e \in Devices \ {d} : todo'[e] = todo[e],
         \A q \in Paths :
           \/ todo'[d][q].at = todo[d][q].at /\ todo'[d][q].act = todo[d][q].act
           \/ todo'[d][q].at \in {"ready", "ended", "failed", "mismatch", "linked"}
  PROVE  JInv'
<1>1. \A q \in Paths : Journaled(d, q)'
  BY DEF JInv, Journaled, Entry
<1>2. JournalShaped'
  BY DEF JInv, JournalShaped
<1> QED
  BY <1>1, <1>2, LocalStep

-----------------------------------------------------------------------------

(* Task steps keep the invariant: first the kinds of steps there are, then *)
(* one case per action.                                                    *)

\* A task writes its entry and moves to where the entry allows it to be.
LEMMA MarkStep ==
  ASSUME JInv, NEW d \in Devices, NEW p \in Paths, pc[d] = "running", pc' = pc,
         NEW at, NEW stage, Goto(d, p, at), SetPendingOp(d, p, stage),
         \/ at = "planned"
         \/ at \in {"started", "checked"} /\ stage = "SideEffectStarted"
         \/ at = "done" /\ stage = "SideEffectDone"
  PROVE  JInv'
<1>1. TasksShaped /\ JournalShaped
  BY DEF JInv
<1>2. \A q \in Paths \ {p} : jrn'[d][q] = jrn[d][q] /\ todo'[d][q] = todo[d][q]
  BY <1>1, GotoEffect, SetEffect
<1>3. \A q \in Paths \ {p} : Journaled(d, q)'
  BY <1>2 DEF JInv, Journaled, Entry
<1>4. jrn'[d][p] = Entry(d, p, stage)'
  BY <1>1, GotoEffect, SetEffect DEF Entry
<1>5. Journaled(d, p)'
  BY <1>1, <1>4, GotoEffect DEF Journaled
<1> QED
  BY <1>1, <1>3, <1>5, GotoEffect, SetEffect, LocalStep

\* A task has its effect; the entry stays what it is.
LEMMA GotoEffected ==
  ASSUME JInv, NEW d \in Devices, NEW p \in Paths, pc[d] = "running", pc' = pc,
         todo[d][p].at \in {"started", "checked"}, Goto(d, p, "effected"),
         UNCHANGED jrn
  PROVE  JInv'
<1>1. TasksShaped /\ JournalShaped
  BY DEF JInv
<1>2. \A q \in Paths : Journaled(d, q)'
  BY <1>1, GotoEffect DEF JInv, Journaled, Entry
<1>3. JournalShaped'
  BY <1>1 DEF JournalShaped
<1> QED
  BY <1>1, <1>2, <1>3, GotoEffect, LocalStep

\* A task fails, with its entry left behind or cleared.
LEMMA FailStep ==
  ASSUME JInv, NEW d \in Devices, NEW p \in Paths, pc[d] = "running", pc' = pc,
         FailTask(d, p), UNCHANGED jrn \/ ClearPendingOp(d, p)
  PROVE  JInv'
<1>1. TasksShaped /\ JournalShaped
  BY DEF JInv
<1>2. \A q \in Paths : Journaled(d, q)'
  BY <1>1, FailEffect, ClearEffect DEF JInv, Journaled, Entry
<1>3. JournalShaped' /\ \A e \in Devices \ {d} : jrn'[e] = jrn[e]
  BY <1>1, ClearEffect DEF JournalShaped
<1> QED
  BY <1>1, <1>2, <1>3, FailEffect, LocalStep

\* A task ends, whatever it writes last.
LEMMA EndStep ==
  ASSUME JInv, NEW d \in Devices, NEW p \in Paths, pc[d] = "running", pc' = pc,
         End(d, p), UNCHANGED jrn \/ \E stage : SetPendingOp(d, p, stage)
  PROVE  JInv'
<1>1. TasksShaped /\ JournalShaped
  BY DEF JInv
<1>2. \A q \in Paths \ {p} : jrn'[d][q] = jrn[d][q] /\ todo'[d][q] = todo[d][q]
  BY <1>1, EndEffect, SetEffect
<1>3. \A q \in Paths \ {p} : Journaled(d, q)'
  BY <1>2 DEF JInv, Journaled, Entry
<1>4. JournalShaped' /\ \A e \in Devices \ {d} : jrn'[e] = jrn[e]
  BY <1>1, SetEffect DEF JournalShaped
<1>5. Journaled(d, p)'
  BY <1>1, EndEffect DEF Journaled
<1> QED
  BY <1>1, <1>3, <1>4, <1>5, EndEffect, LocalStep

\* Every step of a task keeps the invariant.
LEMMA TaskStepJInv ==
  ASSUME JInv, NEW d \in Devices, NEW p \in Paths, TaskStep(d, p)
  PROVE  JInv'
<1> USE DEF At, Ready, taskFrame
<1>1. CASE CleanupMetadata(d, p)
  BY <1>1, EndStep DEF CleanupMetadata
<1>2. CASE TouchMetadata(d, p)
  BY <1>2, EndStep, FailStep DEF TouchMetadata
<1>3. CASE BeginConflict(d, p) \/ RevisionMismatch(d, p)
  <2>1. PICK c \in CopyPaths :
          todo' = [todo EXCEPT
                ![d][c] = [NoTask EXCEPT !.act = "download", !.at = "ready",
                                !.id = todo[d][p].id, !.row = todo[d][p].row],
                ![d][p] = [NoTask EXCEPT !.act = "update", !.at = "ready",
                                !.id = todo[d][p].id, !.row = todo[d][p].row,
                                !.after = c]]
    BY <1>3 DEF BeginConflict, RevisionMismatch, KeepBoth
  <2>2. c \in Paths
    BY PathsAssumption
  <2>3. TasksShaped' /\ \A e \in Devices \ {d} : todo'[e] = todo[e]
    BY <2>1, <2>2 DEF JInv, TasksShaped, TaskFields, NoTask
  <2>4. \A q \in Paths : \/ todo'[d][q] = todo[d][q]
                          \/ todo'[d][q].at = "ready"
    BY <2>1, <2>2 DEF JInv, TasksShaped, TaskFields, NoTask
  <2> QED
    BY <1>3, <2>3, <2>4, QuietStep DEF BeginConflict, RevisionMismatch
<1>4. CASE PlanUpload(d, p)
  <2>1. CASE disk[d][p] = None
    BY <1>4, <2>1, FailStep DEF PlanUpload
  <2>2. CASE disk[d][p] # None
    <3>1. /\ TasksShaped' /\ \A e \in Devices \ {d} : todo'[e] = todo[e]
          /\ \A q \in Paths \ {p} : todo'[d][q] = todo[d][q]
          /\ todo'[d][p].at = "planned"
      BY <1>4, <2>2 DEF PlanUpload, JInv, TasksShaped, TaskFields, NoTask
    <3>2. SetPendingOp(d, p, "Planned") /\ JournalShaped
      BY <1>4, <2>2 DEF PlanUpload, JInv
    <3>3. \A q \in Paths \ {p} : jrn'[d][q] = jrn[d][q]
      BY <3>2, SetEffect
    <3>4. \A q \in Paths \ {p} : Journaled(d, q)'
      BY <3>3, <3>1 DEF JInv, Journaled, Entry
    <3>5. Journaled(d, p)'
      BY <3>1 DEF Journaled
    <3> QED
      BY <1>4, <3>1, <3>2, <3>4, <3>5, SetEffect, LocalStep DEF PlanUpload
  <2> QED
    BY <2>1, <2>2
<1>5. CASE StartUpdate(d, p)
  BY <1>5, MarkStep DEF StartUpdate
<1>6. CASE Preflight(d, p)
  <2>1. CASE RevisionGuardMatches(d, p, todo[d][p].id)
    <3>1. /\ TasksShaped' /\ \A e \in Devices \ {d} : todo'[e] = todo[e]
          /\ \A q \in Paths \ {p} : todo'[d][q] = todo[d][q]
          /\ todo'[d][p].at = "checked" /\ todo'[d][p].act = todo[d][p].act
      BY <1>6, <2>1 DEF Preflight, JInv, TasksShaped, TaskFields, NoTask
    <3>2. \A q \in Paths : Journaled(d, q)'
      BY <1>6, <2>1, <3>1 DEF Preflight, JInv, Journaled, Entry
    <3>3. JournalShaped'
      BY <1>6, <2>1 DEF Preflight, JInv, JournalShaped
    <3> QED
      BY <1>6, <2>1, <3>1, <3>2, <3>3, LocalStep DEF Preflight
  <2>2. CASE ~RevisionGuardMatches(d, p, todo[d][p].id)
    <3>1. /\ TasksShaped' /\ \A e \in Devices \ {d} : todo'[e] = todo[e]
          /\ \A q \in Paths \ {p} : todo'[d][q] = todo[d][q]
          /\ todo'[d][p].at = "mismatch"
      BY <1>6, <2>2 DEF Preflight, JInv, TasksShaped, TaskFields, NoTask
    <3>2. ClearPendingOp(d, p) /\ JournalShaped
      BY <1>6, <2>2 DEF Preflight, JInv
    <3>3. \A q \in Paths : Journaled(d, q)'
      BY <3>1, <3>2, ClearEffect DEF JInv, Journaled, Entry
    <3> QED
      BY <1>6, <3>1, <3>2, <3>3, ClearEffect, LocalStep DEF Preflight
  <2> QED
    BY <2>1, <2>2
<1>7. CASE PatchMedia(d, p)
  BY <1>7, GotoEffected, FailStep DEF PatchMedia
<1>8. CASE CommitUpdate(d, p)
  BY <1>8, EndStep, FailStep DEF CommitUpdate
<1>9. CASE FindRemoteFileByContent(d, p)
  <2> DEFINE same == {f \in Files : Live(f) /\ drive[f].name = p
                                      /\ drive[f].md5 = todo[d][p].md5}
  <2>1. CASE same # {}
    <3>1. /\ TasksShaped' /\ \A e \in Devices \ {d} : todo'[e] = todo[e]
          /\ \A q \in Paths \ {p} : todo'[d][q] = todo[d][q]
          /\ todo'[d][p].at = "linked"
      BY <1>9, <2>1 DEF FindRemoteFileByContent, JInv, TasksShaped, TaskFields, NoTask
    <3> QED
      BY <1>9, <2>1, <3>1, QuietStep DEF FindRemoteFileByContent
  <2>2. CASE same = {}
    BY <1>9, <2>2, MarkStep DEF FindRemoteFileByContent
  <2> QED
    BY <2>1, <2>2
<1>10. CASE CreateFile(d, p)
  <2>1. CASE disk[d][p] = None
    BY <1>10, <2>1, FailStep DEF CreateFile
  <2>2. CASE disk[d][p] # None
    <3>1. PICK f : todo' = [todo EXCEPT ![d][p].at = "effected", ![d][p].id = f]
      BY <1>10, <2>2 DEF CreateFile
    <3>2. /\ TasksShaped' /\ \A e \in Devices \ {d} : todo'[e] = todo[e]
          /\ \A q \in Paths \ {p} : todo'[d][q] = todo[d][q]
          /\ todo'[d][p].at = "effected" /\ todo'[d][p].act = todo[d][p].act
      BY <3>1 DEF JInv, TasksShaped, TaskFields, NoTask
    <3>3. \A q \in Paths : Journaled(d, q)'
      BY <1>10, <3>2 DEF CreateFile, JInv, Journaled, Entry
    <3>4. JournalShaped'
      BY <1>10 DEF CreateFile, JInv, JournalShaped
    <3> QED
      BY <1>10, <3>2, <3>3, <3>4, LocalStep DEF CreateFile
  <2> QED
    BY <2>1, <2>2
<1>11. CASE CommitCreate(d, p)
  BY <1>11, EndStep, FailStep DEF CommitCreate
<1>12. CASE PlanDownload(d, p)
  BY <1>12, MarkStep DEF PlanDownload
<1>13. CASE StartDownload(d, p)
  BY <1>13, MarkStep DEF StartDownload
<1>14. CASE WriteDownload(d, p)
  <2>1. /\ TasksShaped' /\ \A e \in Devices \ {d} : todo'[e] = todo[e]
        /\ todo'[d][p].at = "effected" /\ todo'[d][p].act = todo[d][p].act
        /\ \A q \in Paths \ {p} : /\ todo'[d][q].at = todo[d][q].at
                                   /\ todo'[d][q].act = todo[d][q].act
    BY <1>14 DEF WriteDownload, JInv, TasksShaped, TaskFields, NoTask
  <2>2. \A q \in Paths : Journaled(d, q)'
    BY <1>14, <2>1 DEF WriteDownload, JInv, Journaled, Entry
  <2>3. JournalShaped'
    BY <1>14 DEF WriteDownload, JInv, JournalShaped
  <2> QED
    BY <1>14, <2>1, <2>2, <2>3, LocalStep DEF WriteDownload
<1>15. CASE CommitDownload(d, p)
  BY <1>15, EndStep, FailStep DEF CommitDownload
<1>16. CASE ConfirmDelete(d, p)
  BY <1>16, EndStep, MarkStep DEF ConfirmDelete
<1>17. CASE StartDelete(d, p)
  BY <1>17, MarkStep DEF StartDelete
<1>18. CASE MoveToTrash(d, p)
  BY <1>18, GotoEffected, FailStep DEF MoveToTrash
<1>19. CASE TrashRemote(d, p)
  BY <1>19, GotoEffected DEF TrashRemote
<1>20. CASE CommitDelete(d, p)
  BY <1>20, EndStep DEF CommitDelete
<1>21. CASE MarkDone(d, p)
  BY <1>21, MarkStep DEF MarkDone
<1> QED
  BY <1>1, <1>2, <1>3, <1>4, <1>5, <1>6, <1>7, <1>8, <1>9, <1>10, <1>11, <1>12,
     <1>13, <1>14, <1>15, <1>16, <1>17, <1>18, <1>19, <1>20, <1>21
  DEF TaskStep, Upload, Download, Delete

-----------------------------------------------------------------------------
(* The other steps keep the invariant.                                     *)

\* A decision makes a task that is ready, or none.
LEMMA TaskForShape ==
  ASSUME NEW a, NEW r
  PROVE  /\ DOMAIN TaskFor(a, r) = TaskFields
         /\ TaskFor(a, r).at \in {"ready", "ended"}
<1> DEFINE guarded == a.act = "upload" /\ a.id # None
           create == a.act = "upload" /\ a.id = None
           local == a.act = "conflict" /\ Resolution(Policy) = "local_wins"
           remote == a.act = "conflict" /\ Resolution(Policy) = "remote_wins"
<1>1. CASE a.act = "skip"
  BY <1>1 DEF TaskFor, TaskFields, NoTask
<1>2. CASE guarded
  BY <1>2 DEF TaskFor, TaskFields, NoTask
<1>3. CASE create
  BY <1>3 DEF TaskFor, TaskFields, NoTask
<1>4. CASE local
  BY <1>4 DEF TaskFor, ConflictTask, TaskFields, NoTask
<1>5. CASE remote
  BY <1>5 DEF TaskFor, ConflictTask, TaskFields, NoTask
<1>6. CASE a.act # "skip" /\ ~guarded /\ ~create /\ ~local /\ ~remote
  BY <1>6 DEF TaskFor, ConflictTask, TaskFields, NoTask
<1> QED
  BY <1>1, <1>2, <1>3, <1>4, <1>5, <1>6

\* Between tasks a device may rewrite its journal.
LEMMA CalmStep ==
  ASSUME JInv, NEW d \in Devices, pc[d] # "running", UNCHANGED todo,
         NEW phase, pc' = [pc EXCEPT ![d] = phase], JournalShaped',
         \A e \in Devices \ {d} : jrn'[e] = jrn[e]
  PROVE  JInv'
<1>1. \A q \in Paths : todo[d][q].at = "ended"
  BY DEF JInv
<1>2. \A e \in Devices, q \in Paths : Journaled(e, q)'
  BY <1>1 DEF JInv, Journaled, Entry
<1>3. DOMAIN pc' = Devices /\ \A e \in Devices \ {d} : pc'[e] = pc[e]
  BY DEF JInv
<1>4. TasksShaped'
  BY DEF JInv, TasksShaped
<1> QED
  BY <1>1, <1>2, <1>3, <1>4 DEF JInv

\* A cycle that ends, in order or not, leaves no task.
LEMMA ResetStep ==
  ASSUME JInv, NEW d \in Devices, pc' = [pc EXCEPT ![d] = "idle"],
         todo' = [todo EXCEPT ![d] = NoTasks], JournalShaped',
         \A e \in Devices \ {d} : jrn'[e] = jrn[e]
  PROVE  JInv'
<1>1. /\ TasksShaped' /\ \A e \in Devices \ {d} : todo'[e] = todo[e]
      /\ \A q \in Paths : todo'[d][q].at = "ended"
  BY DEF JInv, TasksShaped, TaskFields, NoTasks, NoTask
<1>2. \A e \in Devices, q \in Paths : Journaled(e, q)'
  BY <1>1 DEF JInv, Journaled, Entry
<1>3. DOMAIN pc' = Devices /\ \A e \in Devices \ {d} : pc'[e] = pc[e]
  BY DEF JInv
<1> QED
  BY <1>1, <1>2, <1>3 DEF JInv

\* Nothing before the tasks breaks the invariant, recovery included.
LEMMA PrepareJInv ==
  ASSUME JInv, NEW d \in Devices, Prepare(d)
  PROVE  JInv'
<1> USE DEF storeVars, cycleVars
<1>1. JournalShaped
  BY DEF JInv
<1>2. CASE StartCycle(d)
  <2>1. JournalShaped' /\ \A e \in Devices \ {d} : jrn'[e] = jrn[e]
    BY <1>1, <1>2 DEF StartCycle, JournalShaped
  <2> QED
    BY <1>2, <2>1, CalmStep DEF StartCycle
<1>3. CASE ClearPurged(d)
  <2>1. JournalShaped' /\ \A e \in Devices \ {d} : jrn'[e] = jrn[e]
    BY <1>1, <1>3 DEF ClearPurged, JournalShaped, Nothing
  <2> QED
    BY <1>3, <2>1, CalmStep DEF ClearPurged
<1>4. ASSUME UNCHANGED <<todo, jrn>>, pc[d] # "running",
             NEW phase, pc' = [pc EXCEPT ![d] = phase]
      PROVE  JInv'
  <2>1. JournalShaped'
    BY <1>1, <1>4 DEF JournalShaped
  <2> QED
    BY <1>4, <2>1, CalmStep
<1>5. CASE PersistPurge(d)
  BY <1>4, <1>5 DEF PersistPurge
<1>6. CASE ScanLocal(d)
  BY <1>4, <1>6 DEF ScanLocal
<1>7. CASE FetchChanges(d)
  <2>1. UNCHANGED <<todo, jrn>> /\ pc[d] # "running"
    BY <1>7 DEF FetchChanges
  <2>2. \E phase : pc' = [pc EXCEPT ![d] = phase]
    BY <1>7 DEF FetchChanges
  <2> QED
    BY <1>4, <2>1, <2>2
<1>8. CASE Relist(d)
  BY <1>4, <1>8 DEF Relist
<1>9. CASE ListAll(d)
  BY <1>4, <1>9 DEF ListAll
<1>10. CASE GetStartPageToken(d)
  BY <1>4, <1>10 DEF GetStartPageToken
<1>11. CASE Decide(d)
  <2>1. PICK a : todo' = [todo EXCEPT ![d] =
                   [p \in Paths |-> TaskFor(a[p], view[d][p])]]
    <3> DEFINE ids == {view[d][p].id : p \in {q \in Paths : view[d][q] # None}}
               a == [p \in Paths |->
                       DetermineAction(scan[d][p], view[d][p], mem[d][p], None, ids)]
    <3>1. [p \in Paths |-> TaskFor(a[p], view[d][p])]
          = [p \in Paths |-> TaskFor(DetermineAction(scan[d][p], view[d][p],
                                       mem[d][p], None, ids), view[d][p])]
      OBVIOUS
    <3> QED
      BY <1>11, <3>1 DEF Decide
  <2>2. /\ TasksShaped' /\ \A e \in Devices \ {d} : todo'[e] = todo[e]
        /\ \A q \in Paths : todo'[d][q].at \in {"ready", "ended"}
    BY <2>1, TaskForShape DEF JInv, TasksShaped
  <2>3. UNCHANGED jrn /\ pc' = [pc EXCEPT ![d] = "running"]
    BY <1>11 DEF Decide
  <2>4. \A e \in Devices, q \in Paths : Journaled(e, q)'
    BY <2>2, <2>3 DEF JInv, Journaled, Entry
  <2>5. JournalShaped'
    BY <1>1, <2>3 DEF JournalShaped
  <2>6. DOMAIN pc' = Devices /\ pc'[d] = "running"
        /\ \A e \in Devices \ {d} : pc'[e] = pc[e]
    BY <2>3 DEF JInv
  <2> QED
    BY <2>2, <2>4, <2>5, <2>6 DEF JInv
<1> QED
  BY <1>2, <1>3, <1>5, <1>6, <1>7, <1>8, <1>9, <1>10, <1>11 DEF Prepare

\* The end of a cycle keeps the invariant: finished entries go with the tasks.
LEMMA FinishCycleJInv ==
  ASSUME JInv, NEW d \in Devices, FinishCycle(d)
  PROVE  JInv'
<1>1. JournalShaped' /\ \A e \in Devices \ {d} : jrn'[e] = jrn[e]
  BY DEF FinishCycle, JInv, JournalShaped
<1> QED
  BY <1>1, ResetStep DEF FinishCycle

\* So do a crash, a deferred upload, a request that fails and a lost answer.
LEMMA HindranceJInv ==
  ASSUME JInv, NEW d \in Devices, Hindrance(d)
  PROVE  JInv'
<1>1. CASE Crash(d)
  <2>1. JournalShaped' /\ UNCHANGED jrn
    BY <1>1 DEF Crash, storeVars, JInv, JournalShaped
  <2> QED
    BY <1>1, <2>1, ResetStep DEF Crash
<1>2. ASSUME NEW p \in Paths, DeferUpload(d, p)
      PROVE  JInv'
  BY <1>2, EndStep DEF DeferUpload, Ready, At, taskFrame
<1>3. ASSUME NEW p \in Paths, RequestFails(d, p) \/ LoseAnswer(d, p)
      PROVE  JInv'
  BY <1>3, FailStep DEF RequestFails, LoseAnswer, At, taskFrame
<1> QED
  BY <1>1, <1>2, <1>3 DEF Hindrance

\* What leaves phases, tasks and journal alone keeps the invariant.
LEMMA QuietJInv ==
  ASSUME JInv, UNCHANGED <<pc, todo, jrn>>
  PROVE  JInv'
<1>1. TasksShaped' /\ JournalShaped'
  BY DEF JInv, TasksShaped, JournalShaped
<1> QED
  BY <1>1 DEF JInv, Journaled, Entry

\* Users have no part in phases, tasks and journal.
LEMMA UserFrame ==
  ASSUME User
  PROVE  UNCHANGED <<pc, todo, jrn>>
BY DEF User, UserWrite, UserTouch, UserRemove, WebWrite, WebTrash, WebRestore,
       userFrame, storeVars, cycleVars

\* Every step keeps the invariant.
LEMMA StepJInv ==
  ASSUME JInv, [Next]_vars
  PROVE  JInv'
<1>1. ASSUME NEW d \in Devices, Work(d)
      PROVE  JInv'
  BY <1>1, PrepareJInv, TaskStepJInv, FinishCycleJInv DEF Work
<1>2. ASSUME NEW d \in Devices, Hindrance(d)
      PROVE  JInv'
  BY <1>2, HindranceJInv
<1>3. CASE User
  BY <1>3, UserFrame, QuietJInv
<1>4. CASE UNCHANGED vars
  BY <1>4, QuietJInv DEF vars, storeVars, cycleVars
<1> QED
  BY <1>1, <1>2, <1>3, <1>4 DEF Next

\* It holds at the start: every device is idle.
LEMMA InitJInv ==
  ASSUME Init
  PROVE  JInv
<1>1. /\ pc = [d \in Devices |-> "idle"]
      /\ todo = [d \in Devices |-> NoTasks]
      /\ jrn = [d \in Devices |-> Nothing]
  BY DEF Init
<1>2. TasksShaped /\ JournalShaped
  BY <1>1 DEF TasksShaped, JournalShaped, NoTasks, Nothing, TaskFields
<1>3. \A d \in Devices, p \in Paths : todo[d][p].at = "ended"
  BY <1>1 DEF NoTasks, NoTask
<1> QED
  BY <1>1, <1>2, <1>3 DEF JInv, Journaled

-----------------------------------------------------------------------------

(* From the invariant to the property.                                     *)

\* What WriteAhead asks of a step of device d.
Ahead(d) ==
  (todo'[d] # todo[d] /\ <<drive, disk>>' # <<drive, disk>>)
  => \E p \in Paths :
       /\ todo'[d][p].at # todo[d][p].at
       /\ jrn[d][p] # None
       /\ jrn[d][p].kind = KindOf(todo[d][p].act)
       /\ jrn[d][p].stage \in {"SideEffectStarted", "SideEffectDone"}

\* An entry is an entry: not None, and it reads back as written.
LEMMA EntryIsSomething ==
  ASSUME NEW d, NEW p, NEW stage \in Stages
  PROVE  /\ Entry(d, p, stage) # None
         /\ Entry(d, p, stage).kind = KindOf(todo[d][p].act)
         /\ Entry(d, p, stage).stage = stage
<1>1. KindOf(todo[d][p].act) \in Kinds
  BY DEF KindOf, Kinds
<1>2. Entry(d, p, stage) \in PendingOp
  BY <1>1 DEF Entry, PendingOp
<1> QED
  BY <1>2, NoEntryAssumption DEF Entry

\* A step that takes a task with an effect from where it is to somewhere else.
LEMMA EffectAhead ==
  ASSUME JInv, NEW d \in Devices, NEW p \in Paths,
         todo[d][p].at \in {"started", "checked", "done"},
         todo'[d][p].at # todo[d][p].at,
         \A e \in Devices \ {d} : todo'[e] = todo[e]
  PROVE  \A e \in Devices : Ahead(e)
<1>1. \E stage \in {"SideEffectStarted", "SideEffectDone"} :
        jrn[d][p] = Entry(d, p, stage)
  BY DEF JInv, Journaled
<1>2. {"SideEffectStarted", "SideEffectDone"} \subseteq Stages
  BY DEF Stages
<1> QED
  BY <1>1, <1>2, EntryIsSomething DEF Ahead

\* Every step of a task that changes Drive or the disk is announced.
LEMMA TaskStepAhead ==
  ASSUME JInv, NEW d \in Devices, NEW p \in Paths, TaskStep(d, p)
  PROVE  \A e \in Devices : Ahead(e)
<1> USE DEF At, Ready, taskFrame, driveVars, diskVars
<1>1. TasksShaped
  BY DEF JInv
<1>2. ASSUME UNCHANGED <<drive, disk>>
      PROVE  \A e \in Devices : Ahead(e)
  BY <1>2 DEF Ahead
<1>3. CASE PatchMedia(d, p)
  <2>1. /\ todo[d][p].at = "checked" /\ todo'[d][p].at \in {"failed", "effected"}
        /\ \A e \in Devices \ {d} : todo'[e] = todo[e]
    BY <1>1, <1>3, FailEffect, GotoEffect DEF PatchMedia
  <2> QED
    BY <2>1, EffectAhead
<1>4. CASE CommitUpdate(d, p)
  <2>1. /\ todo[d][p].at = "done" /\ todo'[d][p].at \in {"failed", "ended"}
        /\ \A e \in Devices \ {d} : todo'[e] = todo[e]
    BY <1>1, <1>4, FailEffect, EndEffect DEF CommitUpdate
  <2> QED
    BY <2>1, EffectAhead
<1>5. CASE CreateFile(d, p)
  <2>1. todo[d][p].at = "started"
    BY <1>5 DEF CreateFile
  <2>2. CASE disk[d][p] = None
    BY <1>1, <1>5, <2>1, <2>2, FailEffect, EffectAhead DEF CreateFile
  <2>3. CASE disk[d][p] # None
    <3>1. PICK f : todo' = [todo EXCEPT ![d][p].at = "effected", ![d][p].id = f]
      BY <1>5, <2>3 DEF CreateFile
    <3>2. /\ todo'[d][p].at = "effected"
          /\ \A e \in Devices \ {d} : todo'[e] = todo[e]
      BY <1>1, <3>1 DEF TasksShaped, TaskFields, NoTask
    <3> QED
      BY <2>1, <3>2, EffectAhead
  <2> QED
    BY <2>2, <2>3
<1>6. CASE WriteDownload(d, p)
  <2>1. /\ todo[d][p].at = "started" /\ todo'[d][p].at = "effected"
        /\ \A e \in Devices \ {d} : todo'[e] = todo[e]
    BY <1>1, <1>6 DEF WriteDownload, TasksShaped, TaskFields, NoTask
  <2> QED
    BY <2>1, EffectAhead
<1>7. CASE MoveToTrash(d, p)
  <2>1. /\ todo[d][p].at = "started" /\ todo'[d][p].at \in {"failed", "effected"}
        /\ \A e \in Devices \ {d} : todo'[e] = todo[e]
    BY <1>1, <1>7, FailEffect, GotoEffect DEF MoveToTrash
  <2> QED
    BY <2>1, EffectAhead
<1>8. CASE TrashRemote(d, p)
  <2>1. /\ todo[d][p].at = "started" /\ todo'[d][p].at = "effected"
        /\ \A e \in Devices \ {d} : todo'[e] = todo[e]
    BY <1>1, <1>8, GotoEffect DEF TrashRemote
  <2> QED
    BY <2>1, EffectAhead
<1>9. CASE CleanupMetadata(d, p)
  BY <1>2, <1>9 DEF CleanupMetadata
<1>10. CASE TouchMetadata(d, p)
  BY <1>2, <1>10 DEF TouchMetadata
<1>11. CASE BeginConflict(d, p) \/ RevisionMismatch(d, p)
  BY <1>2, <1>11 DEF BeginConflict, RevisionMismatch
<1>12. CASE PlanUpload(d, p) \/ StartUpdate(d, p) \/ Preflight(d, p)
  BY <1>2, <1>12 DEF PlanUpload, StartUpdate, Preflight
<1>13. CASE FindRemoteFileByContent(d, p) \/ CommitCreate(d, p)
  BY <1>2, <1>13 DEF FindRemoteFileByContent, CommitCreate
<1>14. CASE PlanDownload(d, p) \/ StartDownload(d, p) \/ CommitDownload(d, p)
  BY <1>2, <1>14 DEF PlanDownload, StartDownload, CommitDownload
<1>15. CASE ConfirmDelete(d, p) \/ StartDelete(d, p) \/ CommitDelete(d, p)
  BY <1>2, <1>15 DEF ConfirmDelete, StartDelete, CommitDelete
<1>16. CASE MarkDone(d, p)
  BY <1>2, <1>16 DEF MarkDone
<1> QED
  BY <1>3, <1>4, <1>5, <1>6, <1>7, <1>8, <1>9, <1>10, <1>11, <1>12, <1>13,
     <1>14, <1>15, <1>16
  DEF TaskStep, Upload, Download, Delete

\* Every step of the system that does so is announced.
LEMMA StepAhead ==
  ASSUME JInv, [Next]_vars
  PROVE  \A e \in Devices : Ahead(e)
<1> USE DEF driveVars, diskVars
<1>1. ASSUME UNCHANGED <<drive, disk>> \/ UNCHANGED todo
      PROVE  \A e \in Devices : Ahead(e)
  BY <1>1 DEF Ahead
<1>2. ASSUME NEW d \in Devices, Prepare(d)
      PROVE  UNCHANGED <<drive, disk>>
  BY <1>2 DEF Prepare, StartCycle, PersistPurge, ClearPurged, ScanLocal,
              FetchChanges, Relist, ListAll, GetStartPageToken, Decide
<1>3. ASSUME NEW d \in Devices, FinishCycle(d) \/ Hindrance(d),
             \A p \in Paths : ~LoseAnswer(d, p)
      PROVE  UNCHANGED <<drive, disk>>
  BY <1>3 DEF FinishCycle, Hindrance, Crash, DeferUpload, RequestFails
<1>4. ASSUME NEW d \in Devices, NEW p \in Paths, TaskStep(d, p)
      PROVE  \A e \in Devices : Ahead(e)
  BY <1>4, TaskStepAhead
<1>5. CASE User
  BY <1>1, <1>5, UserFrame
<1>6. CASE UNCHANGED vars
  BY <1>1, <1>6 DEF vars
<1>7. ASSUME NEW d \in Devices, NEW p \in Paths, LoseAnswer(d, p)
      PROVE  \A e \in Devices : Ahead(e)
  <2>1. /\ todo[d][p].at = "done" /\ todo'[d][p].at = "failed"
        /\ \A e \in Devices \ {d} : todo'[e] = todo[e]
    BY <1>7, FailEffect DEF LoseAnswer, At, JInv
  <2> QED
    BY <2>1, EffectAhead
<1> QED
  BY <1>1, <1>2, <1>3, <1>4, <1>5, <1>6, <1>7 DEF Next, Work, Hindrance

-----------------------------------------------------------------------------
(* Theorems.                                                               *)

\* JInv is an invariant of the sync cycle: recovery, execution, the end of a
\* cycle and crashes at any point keep journal and tasks together.
THEOREM Invariance == Spec => []JInv
BY InitJInv, StepJInv, PTL DEF Spec

\* Whenever the executor changes Drive or the disk, the pending operation of
\* that path, of that kind, is already in redb as started (executor.rs calls
\* set_pending_op before each side effect).
THEOREM JournalFirst == Spec => WriteAhead
<1>1. JInv /\ [Next]_vars
      => [\A d \in Devices :
            (todo'[d] # todo[d] /\ <<drive, disk>>' # <<drive, disk>>)
            => \E p \in Paths :
                 /\ todo'[d][p].at # todo[d][p].at
                 /\ jrn[d][p] # None
                 /\ jrn[d][p].kind = KindOf(todo[d][p].act)
                 /\ jrn[d][p].stage \in {"SideEffectStarted", "SideEffectDone"}]_vars
  BY StepAhead DEF Ahead
<1> QED
  BY <1>1, Invariance, PTL DEF Spec, WriteAhead

-----------------------------------------------------------------------------
(* Operators.                                                              *)

\* The least of a set of naturals is one of them.
LEMMA Min2InSet ==
  ASSUME NEW S, S \subseteq Nat, S # {}
  PROVE  Min2(S) \in S /\ \A y \in S : Min2(S) <= y
<1>1. PICK x \in S : \A y \in S : x <= y
  BY LeastNatural
<1> QED
  BY <1>1 DEF Min2

\* Merging, counting and writing vectors gives vectors.
LEMMA MergeType ==
  ASSUME NEW v \in Vector, NEW w \in Vector
  PROVE  Merge(v, w) \in Vector
BY MaxCountAssumption DEF Vector, Merge

\* No history at all is a vector.
LEMMA EmptyVectorType == EmptyVector \in Vector
BY MaxCountAssumption DEF Vector, EmptyVector

\* So is a vector with one more write.
LEMMA IncrementType ==
  ASSUME NEW v \in Vector, NEW d \in Devices
  PROVE  Increment(v, d) \in Vector
BY MaxCountAssumption DEF Vector, Increment

\* And what is left of one when it is trimmed to what a property holds.
LEMMA WrittenType ==
  ASSUME NEW v \in Vector, NEW d \in Devices, NEW w \in Vector
  PROVE  Written(v, d, w) \in Vector
<1>1. \A n : Trimmed(v, d, n) \in Vector
  BY MaxCountAssumption DEF Trimmed, Without, Vector
<1>2. Bounded(v, d) \in Vector
  BY <1>1, EmptyVectorType DEF Bounded
<1> QED
  BY <1>2 DEF Written

-----------------------------------------------------------------------------
(* The invariant.                                                          *)

\* What r speaks of is on Drive, maybe in the trash.
Sound(r) == r # None => Exists(r.id)

\* A file on Drive, in the trash or not, has a content and a name.
FilesHaveContents ==
  \A f \in Files : Exists(f) => drive[f].md5 \in Contents /\ drive[f].name \in Paths

\* Drive: the feed tells of files, and has them in an order.
DriveOK ==
  /\ drive \in [Files -> DriveFile]
  /\ before \in SUBSET (Files \X Files)
  /\ unseen \in [Devices -> SUBSET Files]
  /\ fresh \in [Devices -> SUBSET Files]
  /\ FilesHaveContents
  /\ \A f, g \in Files : <<f, g>> \in before => Exists(f) /\ Exists(g)
  /\ \A f, g \in Files : f # g /\ Exists(f) /\ Exists(g)
                         => <<f, g>> \in before \/ <<g, f>> \in before
  /\ \A f, g, h \in Files : <<f, g>> \in before /\ <<g, h>> \in before
                            => <<f, h>> \in before
  /\ \A d \in Devices : \A f \in unseen[d] \cup fresh[d] : Exists(f)

\* The disk, and what users did.
UserOK ==
  /\ disk \in [Devices -> [Paths -> LocalFile \cup {None}]]
  /\ trash \in [Devices -> SUBSET Contents]
  /\ authored \in SUBSET Contents
  /\ settled \in SUBSET Contents /\ restored \in SUBSET Contents
  /\ raced \in SUBSET Contents
  /\ removals \in Nat /\ touches \in Nat /\ faults \in Nat /\ defers \in Nat

\* What a device knows is of files that exist.
StoreOK ==
  /\ rec \in [Devices -> [Paths -> Record \cup {None}]]
  /\ mem \in [Devices -> [Paths -> Record \cup {None}]]
  /\ view \in [Devices -> [Paths -> Snapshot \cup {None}]]
  /\ \A d \in Devices, p \in Paths :
       Sound(rec[d][p]) /\ Sound(mem[d][p]) /\ Sound(view[d][p])

\* The rest of a device: only types.
CycleOK ==
  /\ jrn \in [Devices -> [Paths -> PendingOp \cup {None}]]
  /\ tomb \in [Devices -> [Paths -> {NoTomb, 0, 1}]]
  /\ cursor \in [Devices -> BOOLEAN]
  /\ pc \in [Devices -> Phases]
  /\ scan \in [Devices -> [Paths -> LocalFile \cup {None}]]
  /\ errs \in [Devices -> BOOLEAN]

\* A task has what its steps need: a file, a row, a content, a record.
Fit(t, m) ==
  /\ Sound(t.row)
  /\ t.act \in {"update", "conflict", "download", "delete_remote"}
     => t.id \in Files /\ Exists(t.id)
  /\ t.act \in {"conflict", "download"} \/ t.at = "mismatch" => t.row # None
  /\ t.act \in {"update", "create"} /\ t.at # "ready" => t.md5 \in Contents
  /\ t.act = "create" /\ t.at \in {"linked", "effected", "done"}
     => t.id \in Files /\ Exists(t.id)
  /\ t.act = "touch" /\ t.at = "ready" => m # None

\* Every task of every device.
TasksOK ==
  /\ todo \in [Devices -> [Paths -> Task]]
  /\ \A d \in Devices, p \in Paths : Fit(todo[d][p], mem[d][p])

\* The inductive invariant: the types, and what they rest on.
TInv == DriveOK /\ UserOK /\ StoreOK /\ CycleOK /\ TasksOK

\* It contains the types.
LEMMA TInvTypes == TInv => TypeOK
BY DEF TInv, DriveOK, UserOK, StoreOK, CycleOK, TasksOK, TypeOK

-----------------------------------------------------------------------------
(* Drive.                                                                  *)

\* Files that exist go on existing.
NothingVanishes == \A f \in Files : Exists(f) => Exists(f)'

\* A change of Drive goes to the end of the feed.
LEMMA ChangeDriveOK ==
  ASSUME DriveOK, NEW f \in Files, NEW file \in DriveFile, file.st # "none",
         file.md5 \in Contents, file.name \in Paths, ChangeDrive(f, file)
  PROVE  DriveOK' /\ NothingVanishes
<1>1. drive' \in [Files -> DriveFile] /\ NothingVanishes /\ FilesHaveContents'
  BY DEF ChangeDrive, DriveOK, NothingVanishes, FilesHaveContents, Exists
<1>2. \A g \in Files : Exists(g)' <=> g = f \/ Exists(g)
  BY DEF ChangeDrive, DriveOK, Exists
<1>3. /\ unseen' \in [Devices -> SUBSET Files]
      /\ fresh' \in [Devices -> SUBSET Files]
      /\ \A d \in Devices : \A g \in unseen'[d] \cup fresh'[d] : Exists(g)'
  BY <1>2 DEF ChangeDrive, DriveOK
<1>4. before' \in SUBSET (Files \X Files)
  BY DEF ChangeDrive, DriveOK
<1>5. \A g, h \in Files : <<g, h>> \in before'
        <=> \/ <<g, h>> \in before /\ g # f /\ h # f
            \/ h = f /\ g # f /\ Exists(g)
  BY DEF ChangeDrive
<1>6. /\ \A g, h \in Files : <<g, h>> \in before' => Exists(g)' /\ Exists(h)'
      /\ \A g, h \in Files : g # h /\ Exists(g)' /\ Exists(h)'
                             => <<g, h>> \in before' \/ <<h, g>> \in before'
      /\ \A g, h, k \in Files : <<g, h>> \in before' /\ <<h, k>> \in before'
                                => <<g, k>> \in before'
  BY <1>2, <1>5 DEF DriveOK
<1> QED
  BY <1>1, <1>3, <1>4, <1>6 DEF DriveOK

\* Drive stays as it is.
LEMMA SameDriveOK ==
  ASSUME DriveOK, UNCHANGED driveVars
  PROVE  DriveOK' /\ NothingVanishes
BY DEF driveVars, DriveOK, FilesHaveContents, Exists, NothingVanishes

-----------------------------------------------------------------------------
(* The remote view.                                                        *)

\* What a view holds, and views.
Rows == {r \in Snapshot : Exists(r.id)}
Views == [Paths -> Rows \cup {None}]

\* What Drive says of a file that exists is a row.
LEMMA RowType ==
  ASSUME DriveOK, NEW f \in Files, Exists(f)
  PROVE  Row(f) \in Rows
BY DEF Row, Rows, DriveOK, DriveFile, Snapshot

\* A place is a path, or there is none.
LEMMA PlaceType ==
  ASSUME NEW v, NEW q \in Paths, NEW f
  PROVE  PlaceWithoutClobber(v, q, f) \in Paths \cup {None}
<1> DEFINE free == {i \in DOMAIN Numbered[q] : v[Numbered[q][i]] = None}
<1>1. Numbered[q] \in Seq(Paths)
  BY NumberedAssumption
<1>2. DOMAIN Numbered[q] \subseteq Nat /\ \A i \in DOMAIN Numbered[q] : Numbered[q][i] \in Paths
  BY <1>1
<1>3. free # {} => Min2(free) \in DOMAIN Numbered[q]
  BY <1>2, Min2InSet
<1> QED
  BY <1>2, <1>3 DEF PlaceWithoutClobber

\* A view with one more file is a view.
LEMMA PutType ==
  ASSUME DriveOK, NEW v \in Views, NEW q \in Paths, NEW f \in Files, Exists(f)
  PROVE  Put(v, q, f) \in Views
<1>1. Row(f) \in Rows /\ PlaceWithoutClobber(v, q, f) \in Paths \cup {None}
  BY RowType, PlaceType
<1> QED
  BY <1>1 DEF Put, Views

\* A listing has a last file.
LEMMA ListedLast ==
  ASSUME NEW S \in SUBSET Files, S # {}
  PROVE  \E x \in S : \A y \in S \ {x} : ListedBefore(y, x)
<1> DEFINE R == {e \in S \X S : ListedBefore(e[1], e[2])}
           num(x) == drive[x].name \in NumberedPaths
<1>1. IsFiniteSet(S)
  BY FS_Subset, FilesAssumption
<1>2. S \subseteq Nat
  BY FilesAssumption
<1>3. \A x, y \in S : <<x, y>> \in R <=> ListedBefore(x, y)
  OBVIOUS
<1>4. ASSUME NEW x \in S, NEW y \in S
      PROVE  ListedBefore(x, y) <=> \/ num(x) /\ num(y) /\ x < y
                                    \/ ~num(x) /\ ~num(y) /\ x < y
                                    \/ num(x) /\ ~num(y)
  BY DEF ListedBefore
<1> HIDE DEF R, num
<1>5. \A x, y \in S : x # y => <<x, y>> \in R \/ <<y, x>> \in R
  BY <1>2, <1>3, <1>4
<1>6. \A x, y, z \in S : <<x, y>> \in R /\ <<y, z>> \in R => <<x, z>> \in R
  BY <1>2, <1>3, <1>4
<1>7. PICK x \in S : \A y \in S \ {x} : <<y, x>> \in R
  BY <1>1, <1>5, <1>6, LastExists
<1> QED
  BY <1>3, <1>7

\* A listing takes the live files one by one.
LEMMA ListingSolved ==
  ASSUME NEW V, Nothing \in V,
         \A f \in Files : Live(f) => \A v \in V : Put(v, drive[f].name, f) \in V
  PROVE  \E placed, last :
           /\ TakesLast({f \in Files : Live(f)}, last)
           /\ placed[{}] = Nothing
           /\ \A S \in SUBSET {f \in Files : Live(f)} : S # {} =>
                placed[S] = Put(placed[S \ {last[S]}], drive[last[S]].name, last[S])
           /\ ListAllFiles = placed[{f \in Files : Live(f)}]
<1> DEFINE live == {f \in Files : Live(f)}
           pick(S) == CHOOSE f \in S : \A g \in S \ {f} : ListedBefore(g, f)
           Placed(g) == g = [S \in SUBSET live |->
                               IF S = {} THEN Nothing
                               ELSE Put(g[S \ {pick(S)}], drive[pick(S)].name, pick(S))]
           last == [S \in SUBSET live |-> pick(S)]
           step == [f \in live |-> [v \in V |-> Put(v, drive[f].name, f)]]
<1>1. \A f \in live : f \in Files /\ \A v \in V : Put(v, drive[f].name, f) \in V
  OBVIOUS
<1>2. IsFiniteSet(live)
  BY FilesAssumption, FS_Subset
<1>3. TakesLast(live, last)
  <2> SUFFICES ASSUME NEW S \in SUBSET live, S # {}
               PROVE  pick(S) \in S
    BY DEF TakesLast
  <2>1. \E x \in S : \A y \in S \ {x} : ListedBefore(y, x)
    BY <1>1, ListedLast
  <2> QED
    BY <2>1
<1>4. Nothing \in V /\ step \in [live -> [V -> V]]
  BY <1>1
<1>5. PICK g \in [SUBSET live -> V] : Solves(g, live, Nothing, last, step)
  BY <1>2, <1>3, <1>4, RecursionExists
<1>6. Placed(g)
  <2> SUFFICES ASSUME NEW S \in SUBSET live
               PROVE  g[S] = IF S = {} THEN Nothing
                             ELSE Put(g[S \ {pick(S)}], drive[pick(S)].name, pick(S))
    BY <1>5
  <2>1. g[S] = IF S = {} THEN Nothing ELSE step[last[S]][g[S \ {last[S]}]]
    BY <1>5 DEF Solves
  <2>2. last[S] = pick(S) /\ (S # {} => pick(S) \in live)
    BY <1>3 DEF TakesLast
  <2> QED
    BY <2>1, <2>2
<1> DEFINE placed == CHOOSE h : Placed(h)
<1>7. Placed(placed)
  BY <1>6
<1> HIDE DEF placed
<1>8. placed[{}] = Nothing
  BY <1>7
<1>9. ASSUME NEW S \in SUBSET live, S # {}
      PROVE  placed[S] = Put(placed[S \ {last[S]}], drive[last[S]].name, last[S])
  <2>1. last[S] = pick(S)
    OBVIOUS
  <2>2. placed[S] = Put(placed[S \ {pick(S)}], drive[pick(S)].name, pick(S))
    BY <1>7, <1>9
  <2> HIDE DEF pick, last
  <2> QED
    BY <2>1, <2>2
<1>10. ListAllFiles = placed[live]
  BY DEF ListAllFiles, placed
<1> HIDE DEF last
<1> QED
  BY <1>3, <1>8, <1>9, <1>10

\* A listing is in every set that a view cannot leave by one more file.
LEMMA ListingIn ==
  ASSUME NEW V, Nothing \in V,
         \A f \in Files : Live(f) => \A v \in V : Put(v, drive[f].name, f) \in V
  PROVE  ListAllFiles \in V
<1> DEFINE live == {f \in Files : Live(f)}
<1>1. PICK placed, last :
        /\ TakesLast(live, last) /\ placed[{}] = Nothing
        /\ \A S \in SUBSET live : S # {} =>
             placed[S] = Put(placed[S \ {last[S]}], drive[last[S]].name, last[S])
        /\ ListAllFiles = placed[live]
  BY ListingSolved
<1>2. IsFiniteSet(live)
  BY FilesAssumption, FS_Subset
<1>3. ASSUME NEW S \in SUBSET live, S # {}, placed[S \ {last[S]}] \in V
      PROVE  placed[S] \in V
  <2>1. last[S] \in S
    BY <1>1, <1>3 DEF TakesLast
  <2>2. last[S] \in Files /\ Live(last[S])
    BY <1>3, <2>1
  <2>3. placed[S] = Put(placed[S \ {last[S]}], drive[last[S]].name, last[S])
    BY <1>1, <1>3
  <2> QED
    BY <1>3, <2>2, <2>3
<1> HIDE DEF live
<1>4. \A S \in SUBSET live : placed[S] \in V
  BY <1>1, <1>2, <1>3, RecursionType
<1> QED
  BY <1>1, <1>4

\* A listing is a view.
LEMMA ListingType ==
  ASSUME DriveOK
  PROVE  ListAllFiles \in Views
<1>1. Nothing \in Views
  BY DEF Nothing, Views
<1>2. \A f \in Files : Live(f) => \A v \in Views : Put(v, drive[f].name, f) \in Views
  BY PutType DEF Live, Exists, DriveOK, FilesHaveContents
<1> QED
  BY <1>1, <1>2, ListingIn

\* What holds of the empty view and no file, and is kept by one more file,
\* holds of a listing and the live files.
LEMMA ListingInduction ==
  ASSUME DriveOK, NEW P, <<{}, Nothing>> \in P,
         \A f \in Files : Live(f) => \A S \in SUBSET Files, v \in Views :
           <<S, v>> \in P => <<S \cup {f}, Put(v, drive[f].name, f)>> \in P
  PROVE  <<{f \in Files : Live(f)}, ListAllFiles>> \in P
<1> DEFINE live == {f \in Files : Live(f)}
<1>1. Nothing \in Views
  BY DEF Nothing, Views
<1>2. \A f \in Files : Live(f) => \A v \in Views : Put(v, drive[f].name, f) \in Views
  BY PutType DEF Live, Exists, DriveOK, FilesHaveContents
<1>3. PICK placed, last :
        /\ TakesLast(live, last) /\ placed[{}] = Nothing
        /\ \A S \in SUBSET live : S # {} =>
             placed[S] = Put(placed[S \ {last[S]}], drive[last[S]].name, last[S])
        /\ ListAllFiles = placed[live]
  BY <1>1, <1>2, ListingSolved
<1> DEFINE h == [S \in SUBSET live |-> <<S, placed[S]>>]
           V == {e \in P : e[2] \in Views}
<1>4. IsFiniteSet(live) /\ live \subseteq Files /\ \A f \in live : Live(f)
  BY FilesAssumption, FS_Subset
<1>5. h[{}] \in V
  BY <1>1, <1>3
<1>6. ASSUME NEW S \in SUBSET live, S # {}, h[S \ {last[S]}] \in V
      PROVE  h[S] \in V
  <2> DEFINE f == last[S]
             T == S \ {f}
  <2>1. f \in S /\ T \in SUBSET live /\ S = T \cup {f}
    BY <1>3, <1>6 DEF TakesLast
  <2>2. <<T, placed[T]>> \in P /\ placed[T] \in Views
    BY <1>6, <2>1
  <2>3. placed[S] = Put(placed[T], drive[f].name, f)
    BY <1>3, <1>6
  <2> HIDE DEF f, T, live
  <2>4. <<T \cup {f}, placed[S]>> \in P /\ placed[S] \in Views
    BY <1>2, <1>4, <2>1, <2>2, <2>3
  <2> QED
    BY <2>1, <2>4
<1> HIDE DEF h, V, live
<1>7. \A S \in SUBSET live : h[S] \in V
  BY <1>3, <1>4, <1>5, <1>6, RecursionType
<1>8. <<live, placed[live]>> \in P
  BY <1>7 DEF h, V
<1> QED
  BY <1>3, <1>8 DEF live

\* The last change of a batch.
LEMMA ChangedLast ==
  ASSUME DriveOK, NEW S \in SUBSET Files, S # {}, \A f \in S : Exists(f)
  PROVE  \E x \in S : \A y \in S \ {x} : <<y, x>> \in before
<1>1. IsFiniteSet(S)
  BY FS_Subset, FilesAssumption
<1>2. \A x, y \in S : x # y => <<x, y>> \in before \/ <<y, x>> \in before
  BY DEF DriveOK
<1>3. \A x, y, z \in S : <<x, y>> \in before /\ <<y, z>> \in before => <<x, z>> \in before
  BY DEF DriveOK
<1> QED
  BY <1>1, <1>2, <1>3, LastExists

\* What is made of a batch while it is applied.
Partial == [view : Views, at : [Files -> Paths \cup {None}], ok : BOOLEAN]

\* A change applied to a partial result gives a partial result.
LEMMA ApplyType ==
  ASSUME DriveOK, NEW s \in Partial, NEW f \in Files, Exists(f)
  PROVE  ApplyRemoteChange(s, f) \in Partial
<1> DEFINE q == IF s.at[f] = None THEN drive[f].name ELSE s.at[f]
           place == PlaceWithoutClobber(s.view, q, f)
<1>1. q \in Paths
  BY DEF Partial, DriveOK, FilesHaveContents
<1>2. place \in Paths \cup {None} /\ Put(s.view, q, f) \in Views
  BY <1>1, PlaceType, PutType DEF Partial
<1> HIDE DEF q, place
<1>3. CASE ~s.ok
  BY <1>3 DEF ApplyRemoteChange
<1>4. CASE s.ok /\ q # drive[f].name
  BY <1>4 DEF ApplyRemoteChange, Partial, q
<1>5. CASE s.ok /\ q = drive[f].name /\ ~Live(f)
  BY <1>1, <1>5 DEF ApplyRemoteChange, Partial, q, Views
<1>6. CASE s.ok /\ q = drive[f].name /\ Live(f)
  BY <1>2, <1>6 DEF ApplyRemoteChange, Partial, q, place
<1> QED
  BY <1>3, <1>4, <1>5, <1>6

\* A record stands for a row.
LEMMA StubType ==
  ASSUME NEW m \in Record \cup {None}, Sound(m)
  PROVE  Stub(m) \in Rows \cup {None}
BY DEF Stub, Record, Rows, Snapshot, Sound

\* What a batch starts from: the records, for what Drive had.
FromRecords(d, known) ==
  [view |-> [p \in Paths |-> Stub(mem[d][p])], at |-> known, ok |-> TRUE]

\* applied[S] is what the changes of S make; last[S] is the last of them.
OneByOne(d, known, applied, last) ==
  /\ TakesLast(unseen[d], last)
  /\ applied[{}] = FromRecords(d, known)
  /\ \A S \in SUBSET unseen[d] : S # {} =>
       applied[S] = ApplyRemoteChange(applied[S \ {last[S]}], last[S])
  /\ IncrementalView(d, known) = applied[unseen[d]]

\* A batch takes the changes one by one.
LEMMA IncrementalSolved ==
  ASSUME DriveOK, NEW d \in Devices, NEW known, NEW P, FromRecords(d, known) \in P,
         \A f \in Files : Exists(f) => \A s \in P : ApplyRemoteChange(s, f) \in P
  PROVE  \E applied, last : OneByOne(d, known, applied, last)
<1> DEFINE new == unseen[d]
           pick(S) == CHOOSE f \in S : \A g \in S \ {f} : <<g, f>> \in before
           start == FromRecords(d, known)
           Applied(g) == g = [S \in SUBSET new |->
                                IF S = {} THEN start
                                ELSE ApplyRemoteChange(g[S \ {pick(S)}], pick(S))]
           last == [S \in SUBSET new |-> pick(S)]
           step == [f \in new |-> [s \in P |-> ApplyRemoteChange(s, f)]]
<1>1. \A f \in new : f \in Files /\ Exists(f)
  BY DEF DriveOK
<1>2. IsFiniteSet(new)
  BY <1>1, FilesAssumption, FS_Subset
<1>3. TakesLast(new, last)
  <2> SUFFICES ASSUME NEW S \in SUBSET new, S # {}
               PROVE  pick(S) \in S
    BY DEF TakesLast
  <2>1. \E x \in S : \A y \in S \ {x} : <<y, x>> \in before
    BY <1>1, ChangedLast
  <2> QED
    BY <2>1
<1>4. start \in P
  OBVIOUS
<1>5. step \in [new -> [P -> P]]
  BY <1>1
<1>6. PICK g \in [SUBSET new -> P] : Solves(g, new, start, last, step)
  BY <1>2, <1>3, <1>4, <1>5, RecursionExists
<1>7. Applied(g)
  <2> SUFFICES ASSUME NEW S \in SUBSET new
               PROVE  g[S] = IF S = {} THEN start
                             ELSE ApplyRemoteChange(g[S \ {pick(S)}], pick(S))
    BY <1>6
  <2>1. g[S] = IF S = {} THEN start ELSE step[last[S]][g[S \ {last[S]}]]
    <3> HIDE DEF last, step, start
    <3> QED
      BY <1>6 DEF Solves
  <2>2. last[S] = pick(S) /\ (S # {} => pick(S) \in new)
    BY <1>3 DEF TakesLast
  <2>3. S # {} => g[S \ {pick(S)}] \in P
    BY <1>6
  <2>4. S # {} => step[pick(S)][g[S \ {pick(S)}]]
                   = ApplyRemoteChange(g[S \ {pick(S)}], pick(S))
    <3> HIDE DEF pick, start
    <3> QED
      BY <2>2, <2>3
  <2> HIDE DEF pick, last, step, start
  <2> QED
    BY <2>1, <2>2, <2>4
<1> DEFINE applied == CHOOSE h : Applied(h)
<1>8. Applied(applied)
  <2> HIDE DEF Applied
  <2> QED
    BY <1>7, Zenon
<1> HIDE DEF applied
<1>9. applied[{}] = start
  BY <1>8
<1>10. ASSUME NEW S \in SUBSET new, S # {}
       PROVE  applied[S] = ApplyRemoteChange(applied[S \ {last[S]}], last[S])
  <2>1. last[S] = pick(S)
    OBVIOUS
  <2>2. applied[S] = ApplyRemoteChange(applied[S \ {pick(S)}], pick(S))
    <3> HIDE DEF pick, start
    <3> QED
      BY <1>8, <1>10
  <2> HIDE DEF pick, last
  <2> QED
    BY <2>1, <2>2
<1>11. IncrementalView(d, known) = applied[new]
  BY DEF IncrementalView, applied, FromRecords
<1> HIDE DEF last
<1> QED
  BY <1>3, <1>9, <1>10, <1>11 DEF OneByOne

\* What a batch makes is in every set that no change of it leaves.
LEMMA IncrementalIn ==
  ASSUME DriveOK, NEW d \in Devices, NEW known, NEW P, FromRecords(d, known) \in P,
         \A f \in Files : Exists(f) => \A s \in P : ApplyRemoteChange(s, f) \in P
  PROVE  IncrementalView(d, known) \in P
<1> DEFINE new == unseen[d]
<1>1. PICK applied, last : OneByOne(d, known, applied, last)
  BY IncrementalSolved
<1>2. \A f \in new : f \in Files /\ Exists(f)
  BY DEF DriveOK
<1>3. IsFiniteSet(new)
  BY <1>2, FilesAssumption, FS_Subset
<1>4. ASSUME NEW S \in SUBSET new, S # {}, applied[S \ {last[S]}] \in P
      PROVE  applied[S] \in P
  BY <1>1, <1>2, <1>4 DEF TakesLast, OneByOne
<1> applied[{}] \in P /\ TakesLast(new, last) /\ IncrementalView(d, known) = applied[new]
  BY <1>1 DEF OneByOne
<1> HIDE DEF new
<1>5. \A S \in SUBSET new : applied[S] \in P
  BY <1>3, <1>4, RecursionType
<1> QED
  BY <1>5

\* A batch makes a view.
LEMMA IncrementalType ==
  ASSUME DriveOK, StoreOK, NEW d \in Devices, NEW known \in [Files -> Paths \cup {None}]
  PROVE  IncrementalView(d, known) \in Partial
<1>1. \A p \in Paths : Stub(mem[d][p]) \in Rows \cup {None}
  BY StubType DEF StoreOK
<1>2. FromRecords(d, known) \in Partial
  BY <1>1 DEF FromRecords, Partial, Views
<1>3. \A f \in Files : Exists(f) => \A s \in Partial : ApplyRemoteChange(s, f) \in Partial
  BY ApplyType
<1> QED
  BY <1>2, <1>3, IncrementalIn

\* What holds of the records and no change, and is kept by one more change,
\* holds of what a batch makes and all that the feed has.
LEMMA IncrementalInduction ==
  ASSUME DriveOK, StoreOK, NEW d \in Devices, NEW known \in [Files -> Paths \cup {None}],
         NEW P, <<{}, FromRecords(d, known)>> \in P,
         \A f \in unseen[d], S \in SUBSET unseen[d], s \in Partial :
           <<S, s>> \in P => <<S \cup {f}, ApplyRemoteChange(s, f)>> \in P
  PROVE  <<unseen[d], IncrementalView(d, known)>> \in P
<1> DEFINE new == unseen[d]
<1>1. \A p \in Paths : Stub(mem[d][p]) \in Rows \cup {None}
  BY StubType DEF StoreOK
<1>2. FromRecords(d, known) \in Partial
  BY <1>1 DEF FromRecords, Partial, Views
<1>3. \A f \in Files : Exists(f) => \A s \in Partial : ApplyRemoteChange(s, f) \in Partial
  BY ApplyType
<1>4. PICK applied, last : OneByOne(d, known, applied, last)
  BY <1>2, <1>3, IncrementalSolved
<1> DEFINE h == [S \in SUBSET new |-> <<S, applied[S]>>]
           V == {e \in P : e[2] \in Partial}
<1>5. \A f \in new : f \in Files /\ Exists(f)
  BY DEF DriveOK
<1>6. IsFiniteSet(new)
  BY <1>5, FilesAssumption, FS_Subset
<1>7. h[{}] \in V
  BY <1>2, <1>4 DEF OneByOne
<1>8. ASSUME NEW S \in SUBSET new, S # {}, h[S \ {last[S]}] \in V
      PROVE  h[S] \in V
  <2> DEFINE f == last[S]
             T == S \ {f}
  <2>1. f \in S /\ T \in SUBSET new /\ S = T \cup {f}
    BY <1>4, <1>8 DEF TakesLast, OneByOne
  <2>2. <<T, applied[T]>> \in P /\ applied[T] \in Partial
    BY <1>8, <2>1
  <2>3. applied[S] = ApplyRemoteChange(applied[T], f)
    BY <1>4, <1>8 DEF OneByOne
  <2> HIDE DEF f, T
  <2>4. <<T \cup {f}, applied[S]>> \in P /\ applied[S] \in Partial
    BY <1>3, <1>5, <2>1, <2>2, <2>3
  <2> QED
    BY <2>1, <2>4
<1> TakesLast(new, last) /\ IncrementalView(d, known) = applied[new]
  BY <1>4 DEF OneByOne
<1> HIDE DEF h, V, new
<1>9. \A S \in SUBSET new : h[S] \in V
  BY <1>6, <1>7, <1>8, RecursionType
<1>10. <<new, applied[new]>> \in P
  BY <1>9 DEF h, V
<1> QED
  BY <1>10 DEF new

-----------------------------------------------------------------------------
(* The kinds of updates tasks make.                                        *)

\* What a device knows stays good while files go on existing.
LEMMA StoreStays ==
  ASSUME StoreOK, NothingVanishes, UNCHANGED <<rec, mem, view>>
  PROVE  StoreOK'
BY DEF StoreOK, NothingVanishes, Sound, Record, Snapshot

\* The record of a path is replaced or removed.
LEMMA UpsertOK ==
  ASSUME StoreOK, NothingVanishes, NEW d \in Devices, NEW p \in Paths,
         NEW m \in Record \cup {None}, Upsert(d, p, m), UNCHANGED <<rec, view>>,
         m # None => drive'[m.id].st # "none"
  PROVE  /\ StoreOK'
         /\ \A e \in Devices \ {d} : mem'[e] = mem[e]
         /\ \A q \in Paths \ {p} : mem'[d][q] = mem[d][q]
<1>1. mem' \in [Devices -> [Paths -> Record \cup {None}]]
  BY DEF Upsert, StoreOK
<1>2. \A e \in Devices, q \in Paths : mem'[e][q] = IF e = d /\ q = p THEN m ELSE mem[e][q]
  BY DEF Upsert, StoreOK
<1>3. \A e \in Devices \ {d} : mem'[e] = mem[e]
  BY DEF Upsert, StoreOK
<1>4. \A e \in Devices, q \in Paths : Sound(mem[e][q])'
  BY <1>2 DEF StoreOK, NothingVanishes, Sound, Record, Exists
<1>5. \A e \in Devices, q \in Paths : Sound(rec[e][q])' /\ Sound(view[e][q])'
  BY DEF StoreOK, NothingVanishes, Sound, Record, Snapshot
<1> QED
  BY <1>1, <1>2, <1>3, <1>4, <1>5 DEF StoreOK

\* A task that nothing touches stays fit.
LEMMA TaskStays ==
  ASSUME TasksOK, NothingVanishes, NEW d \in Devices, NEW p \in Paths,
         todo'[d][p] = todo[d][p], mem'[d][p] = mem[d][p]
  PROVE  Fit(todo[d][p], mem[d][p])'
<1>1. todo[d][p] \in Task /\ Fit(todo[d][p], mem[d][p])
  BY DEF TasksOK
<1> QED
  BY <1>1 DEF NothingVanishes, Fit, Sound, Task, Snapshot

\* A step of d that leaves its other tasks alone or makes them fit.
LEMMA TasksStep ==
  ASSUME TasksOK, NothingVanishes, NEW d \in Devices,
         todo' \in [Devices -> [Paths -> Task]],
         \A e \in Devices \ {d} : todo'[e] = todo[e] /\ mem'[e] = mem[e],
         \A p \in Paths : \/ todo'[d][p] = todo[d][p] /\ mem'[d][p] = mem[d][p]
                          \/ Fit(todo[d][p], mem[d][p])'
  PROVE  TasksOK'
<1>1. \A e \in Devices, p \in Paths : Fit(todo[e][p], mem[e][p])'
  BY TaskStays
<1> QED
  BY <1>1 DEF TasksOK

\* The two tasks of a path that has nothing to do are tasks.
LEMMA NoTaskType == NoTask \in Task /\ FailedTask \in Task
<1>1. NoMd5 \in Contents \cup {NoMd5} /\ 0 \in Nat
  OBVIOUS
<1> QED
  BY <1>1 DEF NoTask, FailedTask, Task, Acts, Steps

\* A task goes on to a step it has all it needs for.
LEMMA GotoOK ==
  ASSUME TasksOK, NothingVanishes, NEW d \in Devices, NEW p \in Paths,
         NEW a \in Steps \ {"mismatch", "ready"}, Goto(d, p, a), UNCHANGED mem,
         todo[d][p].act \in {"update", "create"} => todo[d][p].at # "ready",
         todo[d][p].act = "create" /\ a \in {"linked", "effected", "done"}
         => todo[d][p].at \in {"linked", "effected", "done"}
  PROVE  TasksOK'
<1>1. todo[d][p] \in Task /\ Fit(todo[d][p], mem[d][p])
  BY DEF TasksOK
<1>2. todo' \in [Devices -> [Paths -> Task]]
  BY <1>1 DEF Goto, TasksOK, Task
<1>3. todo'[d][p] = [todo[d][p] EXCEPT !.at = a]
  BY DEF Goto, TasksOK
<1>4. Fit(todo[d][p], mem[d][p])'
  BY <1>1, <1>3 DEF NothingVanishes, Fit, Sound, Task, Snapshot
<1>5. /\ \A e \in Devices \ {d} : todo'[e] = todo[e]
      /\ \A q \in Paths \ {p} : todo'[d][q] = todo[d][q]
  BY DEF Goto, TasksOK
<1> QED
  BY <1>2, <1>4, <1>5, TasksStep

\* No task is fit for nothing.
LEMMA NoTaskFits ==
  ASSUME NEW d \in Devices, NEW p \in Paths, todo'[d][p] \in {NoTask, FailedTask}
  PROVE  Fit(todo[d][p], mem[d][p])'
BY DEF NoTask, FailedTask, Fit, Sound

\* A task ends, and may have written its record.
LEMMA EndOK ==
  ASSUME TasksOK, NothingVanishes, NEW d \in Devices, NEW p \in Paths, End(d, p),
         \A e \in Devices \ {d} : mem'[e] = mem[e],
         \A q \in Paths \ {p} : mem'[d][q] = mem[d][q]
  PROVE  TasksOK'
<1>1. todo' \in [Devices -> [Paths -> Task]]
  BY NoTaskType DEF End, TasksOK
<1>2. /\ \A e \in Devices \ {d} : todo'[e] = todo[e]
      /\ \A q \in Paths \ {p} : todo'[d][q] = todo[d][q]
      /\ todo'[d][p] = NoTask
  BY DEF End, TasksOK
<1>3. Fit(todo[d][p], mem[d][p])'
  BY <1>2, NoTaskFits
<1> QED
  BY <1>1, <1>2, <1>3, TasksStep

\* A task fails, with those that wait for it.
LEMMA FailOK ==
  ASSUME TasksOK, NothingVanishes, NEW d \in Devices, NEW p \in Paths,
         FailTask(d, p), UNCHANGED mem
  PROVE  TasksOK'
<1>1. todo' \in [Devices -> [Paths -> Task]]
  BY NoTaskType DEF FailTask, TasksOK
<1>2. /\ \A e \in Devices \ {d} : todo'[e] = todo[e]
      /\ \A q \in Paths : todo'[d][q] \in {todo[d][q], FailedTask}
  BY DEF FailTask, TasksOK
<1>3. \A q \in Paths : todo'[d][q] = todo[d][q] \/ Fit(todo[d][q], mem[d][q])'
  BY <1>2, NoTaskFits
<1> QED
  BY <1>1, <1>2, <1>3, TasksStep

\* Journal entries and errors keep their types.
LEMMA JournalType ==
  ASSUME CycleOK, NEW d \in Devices, NEW p \in Paths,
         \/ UNCHANGED jrn
         \/ ClearPendingOp(d, p)
         \/ \E stage \in Stages : SetPendingOp(d, p, stage)
  PROVE  jrn' \in [Devices -> [Paths -> PendingOp \cup {None}]]
<1>1. KindOf(todo[d][p].act) \in Kinds
  BY DEF KindOf, Kinds
<1>2. ASSUME NEW op \in PendingOp \cup {None}, jrn' = [jrn EXCEPT ![d][p] = op]
      PROVE  jrn' \in [Devices -> [Paths -> PendingOp \cup {None}]]
  BY <1>2 DEF CycleOK
<1>3. CASE UNCHANGED jrn
  BY <1>3 DEF CycleOK
<1>4. CASE ClearPendingOp(d, p)
  BY <1>2, <1>4 DEF ClearPendingOp
<1>5. ASSUME NEW stage \in Stages, SetPendingOp(d, p, stage)
      PROVE  jrn' \in [Devices -> [Paths -> PendingOp \cup {None}]]
  <2>1. [kind |-> KindOf(todo[d][p].act), stage |-> stage] \in PendingOp
    BY <1>1 DEF PendingOp
  <2> QED
    BY <1>2, <1>5, <2>1 DEF SetPendingOp
<1> QED
  BY <1>3, <1>4, <1>5

\* A failed task leaves an error and no more.
LEMMA FailType ==
  ASSUME CycleOK, NEW d \in Devices, NEW p \in Paths, FailTask(d, p)
  PROVE  errs' \in [Devices -> BOOLEAN]
BY DEF CycleOK, FailTask

-----------------------------------------------------------------------------
(* Task steps.                                                             *)

\* What is left of a step of a task when Drive, records and tasks are fine.
LEMMA TaskStepOK ==
  ASSUME TInv, UNCHANGED taskFrame, DriveOK', StoreOK', TasksOK',
         jrn' \in [Devices -> [Paths -> PendingOp \cup {None}]],
         tomb' \in [Devices -> [Paths -> {NoTomb, 0, 1}]],
         errs' \in [Devices -> BOOLEAN],
         disk' \in [Devices -> [Paths -> LocalFile \cup {None}]],
         trash' \in [Devices -> SUBSET Contents],
         raced' \in SUBSET Contents,
         faults' \in Nat, defers' \in Nat
  PROVE  TInv'
BY DEF TInv, taskFrame, UserOK, CycleOK

\* The same, for a step that has no part in Drive, disk and records.
LEMMA InnerStepOK ==
  ASSUME TInv, UNCHANGED <<taskFrame, driveVars, diskVars, mem, raced>>, TasksOK',
         jrn' \in [Devices -> [Paths -> PendingOp \cup {None}]],
         tomb' \in [Devices -> [Paths -> {NoTomb, 0, 1}]],
         errs' \in [Devices -> BOOLEAN],
         faults' \in Nat, defers' \in Nat
  PROVE  TInv'
<1>1. DriveOK' /\ NothingVanishes
  BY SameDriveOK DEF TInv
<1>2. StoreOK'
  BY <1>1, StoreStays DEF TInv, taskFrame
<1> QED
  BY <1>1, <1>2, TaskStepOK DEF TInv, UserOK, diskVars

\* The vector a write gives a file is one.
LEMMA NextVectorType ==
  ASSUME TInv, NEW d \in Devices, NEW p \in Paths
  PROVE  NextVector(d, p) \in Vector
<1> DEFINE of(r) == IF r = None THEN EmptyVector ELSE r.vv
           row == todo[d][p].row
<1>1. of(mem[d][p]) \in Vector /\ of(row) \in Vector
  BY EmptyVectorType DEF TInv, StoreOK, TasksOK, Task, Record, Snapshot
<1>2. NextVector(d, p) = Written(Increment(Merge(of(mem[d][p]), of(row)), d), d, of(row))
  BY DEF NextVector
<1> HIDE DEF of, row
<1>3. Increment(Merge(of(mem[d][p]), of(row)), d) \in Vector
  BY <1>1, MergeType, IncrementType
<1> QED
  BY <1>1, <1>2, <1>3, WrittenType

\* A record made of a row and a local file.
LEMMA RecordOfType ==
  ASSUME NEW r \in Snapshot, NEW c \in Contents, NEW local \in LocalFile
  PROVE  RecordOf(r, c, local) \in Record /\ RecordOf(r, c, local).id = r.id
BY DEF RecordOf, Record, Snapshot, LocalFile

\* Cleanup drops a record.
LEMMA CleanupTInv ==
  ASSUME TInv, NEW d \in Devices, NEW p \in Paths, CleanupMetadata(d, p)
  PROVE  TInv'
<1>1. DriveOK' /\ NothingVanishes
  BY SameDriveOK DEF TInv, CleanupMetadata
<1>2. /\ StoreOK' /\ \A e \in Devices \ {d} : mem'[e] = mem[e]
      /\ \A q \in Paths \ {p} : mem'[d][q] = mem[d][q]
  BY <1>1, UpsertOK DEF TInv, CleanupMetadata, taskFrame
<1>3. TasksOK'
  BY <1>1, <1>2, EndOK DEF TInv, CleanupMetadata
<1> QED
  BY <1>1, <1>2, <1>3, TaskStepOK DEF TInv, CleanupMetadata, CycleOK, UserOK, diskVars, boundVars

\* A touch needs the record the matrix saw: nobody else drops it.
LEMMA TouchTInv ==
  ASSUME TInv, NEW d \in Devices, NEW p \in Paths, TouchMetadata(d, p)
  PROVE  TInv'
<1>1. DriveOK' /\ NothingVanishes
  BY SameDriveOK DEF TInv, TouchMetadata
<1>2. CASE disk[d][p] = None
  <2>1. TasksOK' /\ errs' \in [Devices -> BOOLEAN]
    BY <1>1, <1>2, FailOK, FailType DEF TInv, TouchMetadata
  <2> QED
    BY <1>2, <2>1, InnerStepOK DEF TInv, TouchMetadata, CycleOK, UserOK, boundVars
<1>3. CASE disk[d][p] # None
  <2> DEFINE m == [mem[d][p] EXCEPT !.md5 = disk[d][p].md5, !.stat = disk[d][p].stat]
  <2>1. mem[d][p] \in Record /\ Sound(mem[d][p]) /\ disk[d][p] \in LocalFile /\ mem[d][p] # None
    BY <1>3 DEF TInv, TouchMetadata, At, TasksOK, Fit, StoreOK, UserOK
  <2>2. m \in Record /\ m.id = mem[d][p].id
    BY <2>1 DEF Record, LocalFile
  <2>3. drive'[m.id].st # "none"
    <3>1. mem[d][p].id \in Files /\ Exists(mem[d][p].id)
      BY <2>1 DEF Record, Sound
    <3> QED
      BY <1>1, <2>2, <3>1 DEF NothingVanishes, Exists
  <2>4. Upsert(d, p, m)
    BY <1>3 DEF TouchMetadata
  <2> HIDE DEF m
  <2>5. /\ StoreOK' /\ \A e \in Devices \ {d} : mem'[e] = mem[e]
        /\ \A q \in Paths \ {p} : mem'[d][q] = mem[d][q]
    BY <1>1, <2>2, <2>3, <2>4, UpsertOK DEF TInv, TouchMetadata, taskFrame
  <2>6. TasksOK'
    BY <1>1, <1>3, <2>5, EndOK DEF TInv, TouchMetadata
  <2> QED
    BY <1>1, <1>3, <2>5, <2>6, TaskStepOK DEF TInv, TouchMetadata, CycleOK, UserOK, diskVars, boundVars
<1> QED
  BY <1>2, <1>3

\* Both ways to keep both start from a task that has a file and a row.
LEMMA KeepBothTInv ==
  ASSUME TInv, NEW d \in Devices, NEW p \in Paths, BeginConflict(d, p) \/ RevisionMismatch(d, p)
  PROVE  TInv'
<1> DEFINE t == todo[d][p]
           copy == [NoTask EXCEPT !.act = "download", !.at = "ready", !.id = t.id, !.row = t.row]
           back(c) == [NoTask EXCEPT !.act = "update", !.at = "ready", !.id = t.id,
                                     !.row = t.row, !.after = c]
<1>1. PICK c \in CopyPaths : todo' = [todo EXCEPT ![d][c] = copy, ![d][p] = back(c)]
  <2>1. KeepBoth(d, p)
    BY DEF BeginConflict, RevisionMismatch
  <2> QED
    BY <2>1, Zenon DEF KeepBoth
<1>2. c \in Paths
  BY PathsAssumption
<1>3. \/ todo[d][p].act = "conflict"
      \/ todo[d][p].act = "update" /\ todo[d][p].at = "mismatch"
  <2>1. At(d, p, {"conflict"}, "ready") \/ At(d, p, {"update"}, "mismatch")
    BY DEF BeginConflict, RevisionMismatch
  <2> QED
    BY <2>1 DEF At
<1>4. t \in Task /\ Fit(t, mem[d][p])
  BY DEF TInv, TasksOK
<1>5. t.id \in Files /\ Exists(t.id) /\ t.row # None /\ t.row \in Snapshot /\ Exists(t.row.id)
  BY <1>3, <1>4 DEF Fit, Task, Sound
<1>6. DriveOK' /\ NothingVanishes /\ UNCHANGED mem
  BY SameDriveOK DEF TInv, BeginConflict, RevisionMismatch
<1>7. copy \in Task /\ back(c) \in Task
  <2>1. copy \in Task
    BY <1>5, NoTaskType DEF Task, NoTask, Acts, Steps
  <2>2. back(c) \in Task
    BY <1>2, <1>5, NoTaskType DEF Task, NoTask, Acts, Steps
  <2> QED
    BY <2>1, <2>2
<1>8. todo' \in [Devices -> [Paths -> Task]]
  BY <1>1, <1>2, <1>7 DEF TInv, TasksOK
<1>9. /\ \A e \in Devices \ {d} : todo'[e] = todo[e]
      /\ \A q \in Paths : todo'[d][q] \in {todo[d][q], copy, back(c)}
  BY <1>1, <1>2 DEF TInv, TasksOK
<1>10. (t.id \in Files /\ drive'[t.id].st # "none") /\ drive'[t.row.id].st # "none"
  BY <1>5, <1>6 DEF NothingVanishes, Snapshot, Exists
<1>11. ASSUME NEW q \in Paths, todo'[d][q] \in {copy, back(c)}
      PROVE  Fit(todo[d][q], mem[d][q])'
  BY <1>5, <1>10, <1>11 DEF Fit, Sound, NoTask, Exists
<1>12. TasksOK'
  BY <1>6, <1>8, <1>9, <1>11, TasksStep DEF TInv
<1> QED
  BY <1>6, <1>12, InnerStepOK
  DEF TInv, BeginConflict, RevisionMismatch, CycleOK, UserOK, boundVars

\* One task is replaced by one that fits.
LEMMA SetTaskOK ==
  ASSUME TasksOK, NothingVanishes, NEW d \in Devices, NEW p \in Paths,
         NEW t \in Task, todo' = [todo EXCEPT ![d][p] = t], UNCHANGED mem,
         Fit(todo[d][p], mem[d][p])'
  PROVE  TasksOK'
<1>1. todo' \in [Devices -> [Paths -> Task]]
  BY DEF TasksOK
<1>2. /\ \A e \in Devices \ {d} : todo'[e] = todo[e]
      /\ \A q \in Paths \ {p} : todo'[d][q] = todo[d][q]
  BY DEF TasksOK
<1> QED
  BY <1>1, <1>2, TasksStep

\* Steps that only move their task on, and write the journal.
LEMMA MarkTInv ==
  ASSUME TInv, NEW d \in Devices, NEW p \in Paths,
         \/ StartUpdate(d, p) \/ PlanDownload(d, p) \/ StartDownload(d, p)
         \/ StartDelete(d, p) \/ MarkDone(d, p)
  PROVE  TInv'
<1>1. DriveOK' /\ NothingVanishes /\ UNCHANGED mem
  BY SameDriveOK DEF TInv, StartUpdate, PlanDownload, StartDownload, StartDelete, MarkDone
<1>2. PICK a \in Steps \ {"mismatch", "ready"}, stage \in Stages :
        /\ Goto(d, p, a) /\ SetPendingOp(d, p, stage)
        /\ todo[d][p].act \in {"update", "create"} => todo[d][p].at # "ready"
        /\ todo[d][p].act = "create" /\ a \in {"linked", "effected", "done"}
           => todo[d][p].at \in {"linked", "effected", "done"}
  <2>1. CASE StartUpdate(d, p)
    <3>1. /\ SetPendingOp(d, p, "SideEffectStarted")
          /\ Goto(d, p, "started") \/ Goto(d, p, "checked")
      BY <2>1 DEF StartUpdate
    <3> QED
      BY <2>1, <3>1 DEF StartUpdate, At, Steps, Stages
  <2>2. CASE PlanDownload(d, p)
    <3>1. SetPendingOp(d, p, "Planned") /\ Goto(d, p, "planned")
      BY <2>2 DEF PlanDownload
    <3> QED
      BY <2>2, <3>1 DEF PlanDownload, At, Steps, Stages
  <2>3. CASE StartDownload(d, p) \/ StartDelete(d, p)
    <3>1. SetPendingOp(d, p, "SideEffectStarted") /\ Goto(d, p, "started")
      BY <2>3 DEF StartDownload, StartDelete
    <3> QED
      BY <2>3, <3>1 DEF StartDownload, StartDelete, At, Steps, Stages
  <2>4. CASE MarkDone(d, p)
    <3>1. SetPendingOp(d, p, "SideEffectDone") /\ Goto(d, p, "done")
      BY <2>4 DEF MarkDone
    <3> QED
      BY <2>4, <3>1 DEF MarkDone, At, Steps, Stages
  <2> QED
    BY <2>1, <2>2, <2>3, <2>4
<1>3. TasksOK'
  BY <1>1, <1>2, GotoOK DEF TInv
<1>4. jrn' \in [Devices -> [Paths -> PendingOp \cup {None}]]
  BY <1>2, JournalType DEF TInv
<1>5. UNCHANGED <<taskFrame, driveVars, diskVars, tomb, mem, errs, raced, boundVars>>
  BY DEF StartUpdate, PlanDownload, StartDownload, StartDelete, MarkDone
<1>6. CycleOK /\ UserOK
  BY DEF TInv
<1>7. tomb' \in [Devices -> [Paths -> {NoTomb, 0, 1}]] /\ errs' \in [Devices -> BOOLEAN]
      /\ faults' \in Nat /\ defers' \in Nat
  BY <1>5, <1>6 DEF CycleOK, UserOK, boundVars
<1> QED
  BY <1>3, <1>4, <1>5, <1>7, InnerStepOK

\* An upload looks at the disk before it starts: from then on it has a checksum.
LEMMA PlanUploadTInv ==
  ASSUME TInv, NEW d \in Devices, NEW p \in Paths, PlanUpload(d, p)
  PROVE  TInv'
<1>1. DriveOK' /\ NothingVanishes /\ UNCHANGED mem
  BY SameDriveOK DEF TInv, PlanUpload
<1>2. CASE disk[d][p] = None
  <2>1. TasksOK' /\ errs' \in [Devices -> BOOLEAN]
    BY <1>1, <1>2, FailOK, FailType DEF TInv, PlanUpload
  <2> QED
    BY <1>2, <2>1, InnerStepOK DEF TInv, PlanUpload, CycleOK, UserOK, boundVars
<1>3. CASE disk[d][p] # None
  <2> DEFINE t == [todo[d][p] EXCEPT !.at = "planned", !.md5 = disk[d][p].md5]
  <2>1. todo[d][p] \in Task /\ Fit(todo[d][p], mem[d][p]) /\ disk[d][p].md5 \in Contents
    BY <1>3 DEF TInv, TasksOK, UserOK, LocalFile
  <2>2. todo[d][p].act \in {"update", "create"} /\ todo[d][p].at = "ready"
    BY DEF PlanUpload, Ready, At
  <2>3. t \in Task
    BY <2>1 DEF Task, Steps
  <2>4. todo' = [todo EXCEPT ![d][p] = t]
    BY <1>3 DEF PlanUpload, TInv, TasksOK
  <2>5. todo'[d][p] = t
    BY <2>4 DEF TInv, TasksOK
  <2>6. Fit(todo[d][p], mem[d][p])'
    BY <1>1, <2>1, <2>2, <2>5 DEF Fit, Sound, NothingVanishes, Task, Snapshot
  <2> HIDE DEF t
  <2>7. TasksOK'
    BY <1>1, <2>3, <2>4, <2>6, SetTaskOK DEF TInv
  <2>8. jrn' \in [Devices -> [Paths -> PendingOp \cup {None}]]
    BY <1>3, JournalType DEF TInv, PlanUpload, Stages
  <2> QED
    BY <1>3, <2>7, <2>8, InnerStepOK DEF TInv, PlanUpload, CycleOK, UserOK, boundVars
<1> QED
  BY <1>2, <1>3

\* The guard leaves the row it saw when it does not match.
LEMMA PreflightTInv ==
  ASSUME TInv, NEW d \in Devices, NEW p \in Paths, Preflight(d, p)
  PROVE  TInv'
<1> DEFINE f == todo[d][p].id
<1>1. DriveOK' /\ NothingVanishes /\ UNCHANGED <<mem, drive>>
  BY SameDriveOK DEF TInv, Preflight, driveVars
<1>2. todo[d][p] \in Task /\ Fit(todo[d][p], mem[d][p])
  BY DEF TInv, TasksOK
<1>3. todo[d][p].act = "update" /\ todo[d][p].at = "started"
  BY DEF Preflight, At
<1>4. f \in Files /\ Exists(f) /\ drive[f].rev \in Nat /\ Row(f) \in Rows
  BY <1>2, <1>3, RowType DEF Fit, TInv, DriveOK, DriveFile
<1>5. PICK t \in Task : todo' = [todo EXCEPT ![d][p] = t]
                        /\ (t = [todo[d][p] EXCEPT !.at = "checked", !.seen = drive[f].rev]
                            \/ t = [todo[d][p] EXCEPT !.at = "mismatch", !.row = Row(f)])
  <2>1. CASE RevisionGuardMatches(d, p, f)
    <3> DEFINE t == [todo[d][p] EXCEPT !.at = "checked", !.seen = drive[f].rev]
    <3>1. t \in Task
      BY <1>2, <1>4 DEF Task, Steps
    <3>2. todo' = [todo EXCEPT ![d][p] = t]
      BY <2>1 DEF Preflight, TInv, TasksOK
    <3> QED
      BY <3>1, <3>2
  <2>2. CASE ~RevisionGuardMatches(d, p, f)
    <3> DEFINE t == [todo[d][p] EXCEPT !.at = "mismatch", !.row = Row(f)]
    <3>1. t \in Task
      BY <1>2, <1>4 DEF Task, Steps, Rows
    <3>2. todo' = [todo EXCEPT ![d][p] = t]
      BY <2>2 DEF Preflight, TInv, TasksOK
    <3> QED
      BY <3>1, <3>2
  <2> QED
    BY <2>1, <2>2
<1>6. todo'[d][p] = t
  BY <1>5 DEF TInv, TasksOK
<1>7. Fit(t, mem[d][p])
  <2>1. CASE t = [todo[d][p] EXCEPT !.at = "checked", !.seen = drive[f].rev]
    BY <1>2, <1>3, <2>1 DEF Fit, Task
  <2>2. CASE t = [todo[d][p] EXCEPT !.at = "mismatch", !.row = Row(f)]
    BY <1>2, <1>3, <1>4, <2>2, NoEntryAssumption DEF Fit, Task, Sound, Rows
  <2> QED
    BY <1>5, <2>1, <2>2
<1>8. Fit(todo[d][p], mem[d][p])'
  BY <1>1, <1>6, <1>7 DEF Fit, Sound, Exists
<1>9. TasksOK'
  BY <1>1, <1>5, <1>8, SetTaskOK DEF TInv
<1>10. jrn' \in [Devices -> [Paths -> PendingOp \cup {None}]]
  BY JournalType DEF TInv, Preflight
<1> QED
  BY <1>9, <1>10, InnerStepOK DEF TInv, Preflight, CycleOK, UserOK, boundVars
\* A file of Drive with one field changed is one still.
LEMMA FileType ==
  ASSUME DriveOK, NEW f \in Files, Exists(f)
  PROVE  /\ \A c \in Contents : LET file == WithContent(f, c)
              IN file \in DriveFile /\ file.st # "none" /\ file.md5 \in Contents
                 /\ file.name \in Paths
         /\ \A vv \in Vector : LET file == [drive[f] EXCEPT !.vv = vv]
              IN file \in DriveFile /\ file.st # "none" /\ file.md5 \in Contents
                 /\ file.name \in Paths
         /\ \A st \in {"live", "trashed"} : LET file == [drive[f] EXCEPT !.st = st]
              IN file \in DriveFile /\ file.st # "none" /\ file.md5 \in Contents
                 /\ file.name \in Paths
<1>1. /\ drive[f] \in DriveFile /\ drive[f].st \in {"live", "trashed"}
      /\ drive[f].md5 \in Contents /\ drive[f].name \in Paths
  BY DEF DriveOK, Exists, FilesHaveContents, DriveFile
<1>2. ASSUME NEW c \in Contents
      PROVE  LET file == WithContent(f, c)
             IN file \in DriveFile /\ file.st # "none" /\ file.md5 \in Contents
                 /\ file.name \in Paths
  <2>1. WithContent(f, c) = [drive[f] EXCEPT !.md5 = c, !.rev = drive[f].rev + 1]
    BY DEF WithContent
  <2>2. drive[f].rev + 1 \in Nat
    BY <1>1 DEF DriveFile
  <2> QED
    BY <1>1, <2>1, <2>2 DEF DriveFile
<1>3. ASSUME NEW vv \in Vector
      PROVE  LET file == [drive[f] EXCEPT !.vv = vv]
             IN file \in DriveFile /\ file.st # "none" /\ file.md5 \in Contents
                 /\ file.name \in Paths
  BY <1>1 DEF DriveFile
<1>4. ASSUME NEW st \in {"live", "trashed"}
      PROVE  LET file == [drive[f] EXCEPT !.st = st]
             IN file \in DriveFile /\ file.st # "none" /\ file.md5 \in Contents
                 /\ file.name \in Paths
  BY <1>1 DEF DriveFile
<1> QED
  BY <1>2, <1>3, <1>4

\* New bytes: the file is one the task was given.
LEMMA PatchMediaTInv ==
  ASSUME TInv, NEW d \in Devices, NEW p \in Paths, PatchMedia(d, p)
  PROVE  TInv'
<1> DEFINE f == todo[d][p].id
<1>1. todo[d][p].act = "update" /\ todo[d][p].at = "checked"
  BY DEF PatchMedia, At
<1>2. f \in Files /\ Exists(f) /\ drive[f].md5 \in Contents
  BY <1>1 DEF TInv, TasksOK, Fit, DriveOK, FilesHaveContents
<1>3. CASE disk[d][p] = None
  <2>1. DriveOK' /\ NothingVanishes
    BY <1>3, SameDriveOK DEF TInv, PatchMedia
  <2>2. TasksOK' /\ errs' \in [Devices -> BOOLEAN]
    BY <2>1, <1>3, FailOK, FailType DEF TInv, PatchMedia
  <2> QED
    BY <1>3, <2>2, InnerStepOK DEF TInv, PatchMedia, CycleOK, UserOK, boundVars
<1>4. CASE disk[d][p] # None
  <2>1. disk[d][p].md5 \in Contents
    BY <1>4 DEF TInv, UserOK, LocalFile
  <2>2. DriveOK' /\ NothingVanishes
    BY <1>2, <1>4, <2>1, FileType, ChangeDriveOK DEF TInv, PatchMedia
  <2>3. TasksOK'
    BY <1>1, <1>4, <2>2, GotoOK DEF TInv, PatchMedia, Steps
  <2>4. StoreOK'
    BY <2>2, StoreStays DEF TInv, PatchMedia, taskFrame
  <2>5. raced' \in SUBSET Contents
    BY <1>2, <1>4 DEF TInv, UserOK, PatchMedia
  <2> QED
    BY <1>4, <2>2, <2>3, <2>4, <2>5, TaskStepOK
    DEF TInv, PatchMedia, CycleOK, UserOK, boundVars, diskVars
<1> QED
  BY <1>3, <1>4

\* The vector goes to the file an update has written, before its record does.
LEMMA VectorWritten ==
  ASSUME TInv, NEW d \in Devices, NEW p \in Paths, At(d, p, {"update"}, "done"),
         ChangeDrive(todo[d][p].id,
                     [drive[todo[d][p].id] EXCEPT !.vv = NextVector(d, p)])
  PROVE  DriveOK' /\ NothingVanishes
<1> DEFINE f == todo[d][p].id
           file == [drive[f] EXCEPT !.vv = NextVector(d, p)]
<1>1. f \in Files /\ Exists(f)
  BY DEF TInv, TasksOK, Fit, At
<1>2. file \in DriveFile /\ file.st # "none" /\ file.md5 \in Contents /\ file.name \in Paths
  BY <1>1, NextVectorType, FileType DEF TInv
<1> HIDE DEF file
<1> QED
  BY <1>1, <1>2, ChangeDriveOK DEF TInv, file

\* When the answer to that is lost, the task has failed.
LEMMA LoseAnswerTInv ==
  ASSUME TInv, NEW d \in Devices, NEW p \in Paths, LoseAnswer(d, p)
  PROVE  TInv'
<1>1. DriveOK' /\ NothingVanishes
  BY VectorWritten DEF LoseAnswer
<1>2. TasksOK' /\ errs' \in [Devices -> BOOLEAN]
  BY <1>1, FailOK, FailType DEF TInv, LoseAnswer
<1>3. StoreOK'
  BY <1>1, StoreStays DEF TInv, LoseAnswer, taskFrame
<1>4. faults' \in Nat
  BY DEF TInv, UserOK, LoseAnswer
<1> QED
  BY <1>1, <1>2, <1>3, <1>4, TaskStepOK
  DEF TInv, LoseAnswer, CycleOK, UserOK, diskVars

\* The record of an update speaks of the file just written.
LEMMA CommitUpdateTInv ==
  ASSUME TInv, NEW d \in Devices, NEW p \in Paths, CommitUpdate(d, p)
  PROVE  TInv'
<1> DEFINE f == todo[d][p].id
           vv == NextVector(d, p)
           row == [Row(f) EXCEPT !.vv = vv]
           m == RecordOf(row, todo[d][p].md5, disk[d][p])
<1>1. todo[d][p].act = "update" /\ todo[d][p].at = "done"
  BY DEF CommitUpdate, At
<1>2. f \in Files /\ Exists(f) /\ todo[d][p].md5 \in Contents
  BY <1>1 DEF TInv, TasksOK, Fit
<1>3. vv \in Vector
  BY NextVectorType
<1>4. DriveOK' /\ NothingVanishes
  BY VectorWritten DEF CommitUpdate
<1>5. row \in Snapshot /\ row.id = f /\ row.md5 \in Contents
  BY <1>2, <1>3, RowType DEF TInv, Rows, Row, Snapshot, DriveOK, FilesHaveContents
<1>6. CASE disk[d][p] = None
  <2>1. TasksOK' /\ errs' \in [Devices -> BOOLEAN]
    BY <1>4, <1>6, FailOK, FailType DEF TInv, CommitUpdate
  <2>2. StoreOK'
    BY <1>4, <1>6, StoreStays DEF TInv, CommitUpdate, taskFrame
  <2> QED
    BY <1>4, <1>6, <2>1, <2>2, TaskStepOK
    DEF TInv, CommitUpdate, CycleOK, UserOK, boundVars, diskVars
<1>7. CASE disk[d][p] # None
  <2>1. disk[d][p] \in LocalFile
    BY <1>7 DEF TInv, UserOK
  <2>2. m \in Record /\ m.id = f
    BY <1>2, <1>5, <2>1, RecordOfType
  <2>3. drive'[f].st # "none"
    BY <1>2, <1>4 DEF NothingVanishes, Exists
  <2>4. /\ Upsert(d, p, m) /\ SetPendingOp(d, p, "MetadataCommitted") /\ End(d, p)
        /\ raced' \in SUBSET Contents
    BY <1>5, <1>7 DEF CommitUpdate, TInv, UserOK
  <2> HIDE DEF m, row, vv
  <2>5. /\ StoreOK' /\ \A e \in Devices \ {d} : mem'[e] = mem[e]
        /\ \A q \in Paths \ {p} : mem'[d][q] = mem[d][q]
    BY <1>4, <2>2, <2>3, <2>4, UpsertOK DEF TInv, CommitUpdate, taskFrame
  <2>6. TasksOK'
    BY <1>4, <2>4, <2>5, EndOK DEF TInv
  <2>7. jrn' \in [Devices -> [Paths -> PendingOp \cup {None}]]
    BY <2>4, JournalType DEF TInv, Stages
  <2> QED
    BY <1>4, <1>7, <2>4, <2>5, <2>6, <2>7, TaskStepOK
    DEF TInv, CommitUpdate, CycleOK, UserOK, boundVars, diskVars
<1> QED
  BY <1>6, <1>7

\* A linked file exists.
LEMMA FindRemoteTInv ==
  ASSUME TInv, NEW d \in Devices, NEW p \in Paths, FindRemoteFileByContent(d, p)
  PROVE  TInv'
<1> DEFINE same == {f \in Files : Live(f) /\ drive[f].name = p
                                  /\ drive[f].md5 = todo[d][p].md5}
           t == [todo[d][p] EXCEPT !.at = "linked", !.id = Min2(same)]
<1>1. DriveOK' /\ NothingVanishes /\ UNCHANGED <<mem, drive>>
  BY SameDriveOK DEF TInv, FindRemoteFileByContent, driveVars
<1>2. todo[d][p] \in Task /\ Fit(todo[d][p], mem[d][p])
  BY DEF TInv, TasksOK
<1>3. todo[d][p].act = "create" /\ todo[d][p].at = "planned"
  BY DEF FindRemoteFileByContent, At
<1>4. TasksOK' /\ jrn' \in [Devices -> [Paths -> PendingOp \cup {None}]]
  <2>1. CASE same # {}
    <3>1. Min2(same) \in same
      BY <2>1, Min2InSet, FilesAssumption
    <3>2. t \in Task
      BY <1>2, <3>1 DEF Task, Steps
    <3>3. todo' = [todo EXCEPT ![d][p] = t] /\ UNCHANGED jrn
      BY <2>1 DEF FindRemoteFileByContent, TInv, TasksOK
    <3>4. todo'[d][p] = t
      BY <3>3 DEF TInv, TasksOK
    <3>5. Fit(t, mem[d][p])
      BY <1>2, <1>3, <3>1 DEF Fit, Task, Live, Exists
    <3>6. Fit(todo[d][p], mem[d][p])'
      BY <1>1, <3>4, <3>5 DEF Fit, Sound, Exists
    <3> HIDE DEF t
    <3> QED
      BY <1>1, <3>2, <3>3, <3>6, SetTaskOK, JournalType DEF TInv
  <2>2. CASE same = {}
    <3>1. SetPendingOp(d, p, "SideEffectStarted") /\ Goto(d, p, "started")
      BY <2>2 DEF FindRemoteFileByContent
    <3> QED
      BY <1>1, <1>3, <3>1, GotoOK, JournalType DEF TInv, Steps, Stages
  <2> QED
    BY <2>1, <2>2
<1> QED
  BY <1>4, InnerStepOK DEF TInv, FindRemoteFileByContent, CycleOK, UserOK, boundVars

\* A created file exists from then on.
LEMMA CreateFileTInv ==
  ASSUME TInv, NEW d \in Devices, NEW p \in Paths, CreateFile(d, p)
  PROVE  TInv'
<1>1. todo[d][p].act = "create" /\ todo[d][p].at = "started"
  BY DEF CreateFile, At
<1>2. todo[d][p] \in Task /\ Fit(todo[d][p], mem[d][p])
  BY DEF TInv, TasksOK
<1>3. CASE disk[d][p] = None
  <2>1. DriveOK' /\ NothingVanishes
    BY <1>3, SameDriveOK DEF TInv, CreateFile
  <2>2. TasksOK' /\ errs' \in [Devices -> BOOLEAN]
    BY <2>1, <1>3, FailOK, FailType DEF TInv, CreateFile
  <2> QED
    BY <1>3, <2>2, InnerStepOK DEF TInv, CreateFile, CycleOK, UserOK, boundVars
<1>4. CASE disk[d][p] # None
  <2> DEFINE file == [st |-> "live", name |-> p, rev |-> 1, md5 |-> disk[d][p].md5,
                      vv |-> NextVector(d, p)]
             t(f) == [todo[d][p] EXCEPT !.at = "effected", !.id = f]
  <2>1. PICK f \in Files : /\ ChangeDrive(f, file)
                           /\ todo' = [todo EXCEPT ![d][p] = t(f)]
    <3>1. PICK f \in Files : /\ ChangeDrive(f, file)
                             /\ todo' = [todo EXCEPT ![d][p].at = "effected",
                                                     ![d][p].id = f]
      BY <1>4 DEF CreateFile
    <3>2. todo' = [todo EXCEPT ![d][p] = t(f)]
      BY <3>1 DEF TInv, TasksOK
    <3> QED
      BY <3>1, <3>2
  <2>2. file \in DriveFile /\ file.st # "none" /\ file.md5 \in Contents /\ file.name \in Paths
    BY <1>4, NextVectorType DEF TInv, UserOK, LocalFile, DriveFile
  <2>3. DriveOK' /\ NothingVanishes
    <3> HIDE DEF file
    <3> QED
      BY <2>1, <2>2, ChangeDriveOK DEF TInv
  <2>4. drive'[f].st # "none"
    BY <2>1 DEF ChangeDrive, TInv, DriveOK
  <2>5. t(f) \in Task
    BY <1>2 DEF Task, Steps
  <2>6. todo'[d][p] = t(f)
    BY <2>1 DEF TInv, TasksOK
  <2>7. UNCHANGED mem
    BY DEF CreateFile
  <2>8. Fit(todo[d][p], mem[d][p])'
    BY <1>1, <1>2, <2>3, <2>4, <2>6 DEF Fit, Sound, NothingVanishes, Task, Snapshot, Exists
  <2> HIDE DEF t
  <2>9. TasksOK'
    BY <2>1, <2>3, <2>5, <2>7, <2>8, SetTaskOK DEF TInv
  <2>10. StoreOK'
    BY <2>3, StoreStays DEF TInv, CreateFile, taskFrame
  <2> QED
    BY <1>4, <2>3, <2>9, <2>10, TaskStepOK
    DEF TInv, CreateFile, CycleOK, UserOK, boundVars, diskVars
<1> QED
  BY <1>3, <1>4

\* The record of a creation speaks of that file.
LEMMA CommitCreateTInv ==
  ASSUME TInv, NEW d \in Devices, NEW p \in Paths, CommitCreate(d, p)
  PROVE  TInv'
<1> DEFINE f == todo[d][p].id
           m == RecordOf(Row(f), todo[d][p].md5, disk[d][p])
<1>1. todo[d][p].act = "create" /\ todo[d][p].at \in {"done", "linked"}
  BY DEF CommitCreate, At
<1>2. f \in Files /\ Exists(f) /\ todo[d][p].md5 \in Contents
  BY <1>1 DEF TInv, TasksOK, Fit
<1>3. DriveOK' /\ NothingVanishes
  BY SameDriveOK DEF TInv, CommitCreate
<1>4. CASE disk[d][p] = None
  <2>1. TasksOK' /\ errs' \in [Devices -> BOOLEAN]
    BY <1>3, <1>4, FailOK, FailType DEF TInv, CommitCreate
  <2> QED
    BY <1>4, <2>1, InnerStepOK DEF TInv, CommitCreate, CycleOK, UserOK, boundVars
<1>5. CASE disk[d][p] # None
  <2>1. disk[d][p] \in LocalFile /\ Row(f) \in Snapshot /\ Row(f).id = f
    BY <1>2, <1>5, RowType DEF TInv, UserOK, Rows, Row
  <2>2. m \in Record /\ m.id = f
    BY <1>2, <2>1, RecordOfType
  <2>3. drive'[f].st # "none" /\ drive[f].md5 \in Contents
    BY <1>2, <1>3 DEF NothingVanishes, Exists, TInv, DriveOK, FilesHaveContents
  <2>4. /\ Upsert(d, p, m) /\ SetPendingOp(d, p, "MetadataCommitted") /\ End(d, p)
        /\ raced' \in SUBSET Contents
    BY <1>5, <2>3 DEF CommitCreate, TInv, UserOK
  <2> HIDE DEF m
  <2>5. /\ StoreOK' /\ \A e \in Devices \ {d} : mem'[e] = mem[e]
        /\ \A q \in Paths \ {p} : mem'[d][q] = mem[d][q]
    BY <1>3, <2>2, <2>3, <2>4, UpsertOK DEF TInv, CommitCreate, taskFrame
  <2>6. TasksOK'
    BY <1>3, <2>4, <2>5, EndOK DEF TInv
  <2>7. jrn' \in [Devices -> [Paths -> PendingOp \cup {None}]]
    BY <2>4, JournalType DEF TInv, Stages
  <2> QED
    BY <1>3, <1>5, <2>4, <2>5, <2>6, <2>7, TaskStepOK
    DEF TInv, CommitCreate, CycleOK, UserOK, boundVars, diskVars
<1> QED
  BY <1>4, <1>5

\* A download writes a content Drive has.
LEMMA WriteDownloadTInv ==
  ASSUME TInv, NEW d \in Devices, NEW p \in Paths, WriteDownload(d, p)
  PROVE  TInv'
<1> DEFINE f == todo[d][p].id
           t(q) == IF q = p THEN [todo[d][q] EXCEPT !.at = "effected"]
                   ELSE IF todo[d][q].after = p
                   THEN [todo[d][q] EXCEPT !.seen = drive[f].rev]
                   ELSE todo[d][q]
<1>1. todo[d][p].act = "download" /\ todo[d][p].at = "started"
  BY DEF WriteDownload, At
<1>2. \A q \in Paths : todo[d][q] \in Task /\ Fit(todo[d][q], mem[d][q])
  BY DEF TInv, TasksOK
<1>3. f \in Files /\ drive[f].md5 \in Contents /\ drive[f].rev \in Nat
  BY <1>1, <1>2 DEF Fit, TInv, DriveOK, FilesHaveContents, DriveFile
<1>4. DriveOK' /\ NothingVanishes /\ UNCHANGED <<mem, drive>>
  BY SameDriveOK DEF TInv, WriteDownload, driveVars
<1>5. disk' \in [Devices -> [Paths -> LocalFile \cup {None}]]
  <2> DEFINE stat == IF disk[d][p] = None THEN 0 ELSE 1 - disk[d][p].stat
  <2>1. stat \in {0, 1}
    BY DEF TInv, UserOK, LocalFile
  <2>2. disk' = [disk EXCEPT ![d][p] = [md5 |-> drive[f].md5, stat |-> stat]]
    BY DEF WriteDownload
  <2>3. [md5 |-> drive[f].md5, stat |-> stat] \in LocalFile
    BY <1>3, <2>1 DEF LocalFile
  <2> QED
    BY <2>2, <2>3 DEF TInv, UserOK
<1>6. \A q \in Paths : t(q) \in Task /\ Fit(t(q), mem[d][q])
  BY <1>1, <1>2, <1>3 DEF Fit, Task, Steps
<1>7. todo' = [todo EXCEPT ![d] = [q \in Paths |-> t(q)]]
  BY DEF WriteDownload
<1>8. \A q \in Paths : todo'[d][q] = t(q)
  BY <1>7 DEF TInv, TasksOK
<1> HIDE DEF t
<1>9. /\ todo' \in [Devices -> [Paths -> Task]]
      /\ \A e \in Devices \ {d} : todo'[e] = todo[e]
  BY <1>6, <1>7 DEF TInv, TasksOK
<1>10. \A q \in Paths : Fit(todo[d][q], mem[d][q])'
  BY <1>4, <1>6, <1>8 DEF Fit, Sound, Exists
<1>11. TasksOK'
  BY <1>4, <1>9, <1>10, TasksStep DEF TInv
<1>12. StoreOK'
  BY <1>4, StoreStays DEF TInv, WriteDownload, taskFrame
<1> QED
  BY <1>4, <1>5, <1>11, <1>12, TaskStepOK
  DEF TInv, WriteDownload, CycleOK, UserOK, boundVars

\* The record of a download speaks of the row decided on.
LEMMA CommitDownloadTInv ==
  ASSUME TInv, NEW d \in Devices, NEW p \in Paths, CommitDownload(d, p)
  PROVE  TInv'
<1> DEFINE r == todo[d][p].row
           m == RecordOf(r, disk[d][p].md5, disk[d][p])
<1>1. todo[d][p].act = "download"
  BY DEF CommitDownload, At
<1>2. r \in Snapshot /\ Exists(r.id)
  BY <1>1 DEF TInv, TasksOK, Fit, Sound, Task
<1>3. DriveOK' /\ NothingVanishes
  BY SameDriveOK DEF TInv, CommitDownload
<1>4. CASE disk[d][p] = None
  <2>1. TasksOK' /\ errs' \in [Devices -> BOOLEAN]
    BY <1>3, <1>4, FailOK, FailType DEF TInv, CommitDownload
  <2>2. raced' \in SUBSET Contents
    BY <1>4 DEF CommitDownload, TInv, UserOK, StoreOK, Record
  <2>3. StoreOK'
    BY <1>3, <1>4, StoreStays DEF TInv, CommitDownload, taskFrame
  <2> QED
    BY <1>3, <1>4, <2>1, <2>2, <2>3, TaskStepOK
    DEF TInv, CommitDownload, CycleOK, UserOK, boundVars, diskVars
<1>5. CASE disk[d][p] # None
  <2>1. disk[d][p] \in LocalFile /\ disk[d][p].md5 \in Contents
    BY <1>5 DEF TInv, UserOK, LocalFile
  <2>2. m \in Record /\ m.id = r.id
    BY <1>2, <2>1, RecordOfType
  <2>3. drive'[r.id].st # "none"
    BY <1>2, <1>3 DEF NothingVanishes, Exists, Snapshot
  <2>4. Upsert(d, p, m) /\ SetPendingOp(d, p, "MetadataCommitted") /\ End(d, p)
    BY <1>5 DEF CommitDownload
  <2> HIDE DEF m
  <2>5. /\ StoreOK' /\ \A e \in Devices \ {d} : mem'[e] = mem[e]
        /\ \A q \in Paths \ {p} : mem'[d][q] = mem[d][q]
    BY <1>3, <2>2, <2>3, <2>4, UpsertOK DEF TInv, CommitDownload, taskFrame
  <2>6. TasksOK'
    BY <1>3, <2>4, <2>5, EndOK DEF TInv
  <2>7. jrn' \in [Devices -> [Paths -> PendingOp \cup {None}]]
    BY <2>4, JournalType DEF TInv, Stages
  <2> QED
    BY <1>3, <1>5, <2>5, <2>6, <2>7, TaskStepOK
    DEF TInv, CommitDownload, CycleOK, UserOK, boundVars, diskVars
<1> QED
  BY <1>4, <1>5

\* A deletion is confirmed, or put off.
LEMMA ConfirmDeleteTInv ==
  ASSUME TInv, NEW d \in Devices, NEW p \in Paths, ConfirmDelete(d, p)
  PROVE  TInv'
<1>1. DriveOK' /\ NothingVanishes /\ UNCHANGED mem
  BY SameDriveOK DEF TInv, ConfirmDelete
<1>2. todo[d][p].act \in {"delete_local", "delete_remote"}
  BY DEF ConfirmDelete, At
<1>3. tomb' \in [Devices -> [Paths -> {NoTomb, 0, 1}]]
  <2>1. \E n \in {0, 1} : tomb' = [tomb EXCEPT ![d][p] = n]
    BY DEF ConfirmDelete
  <2> QED
    BY <2>1 DEF TInv, CycleOK
<1>4. TasksOK' /\ jrn' \in [Devices -> [Paths -> PendingOp \cup {None}]]
  <2>1. CASE tomb[d][p] = NoTomb
    BY <1>1, <2>1, EndOK, JournalType DEF ConfirmDelete, TInv
  <2>2. CASE tomb[d][p] # NoTomb
    <3>1. SetPendingOp(d, p, "Planned") /\ Goto(d, p, "planned")
      BY <2>2 DEF ConfirmDelete
    <3> QED
      BY <1>1, <1>2, <3>1, GotoOK, JournalType DEF TInv, Stages, Steps
  <2> QED
    BY <2>1, <2>2
<1> QED
  BY <1>3, <1>4, InnerStepOK DEF TInv, ConfirmDelete, CycleOK, UserOK, boundVars

\* A local file is moved away.
LEMMA MoveToTrashTInv ==
  ASSUME TInv, NEW d \in Devices, NEW p \in Paths, MoveToTrash(d, p)
  PROVE  TInv'
<1>1. DriveOK' /\ NothingVanishes /\ UNCHANGED mem
  BY SameDriveOK DEF TInv, MoveToTrash
<1>2. todo[d][p].act = "delete_local"
  BY DEF MoveToTrash, At
<1>3. CASE disk[d][p] = None
  <2>1. TasksOK' /\ errs' \in [Devices -> BOOLEAN]
    BY <1>1, <1>3, FailOK, FailType DEF TInv, MoveToTrash
  <2>2. jrn' \in [Devices -> [Paths -> PendingOp \cup {None}]]
    BY <1>3, JournalType DEF TInv, MoveToTrash
  <2> QED
    BY <1>3, <2>1, <2>2, InnerStepOK DEF TInv, MoveToTrash, CycleOK, UserOK, boundVars
<1>4. CASE disk[d][p] # None
  <2>1. disk[d][p].md5 \in Contents
    BY <1>4 DEF TInv, UserOK, LocalFile
  <2>2. disk' \in [Devices -> [Paths -> LocalFile \cup {None}]]
    <3>1. disk' = [disk EXCEPT ![d][p] = None]
      BY <1>4 DEF MoveToTrash
    <3> QED
      BY <3>1 DEF TInv, UserOK
  <2>3. trash' \in [Devices -> SUBSET Contents]
    BY <1>4, <2>1 DEF TInv, UserOK, MoveToTrash
  <2>4. TasksOK'
    BY <1>1, <1>2, <1>4, GotoOK DEF TInv, MoveToTrash, Steps
  <2>5. StoreOK'
    BY <1>1, StoreStays DEF TInv, MoveToTrash, taskFrame
  <2> QED
    BY <1>1, <1>4, <2>2, <2>3, <2>4, <2>5, TaskStepOK
    DEF TInv, MoveToTrash, CycleOK, UserOK, boundVars
<1> QED
  BY <1>3, <1>4

\* A file of Drive is trashed, and exists still.
LEMMA TrashRemoteTInv ==
  ASSUME TInv, NEW d \in Devices, NEW p \in Paths, TrashRemote(d, p)
  PROVE  TInv'
<1> DEFINE f == todo[d][p].id
<1>1. todo[d][p].act = "delete_remote"
  BY DEF TrashRemote, At
<1>2. f \in Files /\ Exists(f)
  BY <1>1 DEF TInv, TasksOK, Fit
<1>3. DriveOK' /\ NothingVanishes
  BY <1>2, FileType, ChangeDriveOK DEF TInv, TrashRemote
<1>4. TasksOK'
  BY <1>1, <1>3, GotoOK DEF TInv, TrashRemote, Steps
<1>5. StoreOK'
  BY <1>3, StoreStays DEF TInv, TrashRemote, taskFrame
<1> QED
  BY <1>3, <1>4, <1>5, TaskStepOK
  DEF TInv, TrashRemote, CycleOK, UserOK, boundVars, diskVars

\* The record of a deleted file goes.
LEMMA CommitDeleteTInv ==
  ASSUME TInv, NEW d \in Devices, NEW p \in Paths, CommitDelete(d, p)
  PROVE  TInv'
<1>1. DriveOK' /\ NothingVanishes
  BY SameDriveOK DEF TInv, CommitDelete
<1>2. /\ StoreOK' /\ \A e \in Devices \ {d} : mem'[e] = mem[e]
      /\ \A q \in Paths \ {p} : mem'[d][q] = mem[d][q]
  BY <1>1, UpsertOK DEF TInv, CommitDelete, taskFrame
<1>3. TasksOK'
  BY <1>1, <1>2, EndOK DEF TInv, CommitDelete
<1>4. jrn' \in [Devices -> [Paths -> PendingOp \cup {None}]]
  BY JournalType DEF TInv, CommitDelete, Stages
<1>5. tomb' \in [Devices -> [Paths -> {NoTomb, 0, 1}]]
  BY DEF TInv, CommitDelete, CycleOK
<1> QED
  BY <1>1, <1>2, <1>3, <1>4, <1>5, TaskStepOK
  DEF TInv, CommitDelete, CycleOK, UserOK, diskVars, boundVars

\* An upload put off or a request that fails end a task.
LEMMA HinderedTInv ==
  ASSUME TInv, NEW d \in Devices, NEW p \in Paths,
         DeferUpload(d, p) \/ RequestFails(d, p)
  PROVE  TInv'
<1>1. DriveOK' /\ NothingVanishes /\ UNCHANGED mem
  BY SameDriveOK DEF TInv, DeferUpload, RequestFails
<1>2. TasksOK' /\ errs' \in [Devices -> BOOLEAN]
  BY <1>1, EndOK, FailOK, FailType DEF TInv, DeferUpload, RequestFails, CycleOK
<1>3. faults' \in Nat /\ defers' \in Nat
  BY DEF TInv, UserOK, DeferUpload, RequestFails
<1> QED
  BY <1>2, <1>3, InnerStepOK DEF TInv, DeferUpload, RequestFails, CycleOK

\* Every step of a task.
LEMMA TaskTInv ==
  ASSUME TInv, NEW d \in Devices, NEW p \in Paths, TaskStep(d, p)
  PROVE  TInv'
BY CleanupTInv, TouchTInv, KeepBothTInv, MarkTInv, PlanUploadTInv, PreflightTInv,
   PatchMediaTInv, CommitUpdateTInv, FindRemoteTInv, CreateFileTInv,
   CommitCreateTInv, WriteDownloadTInv, CommitDownloadTInv, ConfirmDeleteTInv,
   MoveToTrashTInv, TrashRemoteTInv, CommitDeleteTInv
DEF TaskStep, Upload, Download, Delete
-----------------------------------------------------------------------------
(* The steps before and after the tasks.                                   *)

\* The feeds are cut, moved or left.
LEMMA FeedOK ==
  ASSUME DriveOK, UNCHANGED <<drive, before>>,
         unseen' \in [Devices -> SUBSET Files], fresh' \in [Devices -> SUBSET Files],
         \A d \in Devices : unseen'[d] \cup fresh'[d] \subseteq unseen[d] \cup fresh[d]
  PROVE  DriveOK' /\ NothingVanishes
<1>1. NothingVanishes /\ FilesHaveContents'
  BY DEF DriveOK, FilesHaveContents, NothingVanishes, Exists
<1>2. \A d \in Devices : \A f \in unseen'[d] \cup fresh'[d] : Exists(f)'
  BY DEF DriveOK, Exists
<1> QED
  BY <1>1, <1>2 DEF DriveOK, Exists

\* Tasks that nobody touches, beside records that nobody touches.
LEMMA SameTasksOK ==
  ASSUME TasksOK, NothingVanishes, UNCHANGED <<todo, mem>>
  PROVE  TasksOK'
<1>1. \A d \in Devices, p \in Paths : Fit(todo[d][p], mem[d][p])'
  BY TaskStays
<1> QED
  BY <1>1 DEF TasksOK

\* The tasks of one device are replaced.
LEMMA NewTasksOK ==
  ASSUME TasksOK, NothingVanishes, NEW d \in Devices, NEW tasks \in [Paths -> Task],
         todo' = [todo EXCEPT ![d] = tasks],
         \A e \in Devices \ {d} : mem'[e] = mem[e],
         \A p \in Paths : Fit(todo[d][p], mem[d][p])'
  PROVE  TasksOK'
<1>1. todo' \in [Devices -> [Paths -> Task]] /\ \A e \in Devices \ {d} : todo'[e] = todo[e]
  BY DEF TasksOK
<1> QED
  BY <1>1, TasksStep

\* What is left of a step of the frame of a cycle.
LEMMA CycleStepOK ==
  ASSUME TInv, DriveOK', StoreOK', TasksOK',
         UNCHANGED <<diskVars, userVars>>, faults' \in Nat, defers' \in Nat,
         jrn' \in [Devices -> [Paths -> PendingOp \cup {None}]],
         tomb' \in [Devices -> [Paths -> {NoTomb, 0, 1}]],
         cursor' \in [Devices -> BOOLEAN],
         pc' \in [Devices -> Phases],
         scan' \in [Devices -> [Paths -> LocalFile \cup {None}]],
         errs' \in [Devices -> BOOLEAN]
  PROVE  TInv'
BY DEF TInv, diskVars, userVars, UserOK, CycleOK

\* Records are loaded while no task is about that could need one.
LEMMA StartCycleTInv ==
  ASSUME TInv, JInv, NEW d \in Devices, StartCycle(d)
  PROVE  TInv'
<1>1. DriveOK' /\ NothingVanishes /\ UNCHANGED <<rec, view, todo>>
  BY SameDriveOK DEF TInv, StartCycle
<1>2. \A p \in Paths : todo[d][p].at = "ended"
  BY DEF JInv, StartCycle
<1> DEFINE m == [p \in Paths |-> IF p \in PurgedPaths(d) THEN None ELSE rec[d][p]]
           j == [p \in Paths |-> IF p \in PurgedPaths(d) THEN jrn[d][p] ELSE None]
<1>3. m \in [Paths -> Record \cup {None}] /\ j \in [Paths -> PendingOp \cup {None}]
  BY DEF TInv, StoreOK, CycleOK
<1>4. mem' = [mem EXCEPT ![d] = m] /\ jrn' = [jrn EXCEPT ![d] = j]
  BY DEF StartCycle
<1>5. \A p \in Paths : m[p] \in {None, rec[d][p]}
  OBVIOUS
<1> HIDE DEF m, j
<1>6. /\ mem' \in [Devices -> [Paths -> Record \cup {None}]]
      /\ jrn' \in [Devices -> [Paths -> PendingOp \cup {None}]]
      /\ mem'[d] = m /\ \A e \in Devices \ {d} : mem'[e] = mem[e]
  BY <1>3, <1>4 DEF TInv, StoreOK, CycleOK
<1>7. \A e \in Devices, p \in Paths : mem'[e][p] \in {None, rec[e][p], mem[e][p]}
  BY <1>5, <1>6
<1>8. StoreOK'
  BY <1>1, <1>6, <1>7 DEF TInv, StoreOK, NothingVanishes, Sound, Record, Snapshot
<1>9. \A p \in Paths : Fit(todo[d][p], mem[d][p])'
  <2> TAKE p \in Paths
  <2>1. todo[d][p] \in Task /\ Fit(todo[d][p], mem[d][p])
    BY DEF TInv, TasksOK
  <2> QED
    BY <1>1, <1>2, <2>1 DEF NothingVanishes, Fit, Sound, Task, Snapshot
<1>10. TasksOK'
  <2>1. todo' \in [Devices -> [Paths -> Task]] /\ \A e \in Devices : todo'[e] = todo[e]
    BY <1>1 DEF TInv, TasksOK
  <2> QED
    BY <1>1, <1>6, <1>9, <2>1, TasksStep DEF TInv
<1>11. pc' \in [Devices -> Phases]
  BY DEF StartCycle, TInv, CycleOK, Phases
<1> QED
  BY <1>1, <1>6, <1>8, <1>10, <1>11, CycleStepOK
  DEF TInv, StartCycle, CycleOK, UserOK, boundVars

\* Steps that touch neither Drive, tasks, journal nor what is in memory.
LEMMA PhaseTInv ==
  ASSUME TInv, NEW d \in Devices, PersistPurge(d) \/ ClearPurged(d) \/ ScanLocal(d)
  PROVE  TInv'
<1>1. DriveOK' /\ NothingVanishes /\ UNCHANGED <<mem, view, todo>>
  BY SameDriveOK DEF TInv, PersistPurge, ClearPurged, ScanLocal
<1>2. TasksOK'
  BY <1>1, SameTasksOK DEF TInv
<1>3. pc' \in [Devices -> Phases]
  BY DEF PersistPurge, ClearPurged, ScanLocal, TInv, CycleOK, Phases
<1>4. rec' \in [Devices -> [Paths -> Record \cup {None}]]
      /\ \A e \in Devices, p \in Paths : rec'[e][p] \in {rec[e][p], mem[e][p]}
  BY DEF PersistPurge, ClearPurged, ScanLocal, storeVars, Persist, TInv, StoreOK
<1>5. StoreOK'
  BY <1>1, <1>4 DEF TInv, StoreOK, NothingVanishes, Sound, Record, Snapshot
<1>6. /\ jrn' \in [Devices -> [Paths -> PendingOp \cup {None}]]
      /\ scan' \in [Devices -> [Paths -> LocalFile \cup {None}]]
  <2>1. Nothing \in [Paths -> PendingOp \cup {None}]
    BY DEF Nothing
  <2>2. jrn' \in {jrn, [jrn EXCEPT ![d] = Nothing]}
    BY DEF PersistPurge, ClearPurged, ScanLocal, storeVars
  <2>3. scan' \in {scan, [scan EXCEPT ![d] = disk[d]]}
    BY DEF PersistPurge, ClearPurged, ScanLocal
  <2> QED
    BY <2>1, <2>2, <2>3 DEF TInv, CycleOK, UserOK
<1> QED
  BY <1>1, <1>2, <1>3, <1>5, <1>6, CycleStepOK
  DEF TInv, PersistPurge, ClearPurged, ScanLocal, storeVars, CycleOK, UserOK, boundVars

\* Steps that give the cycle of d a view, and cut its feeds.
LEMMA ViewStep ==
  ASSUME TInv, NEW d \in Devices, NEW v \in Views, NEW phase \in Phases,
         view' = [view EXCEPT ![d] = v], pc' = [pc EXCEPT ![d] = phase],
         fresh' \in {fresh, [fresh EXCEPT ![d] = {}]}, faults' \in Nat,
         UNCHANGED <<drive, before, unseen, diskVars, storeVars, mem, scan, todo, errs,
                     userVars, defers>>
  PROVE  TInv'
<1>1. DriveOK' /\ NothingVanishes
  <2>1. fresh' \in [Devices -> SUBSET Files] /\ \A e \in Devices : fresh'[e] \subseteq fresh[e]
    BY DEF TInv, DriveOK
  <2> QED
    BY <2>1, FeedOK DEF TInv, DriveOK
<1>2. TasksOK'
  BY <1>1, SameTasksOK DEF TInv
<1>3. v \in [Paths -> Snapshot \cup {None}] /\ \A p \in Paths : Sound(v[p])
  BY DEF Views, Rows, Sound
<1>4. view' \in [Devices -> [Paths -> Snapshot \cup {None}]]
      /\ \A e \in Devices, p \in Paths : Sound(view'[e][p])
  BY <1>3 DEF TInv, StoreOK
<1>5. StoreOK'
  BY <1>1, <1>4 DEF TInv, StoreOK, NothingVanishes, Sound, Record, Snapshot, storeVars
<1> QED
  BY <1>1, <1>2, <1>5, CycleStepOK DEF TInv, storeVars, CycleOK, UserOK

\* A view a step keeps is one.
LEMMA ViewsOK ==
  ASSUME StoreOK, NEW d \in Devices
  PROVE  view[d] \in Views /\ view = [view EXCEPT ![d] = view[d]]
BY DEF StoreOK, Views, Rows, Sound

\* Every way to a remote view gives a view.
LEMMA ViewTInv ==
  ASSUME TInv, NEW d \in Devices,
         FetchChanges(d) \/ Relist(d) \/ ListAll(d) \/ GetStartPageToken(d)
  PROVE  TInv'
<1>1. view[d] \in Views /\ view = [view EXCEPT ![d] = view[d]]
  BY ViewsOK DEF TInv
<1>2. ListAllFiles \in Views
  BY ListingType DEF TInv
<1>3. \A known \in KnownPaths(d) : IncrementalView(d, known) \in Partial
  BY IncrementalType DEF TInv, KnownPaths
<1>4. faults \in Nat
  BY DEF TInv, UserOK
<1>5. CASE FetchChanges(d)
  <2>1. PICK known \in KnownPaths(d) :
          LET built == IncrementalView(d, known)
          IN  IF built.ok
              THEN /\ view' = [view EXCEPT ![d] = built.view]
                   /\ pc' = [pc EXCEPT ![d] = "viewed"]
              ELSE /\ pc' = [pc EXCEPT ![d] = "relist"]
                   /\ UNCHANGED view
    BY <1>5 DEF FetchChanges
  <2>2. IncrementalView(d, known).view \in Views
    BY <1>3 DEF Partial
  <2>3. \E v \in Views, phase \in Phases :
          view' = [view EXCEPT ![d] = v] /\ pc' = [pc EXCEPT ![d] = phase]
    <3>1. {"viewed", "relist"} \subseteq Phases
      BY DEF Phases
    <3> QED
      BY <1>1, <2>1, <2>2, <3>1
  <2> QED
    BY <1>4, <1>5, <2>3, ViewStep DEF FetchChanges, boundVars
<1>6. CASE Relist(d)
  BY <1>2, <1>4, <1>6, ViewStep DEF Relist, boundVars, driveVars, Phases
<1>7. CASE ListAll(d)
  <2>1. faults' \in Nat
    BY <1>4, <1>7 DEF ListAll
  <2> QED
    BY <1>2, <1>7, <2>1, ViewStep DEF ListAll, driveVars, Phases
<1>8. CASE GetStartPageToken(d)
  <2>1. view' = [view EXCEPT ![d] = view[d]]
    BY <1>1, <1>8 DEF GetStartPageToken
  <2> QED
    BY <1>1, <1>4, <1>8, <2>1, ViewStep DEF GetStartPageToken, boundVars, Phases
<1> QED
  BY <1>5, <1>6, <1>7, <1>8

\* What the matrix may decide, and of which file.
LEMMA DecisionType ==
  ASSUME NEW l \in LocalFile \cup {None}, NEW r \in Rows \cup {None},
         NEW m \in Record \cup {None}, Sound(m), NEW ids,
         NEW a, a = DetermineAction(l, r, m, None, ids)
  PROVE  /\ a.act \in {"skip", "upload", "conflict", "download", "delete_local",
                       "delete_remote", "cleanup", "touch"}
         /\ a.id # None => a.id \in Files /\ Exists(a.id)
         /\ a.act \in {"conflict", "download"} => r # None /\ a.id = r.id
         /\ a.act = "delete_remote" => a.id \in Files
         /\ a.act = "touch" => m # None
<1>1. r # None => r.id \in Files /\ Exists(r.id) /\ r.id # None
  BY NoneAssumption DEF Rows, Snapshot
<1>2. m # None => m.id \in Files /\ Exists(m.id) /\ m.id # None
  BY NoneAssumption DEF Record, Sound
<1> USE DEF Act
<1>3. CASE l # None /\ r # None /\ m # None
  <2>1. a \in {Act("conflict", r.id), Act("upload", m.id), Act("download", r.id),
               Act("touch", None), Act("skip", None)}
    <3>1. a = LocalRemoteAndRecord(l, r, m, None)
      BY <1>3 DEF DetermineAction
    <3>2. LocalDelta(l, m, None) \in {"content", "unchanged", "meta_only"}
      BY DEF LocalDelta
    <3>3. UploadTarget(r, m) = m.id
      BY <1>2, <1>3 DEF UploadTarget
    <3>4. ResolveDualContentChange(r, m) \in {Act("conflict", r.id), Act("upload", m.id)}
      BY <3>3 DEF ResolveDualContentChange
    <3> QED
      BY <3>1, <3>2, <3>3, <3>4 DEF LocalRemoteAndRecord
  <2> QED
    BY <1>1, <1>2, <1>3, <2>1
<1>4. CASE l # None /\ r # None /\ m = None
  <2>1. a \in {Act("skip", None), Act("conflict", r.id)}
    BY <1>4 DEF DetermineAction, LocalAndRemote
  <2> QED
    BY <1>1, <1>4, <2>1
<1>5. CASE l # None /\ r = None /\ m # None
  <2>1. a \in {Act("upload", m.id), Act("upload", None), Act("skip", None),
               Act("delete_local", None)}
    BY <1>5 DEF DetermineAction, LocalAndRecord
  <2> QED
    BY <1>2, <1>5, <2>1
<1>6. CASE l = None /\ r # None /\ m # None
  <2>1. a \in {Act("download", r.id), Act("delete_remote", m.id)}
    BY <1>2, <1>6 DEF DetermineAction, RemoteAndRecord, UploadTarget
  <2> QED
    BY <1>1, <1>2, <1>6, <2>1
<1>7. CASE l # None /\ r = None /\ m = None
  BY <1>7 DEF DetermineAction
<1>8. CASE l = None /\ r # None /\ m = None
  BY <1>1, <1>8 DEF DetermineAction
<1>9. CASE l = None /\ r = None
  BY <1>9 DEF DetermineAction
<1> QED
  BY <1>3, <1>4, <1>5, <1>6, <1>7, <1>8, <1>9

\* The task of a decision has what its steps need.
LEMMA TaskForOK ==
  ASSUME NEW l \in LocalFile \cup {None}, NEW r \in Rows \cup {None},
         NEW m \in Record \cup {None}, Sound(m), NEW ids
  PROVE  LET t == TaskFor(DetermineAction(l, r, m, None, ids), r)
         IN  t \in Task /\ Fit(t, m)
<1> DEFINE a == DetermineAction(l, r, m, None, ids)
           task == [NoTask EXCEPT !.act = a.act, !.at = "ready", !.id = a.id, !.row = r]
<1>1. /\ a.act \in {"skip", "upload", "conflict", "download", "delete_local",
                    "delete_remote", "cleanup", "touch"}
      /\ a.id # None => a.id \in Files /\ Exists(a.id)
      /\ a.act \in {"conflict", "download"} => r # None /\ a.id = r.id
      /\ a.act = "delete_remote" => a.id \in Files
      /\ a.act = "touch" => m # None
  BY DecisionType
<1>2. r \in Snapshot \cup {None} /\ (r # None => r.id \in Files /\ Exists(r.id))
  BY DEF Rows, Snapshot
<1>3. /\ \A x \in Acts : [task EXCEPT !.act = x] \in Task
      /\ \A x \in Acts : [task EXCEPT !.act = x, !.guarded = TRUE] \in Task
  <2>1. a.id \in Files \cup {None} /\ r \in Snapshot \cup {None} /\ "ready" \in Steps
    BY <1>1, <1>2 DEF Steps
  <2> HIDE DEF a
  <2>2. ASSUME NEW x \in Acts
        PROVE  [task EXCEPT !.act = x] \in Task /\ [task EXCEPT !.act = x, !.guarded = TRUE] \in Task
    <3> DEFINE t == [NoTask EXCEPT !.act = x, !.at = "ready", !.id = a.id, !.row = r]
    <3>1. t \in Task
      BY <2>1, NoTaskType DEF Task
    <3>2. [t EXCEPT !.guarded = TRUE] \in Task
      <4> HIDE DEF t
      <4> QED
        BY <3>1 DEF Task
    <3>3. /\ [task EXCEPT !.act = x] = t
          /\ [task EXCEPT !.act = x, !.guarded = TRUE] = [t EXCEPT !.guarded = TRUE]
      BY DEF NoTask
    <3> HIDE DEF t, task
    <3> QED
      BY <3>1, <3>2, <3>3
  <2> HIDE DEF task
  <2> QED
    BY <2>2
<1>4. /\ task.at = "ready" /\ task.id = a.id /\ task.row = r /\ task.act = a.act
  BY DEF NoTask
<1>5. \A x : [task EXCEPT !.act = x] = [NoTask EXCEPT !.act = x, !.at = "ready",
                                                      !.id = a.id, !.row = r]
  BY DEF NoTask
<1> HIDE DEF a
<1>6. CASE a.act = "skip"
  BY <1>6, NoTaskType DEF TaskFor, NoTask, Fit, Sound, a
<1>7. CASE a.act = "upload" /\ a.id # None
  <2>1. TaskFor(a, r) = [task EXCEPT !.act = "update", !.guarded = TRUE]
    BY <1>7 DEF TaskFor
  <2>2. TaskFor(a, r) \in Task
    BY <1>3, <2>1 DEF Acts
  <2>3. Fit(TaskFor(a, r), m)
    BY <1>1, <1>2, <1>7, <2>1 DEF Fit, Sound, NoTask
  <2> QED
    BY <2>2, <2>3 DEF a
<1>8. CASE a.act = "upload" /\ a.id = None
  <2>1. TaskFor(a, r) = [task EXCEPT !.act = "create"]
    BY <1>8 DEF TaskFor
  <2>2. TaskFor(a, r) \in Task
    BY <1>3, <2>1 DEF Acts
  <2>3. Fit(TaskFor(a, r), m)
    BY <1>2, <2>1 DEF Fit, Sound, NoTask
  <2> QED
    BY <2>2, <2>3 DEF a
<1>9. CASE a.act = "conflict"
  <2>1. PICK x \in {"update", "download", "conflict"} : TaskFor(a, r) = [task EXCEPT !.act = x]
    <3>1. TaskFor(a, r) = ConflictTask(task)
      BY <1>9 DEF TaskFor
    <3>2. task = [task EXCEPT !.act = "conflict"]
      BY <1>9 DEF NoTask
    <3> QED
      BY <3>1, <3>2 DEF ConflictTask
  <2>2. TaskFor(a, r) \in Task
    BY <1>3, <2>1 DEF Acts
  <2>3. Fit(TaskFor(a, r), m)
    BY <1>1, <1>2, <1>9, <2>1 DEF Fit, Sound, NoTask
  <2> QED
    BY <2>2, <2>3 DEF a
<1>10. CASE a.act \in {"download", "delete_local", "delete_remote", "cleanup", "touch"}
  <2>1. TaskFor(a, r) = task
    BY <1>10 DEF TaskFor
  <2>2. task = [task EXCEPT !.act = a.act]
    BY DEF NoTask
  <2>3. TaskFor(a, r) \in Task
    BY <1>3, <1>10, <2>1, <2>2 DEF Acts
  <2>4. Fit(TaskFor(a, r), m)
    BY <1>1, <1>2, <1>10, <2>1, NoneAssumption DEF Fit, Sound, NoTask
  <2> QED
    BY <2>3, <2>4 DEF a
<1> QED
  BY <1>1, <1>6, <1>7, <1>8, <1>9, <1>10

\* The tasks of a cycle.
LEMMA DecideTInv ==
  ASSUME TInv, NEW d \in Devices, Decide(d)
  PROVE  TInv'
<1> DEFINE ids == {view[d][p].id : p \in {q \in Paths : view[d][q] # None}}
           action(p) == DetermineAction(scan[d][p], view[d][p], mem[d][p], None, ids)
           tasks == [p \in Paths |-> TaskFor(action(p), view[d][p])]
           tombs == [p \in Paths |->
                       IF action(p).act \in {"delete_local", "delete_remote"}
                       THEN tomb[d][p] ELSE NoTomb]
<1>1. DriveOK' /\ NothingVanishes /\ UNCHANGED <<drive, rec, mem>>
  BY SameDriveOK DEF TInv, Decide, driveVars
<1>2. /\ todo' = [todo EXCEPT ![d] = tasks]
      /\ tomb' = [tomb EXCEPT ![d] = tombs]
      /\ pc' = [pc EXCEPT ![d] = "running"]
      /\ scan' = [scan EXCEPT ![d] = Nothing]
      /\ view' = [view EXCEPT ![d] = Nothing]
  BY DEF Decide
<1>3. ASSUME NEW p \in Paths
      PROVE  tasks[p] \in Task /\ Fit(tasks[p], mem[d][p])
  <2>1. /\ scan[d][p] \in LocalFile \cup {None}
        /\ view[d][p] \in Rows \cup {None}
        /\ mem[d][p] \in Record \cup {None} /\ Sound(mem[d][p])
    BY DEF TInv, CycleOK, StoreOK, Rows, Sound
  <2>2. tasks[p] = TaskFor(DetermineAction(scan[d][p], view[d][p], mem[d][p], None, ids),
                           view[d][p])
    OBVIOUS
  <2> HIDE DEF tasks, ids
  <2> QED
    BY <2>1, <2>2, TaskForOK
<1>4. tombs \in [Paths -> {NoTomb, 0, 1}]
  BY DEF TInv, CycleOK
<1> HIDE DEF tasks, tombs
<1>5. tasks \in [Paths -> Task]
  <2>1. tasks = [p \in Paths |-> tasks[p]]
    BY DEF tasks
  <2> QED
    BY <1>3, <2>1
<1>6. \A p \in Paths : todo'[d][p] = tasks[p]
  BY <1>2 DEF TInv, TasksOK
<1>7. \A p \in Paths : Fit(todo[d][p], mem[d][p])'
  BY <1>1, <1>3, <1>6 DEF Fit, Sound, Exists
<1>8. TasksOK'
  BY <1>1, <1>2, <1>5, <1>7, NewTasksOK DEF TInv
<1>9. view' \in [Devices -> [Paths -> Snapshot \cup {None}]]
      /\ \A e \in Devices, p \in Paths : view'[e][p] \in {None, view[e][p]}
  BY <1>2 DEF TInv, StoreOK, Nothing
<1>10. StoreOK'
  BY <1>1, <1>9 DEF TInv, StoreOK, NothingVanishes, Sound, Record, Snapshot
<1>11. /\ tomb' \in [Devices -> [Paths -> {NoTomb, 0, 1}]]
       /\ pc' \in [Devices -> Phases]
       /\ scan' \in [Devices -> [Paths -> LocalFile \cup {None}]]
  BY <1>2, <1>4 DEF TInv, CycleOK, Phases, Nothing
<1> QED
  BY <1>1, <1>8, <1>10, <1>11, CycleStepOK DEF TInv, Decide, CycleOK, UserOK, boundVars

\* Every step before the tasks.
LEMMA PrepareTInv ==
  ASSUME TInv, JInv, NEW d \in Devices, Prepare(d)
  PROVE  TInv'
BY StartCycleTInv, PhaseTInv, ViewTInv, DecideTInv DEF Prepare

\* The end of a cycle persists what is in memory.
LEMMA FinishCycleTInv ==
  ASSUME TInv, NEW d \in Devices, FinishCycle(d)
  PROVE  TInv'
<1>1. DriveOK' /\ NothingVanishes /\ UNCHANGED <<mem, view>>
  <2>1. /\ unseen' \in [Devices -> SUBSET Files] /\ fresh' \in [Devices -> SUBSET Files]
        /\ \A e \in Devices : unseen'[e] \cup fresh'[e] \subseteq unseen[e] \cup fresh[e]
    BY DEF FinishCycle, TInv, DriveOK
  <2>2. UNCHANGED <<drive, before, mem, view>>
    BY DEF FinishCycle
  <2> QED
    BY <2>1, <2>2, FeedOK DEF TInv
<1>2. TasksOK'
  <2>1. NoTasks \in [Paths -> Task] /\ todo' = [todo EXCEPT ![d] = NoTasks]
    BY NoTaskType DEF NoTasks, FinishCycle
  <2>2. \A p \in Paths : todo'[d][p] = NoTask
    BY <2>1 DEF NoTasks, TInv, TasksOK
  <2>3. \A p \in Paths : Fit(todo[d][p], mem[d][p])'
    BY <2>2, NoTaskFits
  <2> QED
    BY <1>1, <2>1, <2>3, NewTasksOK DEF TInv
<1>3. rec' \in [Devices -> [Paths -> Record \cup {None}]]
      /\ \A e \in Devices, p \in Paths : rec'[e][p] \in {rec[e][p], mem[e][p]}
  BY DEF FinishCycle, Persist, TInv, StoreOK
<1>4. StoreOK'
  BY <1>1, <1>3 DEF TInv, StoreOK, NothingVanishes, Sound, Record, Snapshot
<1>5. jrn' \in [Devices -> [Paths -> PendingOp \cup {None}]]
  BY DEF FinishCycle, TInv, CycleOK
<1>6. /\ cursor' \in [Devices -> BOOLEAN] /\ errs' \in [Devices -> BOOLEAN]
      /\ pc' \in [Devices -> Phases]
  BY DEF FinishCycle, TInv, CycleOK, Phases
<1> QED
  BY <1>1, <1>2, <1>4, <1>5, <1>6, CycleStepOK
  DEF TInv, FinishCycle, CycleOK, UserOK, boundVars

\* A crash leaves what is in redb.
LEMMA CrashTInv ==
  ASSUME TInv, NEW d \in Devices, Crash(d)
  PROVE  TInv'
<1>1. DriveOK' /\ NothingVanishes
  <2>1. fresh' \in [Devices -> SUBSET Files] /\ \A e \in Devices : fresh'[e] \subseteq fresh[e]
    BY DEF Crash, TInv, DriveOK
  <2>2. UNCHANGED <<drive, before, unseen>>
    BY DEF Crash
  <2> QED
    BY <2>1, <2>2, FeedOK DEF TInv, DriveOK
<1>2. /\ mem' \in [Devices -> [Paths -> Record \cup {None}]]
      /\ view' \in [Devices -> [Paths -> Snapshot \cup {None}]]
      /\ \A e \in Devices, p \in Paths : /\ mem'[e][p] \in {rec[e][p], mem[e][p]}
                                         /\ view'[e][p] \in {None, view[e][p]}
      /\ \A e \in Devices \ {d} : mem'[e] = mem[e]
      /\ UNCHANGED rec
  BY DEF Crash, storeVars, TInv, StoreOK, Nothing
<1>3. StoreOK'
  BY <1>1, <1>2 DEF TInv, StoreOK, NothingVanishes, Sound, Record, Snapshot
<1>4. TasksOK'
  <2>1. NoTasks \in [Paths -> Task] /\ todo' = [todo EXCEPT ![d] = NoTasks]
    BY NoTaskType DEF NoTasks, Crash
  <2>2. \A p \in Paths : todo'[d][p] = NoTask
    BY <2>1 DEF NoTasks, TInv, TasksOK
  <2>3. \A p \in Paths : Fit(todo[d][p], mem[d][p])'
    BY <2>2, NoTaskFits
  <2> QED
    BY <1>1, <1>2, <2>1, <2>3, NewTasksOK DEF TInv
<1>5. /\ pc' \in [Devices -> Phases] /\ errs' \in [Devices -> BOOLEAN]
      /\ scan' \in [Devices -> [Paths -> LocalFile \cup {None}]]
  BY DEF Crash, TInv, CycleOK, Phases, Nothing
<1> QED
  BY <1>1, <1>3, <1>4, <1>5, CycleStepOK DEF TInv, Crash, CycleOK, UserOK, storeVars

-----------------------------------------------------------------------------
(* Users, and the start.                                                   *)

\* What is left of a step of a user.
LEMMA UserStepOK ==
  ASSUME TInv, DriveOK', NothingVanishes, UNCHANGED userFrame,
         disk' \in [Devices -> [Paths -> LocalFile \cup {None}]],
         authored' \in SUBSET Contents, settled' \in SUBSET Contents,
         restored' \in SUBSET Contents, raced' \in SUBSET Contents, removals' \in Nat, touches' \in Nat
  PROVE  TInv'
<1>1. TasksOK' /\ StoreOK'
  BY SameTasksOK, StoreStays DEF TInv, userFrame, storeVars, cycleVars
<1> QED
  BY <1>1 DEF TInv, userFrame, storeVars, cycleVars, boundVars, UserOK, CycleOK

\* Users write contents that are new, and trash or restore files that exist.
LEMMA UserTInv ==
  ASSUME TInv, User
  PROVE  TInv'
<1>1. UserOK /\ DriveOK
  BY DEF TInv
<1>2. \A local \in LocalFile \cup {None} : Settle(local) => settled' \in SUBSET Contents /\ restored' \in SUBSET Contents
  BY <1>1 DEF Settle, UserOK, LocalFile
<1>3. ASSUME NEW d \in Devices, NEW p \in Paths, UserWrite(d, p)
      PROVE  TInv'
  <2>1. DriveOK' /\ NothingVanishes
    BY <1>1, <1>3, SameDriveOK DEF UserWrite
  <2> DEFINE stat == IF disk[d][p] = None THEN 0 ELSE 1 - disk[d][p].stat
             file == [md5 |-> NewContent, stat |-> stat]
  <2>2. stat \in {0, 1}
    BY <1>1 DEF UserOK, LocalFile
  <2>3. file \in LocalFile /\ NewContent \in Contents
    BY <1>3, <2>2 DEF UserWrite, LocalFile
  <2>4. disk' = [disk EXCEPT ![d][p] = file]
    BY <1>3 DEF UserWrite
  <2>5. disk' \in [Devices -> [Paths -> LocalFile \cup {None}]]
    <3> HIDE DEF file
    <3> QED
      BY <1>1, <2>3, <2>4 DEF UserOK
  <2>6. settled' \in SUBSET Contents /\ restored' \in SUBSET Contents
    BY <1>1, <1>2, <1>3 DEF UserWrite, UserOK
  <2>7. authored' \in SUBSET Contents /\ raced' \in SUBSET Contents
    BY <1>1, <1>3, <2>3 DEF UserWrite, UserOK
  <2> QED
    BY <1>1, <1>3, <2>1, <2>5, <2>6, <2>7, UserStepOK DEF UserWrite, UserOK
<1>4. ASSUME NEW d \in Devices, NEW p \in Paths, UserTouch(d, p)
      PROVE  TInv'
  <2>1. DriveOK' /\ NothingVanishes
    BY <1>1, <1>4, SameDriveOK DEF UserTouch
  <2>2. disk' \in [Devices -> [Paths -> LocalFile \cup {None}]]
    BY <1>1, <1>4 DEF UserTouch, UserOK, LocalFile
  <2> QED
    BY <1>1, <1>4, <2>1, <2>2, UserStepOK DEF UserTouch, UserOK
<1>5. ASSUME NEW d \in Devices, NEW p \in Paths, UserRemove(d, p)
      PROVE  TInv'
  <2>1. DriveOK' /\ NothingVanishes
    BY <1>1, <1>5, SameDriveOK DEF UserRemove
  <2>2. disk' \in [Devices -> [Paths -> LocalFile \cup {None}]]
    BY <1>1, <1>5 DEF UserRemove, UserOK
  <2>3. settled' \in SUBSET Contents /\ restored' \in SUBSET Contents
    BY <1>1, <1>2, <1>5 DEF UserRemove, UserOK
  <2> QED
    BY <1>1, <1>5, <2>1, <2>2, <2>3, UserStepOK DEF UserRemove, UserOK
<1>6. ASSUME NEW f \in Files, Exists(f),
             \/ Settle(drive[f])
             \/ settled' = settled /\ restored' = restored \cup {drive[f].md5}
      PROVE  settled' \in SUBSET Contents /\ restored' \in SUBSET Contents
  BY <1>1, <1>6 DEF Settle, UserOK, DriveOK, FilesHaveContents
<1>7. ASSUME NEW f \in Files, WebWrite(f)
      PROVE  TInv'
  <2>1. Exists(f) /\ NewContent \in Contents
    BY <1>7 DEF WebWrite, Live, Exists
  <2>2. DriveOK' /\ NothingVanishes
    BY <1>1, <1>7, <2>1, FileType, ChangeDriveOK DEF WebWrite
  <2>3. settled' \in SUBSET Contents /\ restored' \in SUBSET Contents /\ authored' \in SUBSET Contents
    BY <1>1, <1>6, <1>7, <2>1 DEF WebWrite, UserOK
  <2> QED
    BY <1>1, <1>7, <2>2, <2>3, UserStepOK DEF WebWrite, UserOK
<1>8. ASSUME NEW f \in Files, WebTrash(f) \/ WebRestore(f)
      PROVE  TInv'
  <2>1. Exists(f)
    BY <1>8 DEF WebTrash, WebRestore, Live, Exists
  <2>2. DriveOK' /\ NothingVanishes
    BY <1>1, <1>8, <2>1, FileType, ChangeDriveOK DEF WebTrash, WebRestore
  <2>3. settled' \in SUBSET Contents /\ restored' \in SUBSET Contents
    BY <1>6, <1>8, <2>1 DEF WebTrash, WebRestore
  <2> QED
    BY <1>1, <1>8, <2>2, <2>3, UserStepOK DEF WebTrash, WebRestore, UserOK
<1> QED
  BY <1>3, <1>4, <1>5, <1>7, <1>8 DEF User

\* One of the initial states.
StartsAt(p, vv, start) ==
  LET f == Min2(Files)
      synced == [id |-> f, fp |-> 1, md5 |-> 1, stat |-> 0, rev |-> 1,
                 vv |-> vv]
      local(c) == [md5 |-> c, stat |-> 0]
      at(d) == CASE start[d] = "empty" -> None
                 [] start[d] = "different" -> local(2)
                 [] OTHER -> local(1)
  IN  /\ drive = [g \in Files |-> IF g = f
                    THEN [st |-> "live", name |-> p, md5 |-> 1, rev |-> 1,
                          vv |-> vv]
                    ELSE NoFile]
      /\ before = {}
      /\ unseen = [d \in Devices |-> {}]
      /\ fresh = [d \in Devices |-> {}]
      /\ disk = [d \in Devices |-> [Nothing EXCEPT ![p] = at(d)]]
      /\ trash = [d \in Devices |-> {}]
      /\ rec = [d \in Devices |-> [Nothing EXCEPT
                  ![p] = IF start[d] = "synced" THEN synced ELSE None]]
      /\ jrn = [d \in Devices |-> Nothing]
      /\ tomb = [d \in Devices |-> [q \in Paths |-> NoTomb]]
      /\ cursor = [d \in Devices |-> start[d] = "synced"]
      /\ pc = [d \in Devices |-> "idle"]
      /\ mem = rec
      /\ scan = [d \in Devices |-> Nothing]
      /\ view = [d \in Devices |-> Nothing]
      /\ todo = [d \in Devices |-> NoTasks]
      /\ errs = [d \in Devices |-> FALSE]
      /\ authored = IF \E d \in Devices : start[d] = "different"
                    THEN {1, 2} ELSE {1}
      /\ settled = {} /\ restored = {}
      /\ raced = {}
      /\ removals = 0 /\ touches = 0 /\ faults = 0 /\ defers = 0

\* The state of every start has the types.
LEMMA InitTInv ==
  ASSUME Init
  PROVE  TInv
<1> DEFINE f == Min2(Files)
           synced(vv) == [id |-> f, fp |-> 1, md5 |-> 1, stat |-> 0, rev |-> 1, vv |-> vv]
           file(p, vv) == [st |-> "live", name |-> p, md5 |-> 1, rev |-> 1, vv |-> vv]
           local(c) == [md5 |-> c, stat |-> 0]
<1>1. PICK p \in HomePaths, vv \in {EmptyVector} \cup {Increment(EmptyVector, d) : d \in Devices},
           start \in [Devices -> Starts] :
        /\ drive = [g \in Files |-> IF g = f THEN file(p, vv) ELSE NoFile]
        /\ disk = [d \in Devices |-> [Nothing EXCEPT
                     ![p] = CASE start[d] = "empty" -> None
                              [] start[d] = "different" -> local(2)
                              [] OTHER -> local(1)]]
        /\ rec = [d \in Devices |-> [Nothing EXCEPT
                    ![p] = IF start[d] = "synced" THEN synced(vv) ELSE None]]
        /\ cursor = [d \in Devices |-> start[d] = "synced"]
        /\ authored = IF \E d \in Devices : start[d] = "different"
                      THEN {1, 2} ELSE {1}
  <2>1. PICK p \in HomePaths, vv \in {EmptyVector} \cup {Increment(EmptyVector, d) : d \in Devices},
             start \in [Devices -> Starts] : StartsAt(p, vv, start)
    BY DEF Init, StartsAt
  <2> QED
    BY <2>1 DEF StartsAt
<1>2. /\ before = {}
      /\ unseen = [d \in Devices |-> {}]
      /\ fresh = [d \in Devices |-> {}]
      /\ trash = [d \in Devices |-> {}]
      /\ jrn = [d \in Devices |-> Nothing]
      /\ tomb = [d \in Devices |-> [q \in Paths |-> NoTomb]]
      /\ pc = [d \in Devices |-> "idle"]
      /\ mem = rec
      /\ scan = [d \in Devices |-> Nothing]
      /\ view = [d \in Devices |-> Nothing]
      /\ todo = [d \in Devices |-> NoTasks]
      /\ errs = [d \in Devices |-> FALSE]
      /\ settled = {} /\ restored = {}
      /\ raced = {}
      /\ removals = 0 /\ touches = 0 /\ faults = 0 /\ defers = 0
  BY DEF Init
<1>3. f \in Files
  BY FilesAssumption, Min2InSet
<1>4. p \in Paths /\ vv \in Vector
  BY EmptyVectorType, IncrementType DEF HomePaths
<1>5. 1 \in Contents /\ \A d \in Devices : start[d] = "different" => 2 \in Contents
  BY MaxContentAssumption DEF Contents
<1>6. synced(vv) \in Record /\ file(p, vv) \in DriveFile /\ NoFile \in DriveFile
  BY <1>3, <1>4, <1>5, EmptyVectorType DEF Record, DriveFile, NoFile
<1>7. synced(vv).id = f /\ file(p, vv).st = "live" /\ file(p, vv).md5 = 1 /\ file(p, vv).name = p
      /\ NoFile.st = "none"
  BY DEF NoFile
<1>8. local(1) \in LocalFile /\ \A d \in Devices : start[d] = "different" => local(2) \in LocalFile
  BY <1>5 DEF LocalFile
<1> HIDE DEF synced, file, local, f
<1>9. DriveOK
  <2>1. drive \in [Files -> DriveFile] /\ FilesHaveContents
    BY <1>1, <1>4, <1>5, <1>6, <1>7 DEF FilesHaveContents, Exists
  <2>2. \A g \in Files : Exists(g) <=> g = f
    BY <1>1, <1>7 DEF Exists
  <2> QED
    BY <1>2, <2>1, <2>2 DEF DriveOK
<1>10. UserOK
  <2>1. disk \in [Devices -> [Paths -> LocalFile \cup {None}]]
    BY <1>1, <1>4, <1>8 DEF Nothing
  <2>2. authored \in SUBSET Contents
    BY <1>1, <1>5
  <2> QED
    BY <1>2, <2>1, <2>2 DEF UserOK
<1>11. StoreOK
  <2>1. rec \in [Devices -> [Paths -> Record \cup {None}]]
        /\ \A d \in Devices, q \in Paths : rec[d][q] \in {None, synced(vv)}
    BY <1>1, <1>4, <1>6 DEF Nothing
  <2>2. view \in [Devices -> [Paths -> Snapshot \cup {None}]]
        /\ \A d \in Devices, q \in Paths : view[d][q] = None
    BY <1>2 DEF Nothing
  <2>3. Exists(f)
    BY <1>1, <1>3, <1>7 DEF Exists
  <2> QED
    BY <1>2, <1>7, <2>1, <2>2, <2>3 DEF StoreOK, Sound
<1>12. CycleOK
  BY <1>1, <1>2 DEF CycleOK, Nothing, Phases
<1>13. TasksOK
  <2>1. todo \in [Devices -> [Paths -> Task]]
    BY <1>2, NoTaskType DEF NoTasks
  <2>2. \A d \in Devices, q \in Paths : todo[d][q] = NoTask
    BY <1>2 DEF NoTasks
  <2>3. \A m : Fit(NoTask, m)
    BY DEF NoTask, Fit, Sound
  <2> QED
    BY <2>1, <2>2, <2>3 DEF TasksOK
<1> QED
  BY <1>9, <1>10, <1>11, <1>12, <1>13 DEF TInv

\* Nothing else moves.
LEMMA StutterTInv ==
  ASSUME TInv, UNCHANGED vars
  PROVE  TInv'
<1> USE DEF vars, driveVars, diskVars, storeVars, cycleVars, userVars, boundVars
<1>1. DriveOK' /\ NothingVanishes
  BY SameDriveOK DEF TInv
<1>2. UserOK' /\ CycleOK'
  BY DEF TInv, UserOK, CycleOK
<1>3. StoreOK' /\ TasksOK'
  BY <1>1, StoreStays, SameTasksOK DEF TInv
<1> QED
  BY <1>1, <1>2, <1>3 DEF TInv

\* Every step keeps the invariant.
LEMMA StepTInv ==
  ASSUME TInv, JInv, [Next]_vars
  PROVE  TInv'
<1>1. ASSUME NEW d \in Devices, Work(d) \/ Hindrance(d)
      PROVE  TInv'
  BY <1>1, PrepareTInv, TaskTInv, FinishCycleTInv, CrashTInv, HinderedTInv,
     LoseAnswerTInv
  DEF Work, Hindrance
<1> QED
  BY <1>1, UserTInv, StutterTInv DEF Next

\* TInv is an invariant.
THEOREM TypeInvariance == Spec => []TInv
BY InitTInv, StepTInv, Invariance, PTL DEF Spec

\* Types.
THEOREM TypeCorrect == Spec => []TypeOK
BY TypeInvariance, TInvTypes, PTL
=============================================================================
