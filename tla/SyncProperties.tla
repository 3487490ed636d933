--------------------------- MODULE SyncProperties ---------------------------
(***************************************************************************)
(* What the sync cycle promises, as properties of SyncCycle.  The runs of  *)
(* MCSyncCycle check them; README.md tells which of them the code keeps.   *)
(***************************************************************************)
EXTENDS SyncCycle

ContentAt(d, p) == IF disk[d][p] = None THEN None ELSE disk[d][p].md5

NamedLive(p) == {f \in Files : Live(f) /\ drive[f].name = p}

-----------------------------------------------------------------------------
(* Nothing is lost.                                                        *)

OnDisks == {disk[e[1]][e[2]].md5 :
              e \in {g \in Devices \X Paths : disk[g[1]][g[2]] # None}}
InTrash == UNION {trash[d] : d \in Devices}
OnDrive == {drive[f].md5 : f \in {g \in Files : Exists(g)}}

\* Every content anybody wrote is still on some disk, in some .trash/ or on
\* Drive, unless the user who removed or replaced it had it before their eyes
\* or it met one of the four windows that are named where they occur: the
\* guard of run_upload and the matrix leave no other way to lose an edit.
NoLossOutsideRaces ==
  authored \subseteq OnDisks \cup InTrash \cup OnDrive \cup settled \cup raced

\* No effect without its journal entry: whenever a step of the executor
\* changes Drive or the disk, the pending operation of that path is already
\* durable, says what kind of operation it is and that its effect may have
\* begun (set_pending_op before every side effect in executor.rs).
WriteAhead ==
  [][\A d \in Devices :
       (todo'[d] # todo[d] /\ <<drive, disk>>' # <<drive, disk>>)
       => \E p \in Paths :
            /\ todo'[d][p].at # todo[d][p].at
            /\ jrn[d][p] # None
            /\ jrn[d][p].kind = KindOf(todo[d][p].act)
            /\ jrn[d][p].stage \in {"SideEffectStarted", "SideEffectDone"}]_vars

-----------------------------------------------------------------------------
(* The two sides become one.                                               *)

\* The same file name, the same content: p is on neither side, or Drive has a
\* file named p with the content of the disk.
Mirrored(d, p) ==
  \/ disk[d][p] = None /\ NamedLive(p) = {}
  \/ \E f \in NamedLive(p) : drive[f].md5 = ContentAt(d, p)

\* Once users stop, every path users write becomes the same on every disk and
\* on Drive and stays so (README: a bidirectional mirror).
Converges == <>[](\A d \in Devices, p \in HomePaths : Mirrored(d, p))

\* Once users stop, every file Drive holds is on every disk under some path:
\* edits made elsewhere come down, and no two files hide behind one name.
Arrives ==
  <>[](\A d \in Devices, f \in Files :
         Live(f) => \E p \in Paths : ContentAt(d, p) = drive[f].md5)

\* Between cycles, a record that matches the disk and whose file the feed has
\* no news of tells the truth about Drive: nothing else would ever make the
\* device look at that file again.
SyncedAgrees ==
  \A d \in Devices, p \in HomePaths :
    LET m == rec[d][p]
    IN  (/\ pc[d] = "idle" /\ cursor[d] /\ m # None
         /\ m.id \notin unseen[d] /\ Live(m.id)
         /\ ContentAt(d, p) = m.md5)
        => drive[m.id].md5 = m.md5

\* The stored change token is never ahead of the records: a live file that
\* changed before the token is recorded with its present revision.
NothingMissed ==
  \A d \in Devices, f \in Files :
    (pc[d] = "idle" /\ cursor[d] /\ Live(f) /\ f \notin unseen[d])
    => \E p \in Paths : rec[d][p] # None /\ rec[d][p].id = f
                          /\ rec[d][p].rev = drive[f].rev

-----------------------------------------------------------------------------
(* Deletions.                                                              *)

\* What the executor takes away, a user took away or replaced and nobody
\* brought back; a local file goes only after its Drive file, a Drive file only
\* after the local one (tombstones, purged records and the matrix together).
DeletionsFollowUsers ==
  [][\A d \in Devices : todo'[d] # todo[d] =>
       /\ \A p \in Paths : (disk[d][p] # None /\ disk'[d][p] = None) =>
            /\ disk[d][p].md5 \in settled \ restored
            /\ mem[d][p] # None /\ ~Live(mem[d][p].id)
       /\ \A f \in Files : (Live(f) /\ drive'[f].st = "trashed") =>
            /\ drive[f].md5 \in settled \ restored
            /\ \E p \in Paths : /\ mem[d][p] # None /\ mem[d][p].id = f
                             /\ disk[d][p] = None]_vars

\* When everything on Drive is gone, devices confirm it and in the end move
\* their copies away (docs/architecture/multi-user.md, deletion workflow).
WebDeletes ==
  \A d \in Devices, p \in HomePaths :
    (\A f \in Files : ~Live(f)) ~> (disk[d][p] = None)

=============================================================================
