----------------------------- MODULE MCSyncCycle -----------------------------
(***************************************************************************)
(* Instances of the sync cycle for TLC.  Users write at path "a"; a second *)
(* file of that name is placed at "a2", as list_all_files would place it   *)
(* at "a (2)"; the paths of CopyPaths are taken by conflict copies.        *)
(***************************************************************************)
EXTENDS SyncProperties

MCNumbered == [p \in Paths |-> IF p = "a" THEN <<"a2">> ELSE <<>>]

=============================================================================
