---------------------------- MODULE MCFolderView ----------------------------
(* The instance of FolderView that TLC checks.                             *)
EXTENDS FolderView

None == [state |-> "none", parent |-> Root, name |-> "a"]
At(dir, n) == [state |-> "live", parent |-> dir, name |-> n]

\* Drive holds the folder a and the file a/a.
MCTrees == {<<At(Root, "a"), None, At(1, "a"), None>>}

\* Users create files in the directory a/b.
MCDirs == {<< <<"a", 1>>, <<"b", 1>> >>}

\* Files are created in the order of their ids: which of two files has the
\* smaller id only matters to files of one name, and those are odd.
InOrder ==
  \A o, x \in Files : o < x /\ objects'[x].state # "none" => objects'[o].state # "none"
=============================================================================
