SPECIFICATION Spec
CONSTANTS
  Folders = {1, 2}
  Files = {3, 4}
  Names = {"a", "b"}
  FolderEdits = FALSE
  Trees <- MCTrees
  Dirs <- MCDirs
  MaxEdits = 2
  MaxUploads = 1
INVARIANTS TypeOK
PROPERTIES ViewIsListing UploadsWhereShown
ACTION_CONSTRAINT InOrder
