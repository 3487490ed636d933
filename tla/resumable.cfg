SPECIFICATION FairSpec
CONSTANTS
  None = None
  Files = {1, 2, 3}
  Sessions = {1, 2, 3, 4, 5}
  Chunks = 3
  Versions = {11, 12}
  Policies = {"conflict_copy", "remote_wins"}
  MaxEdits = 1
  MaxFaults = 3
INVARIANTS TypeOK
PROPERTIES NoDuplicates CommitTellsTruth ImplementsTransfer UploadArrives
