SPECIFICATION Spec
CONSTANTS
  None = None
  Numbered <- MCNumbered
  Devices = {1}
  MaxCount = 1
  MaxEntries = 2
  Files = {1,2,3}
  Paths = {"a","a2","c","e"}
  CopyPaths = {"c","e"}
  MaxContent = 2
  Policy = "conflict_copy"
  SafeDelete = TRUE
  Starts = {"synced"}
  Racing = FALSE
  Removers = {"disk", "web"}
  MaxRemovals = 2
  MaxTouches = 1
  MaxFaults = 0
  MaxDefers = 1
INVARIANTS TypeOK
PROPERTIES DeletionsFollowUsers
CHECK_DEADLOCK FALSE
