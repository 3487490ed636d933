SPECIFICATION Spec
CONSTANTS
  None = None
  Numbered <- MCNumbered
  Devices = {1,2}
  MaxCount = 4
  MaxEntries = 2
  Files = {1,2,3}
  Paths = {"a", "a2", "c"}
  CopyPaths = {"c"}
  MaxContent = 1
  Policy = "conflict_copy"
  SafeDelete = TRUE
  Starts = {"synced"}
  Racing = FALSE
  Removers = {"web"}
  MaxRemovals = 2
  MaxTouches = 0
  MaxFaults = 2
  MaxDefers = 0
PROPERTIES DeletionsFollowUsers
CHECK_DEADLOCK FALSE
