SPECIFICATION Spec
CONSTANTS
  None = None
  Numbered <- MCNumbered
  Devices = {1}
  MaxCount = 4
  MaxEntries = 2
  Files = {1, 2}
  Paths = {"a","a2","c","e"}
  CopyPaths = {"c","e"}
  MaxContent = 3
  Policy = "conflict_copy"
  SafeDelete = TRUE
  Starts = {"synced","different"}
  Racing = TRUE
  Removers = {"disk", "web"}
  MaxRemovals = 1
  MaxTouches = 0
  MaxFaults = 1
  MaxDefers = 0
INVARIANTS NoLossOutsideRaces
PROPERTIES WriteAhead
CHECK_DEADLOCK FALSE
