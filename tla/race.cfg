SPECIFICATION Spec
CONSTANTS
  None = None
  Numbered <- MCNumbered
  Devices = {1,2}
  MaxCount = 4
  MaxEntries = 2
  Files = {1, 2}
  Paths = {"a", "a2", "c"}
  CopyPaths = {"c"}
  MaxContent = 3
  Policy = "conflict_copy"
  SafeDelete = TRUE
  Starts = {"synced"}
  Racing = TRUE
  Removers = {"disk", "web"}
  MaxRemovals = 0
  MaxTouches = 0
  MaxFaults = 0
  MaxDefers = 0
INVARIANTS NoLossOutsideRaces
CHECK_DEADLOCK FALSE
