SPECIFICATION FairSpec
CONSTANTS
  None = None
  Numbered <- MCNumbered
  Devices = {1}
  MaxCount = 4
  MaxEntries = 2
  Files = {1,2,3}
  Paths = {"a","a2","c","e","g"}
  CopyPaths = {"c","e","g"}
  MaxContent = 3
  Policy = "conflict_copy"
  SafeDelete = TRUE
  Starts = {"synced"}
  Racing = FALSE
  Removers = {"disk", "web"}
  MaxRemovals = 0
  MaxTouches = 0
  MaxFaults = 1
  MaxDefers = 0
PROPERTIES Converges
