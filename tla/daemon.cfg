SPECIFICATION FairSpec
CONSTANTS
  Paths = {"a"}
  Hidden = "a.part"
  Capacity = 1
  Loads = TRUE
  MaxChanges = 3
  MaxFaults = 1
INVARIANTS TypeOK QuietMeansSynced
PROPERTIES ChangesAreSynced Settles SignalStops ShutdownKeepsRecords
