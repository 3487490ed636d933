SPECIFICATION Spec
CONSTANTS
  Paths = {p, q}
  Absent = Absent
  Damaged = Damaged
  Oversized = Oversized
  MaxOps = 2
  MaxCycles = 2
  MaxFaults = 2
INVARIANT TypeOK
PROPERTIES ImplementsCheckpoint JournalFollowsRows TokenWithRows
