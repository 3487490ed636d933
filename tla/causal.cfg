SPECIFICATION Spec
CONSTANTS
  Devices = {1, 2, 3}
  MaxCount = 3
  MaxEntries = 2
  MaxEdits = 2
INVARIANTS TypeOK VectorsTellCausality VectorsNeverExaggerate
PROPERTIES VectorsGrow
CHECK_DEADLOCK FALSE
