SPECIFICATION FairSpec
CONSTANTS
  MaxInterrupts = 3
INVARIANTS
  NoOrphan
  OutputWhole
PROPERTIES
  InterruptInTime
