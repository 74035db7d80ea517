SPECIFICATION Spec
CONSTANTS
  MaxSlot = 2
  Capacity = 2
  ReadMax = 2
INVARIANTS TypeOK OwnPipe
PROPERTIES BlockedByIdle ShutdownEnds ReadersLeave
