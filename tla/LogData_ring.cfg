SPECIFICATION Spec
CONSTANTS
  Files = {f1, f2, f3, f4, f5}
  None = None
  Count = 3
  MB = 1
  Limit = 2
  RotateSize = 1
  RemoveCounts = {1}
  MaxLen = 2
  MaxCrashes = 0
  Faults = {"move", "expire"}
SYMMETRY FileSymmetry
INVARIANTS TypeOK NoneOutside TotalIsSum EveryFileListed
PROPERTY ImplementsFifo
