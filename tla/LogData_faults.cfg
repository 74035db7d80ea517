SPECIFICATION Spec
CONSTANTS
  Files = {f1, f2, f3, f4}
  None = None
  Count = 2
  MB = 1
  Limit = 2
  RotateSize = 1
  RemoveCounts = {1}
  MaxLen = 2
  MaxCrashes = 0
  Faults = {"open", "move", "expire", "race"}
SYMMETRY FileSymmetry
INVARIANT NoHole
