SPECIFICATION Spec
CONSTANTS
  Files = {f1, f2, f3, f4}
  None = None
  Count = 2
  MB = 1
  Limit = 1
  RotateSize = 1
  RemoveCounts = {1, 2}
  MaxLen = 1
  MaxCrashes = 2
  Faults = {"crash", "move", "expire"}
INVARIANT LoggingIsHead
PROPERTIES LoggingFileKept OperationEnds
