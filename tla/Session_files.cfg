SPECIFICATION Spec
CONSTANTS
  Storages = {"internal", "sd"}
  Removable = {"sd"}
  MaxSn = 3
  MaxSerial = 2
  PerSecond = 2
  MaxTime = 2
  Turns = 1
  Failures = {"save", "load", "tear"}
INVARIANTS TypeOK SavedIsUsed
PROPERTIES NumbersApart NamesApart
CHECK_DEADLOCK FALSE
