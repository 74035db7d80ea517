SPECIFICATION Spec
CONSTANTS
  internal = internal
  external = external
  Loggers = {l1}
  Storages = {internal, external}
  None = None
  AutoPath = AutoPath
  LogPaths = {AutoPath}
  AutoStart = TRUE
  Priority <- DevicePriority
  RunPaths = {AutoPath}
  Tolerant = 2
  Retries = 2
  LowCycles = 2
  Commands = {"kill"}
  MaxCommands = 0
  MaxFaults = 0
PROPERTY ExitsOnSignal
CHECK_DEADLOCK FALSE
