SPECIFICATION Spec
CONSTANTS
  internal = internal
  external = external
  Loggers = {l1, l2}
  Storages = {internal, external}
  None = None
  AutoPath = AutoPath
  LogPaths = {AutoPath}
  AutoStart = TRUE
  Priority <- DevicePriority
  RunPaths = {AutoPath, internal}
  Tolerant = 2
  Retries = 2
  LowCycles = 2
  Commands = {"run", "stop", "shutdown", "look", "kill", "expire"}
  MaxCommands = 2
  MaxFaults = 1
SYMMETRY LoggerSymmetry
INVARIANTS TypeOK ChangingEnds
PROPERTY StopHolds
CHECK_DEADLOCK FALSE
