SPECIFICATION Spec
CONSTANTS
  internal = internal
  external = external
  Loggers = {l1}
  Storages = {internal, external}
  None = None
  AutoPath = AutoPath
  LogPaths = {AutoPath, external}
  AutoStart = TRUE
  Priority <- DevicePriority
  RunPaths = {AutoPath}
  Tolerant = 2
  Retries = 2
  LowCycles = 2
  Commands = {"run", "stop", "mount", "end", "look"}
  MaxCommands = 1
  MaxFaults = 1
PROPERTIES StartedRight StoppedRight Recovers LeavesStorage EjectedAvoided
