SPECIFICATION Spec
CONSTANTS
  ghost = ghost
  logctl = logctl
  Services = {ghost, logctl}
  Unknown = Unknown
  Startup <- StartLogctl
  Settings = logctl
  Ports = {p1, p2, p3}
  None = None
  Clients = {c1, c2}
  ReusesPorts = FALSE
  Faults = {"service", "socket"}
  MaxFaults = 1
INVARIANTS TypeOK OneThread PortServed RightService
PROPERTY NoneWaits
CHECK_DEADLOCK FALSE
