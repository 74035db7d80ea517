SPECIFICATION Spec
CONSTANTS
  Kinds = {"mem", "key", "oom", "procrank", "rpm", "battery"}
  Threads = {1, 2, 3, 4}
  Failures = {"worker"}
INVARIANTS TypeOK OneWorker FreshStart
PROPERTIES StopReturns EndReturns
CHECK_DEADLOCK FALSE
