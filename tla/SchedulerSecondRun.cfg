SPECIFICATION Spec
CONSTANTS
  MaxTasks = 2
  Rounds = 2
  MaxPriority = 3
  Fine = 2
  AgeQuantum = 4
  Delays = {2}
  Requests = {1}
  TaskRequests = {}
  PeerRequests = FALSE
  AlarmWindows = {"stop", "mainSwap"}
INVARIANT NoNullTask
CHECK_DEADLOCK FALSE
