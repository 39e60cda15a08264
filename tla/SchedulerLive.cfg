SPECIFICATION PreemptiveSpec
CONSTANTS
  MaxTasks = 3
  Rounds = 1
  MaxPriority = 100
  Fine = 2
  AgeQuantum = 20
  Delays = {2}
  Requests = {30, 50, 98}
  TaskRequests = {}
  PeerRequests = FALSE
  AlarmWindows = {"stop", "mainSwap"}
INVARIANTS BoundedWait
PROPERTIES NoStarvation FinishedTasksReturn
CHECK_DEADLOCK FALSE
