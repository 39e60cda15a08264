SPECIFICATION FairSpec
CONSTANTS
  MaxTasks = 2
  Rounds = 1
  MaxPriority = 3
  Fine = 2
  AgeQuantum = 4
  Delays = {2}
  Requests = {1}
  TaskRequests = {}
  PeerRequests = FALSE
  AlarmWindows = {"armed", "stop", "mainSwap"}
PROPERTY Termination
CHECK_DEADLOCK FALSE
