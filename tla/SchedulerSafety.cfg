SPECIFICATION Spec
CONSTANTS
  MaxTasks = 3
  Rounds = 1
  MaxPriority = 3
  Fine = 2
  AgeQuantum = 4
  Delays = {2, 6}
  Requests = {1, 5}
  TaskRequests = {0, 3}
  PeerRequests = TRUE
  AlarmWindows = {"stop", "mainSwap"}
INVARIANTS TypeOK RunningStackLive OwnContext WildOnlyByStaleReference ReturnedMeansDone DeadStacksBounded
PROPERTIES FinishedStaysOff RunsThePool
CHECK_DEADLOCK FALSE
