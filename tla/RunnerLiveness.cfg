SPECIFICATION FairSpec
CONSTANTS
  t1 = t1
  t2 = t2
  start1 = start1
  start2 = start2
  pause1 = pause1
  takeover1 = takeover1
  resume1 = resume1
  cancel1 = cancel1
  approve1 = approve1
  reject1 = reject1
  approveOther = approveOther
  pause2 = pause2
  takeover2 = takeover2
  resume2 = resume2
  cancel2 = cancel2
  NoTask = NoTask
  NoCommand = NoCommand
  Tasks = {t1, t2}
  Commands = {start1, start2, pause1, takeover1, resume1, cancel1}
  CommandType <- MCType
  CommandTask <- MCTask
  CommandSub <- MCSub
  Expirable = {}
  Steps = 2
  SubmitSteps = {}
  MaxRepeats = 0
  MaxFaults = 1
  MaxCrashes = 0
PROPERTY QueueDrains
PROPERTY CancelledRunStops
PROPERTY TasksEnd
CHECK_DEADLOCK FALSE
