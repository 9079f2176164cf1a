SPECIFICATION FairSpec
CONSTANTS
  t1 = t1
  t2 = t2
  start1 = start1
  takeover2 = takeover2
  start2 = start2
  pause1 = pause1
  takeover1 = takeover1
  resume1 = resume1
  cancel1 = cancel1
  cancel2 = cancel2
  approve1 = approve1
  NoTask = NoTask
  NoCommand = NoCommand
  Tasks = {t1, t2}
  Commands = {start1, start2, pause1, takeover1, takeover2, resume1, cancel1, approve1}
  CommandType <- MCType
  CommandTask <- MCTask
  CommandSub <- MCSub
  Expirable = {}
  AgentSteps = 2
  MaxCommands = 3
  MaxWaiting = 0
  MaxFaults = 1
INVARIANT TypeOK
INVARIANT AgentHasItsLease
INVARIANT SuccessIsEarned
PROPERTY HandoverAtRest
PROPERTY QueueDrains
PROPERTY ExecutionSettles
CHECK_DEADLOCK FALSE
