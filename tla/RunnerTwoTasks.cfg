SPECIFICATION Spec
CONSTANTS
  t1 = t1
  t2 = t2
  start1 = start1
  start2 = start2
  pause1 = pause1
  takeover1 = takeover1
  resume1 = resume1
  cancel1 = cancel1
  approve1 = approve1
  reject1 = reject1
  approveOther = approveOther
  pause2 = pause2
  takeover2 = takeover2
  resume2 = resume2
  cancel2 = cancel2
  NoTask = NoTask
  NoCommand = NoCommand
  Tasks = {t1, t2}
  Commands = {start1, start2, cancel1, approveOther, takeover2, resume2}
  CommandType <- MCType
  CommandTask <- MCTask
  CommandSub <- MCSub
  Expirable = {cancel1}
  Steps = 2
  SubmitSteps = {2}
  MaxRepeats = 1
  MaxFaults = 1
  MaxCrashes = 0
INVARIANT LeaseIsActives
INVARIANT LiveRunHoldsLease
PROPERTY TerminalCheckpointStays
PROPERTY KeepsBrowserControl
PROPERTY ReceiptsAreFinal
CHECK_DEADLOCK FALSE
