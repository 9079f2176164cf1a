SPECIFICATION Spec
CONSTANTS
  t1 = t1
  NoTask = NoTask
  Tasks = {t1}
  FlushLimit = 3
  MaxBreaks = 1
  MaxReports = 2
  MaxCancels = 0
  MaxCrashes = 1
  MaxFaults = 1
INVARIANT LinkTypeOK
INVARIANT FirstInOrder
INVARIANT ReportsFindTheirTask
PROPERTY RowsLeaveHandled
CHECK_DEADLOCK FALSE
