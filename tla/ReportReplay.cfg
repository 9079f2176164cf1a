SPECIFICATION FairSpec
CONSTANTS
  t1 = t1
  NoTask = NoTask
  Tasks = {t1}
  FlushLimit = 3
  MaxBreaks = 1
  MaxReports = 2
  MaxCancels = 0
  MaxCrashes = 0
  MaxFaults = 0
PROPERTY DuplicatesChangeNothing
CHECK_DEADLOCK FALSE
