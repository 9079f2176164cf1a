SPECIFICATION FairSpec
CONSTANTS
  t1 = t1
  NoTask = NoTask
  Tasks = {t1}
  FlushLimit = 3
  MaxBreaks = 2
  MaxReports = 1
  MaxCancels = 1
  MaxCrashes = 0
  MaxFaults = 0
PROPERTY OutboxDrains
PROPERTY DeviceIsReachable
CHECK_DEADLOCK FALSE
