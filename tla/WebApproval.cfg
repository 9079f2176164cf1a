SPECIFICATION Spec
CONSTANTS
  t1 = t1
  t2 = t2
  NoTask = NoTask
  Tasks = {t1, t2}
  MaxBreaks = 1
  MaxInbox = 2
  MaxTimers = 2
INVARIANT DecisionIsOffered
CHECK_DEADLOCK FALSE
