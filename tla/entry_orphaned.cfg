SPECIFICATION GraphSpec
CONSTANTS
  Capacity = 4
  Top = 1
  M = 1
  EfConstruct = 2
  Backfill = 0
  Starts <- MCStarts
  PatienceIn = 0
  PatienceOut = 0
  Points = {0, 1, 4, 6}
  Threads = {t1}
  None = None
INVARIANT EntryReinserted
CHECK_DEADLOCK FALSE
