SPECIFICATION FairSpec
INVARIANTS LoadedWhole
PROPERTIES NoRevisionUndone Converges
CONSTANTS
  scheduler = scheduler
  admin = admin
  None = none
  Months <- OneMonth
  Recent <- OneMonth
  Lines <- TwoLines
  MaxClock = 2
  Procs = {scheduler, admin}
  Sweeper = scheduler
  Tasks <- OneMonthTasks
CHECK_DEADLOCK FALSE
