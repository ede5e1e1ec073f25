SPECIFICATION MCSpec
INVARIANTS PublishedWhole OneInForce NewestInForce
PROPERTIES AlertsLimited
SYMMETRY KeySymmetry
CONSTANTS
  p1 = p1
  p2 = p2
  Threads = {t1, t2}
  Keys = {k1, k2}
  Limits = {1, 2}
  LastHour = 2
  None = None
  TrainRows = 4
  LagRows = 2
  BufferRows = 1
  DayRows = 2
  FillRows = 1
  MinRows = 3
  Procs = {p1, p2}
  Targets <- SmallTargets
  Backends = {"auto", "upstream"}
  Readings <- SmallReadings
  RetentionDays = 1
  MaxDay = 2
CHECK_DEADLOCK FALSE
