SPECIFICATION ReloadSpec
INVARIANT NoLostEdit
PROPERTIES EditTakesEffect OldQueueDrains StopCompletes
CONSTANTS
  j1 = j1
  j2 = j2
  j3 = j3
  k1 = k1
  k2 = k2
  v1 = v1
  v2 = v2
  None = none
  Main = main
  Slots = {s1}
  Jobs <- TwoJobs
  Keys <- OneKey
  LockKeys <- SameTables
  Fragile = {j1}
  Gens = {g1, g2}
  Versions = {v1, v2}
  Enabled <- TwoConfigs
CHECK_DEADLOCK FALSE
