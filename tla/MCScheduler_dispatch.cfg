SPECIFICATION DispatchSpec
INVARIANT RunsExclude
PROPERTIES FifoPerKeys QueuedJobRuns ImplementsAdmission
CONSTANTS
  j1 = j1
  j2 = j2
  j3 = j3
  k1 = k1
  k2 = k2
  v1 = v1
  v2 = v2
  None = none
  Main = main
  Slots = {s1, s2, s3}
  Jobs <- ThreeJobs
  Keys <- TwoKeys
  LockKeys <- OverlappingKeys
  Fragile <- ThreeJobs
  Gens = {g1}
  Versions = {v1}
  Enabled <- OneConfig
CHECK_DEADLOCK FALSE
