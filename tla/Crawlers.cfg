SPECIFICATION FairSpec
INVARIANTS NoDuplicates MissingWithinReach ReportsTrue LabelsNameHours
PROPERTIES  Converges
CONSTANTS
  NSeries = 2
  LookBack = 1
  MaxFiles = 1
  MaxFailures = 1
  MaxUpdates = 1
  Ambiguous = {1}
  Names <- AllCrawlers
CHECK_DEADLOCK FALSE
