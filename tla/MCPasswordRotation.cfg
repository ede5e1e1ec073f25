SPECIFICATION MCSpec
INVARIANTS NoLockOut EndsInAgreement NothingLost
PROPERTY SuccessServes
CONSTANTS
  Always = {postgrest}
  Optional = {scheduler}
  MaxRuns = 3
  Ids = {1, 2}
  MaxPlays = 3
  MaxRows = 1
  MaxRotations = 1
CHECK_DEADLOCK FALSE
