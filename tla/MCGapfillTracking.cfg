SPECIFICATION MCSpec
INVARIANTS NoRevisionLost NoDuplicates UnlistedIsUntouched HoldoutHonest
PROPERTY RevisionArrives
CONSTANTS
  Last = 3
  MaxClock = 2
  Packages <- TwoPackages
  Revisions <- TwoPackages
  Scheduled = {post}
  Manual = {admin}
  Ranges <- WholeAndEnd
  Killable = {post, admin}
  Lookback = 1
  MinPoints = 2
  LastRow = 5
  MinRows = 3
  MaxGap = 2
  Context = 1
  Period = 4
  Radius = 6
  HalfWindow = 3
CHECK_DEADLOCK FALSE
