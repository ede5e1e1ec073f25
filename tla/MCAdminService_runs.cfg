SPECIFICATION RunsSpec
INVARIANTS OneActiveRow LevelRestored ActsAsAsked
PROPERTIES RunsSettle
CONSTANTS
  Crawlers = {c1, c2}
  Runs = {r1, r2, r3}
  Console = console
  None = none
  Faults = TRUE
  AdminItems <- FmsItems
  CrawlerItems <- FmsItems
  Cadence <- Cadences
  Dates <- FiveDates
  GapfillTables <- AllTables
  PostRunTables <- PostRuns
  DefaultLocations <- TwoLocations
  FormConfigs <- SmallConfigs
  Wishes <- SmallWishes
  Slips <- SmallSlips
  NotSet = notset
  Malformed = malformed
  Users = {alice, bob}
  Values = {v1, v2}
  NoText = notext
  ConfigTexts <- Texts_
  NewSchedules <- Changed
  TableNames <- Tables_
CHECK_DEADLOCK FALSE
