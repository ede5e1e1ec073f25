SPECIFICATION FairSpec
INVARIANT StatusTells
PROPERTY OthersGoOn
CONSTANTS
  load = load
  prices = prices
  flows = flows
  bogus = bogus
  Unset = unset
  Names <- AllNames
  Tables <- ThreeTables
  Broken <- BrokenOnes
  DefaultTables <- Defaults
  Invocations <- Calls
  Repeated <- PostRun
  MaxRevision = 2
