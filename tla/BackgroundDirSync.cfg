SPECIFICATION FairSpec
CONSTANTS
  Files = {"new", "old"}
  PreExisting = {"old"}
  Excluded = {}
  DeleteChoices = {TRUE, FALSE}
  RemoveChoices = {TRUE, FALSE}
  MaxWrites = 3
  MaxFlushes = 1
  MaxFaults = 1
INVARIANTS TypeOK CleanShutdownSynced PreExistingSpared
PROPERTY ShutdownReturns
CHECK_DEADLOCK FALSE
