SPECIFICATION FairSpec
CONSTANTS
  Ids = {a, b}
  MaxCalls = 4
  MaxFaults = 2
INVARIANTS TypeOK ResolvedUpdatesAreDurable
PROPERTIES UpdatesAreAtomic FileNeverGoesBack QueueDrains
CHECK_DEADLOCK FALSE
