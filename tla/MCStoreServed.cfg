SPECIFICATION Spec
CONSTANTS
  Ids = {a, b}
  MaxCalls = 2
  MaxFaults = 1
INVARIANTS ServedJobsAreDurable
CHECK_DEADLOCK FALSE
