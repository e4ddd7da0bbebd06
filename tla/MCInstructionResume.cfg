SPECIFICATION Spec
CONSTANTS
  Tx = {t1}
  MaxAttempts = 2
  MaxFaults = 1
PROPERTIES ResumesFromLatestCheckpoint
