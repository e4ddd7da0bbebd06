SPECIFICATION Spec
CONSTANTS
  Tx = {t1}
  NeedsUserOp = {}
  MaxAttempts = 1
  MaxFaults = 1
PROPERTIES MintedNeedsNoRecovery
