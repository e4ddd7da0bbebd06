SPECIFICATION Spec
CONSTANTS
  Tx = {t1, t2}
  NeedsUserOp = {}
  MaxAttempts = 1
  MaxFaults = 1
SYMMETRY Symmetry
INVARIANTS RecoveryHidesNoMint
PROPERTIES NoBlindResubmission
