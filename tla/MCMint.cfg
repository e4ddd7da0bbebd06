SPECIFICATION FairSpec
CONSTANTS
  Tx = {t1}
  NeedsUserOp = {t1}
  MaxAttempts = 3
  MaxFaults = 2
INVARIANTS TypeOK StagesAreBacked SettlementsAreReal RecoveryHidesNoMint AttemptsAreBounded ReceiptsAreTrue
PROPERTIES NoBlindResubmission AttestationIsKept EveryJobEnds
