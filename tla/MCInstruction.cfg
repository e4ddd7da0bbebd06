SPECIFICATION FairSpec
CONSTANTS
  Tx = {t1}
  MaxAttempts = 3
  MaxFaults = 2
INVARIANTS TypeOK StagesAreBacked SettlementsAreReal AttemptsAreBounded ReceiptsAreTrue
PROPERTIES NoRepeatedRequestWithoutFaults EveryJobEnds
