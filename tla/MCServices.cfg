SPECIFICATION MCSpec
CONSTANTS
  Executor = "executor"
  PersonalAccount = "personal"
  Whole = 10
  Lookback = 3
  MaxValue = 1000
  Flows = {f1, f2}
  MintForms <- Mints
  InstructionForms <- Instructions
  Settings <- TwoSettings
  FirstAccount <- TheAccount
  Worlds <- FewWorlds
  WatchedAddresses = {"core 1", "operator 1", "core 2"}
  Rounding = 1
  None = None
  Timeout = 30
  InitialDelay = 3
  MaxDelay = 7
  ClientTime = 5
  Latency = 2
  Budget = 2
  Window = 5
  Second = 2
  LastTick = 18
SYMMETRY Symmetry
INVARIANTS TypeOK ExecutedAsTyped ReviewedPaymentsTakeEffect PollEndsInTime AnswersInTimeAreTaken RateIsBounded
PROPERTIES RetriesAreAdmitted
CHECK_DEADLOCK FALSE
