SPECIFICATION FairSpec
CONSTANTS
  Payments = {1, 2, 3}
  Elsewhere = {3}
  InitialBackoff = 2
  MaxBackoff = 5
  MaxShort = 2
  MaxFaults = 2
INVARIANTS TypeOK OwnUserOp BackoffDoublesToItsMaximum
PROPERTIES WatcherComesBack ShutdownEnds
