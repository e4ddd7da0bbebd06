SPECIFICATION FairSpec
CONSTANTS
  Payloads = {1}
  MaxFaults = 2
  MaxInFlight = 1
  Flows = {"mint", "instruction"}
INVARIANTS TypeOK DeadSessionsAreUnpaid PaymentsSurviveReload ReloadBringsBackTheScreen
PROPERTIES FollowedToTheEnd
