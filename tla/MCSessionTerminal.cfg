SPECIFICATION Spec
CONSTANTS
  Payloads = {1}
  MaxFaults = 0
  MaxInFlight = 1
  Flows = {"mint"}
INVARIANTS TerminalOutcomesAreNotStored
