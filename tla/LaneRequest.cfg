\* Requests whose publication fails.
SPECIFICATION Spec
CONSTANTS
  h1 = h1
  h2 = h2
  lane1 = lane1
  Lanes <- OneLane
  Handlers <- TwoHandlers
  Targets = {"SCANNING", "INTERVENTION", "PAYMENT"}
  MaxTransitions = 3
  Faults = {"crash"}
INVARIANT FailedRequestKept
