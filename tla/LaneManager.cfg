\* Two handlers race on one lane; every answer of bus, disk and intervention
\* service, and crashes.
SPECIFICATION FairSpec
CONSTANTS
  h1 = h1
  h2 = h2
  lane1 = lane1
  Lanes <- OneLane
  Handlers <- TwoHandlers
  Targets = {"SCANNING", "INTERVENTION", "DEGRADED"}
  MaxTransitions = 3
  Faults = {"crash", "late", "disk", "torn", "scan"}
INVARIANTS
  TypeOK
  TransitionAccounted
  InterventionAccounted
  RequestJustified
  EventsFormChain
PROPERTY NoStrandedLane
