\* Two readings, two resolve calls; deliveries repeat and processes die.
SPECIFICATION FairSpec
CONSTANTS
  d1 = d1
  d2 = d2
  a1 = a1
  a2 = a2
  Deliveries <- TwoDeliveries
  LaneOf <- Lanes
  Readings <- SomeReadings
  Resolvers <- TwoCalls
  Faults = {"again", "weight", "intervention"}
INVARIANTS
  TypeOK
  RequestKept
  ResolutionAnnounced
PROPERTY MismatchIsAttended
CHECK_DEADLOCK FALSE
