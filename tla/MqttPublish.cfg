\* Two Publish calls; a topic whose replays use up packet ids.
SPECIFICATION Spec
CONSTANTS
  m1 = m1
  m2 = m2
  x1 = x1
  Calls <- TwoCalls
  Topics <- OneTopic
  Inbound <- NoInbound
  TopicOf <- NoTopicOf
  IdSpace = 3
  Faults = {"cut"}
SYMMETRY AnyCall
INVARIANTS
  TypeOK
  AckMeansReceived
  WireIsUnderstood
  CutLeavesWhole
PROPERTIES
  AckFindsCall
  ImplementsBus
CHECK_DEADLOCK FALSE
