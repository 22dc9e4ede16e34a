\* Two overlapping patterns, a message for both, every fault.
SPECIFICATION FairSpec
CONSTANTS
  m1 = m1
  m2 = m2
  x1 = x1
  Calls <- NoCalls
  Topics <- TwoTopics
  Inbound <- OneInbound
  TopicOf <- TopicOfOne
  IdSpace = 5
  Faults = {"cut", "refuse", "failover", "crash", "close", "garbage"}
INVARIANTS
  SubscriptionsInForce
  AckedIsHandedOver
PROPERTIES
  Resubscribes
  QueuedIsHandedOver
CHECK_DEADLOCK FALSE
