\* A process that is started again before it has subscribed.
SPECIFICATION Spec
CONSTANTS
  m1 = m1
  m2 = m2
  x1 = x1
  Calls <- NoCalls
  Topics <- OneTopic
  Inbound <- OneInbound
  TopicOf <- TopicOfOne
  IdSpace = 4
  Faults = {"crash"}
INVARIANT NotAckedUnhandled
CHECK_DEADLOCK FALSE
