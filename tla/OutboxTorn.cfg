\* An append that fails part of the way, and the append after it.
SPECIFICATION Spec
CONSTANTS
  e1 = e1
  e2 = e2
  e3 = e3
  Events <- Two
  Faults = {"short_write"}
INVARIANT AckedNotLost
