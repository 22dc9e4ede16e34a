\* A bus that fails one publish of a flush and takes the next.
SPECIFICATION Spec
CONSTANTS
  e1 = e1
  e2 = e2
  e3 = e3
  Events <- Two
  Faults = {}
PROPERTY ReplayInOrder
