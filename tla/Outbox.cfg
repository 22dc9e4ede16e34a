\* Three Enqueue calls and every fault.
SPECIFICATION FairSpec
CONSTANTS
  e1 = e1
  e2 = e2
  e3 = e3
  Events <- Three
  Faults = {"crash", "late", "rewrite", "short_write", "long_line", "read"}
INVARIANTS
  TypeOK
  LossIsContained
  FlushCoversFile
  NoSpuriousDuplicate
PROPERTIES
  EnqueueTerminates
  BacklogDrains
  ImplementsQueue
