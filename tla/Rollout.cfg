\* One store inside two of the canaries, whose versions come and go, and
\* restarts of both sides.
SPECIFICATION FairSpec
CONSTANTS
  early = early
  late = late
  Stores <- One
  Bucket <- BucketOfOne
  Pcts = {5, 50, 100}
  MaxVersions = 3
INVARIANTS
  TypeOK
  BlastRadius
PROPERTIES
  OthersUndisturbed
  RolledBackLeaves
  Converges
