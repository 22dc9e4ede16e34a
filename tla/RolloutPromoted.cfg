\* The agent caches the percentage of the version it deployed.
SPECIFICATION Spec
CONSTANTS
  early = early
  late = late
  Stores <- Both
  Bucket <- BucketOf
  Pcts = {50, 100}
  MaxVersions = 2
PROPERTIES
  RollbackOnlyOfCanary
