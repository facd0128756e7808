SPECIFICATION FairSpec
CONSTANTS
  None = None
  da = da
  db = db
  bad = bad
  MaxGeneration = 3
  Digests = {da, db, bad}
  CanonicalDigests = {da, db}
INVARIANTS
  TypeOK
  OwnCrashRecovers
  ActivatedOnce
PROPERTIES
  RecoveryFenced
  Settles
