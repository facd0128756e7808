SPECIFICATION Spec
CONSTANTS
  None = None
  da = da
  db = db
  bad = bad
  MaxGeneration = 4
  Digests = {da, db, bad}
  CanonicalDigests = {da, db}
INVARIANTS
  TypeOK
  LineageOrdered
  DesiredIsHeld
