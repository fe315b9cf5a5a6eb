SPECIFICATION Spec
CONSTANTS
  w1 = w1
  w2 = w2
  r1 = r1
  u1 = u1
  u2 = u2
  Process = {w1}
  Replayer = {}
  Rebuilder = {}
  Crashable = {}
  Event <- MCClean
  Bucket <- MCBucket
  User <- MCUser
  Capacity <- MCCapacity
  MaxTime <- MCMaxTime
INVARIANT RangeCoversLog
