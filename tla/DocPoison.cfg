SPECIFICATION Spec
CONSTANTS
  w1 = w1
  w2 = w2
  r1 = r1
  u1 = u1
  u2 = u2
  Process = {w1}
  Replayer = {}
  Rebuilder = {w1}
  Crashable = {}
  Event <- MCPoison
  Bucket <- MCBucket
  User <- MCUser
  Capacity <- MCCapacity
  MaxTime <- MCMaxTime
INVARIANT QuiescentConsistent
