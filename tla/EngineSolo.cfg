SPECIFICATION FairSpec
CONSTANTS
  w1 = w1
  w2 = w2
  r1 = r1
  u1 = u1
  u2 = u2
  Process = {w1}
  Replayer = {}
  Rebuilder = {w1}
  Crashable = {}
  Event <- MCClean
  Bucket <- MCBucket
  User <- MCUser
  Capacity <- MCCapacity
  MaxTime <- MCMaxTime
INVARIANTS TypeOK QuiescentConsistent PresentIsHistory
PROPERTIES EventsReachRow KeepsWorkerLedger
