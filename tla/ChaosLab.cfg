SPECIFICATION LabSpec
CONSTANTS
  w1 = w1
  w2 = w2
  r1 = r1
  u1 = u1
  u2 = u2
  Process = {w1}
  Replayer = {}
  Rebuilder = {w1}
  Crashable = {w1}
  Event <- MCChaosEvent
  Bucket <- MCBucket
  User <- MCUser
  Capacity <- MCCapacity
  Load <- MCLoads
  Generated <- MCGenerated
  ClientEvent <- MCClientEvent
  MaxTime <- MCMaxTime
INVARIANTS CountersFollowLog ConflictsAudited TouchedConsistent
PROPERTY RunsEnd
