SPECIFICATION Spec
CONSTANTS
  u1 = u1
  u2 = u2
  Event <- MCEvent
  Bucket <- MCBucket
  User <- MCUser
  Capacity <- MCCapacity
  MaxTime <- MCMaxTime
INVARIANTS LoopTypeOK GroupsAreComponents HardCap EveryRequestDecided RejectedHadTurn ComputesFold ExplanationAgrees
