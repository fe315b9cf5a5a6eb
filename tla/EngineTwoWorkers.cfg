SPECIFICATION FairSpec
CONSTANTS
  w1 = w1
  w2 = w2
  r1 = r1
  u1 = u1
  u2 = u2
  Process = {w1, w2}
  Replayer = {}
  Rebuilder = {w1}
  Crashable = {w1, w2}
  Event <- MCClash
  Bucket <- MCBucket
  User <- MCUser
  Capacity <- MCCapacity
  MaxTime <- MCMaxTime
INVARIANTS UniqueIds AnswersDurable AppliedOnce
PROPERTIES LogAppendOnly KeepsClientLedger HandlersEnd
