SPECIFICATION ToolSpec
CONSTANTS
  w1 = w1
  w2 = w2
  r1 = r1
  u1 = u1
  u2 = u2
  Process = {w1, r1}
  Replayer = {r1}
  Rebuilder = {r1}
  Crashable = {r1}
  Event <- MCPair
  Bucket <- MCBucket
  User <- MCUser
  Capacity <- MCCapacity
  MaxTime <- MCMaxTime
INVARIANTS RowsWithinCapacity WalSound 
