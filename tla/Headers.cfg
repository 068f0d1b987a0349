SPECIFICATION Spec
CONSTANTS
  Names <- MCNames
  Lower <- MCLower
  Bucket <- MCBucket
  Packed <- MCPacked
  Values = {"number", "word"}
  NUMHEADERS = 3
INVARIANTS TypeOK CounterIsTotal CrashNeedsCollision
PROPERTY ImplementsHeaderMap
CHECK_DEADLOCK FALSE
