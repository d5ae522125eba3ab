SPECIFICATION Spec
CHECK_DEADLOCK FALSE
CONSTANTS
  MAX_LABEL = 65535
  MAX_LEVEL = 16
  HeavyDistance = 8192
  NODE_INTERVAL = 16384
  SUBLIST_SIZE = 2
  IntBits = 8
  MaxNodes = 25
  Spots <- HotSpot
INVARIANTS
  OrderMaintained
  TreeIsSound
  NodeHasRoom
  RetryFindsLabel
  HeightBoundsTree
