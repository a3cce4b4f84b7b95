CONSTANTS
  CommandLines <- MCCommandLines
  Typed <- MCTyped
  MaxNPeers = 3
CHECK_DEADLOCK FALSE
SPECIFICATION FlagsSpec
INVARIANT SeedIsDelivered
