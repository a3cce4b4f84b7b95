CONSTANTS
  Ids = {"c1", "c2", "c3"}
  V2Ids = {"c1"}
  Talkers = {"c1"}
  MaxTurns = 2
  LongTurns = {2}
  HugeTurns = {}
  Trouble = {"write", "rename", "append", "crash"}
  MaxLimit = 2
  DefaultLimit = 1
  Limits = {0, 3}
SPECIFICATION ApiSpec
INVARIANTS RecordIsWhole PeekIsAllOrNothing WalkMissesNothing
PROPERTY RecordStays
CHECK_DEADLOCK FALSE
