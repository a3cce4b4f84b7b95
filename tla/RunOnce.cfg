CONSTANTS
  Lines = {"text", ">", "login", "approve"}
  MaxLines = 2
  TailLines = 2
  PeekLasts = {0, 1, 2}
  Trouble = {"spawn", "create", "append", "write", "update", "peek"}
SPECIFICATION FairSpec
INVARIANTS  StoppedAgentIsGone
PROPERTY RunReturns
CHECK_DEADLOCK FALSE
