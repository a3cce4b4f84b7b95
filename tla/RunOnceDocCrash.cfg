CONSTANTS
  Lines = {"text", "approve"}
  MaxLines = 1
  TailLines = 1
  PeekLasts = {10}
  Trouble = {}
SPECIFICATION Spec
INVARIANT CrashIsNotCompleted
CHECK_DEADLOCK FALSE
