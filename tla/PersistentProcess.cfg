CONSTANTS
  Turns = 2
  Scenes <- MCScenes
  OutputCap = 1
  BufferCap = 3
SPECIFICATION FairSpec
CHECK_DEADLOCK FALSE
INVARIANTS
  AnswerIsWholeReply
  EchoShieldsAnswer
  HeardToTheEnd
PROPERTIES
  WaitingEnds
  CloseReturns
