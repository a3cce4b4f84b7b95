CONSTANTS
  a = a
  b = b
  ghost = ghost
  none = none
  PeerOrder <- TwoPeers
  Strangers <- MCStrangers
  NoPeer = none
  Replies <- TwoReplies
  Opener = a
  MaxTurns = 2
  BufferSize = 1
  Faults = {"create", "start", "terminator", "subscribe", "deliver", "append", "publish", "update"}
  OtherControl = {"continue", "peer_crashed"}
  MaxOther = 1
SPECIFICATION FairSpec
INVARIANTS
  TypeOK
  NoSilentLoss
  DeliverOnlyToLivePeers
  CleanShutdown
  AtMostOneLateTurn
PROPERTIES
  RunReturns
  ImplementsConversation
