CONSTANTS
  a = a
  b = b
  c = c
  ghost = ghost
  none = none
  PeerOrder <- ThreePeers
  Strangers <- MCStrangers
  NoPeer = none
  Replies <- MCReplies
  Opener = a
  MaxTurns = 3
  BufferSize = 1
  Faults = {"start", "deliver"}
  OtherControl = {}
  MaxOther = 0
  CommandFaults = {"store", "stdout"}
SPECIFICATION FairConverseSpec
INVARIANTS
  EnvelopeChain
  StreamAgreesWithStore
  ResultComesLast
  ExitCodeIsTrue
PROPERTY CommandReturns
