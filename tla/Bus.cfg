CONSTANTS
  p1 = p1
  p2 = p2
  s1 = s1
  s2 = s2
  Publishers <- MCPublishers
  Subs <- MCSubs
  Topics = {turn, control}
  BufferSize = 1
  MaxPublish = 2
SPECIFICATION FairSpec
CHECK_DEADLOCK FALSE
INVARIANTS
  ListedIffOpen
  ExactlyOnceUnlessFull
PROPERTIES SilentAfterClose PublishReturns
