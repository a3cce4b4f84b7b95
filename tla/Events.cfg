CONSTANTS
  Conns = {c1, c2}
  MaxStreams = 1
  EventBuffer = 1
  Layouts = {"flat", "nested"}
  Faults = {"flusher", "watcher", "notify"}
  Changes <- MCChanges
  MaxChanges = 2
SPECIFICATION FairSpec
INVARIANTS
  SlotsAreStreams
  ExactUnlessFull
PROPERTY
  LeavesNothing
