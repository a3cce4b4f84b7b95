CONSTANTS
  alice = alice
  bob = bob
  carol = carol
  ghost = ghost
  none = none
  PeerOrder <- MCPeerOrder
  Strangers <- MCStrangers
  NoPeer = none
  MaxLines = 3
SPECIFICATION Spec
INVARIANTS
  FallbackVisitsEveryone
  StripKeepsWhatWasSaid
  AddressedIsHonoured
PROPERTY FloorPasses
