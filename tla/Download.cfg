SPECIFICATION Spec
CONSTANTS
  G = G
  A1 = A1
  A2 = A2
  C1 = C1
  Block <- ForkBlock
  Genesis = G
  NoBlock = NoBlock
  nHeight <- ForkHeight
  Chain <- ForkChain
  P1 = P1
  P2 = P2
  Peer = {P1, P2}
  FirstTip <- ForkFirstBoth
  PeerBlock <- ForkTipsBoth
  NoPeer = NoPeer
  PreferredPeer = {P1}
  ResponsivePeer = {}
  UnsolicitedBlock = {A1}
  Checked = {FALSE, TRUE}
  Recent = {FALSE, TRUE}
  MAX_BLOCKS_IN_TRANSIT_PER_PEER = 2
  BLOCK_DOWNLOAD_WINDOW = 1
  MAX_HEADERS_RESULTS = 3
  MaxConnects = 1
INVARIANT InFlightExact NothingTwice CountersExact LastCommonShared StallersOwe TransitBounded
CHECK_DEADLOCK FALSE
