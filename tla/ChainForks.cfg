SPECIFICATION FairSpec
CONSTANTS
  G = G
  A1 = A1
  A2 = A2
  B1 = B1
  B2 = B2
  B3 = B3
  C2 = C2
  Block = {G, A1, A2, B1, B2}
  Genesis = G
  NoBlock = NoBlock
  pprev <- ForkPprev
  nHeight <- ForkHeight
  nChainWork <- ForkHeight
  Chain <- ForkChain
  Address <- ForkAddress
  KernelBlock <- NoKernel
  NonFinalBlock = {}
  BadModifierBlock = {}
  UnconnectableBlock = {B2}
  Thread = {t1, t2}
  NoThread = NoThread
  MaxReorganizationDepth = 3
  OperatorBlock = {A1, B1}
  MaxEvent = 2
INVARIANT LinksExact BestIsCandidate RestsOnBest
PROPERTY Converges
