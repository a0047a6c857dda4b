SPECIFICATION Spec
CONSTANTS
  Block = {"G", "A1", "A2"}
  Genesis = "G"
  pprev <- TreePprev
  Chain <- TreeChain
  BlockSize <- UnitSize
  MAX_BLOCKFILE_SIZE = 3
  MaxFile = 2
  MaxOffset = 2
  MaxCrash = 1
  MaxPower = 1
  MaxFull = 1
  None = None
INVARIANTS DataKept CoinsCovered UndoReadable
