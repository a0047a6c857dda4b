SPECIFICATION Spec
CONSTANTS
  Block = {"G", "A1", "A2"}
  Genesis = "G"
  pprev <- TreePprev
  Chain <- TreeChain
  BlockSize <- UnitSize
  MAX_BLOCKFILE_SIZE = 3
  MaxFile = 2
  MaxOffset = 2
  MaxCrash = 0
  MaxPower = 0
  MaxFull = 0
  None = None
INVARIANT UndoDurable
