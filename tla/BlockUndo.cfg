SPECIFICATION Spec
CONSTANTS
  Block = {"G", "A1", "A2", "B2", "D2", "T2", "X3", "E3"}
  Genesis = "G"
  pprev <- TreePprev
  nHeight <- TreeHeight
  Chain <- TreeChain
  vtx <- TreeVtx
  Tx = {"a1", "a2", "b2", "d2", "t2", "x3",
        "stake", "pay", "split", "join", "again", "early", "hasty", "sweep"}
  vin <- TxVin
  vout <- TxVout
  nTime <- TxTime
  CoinBase <- CoinBases
  CoinStake = {"stake"}
  BadBlock = {}
  COINBASE_MATURITY = 1
  MaxReorganizationDepth = 0
  NoUndo = NoUndo
  RefusedBlock = {"A2"}
INVARIANTS BestIsState UndoKept UndoClean VerdictFromChain StakeSpentSound
