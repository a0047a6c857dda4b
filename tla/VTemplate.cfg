SPECIFICATION Spec
CONSTANTS
  Block = {"G", "A1", "A2", "A3", "B3", "A4", "B4"}
  Genesis = "G"
  pprev <- TreePprev
  nHeight <- TreeHeight
  Chain <- TreeChain
  vtx <- TreeVtx
  Tx <- Txs
  vin <- TxVin
  vout <- TxVout
  nLockTime <- Locked
  CoinBase <- CoinBases
  CoinStake = {"stake"}
  OldVersion = {}
  NonStandard = {"odd"}
  NonStandardInput = {"multi"}
  BigTx = {"late"}
  nTime <- SomeTime
  BadTx = {"bad"}
  FreeTx = {"split", "join"}
  Hashes <- HashOrder
  Priorities <- Orders
  Peer = {p1, p2}
  nMaxOrphanTx = 3
  COINBASE_MATURITY = 2
  LastProofOfWorkHeight = 0
INVARIANT StakeTemplateCollects
