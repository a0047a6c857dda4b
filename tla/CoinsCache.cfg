SPECIFICATION Spec
CONSTANTS
  Txid = {t1, t2, t3}
  Coins = {Pruned, c1, c2}
  Pruned = Pruned
  Block = {b1, b2}
  NoBlock = NoBlock
  NoEntry = NoEntry
  NoDraft = NoDraft
INVARIANTS FlagsSound BatchWriteAssert
PROPERTY Implements
SYMMETRY Symmetry
