SPECIFICATION Spec
CONSTANTS
  g = g  a1 = a1  b2 = b2  b3 = b3  b4 = b4  c2 = c2  c3 = c3  c4 = c4  c5 = c5
  d3 = d3  x1 = x1
  t1 = t1  t2 = t2  t3 = t3  k1 = k1  k2 = k2  k3 = k3
  alice = alice  bob = bob  name = name
  Blocks = {g, a1, b2, b3, b4, c2, c3, d3, x1}
  BadHeader = {}  Future = {}  BadReward = {}  Heavy = {b4, c3}
  TimeLocked = {}  TxsOfC2 <- T2  AliasCarriers = {b2, c2}  RollbackHeights = {}
  Genesis = g  NoBlock = NoBlock
  Prev <- MCPrev  BlockHeight <- MCBlockHeight  BlockTxs <- MCBlockTxs
  Difficulty <- MCDifficulty  Verdict <- MCVerdict  UnlockTime <- MCUnlockTime
  AliasOf <- MCAliasOf
  Txs <- MCTxs  KeyImages = {k1, k2, k3}  PoolAliases = {name}  NoAlias = NoAlias
  Vin <- MCVin
  AliasNames = {name}  Addresses = {alice, bob}  null_sig = null_sig
  m_points <- CheckpointA1
  CURRENCY_MAX_BLOCK_NUMBER = 10
  CURRENCY_LOCKED_TX_ALLOWED_DELTA_BLOCKS = 1
  CURRENCY_ALT_BLOCK_LIVETIME_COUNT = 2
INVARIANT GlobalIndexEndsInPurged
