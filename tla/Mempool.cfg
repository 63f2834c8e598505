SPECIFICATION Spec
CONSTANTS
  a = a
  b = b
  c = c
  d = d
  k = k
  z = z
  s = s
  cb = cb
  base = base
  note = note
  noAnchor = noAnchor
  Tx = {a, b, c, d, k, z, s, cb}
  Coinbase = {cb}
  ShieldsTo = {z}
  Base = base
  Note = note
  NoAnchor = noAnchor
  Inputs <- MCTxInputs
  Fee <- MCFee
  LockHeight <- MCLockHeight
  Anchor <- MCAnchor
  Maturity = 2
  AncestorLimit = 3
  DescendantLimit = 3
  MaxMempool = 4
  FeeDelta = 1
  Prioritised = {c}
  MaxHeight = 3
  MaxBlockTx = 3
INVARIANTS EntriesSound 
 
CHECK_DEADLOCK FALSE
