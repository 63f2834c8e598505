SPECIFICATION WSpec
CONSTANTS
  a = a
  b = b
  d = d
  base = base
  note = note
  noAnchor = noAnchor
  Tx = {a, b, d}
  Coinbase = {}
  ShieldsTo = {}
  Base = base
  Note = note
  NoAnchor = noAnchor
  Inputs <- MCInputs
  Fee <- MCFee
  LockHeight <- MCLockHeight
  Anchor <- MCAnchor
  Maturity = 2
  AncestorLimit = 3
  DescendantLimit = 3
  MaxMempool = 3
  FeeDelta = 1
  Prioritised = {}
  MaxHeight = 2
  MaxBlockTx = 1
  Mine = {a, b, d}
  BestChainInStep = FALSE
  MaxEvents = 2
  Budgets <- MCBudgets
INVARIANTS FlagsSound  ConflictsSeen
CHECK_DEADLOCK FALSE
