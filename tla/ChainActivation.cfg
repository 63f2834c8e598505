CONSTANTS
  g = g p = p a1 = a1 a2 = a2 b1 = b1 b2 = b2 b3 = b3
  Block = {g, p, a1, a2, b1, b2, b3}
  Genesis = g
  NoBlock = NoBlock
  Parent <- MCParent
  Work <- MCWork
  Address <- MCAddress
  Bad = {b3}
  CarefulOperator = TRUE
  MaxHeaders = 1
  MaxInvalidate = 1
  MaxReconsider = 1
  MaxRestarts = 1
SPECIFICATION Spec
INVARIANTS BlockIndexSound 
PROPERTIES NoLossAtUnlock BestChainActive
CHECK_DEADLOCK FALSE
