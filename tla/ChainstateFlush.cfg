CONSTANTS
  g = g p = p a1 = a1 a2 = a2 b1 = b1 b2 = b2
  o1 = o1 o2 = o2 o3 = o3 o4 = o4
  n1 = n1 n2 = n2
  OutPoint = {o1, o2, o3, o4}
  Block = {g, p, a1, a2, b1, b2}
  Genesis = g
  NoBlock = NoBlock
  Parent <- MCParent
  Height <- MCHeight
  Vtx <- MCVtx
  Nullifiers <- MCNullifiers
  Shielded <- MCShielded
  StartTip = p
  MaxFile = 0
  SmallBatches = TRUE
  MaxCrashes = 2
SPECIFICATION Spec
INVARIANTS DiskSound TipExact
PROPERTY ImplementsDurableTip
