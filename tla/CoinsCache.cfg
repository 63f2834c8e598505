SPECIFICATION Spec
CONSTANTS
  OutPoint = {o1, o2}
  Coin = {c1, c2, cu}
  Unspendable = {cu}
  Spent = Spent
  Block = {b1, b2}
  NoBlock = NoBlock
  NoEntry = NoEntry
INVARIANT CachesSound
PROPERTY ImplementsCoinsView
