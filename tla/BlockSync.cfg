SPECIFICATION FairSpec
CONSTANTS
  p1 = p1
  p2 = p2
  Peer = {p1, p2}
  Preferred = {p1, p2}
  Block <- MCBlock
  Genesis = 0
  Nil = Nil
  Parent <- MCParent
  Scenarios <- MCScenarios
  Limit = 3
  MaxReorg = 2
  InTransit = 1
  Window = 1
  MaxConnects = 2
INVARIANT NodeStateSound
PROPERTIES  NearlyCatchesUp
CHECK_DEADLOCK FALSE
