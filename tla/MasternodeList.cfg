SPECIFICATION FairSpec
CONSTANTS
  hot = hot
  cold = cold
  peer = peer
  Node = {hot, cold, peer}
  Hot = hot
  Cold = cold
  Nil = Nil
  Mnb = {1, 2}
  Key <- MCKey
  HotKey = "k1"
  PingSeconds = 1
  MinPing = 2
  MinPingGap = 2
  BroadcastSeconds = 1
  Window = 3
  Expiration = 4
  Removal = 6
  MaxDown = 4
  Scenarios <- MCScenarios
INVARIANTS ListSound  PingsKeepUp
PROPERTY StaysListed
