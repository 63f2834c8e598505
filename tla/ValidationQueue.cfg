SPECIFICATION FairSpec
CONSTANTS
  s1 = s1
  s2 = s2
  chain = chain
  r1 = r1
  r2 = r2
  staker = staker
  None = None
  Service = {s1, s2}
  Chain = chain
  Rpc = {r1}
  Staker = {}
  SyncLimit = 0
  Resend = FALSE
  MaxHeight = 2
  MaxMoves = 2
  MaxCalls = 1
 
PROPERTIES ImplementsOrderedDelivery WaitersServed ShutdownFinishes
CHECK_DEADLOCK FALSE
