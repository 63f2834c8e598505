CONSTANTS
  s = s a = a b = b i8 = i8 i15 = i15
  Node = {s, a}
  Link <- SignerPair
  Signer = {s}
  SporkDefs <- One
  Spork15 = i15
  Needed = {i8}
  Value = {v1}
  NoMsg = NoMsg
  InitDb <- DbSigner
  StaleTime = 0
  FutureLimit = 1
  EnforceNew = 1
  RejectOld = 2
  SporkRequests = 2
  ClockAhead <- SignerAhead
  SlowUpdate = FALSE
  SameSecond = FALSE
  Restartable = {a}
  MaxTime = 2
  MaxUpdates = 2
  MaxRestarts = 1
  MaxDisconnects = 1
SPECIFICATION Spec
INVARIANT SporksSound
PROPERTIES  SporksAgree 
CHECK_DEADLOCK FALSE
