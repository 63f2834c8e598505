CONSTANTS
  p1 = p1 p2 = p2 p3 = p3 h = h
  Peer = {p1, p2, p3}
  Item = {h}
  Has <- NoBudget
  Spork8 = TRUE
  Races = FALSE
  Retry = 1
  Never = Never
  Envs <- MCEnvs
SPECIFICATION Spec
INVARIANT StagesInOrder
PROPERTIES FinishedStays SyncFinishes
