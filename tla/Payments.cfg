CONSTANTS
  m1 = m1 m2 = m2 m3 = m3 m4 = m4
  Order <- Four
  Me = m1
  Payee = {a, b}
  NoPayee = NoPayee
  Ahead = 1
  Future = 2
  Back = 1
  Limit = 2
  Late = 1
  REQUIRED = 2
  TOTAL = 3
  BudgetBlocks = {6, 7}
  NewKeys = {m3}
  Stall = FALSE
  BlockHeights = {2, 5, 6}
  MaxUpsets = 1
SPECIFICATION Spec
INVARIANTS VotesSound 
 
CHECK_DEADLOCK FALSE
