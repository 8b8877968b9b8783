SPECIFICATION Spec
CONSTANTS
  m1 = m1
  w1 = w1
  Model = {m1}
  Family <- MCFamily
  Conn = {c1, c2}
  Free = Free
  Refill = TRUE
  MaxCtx = 5
  MaxGen = {1, 2}
  Prompts = {1, 2, 4}
INVARIANTS
  RequestsContiguous
  

  
CHECK_DEADLOCK FALSE
