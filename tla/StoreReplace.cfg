SPECIFICATION Spec
CONSTANTS
  o1 = o1  o2 = o2  c1 = c1  r1 = r1  r2 = r2
  NoRun = NoRun  Idle = Idle
  Orders = {o1, o2}
  Callers = {c1}
  Runs = {r1}
  Market = {o2}
  Replace <- OtherId
  Amount = 1
  Omits = {}
  MaxQueue = 0
  GetOrder = FALSE
  CancelOrdersOnShutdown = FALSE
INVARIANT TypeOK
PROPERTY EntriesStay
CHECK_DEADLOCK FALSE
