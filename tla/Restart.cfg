SPECIFICATION FairSpec
CONSTANTS
  o1 = o1  o2 = o2  c1 = c1  r1 = r1  r2 = r2
  NoRun = NoRun  Idle = Idle
  Orders = {o1}
  Callers = {c1}
  Runs = {r1, r2}
  Market = {}
  Replace <- SameId
  Amount = 1
  Omits = {}
  MaxQueue = 0
  GetOrder = TRUE
  CancelOrdersOnShutdown = TRUE
INVARIANT RunWhileStarted
PROPERTY RunsEnd
CHECK_DEADLOCK FALSE
