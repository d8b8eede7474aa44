SPECIFICATION FairSpec
CONSTANTS
  o1 = o1  o2 = o2  c1 = c1  r1 = r1  r2 = r2
  NoRun = NoRun  Idle = Idle
  Orders = {o1}
  Callers = {c1}
  Runs = {r1}
  Market = {}
  Replace <- SameId
  Amount = 1
  Omits = {"status", "sizes"}
  MaxQueue = 1
  GetOrder = TRUE
  CancelOrdersOnShutdown = FALSE
INVARIANTS IdsUnique NeverAhead
PROPERTIES EndedInactive OpenStored
CHECK_DEADLOCK FALSE
