SPECIFICATION Spec
CONSTANTS
  o1 = o1  o2 = o2  c1 = c1  c2 = c2  s1 = s1  t1 = t1  t2 = t2
  NoClOrdID = NoClOrdID  NoRow = NoRow  Idle = Idle
  Sessions = {s1}  Subscribing = {s1}
  Orders = {o1, o2}
  Trades = {}
  ClOrdID <- SharedIds
  WsTraded = {}
  RestTraded = {}
  Ends = {"CANCELLED"}
  MaxQueue = 1
  MaxPx = 1
SYMMETRY OrdersSymmetric
INVARIANTS TypeOK CreatedOnce
PROPERTY RowsStay
CHECK_DEADLOCK FALSE
