SPECIFICATION Spec
CONSTANTS
  o1 = o1  o2 = o2  c1 = c1  c2 = c2  s1 = s1  t1 = t1  t2 = t2
  NoClOrdID = NoClOrdID  NoRow = NoRow  Idle = Idle
  Sessions = {s1}  Subscribing = {}
  Orders = {o1}
  Trades = {t1}
  ClOrdID <- OneId
  WsTraded = {}
  RestTraded = {o1}
  Ends = {"CANCELLED"}
  MaxQueue = 1
  MaxPx = 0
INVARIANT StreamedFillsSurvived
CHECK_DEADLOCK FALSE
