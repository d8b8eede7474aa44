---------------------------- MODULE OrderRouting ----------------------------
(***************************************************************************)
(* Order flow of the FIX gateway: FIX sessions send orders to an exchange  *)
(* and are told what becomes of them.  Three kinds of goroutine share the  *)
(* orders table of the SQLite database:                                    *)
(*   - the handlers of a FIX session      (fixengine/fixgateway.go),       *)
(*   - the websocket receiver, which runs Application.WebsocketDataHandler *)
(*     on every streamed order.Detail     (fixengine/fixgateway.go),       *)
(*   - the poller OrderManager.processOrders, which asks the exchange over *)
(*     REST every five seconds            (fixengine/order_manager.go).    *)
(* Each database call, each network call and each report is one step, so   *)
(* every interleaving of the three is a behaviour.  The exchange itself,   *)
(* the FIX library and the database engine are external: they are modelled *)
(* from how the code uses them.                                            *)
(***************************************************************************)
EXTENDS Naturals, Sequences, FiniteSets

CONSTANTS
  Sessions,     \* FIX sessions
  Subscribing,  \* those of them that ask for market data
  Orders,       \* exchange order ids (order.Detail.OrderID)
  Trades,       \* trade ids an order may be filled with
  ClOrdID,      \* ClOrdID[o]: the ClientOrderID the exchange returns for o
  NoClOrdID,    \* the empty ClientOrderID
  WsTraded,     \* orders of exchanges whose stream fills order.Detail.Trades
  RestTraded,   \* orders of exchanges whose GetOrderInfo fills Trades
  Ends,         \* ways an order ends other than by being filled
  MaxQueue,     \* capacity of the websocket's ToRoutine channel
  MaxPx,        \* bound on the in-place modifications of an order
  NoRow, Idle   \* "no such row", "no work in progress"

Working == {"NEW", "PARTIALLY_FILLED"}
Fills   == {"PARTIALLY_FILLED", "FILLED"}
Status  == Working \cup {"FILLED"} \cup Ends
Keys    == {ClOrdID[o] : o \in Orders}
Px      == 0..MaxPx

\* What an order.Detail tells the gateway; what a row of the orders table holds.
Detail == [oid : Orders, st : Status, trades : SUBSET Trades, px : Px]
Row    == [cl : Keys, oid : Orders, st : Status, px : Px]

\* The two goroutines that follow the exchange, and what each is handling: the
\* order.Detail, the row and the trades it read, and where it stands.
Workers == {"ws", "poll"}
Job == [pc : {"read", "newTrades", "create", "reportNew",
              "oldTrades", "update", "reread", "plain", "report"},
        det : Detail, row : Row \cup {NoRow}, seen : SUBSET Trades]

\* A cancel request being handled: the row it read before calling the exchange.
CancelJob == [pc : {"send", "writeback"}, row : Row]

ASSUME ConstantsAssumption ==
  /\ Ends \subseteq {"CANCELLED", "EXPIRED"} /\ "CANCELLED" \in Ends
  /\ MaxQueue \in Nat /\ MaxPx \in Nat
  /\ DOMAIN ClOrdID = Orders
  /\ Subscribing \subseteq Sessions
  /\ WsTraded \subseteq Orders /\ RestTraded \subseteq Orders
  /\ IsFiniteSet(Trades)
  /\ NoRow \notin Row /\ Idle \notin Job /\ Idle \notin CancelJob

VARIABLES
  sessions,     \* Application.sessions
  subscribers,  \* Application.marketdataSubscribers
  exch,         \* the exchange: state of each order and the states it has had
  wsq,          \* order.Details streamed and not yet received (ToRoutine)
  job,          \* what the websocket receiver and the poller are handling
  processing,   \* OrderManager.processingOrders
  todo,         \* orders of the current poll still to be looked at
  fix,          \* what the handler of each session is doing
  rows,         \* table of model.Order
  dbTrades,     \* table of model.Trade: the trade ids stored for each order
  told,         \* history: order statuses reported while a session was on
  creates,      \* history: reports sent for a newly created row
  lost,         \* history: orders with a report that no session got
  unstored      \* history: orders whose last round of trades left none stored

external == <<exch, wsq>>
routing  == <<sessions, subscribers>>
tables   == <<rows, dbTrades>>
history  == <<told, creates, lost, unstored>>
vars == <<sessions, subscribers, exch, wsq, job, processing, todo, fix,
          rows, dbTrades, told, creates, lost, unstored>>

-----------------------------------------------------------------------------
(***************************************************************************)
(* The exchange (external)                                                 *)
(***************************************************************************)
Exchange == [st : Status \cup {"none"}, past : SUBSET Status,
             trades : SUBSET Trades, px : Px]

Live(o) == exch[o].st \in Working

\* An event is queued, or lost with its connection, or dropped by a full channel.
Streamed(o, st, trades, px) ==
  LET det == [oid |-> o, st |-> st, px |-> px,
              trades |-> IF o \in WsTraded THEN trades ELSE {}]
  IN  wsq' \in {wsq} \cup (IF Len(wsq) < MaxQueue THEN {Append(wsq, det)} ELSE {})

Moves(o, st, new, px) ==
  /\ exch' = [exch EXCEPT ![o] = [st |-> st, past |-> @.past \cup {st},
                                  trades |-> @.trades \cup new, px |-> px]]
  /\ Streamed(o, st, new, px)

Opens(o) == exch[o].st = "none" /\ Moves(o, "NEW", {}, 0)

\* An order placed or replaced by other means than this gateway.
ExchangeOpen(o) ==
  /\ Opens(o)
  /\ UNCHANGED <<routing, job, processing, todo, fix, tables, history>>

ExchangeFill(o, t, st) ==
  /\ Live(o) /\ t \notin exch[o].trades
  /\ Moves(o, st, {t}, exch[o].px)
  /\ UNCHANGED <<routing, job, processing, todo, fix, tables, history>>

ExchangeEnd(o, st) ==
  /\ Live(o)
  /\ Moves(o, st, {}, exch[o].px)
  /\ UNCHANGED <<routing, job, processing, todo, fix, tables, history>>

-----------------------------------------------------------------------------
(***************************************************************************)
(* The tables                                                              *)
(***************************************************************************)
RowsOf(o) == {r \in rows : r.oid = o}

GetOrderByOrderID(o) ==
  IF RowsOf(o) = {} THEN NoRow ELSE CHOOSE r \in RowsOf(o) : TRUE

\* What GetOrderByClOrdID may find: FIX has no field with an empty value.
RowsByClOrdID == {r \in rows : r.cl # NoClOrdID}

\* The handlers take a row without a ClientOrderID for no row at all.
IsNew(row) == row = NoRow \/ row.cl = NoClOrdID

NewRow(det) ==
  [cl |-> ClOrdID[det.oid], oid |-> det.oid, st |-> det.st, px |-> det.px]

\* ClientOrderID is the primary key and OrderID is unique.
CanCreate(det) == \A r \in rows : r.cl # ClOrdID[det.oid] /\ r.oid # det.oid

CreateOrder(det) == rows' = rows \cup {NewRow(det)}

\* UPDATE ... WHERE client_order_id = row.cl, with every column of row.
UpdateOrder(row) == rows' = {IF r.cl = row.cl THEN row ELSE r : r \in rows}

UpdateOrCreateTrades(o, trades) ==
  dbTrades' = [dbTrades EXCEPT ![o] = @ \cup trades]

-----------------------------------------------------------------------------
(***************************************************************************)
(* Reports                                                                 *)
(***************************************************************************)
\* Mutant of ToOrdStatus: the exchange's word for it goes out as it is.
ToOrdStatusVerbatim(st) == st

ToOrdStatus(st) ==
  CASE st = "NEW"              -> "NEW"
    [] st = "FILLED"           -> "FILLED"
    [] st = "PARTIALLY_FILLED" -> "PARTIALLY_FILLED"
    [] st = "CANCELLED"        -> "CANCELED"
    [] OTHER                   -> "REJECTED"

OrdStatus == {"NEW", "FILLED", "PARTIALLY_FILLED", "CANCELED", "REJECTED"}

Reporting(w) == job[w] # Idle /\ job[w].pc \in {"reportNew", "report"}

\* The last trade of a fill is indexed without looking whether there is one.
ReportPanics(det) ==
  ToOrdStatus(det.st) \in {"PARTIALLY_FILLED", "FILLED"} /\ det.trades = {}

SendReport(w) ==
  LET o == job[w].det.oid IN
  /\ IF sessions = {}
     THEN lost' = lost \cup {o} /\ UNCHANGED told
     ELSE told' = [told EXCEPT ![o] = @ \cup {ToOrdStatus(job[w].det.st)}]
          /\ UNCHANGED lost
  /\ creates' = [creates EXCEPT ![o] = IF job[w].pc = "reportNew" THEN @ + 1 ELSE @]

\* The process dies and is started again: only the tables survive.
Crash ==
  /\ sessions' = {} /\ subscribers' = {}
  /\ wsq' = <<>> /\ job' = [w \in Workers |-> Idle]
  /\ processing' = FALSE /\ todo' = {}
  /\ fix' = [s \in Sessions |-> Idle]
  /\ lost' = lost \cup {job[w].det.oid : w \in {v \in Workers : Reporting(v)}}
  /\ UNCHANGED <<exch, tables, told, creates, unstored>>

Killed == Crash

-----------------------------------------------------------------------------
(***************************************************************************)
(* FIX sessions                                                            *)
(***************************************************************************)
OnLogon(s) ==
  /\ s \notin sessions
  /\ sessions' = sessions \cup {s}
  /\ UNCHANGED <<subscribers, external, job, processing, todo, fix, tables, history>>

\* The library runs a session's callbacks one after another.
OnLogout(s) ==
  /\ s \in sessions /\ fix[s] = Idle
  /\ subscribers' = subscribers \ {s}
  /\ sessions' = sessions \ {s}
  /\ UNCHANGED <<external, job, processing, todo, fix, tables, history>>

\* The map is not locked: a write while a report ranges over it is fatal in Go.
SessionMapRace(s) ==
  /\ s \in Sessions /\ fix[s] = Idle
  /\ \E w \in Workers : Reporting(w)
  /\ Crash

OnMarketDataRequest(s) ==
  /\ s \in Subscribing /\ s \in sessions /\ fix[s] = Idle
  /\ subscribers' = subscribers \cup {s}
  /\ UNCHANGED <<sessions, external, job, processing, todo, fix, tables, history>>

\* NewOrderSingle for order o.  A message that does not parse, and an order over
\* the exchange's limits, is answered with a rejection and changes nothing.
\* An unknown exchange is reported, and then used all the same.
NewOrderUnknownExchange(s, o) ==
  /\ s \in sessions /\ fix[s] = Idle /\ exch[o].st = "none"
  /\ Crash

\* Mutant of NewOrderSubmit: the order is stored and acknowledged before the
\* exchange has taken it.
NewOrderSubmitStored(s, o) ==
  /\ s \in sessions /\ fix[s] = Idle /\ exch[o].st = "none"
  /\ Opens(o) \/ UNCHANGED external
  /\ rows' = rows \cup {[cl |-> ClOrdID[o], oid |-> o, st |-> "NEW", px |-> 0]}
  /\ told' = [told EXCEPT ![o] = @ \cup {"NEW"}]
  /\ UNCHANGED <<routing, job, processing, todo, fix, dbTrades, creates, lost, unstored>>

\* A pair that is turned off is reported, and the order goes out all the same.
\* The call may fail before or after the exchange has taken the order.
NewOrderSubmit(s, o) ==
  /\ s \in sessions /\ fix[s] = Idle /\ exch[o].st = "none"
  /\ Opens(o) \/ UNCHANGED external
  /\ UNCHANGED <<routing, job, processing, todo, fix, tables, history>>

\* OrderCancelRequest: the row is read, the exchange called, the row written back.
CancelRead(s) ==
  /\ s \in sessions /\ fix[s] = Idle
  /\ \E row \in RowsByClOrdID : fix' = [fix EXCEPT ![s] = [pc |-> "send", row |-> row]]
  /\ UNCHANGED <<routing, external, job, processing, todo, tables, history>>

CancelSend(s) ==
  /\ fix[s] # Idle /\ fix[s].pc = "send"
  /\ LET o == fix[s].row.oid IN
       \/ Live(o) /\ Moves(o, "CANCELLED", {}, exch[o].px)
       \/ UNCHANGED external          \* the error is reported, and passed over
  /\ fix' = [fix EXCEPT ![s].pc = "writeback"]
  /\ UNCHANGED <<routing, job, processing, todo, tables, history>>

CancelWriteBack(s) ==
  /\ fix[s] # Idle /\ fix[s].pc = "writeback"
  /\ UpdateOrder(fix[s].row) \/ UNCHANGED rows      \* an error is logged
  /\ fix' = [fix EXCEPT ![s] = Idle]
  /\ UNCHANGED <<routing, external, job, processing, todo, dbTrades, history>>

\* OrderCancelReplaceRequest: the row only tells whether the order is known.
OnOrderCancelReplaceRequest(s) ==
  /\ s \in sessions /\ fix[s] = Idle
  /\ \E row \in RowsByClOrdID :
       /\ Live(row.oid) /\ exch[row.oid].px < MaxPx
       /\ Moves(row.oid, exch[row.oid].st, {}, exch[row.oid].px + 1)
  /\ UNCHANGED <<routing, job, processing, todo, fix, tables, history>>

-----------------------------------------------------------------------------
(***************************************************************************)
(* The websocket receiver and the poller                                   *)
(***************************************************************************)
Becomes(w, j) == job' = [job EXCEPT ![w] = j]
Goto(w, pc) == Becomes(w, [job[w] EXCEPT !.pc = pc])
At(w, pc) == job[w] # Idle /\ job[w].pc = pc

\* What is left to do is a report: it needs no more than the order.Detail.
GotoReport(w, pc) == Becomes(w, [job[w] EXCEPT !.pc = pc, !.row = NoRow, !.seen = {}])

NewPc(det) == IF det.trades = {} THEN "create" ELSE "newTrades"

\* Mutant of WsBranch: streamed trades of a known order are not looked at.
WsBranchNoTrades(det, row) ==
  IF IsNew(row) THEN NewPc(det)
  ELSE IF det.st # row.st \/ det.px # row.px THEN "plain"
  ELSE "done"

\* What WebsocketDataHandler goes on to do with the row it has read.
WsBranch(det, row) ==
  IF IsNew(row) THEN NewPc(det)
  ELSE IF det.trades # {} THEN "oldTrades"
  ELSE IF det.st # row.st \/ det.px # row.px THEN "plain"
  ELSE "done"

\* Mutant of PollBranch: only a new trade makes the poller look at an order.
PollBranchTradesOnly(det, row, seen) ==
  IF IsNew(row) THEN NewPc(det)
  ELSE IF Cardinality(seen) # Cardinality(det.trades) THEN "oldTrades"
  ELSE "done"

\* What processOrders goes on to do with the row it has read.
PollBranch(det, row, seen) ==
  IF IsNew(row) THEN NewPc(det)
  ELSE IF Cardinality(seen) # Cardinality(det.trades) THEN "oldTrades"
  ELSE IF det.st # row.st THEN "plain"
  ELSE "done"

Handles(w, det, row, pc) ==
  IF pc = "done" THEN Becomes(w, Idle)
  ELSE Becomes(w, [pc |-> pc, det |-> det, row |-> IF IsNew(row) THEN NoRow ELSE row,
                   seen |-> IF w = "ws" /\ pc = "oldTrades" THEN dbTrades[det.oid] ELSE {}])

\* The message is dropped while no session is logged on.
WsReceive ==
  /\ job["ws"] = Idle /\ wsq # <<>>
  /\ wsq' = Tail(wsq)
  /\ LET det == Head(wsq)
         row == GetOrderByOrderID(det.oid)
     IN  IF sessions = {} THEN UNCHANGED job
         ELSE Handles("ws", det, row, WsBranch(det, row))
  /\ UNCHANGED <<routing, exch, processing, todo, fix, tables, history>>

\* A tick finds no poll under way (the compare-and-swap) and a session.  If
\* GetOrderHistory fails the tick changes nothing.
PollStart ==
  /\ ~processing /\ sessions # {}
  /\ processing' = TRUE
  /\ todo' = {o \in Orders : exch[o].st # "none"}
  /\ UNCHANGED <<routing, external, job, fix, tables, history>>

PollInfo(o) ==
  /\ processing /\ job["poll"] = Idle /\ o \in todo
  /\ todo' = todo \ {o}
  /\ Becomes("poll", [pc |-> "read", row |-> NoRow, seen |-> {},
                      det |-> [oid |-> o, st |-> exch[o].st, px |-> exch[o].px,
                               trades |-> IF o \in RestTraded THEN exch[o].trades ELSE {}]])
  /\ UNCHANGED <<routing, external, processing, fix, tables, history>>

PollInfoFails(o) ==
  /\ processing /\ job["poll"] = Idle /\ o \in todo
  /\ todo' = todo \ {o}
  /\ UNCHANGED <<routing, external, job, processing, fix, tables, history>>

PollRead ==
  /\ At("poll", "read")
  /\ LET det == job["poll"].det
         row == GetOrderByOrderID(det.oid)
     IN  Handles("poll", det, row, PollBranch(det, row, dbTrades[det.oid]))
  /\ UNCHANGED <<routing, external, processing, todo, fix, tables, history>>

PollDone ==
  /\ processing /\ job["poll"] = Idle /\ todo = {}
  /\ processing' = FALSE
  /\ UNCHANGED <<routing, external, job, todo, fix, tables, history>>

Storing(w) == At(w, "newTrades") \/ At(w, "oldTrades")

\* The loop over the trades, with the writes of those in stored successful.
StoreSome(w, stored) ==
  LET o == job[w].det.oid IN
  /\ UpdateOrCreateTrades(o, stored)
  /\ unstored' = IF dbTrades'[o] = {} THEN unstored \cup {o} ELSE unstored \ {o}
  /\ Goto(w, IF job[w].pc = "newTrades" THEN "create" ELSE "update")
  /\ UNCHANGED <<routing, external, processing, todo, fix, rows, told, creates, lost>>

\* A trade that cannot be written is logged and passed over; the row is written all the same.
StoreTrades(w) ==
  /\ Storing(w)
  /\ \E stored \in SUBSET job[w].det.trades : StoreSome(w, stored)

\* The write of the row fails: the message, or the poller's order, is given up.
StoreFails(w) ==
  /\ \/ At(w, "create") /\ CanCreate(job[w].det)
     \/ At(w, "update") \/ At(w, "plain")
  /\ Becomes(w, Idle)
  /\ UNCHANGED <<routing, external, processing, todo, fix, tables, history>>

\* Mutant of StoreNew: the error of CreateOrder is logged and passed over.
StoreNewIgnoringError(w) ==
  /\ At(w, "create")
  /\ IF CanCreate(job[w].det) THEN CreateOrder(job[w].det) ELSE UNCHANGED rows
  /\ GotoReport(w, "reportNew")
  /\ UNCHANGED <<routing, external, processing, todo, fix, dbTrades, history>>

\* Mutant of StoreNew: a save that replaces the row with that ClientOrderID.
StoreNewReplacing(w) ==
  /\ At(w, "create")
  /\ rows' = {r \in rows : r.cl # ClOrdID[job[w].det.oid]} \cup {NewRow(job[w].det)}
  /\ GotoReport(w, "reportNew")
  /\ UNCHANGED <<routing, external, processing, todo, fix, dbTrades, history>>

\* A row that is there by now is an error: the message is given up.
StoreNew(w) ==
  /\ At(w, "create")
  /\ IF CanCreate(job[w].det)
     THEN CreateOrder(job[w].det) /\ GotoReport(w, "reportNew")
     ELSE Becomes(w, Idle) /\ UNCHANGED rows
  /\ UNCHANGED <<routing, external, processing, todo, fix, dbTrades, history>>

\* Mutant of StoreTraded: the poller writes the row and never reports.
StoreTradedSilently(w) ==
  /\ At(w, "update")
  /\ LET j == job[w] IN
     /\ UpdateOrder([j.row EXCEPT !.st = j.det.st, !.px = j.det.px])
     /\ IF w = "poll" THEN Becomes(w, Idle)
        ELSE IF j.det.st # j.row.st THEN GotoReport(w, "report") ELSE Goto(w, "reread")
  /\ UNCHANGED <<routing, external, processing, todo, fix, dbTrades, history>>

\* After new trades: a status that did not change is not reported at once.
StoreTraded(w) ==
  /\ At(w, "update")
  /\ LET j == job[w] IN
     /\ UpdateOrder([j.row EXCEPT !.st = j.det.st, !.px = j.det.px])
     /\ IF j.det.st # j.row.st THEN GotoReport(w, "report")
        ELSE IF w = "ws" THEN Goto(w, "reread")
        ELSE Becomes(w, Idle)
  /\ UNCHANGED <<routing, external, processing, todo, fix, dbTrades, history>>

WsReread ==
  /\ At("ws", "reread")
  /\ IF Cardinality(dbTrades[job["ws"].det.oid]) # Cardinality(job["ws"].seen)
     THEN GotoReport("ws", "report")
     ELSE Becomes("ws", Idle)
  /\ UNCHANGED <<routing, external, processing, todo, fix, tables, history>>

\* Mutant of StorePlain: the row is written and nothing is reported.
StorePlainSilently(w) ==
  /\ At(w, "plain")
  /\ UpdateOrder([job[w].row EXCEPT !.st = job[w].det.st])
  /\ Becomes(w, Idle)
  /\ UNCHANGED <<routing, external, processing, todo, fix, dbTrades, history>>

\* No new trades.  The websocket writes the price only if the status is the same.
StorePlain(w) ==
  /\ At(w, "plain")
  /\ LET j == job[w] IN
     UpdateOrder(IF w = "ws" /\ j.det.st # j.row.st
                 THEN [j.row EXCEPT !.st = j.det.st]
                 ELSE [j.row EXCEPT !.st = j.det.st, !.px = j.det.px])
  /\ GotoReport(w, "report")
  /\ UNCHANGED <<routing, external, processing, todo, fix, dbTrades, history>>

Report(w) ==
  /\ Reporting(w) /\ ~ReportPanics(job[w].det)
  /\ SendReport(w)
  /\ Becomes(w, Idle)
  /\ UNCHANGED <<routing, external, processing, todo, fix, tables, unstored>>

ReportWithoutTrades(w) ==
  /\ Reporting(w) /\ ReportPanics(job[w].det)
  /\ Crash

-----------------------------------------------------------------------------
Init ==
  /\ sessions = {} /\ subscribers = {}
  /\ exch = [o \in Orders |-> [st |-> "none", past |-> {}, trades |-> {}, px |-> 0]]
  /\ wsq = <<>> /\ job = [w \in Workers |-> Idle]
  /\ processing = FALSE /\ todo = {}
  /\ fix = [s \in Sessions |-> Idle]
  /\ rows = {} /\ dbTrades = [o \in Orders |-> {}]
  /\ told = [o \in Orders |-> {}] /\ creates = [o \in Orders |-> 0]
  /\ lost = {} /\ unstored = {}

ExchangeNext ==
  \E o \in Orders :
    \/ ExchangeOpen(o)
    \/ \E t \in Trades, st \in Fills : ExchangeFill(o, t, st)
    \/ \E st \in Ends : ExchangeEnd(o, st)

SessionNext ==
  \E s \in Sessions :
    \/ OnLogon(s) \/ OnLogout(s) \/ SessionMapRace(s) \/ OnMarketDataRequest(s)
    \/ \E o \in Orders : \/ NewOrderUnknownExchange(s, o) \/ NewOrderSubmit(s, o)
    \/ CancelRead(s) \/ CancelSend(s) \/ CancelWriteBack(s)
    \/ OnOrderCancelReplaceRequest(s)

PollNext ==
  \/ PollStart \/ PollRead \/ PollDone
  \/ \E o \in Orders : PollInfo(o) \/ PollInfoFails(o)

WorkerNext(w) ==
  \/ StoreTrades(w) \/ StoreNew(w) \/ StoreTraded(w) \/ StorePlain(w) \/ StoreFails(w)
  \/ Report(w) \/ ReportWithoutTrades(w)

Next ==
  \/ ExchangeNext \/ SessionNext \/ Killed
  \/ WsReceive \/ WsReread \/ PollNext
  \/ \E w \in Workers : WorkerNext(w)

Spec == Init /\ [][Next]_vars

\* The receiver and the poller go on, handlers return, ticks come, and REST calls do not
\* fail for ever.  Nothing is assumed of the clients or of the exchange.
Fairness ==
  /\ WF_vars(WsReceive) /\ WF_vars(WsReread)
  /\ \A w \in Workers : WF_vars(WorkerNext(w))
  /\ WF_vars(PollStart) /\ WF_vars(PollRead) /\ WF_vars(PollDone)
  /\ \A o \in Orders : SF_vars(PollInfo(o))
  /\ \A s \in Sessions : WF_vars(CancelSend(s)) /\ WF_vars(CancelWriteBack(s))

FairSpec == Spec /\ Fairness

-----------------------------------------------------------------------------
(***************************************************************************)
(* Properties                                                              *)
(***************************************************************************)
\* Types; in particular only statuses that FIX knows are reported, and market data goes to
\* sessions that are logged on only.
TypeOK ==
  /\ sessions \subseteq Sessions /\ subscribers \subseteq sessions
  /\ exch \in [Orders -> Exchange]
  /\ wsq \in Seq(Detail)
  /\ job \in [Workers -> Job \cup {Idle}]
  /\ processing \in BOOLEAN /\ todo \subseteq Orders
  /\ fix \in [Sessions -> CancelJob \cup {Idle}]
  /\ rows \subseteq Row
  /\ dbTrades \in [Orders -> SUBSET Trades]
  /\ told \in [Orders -> SUBSET OrdStatus]
  /\ creates \in [Orders -> Nat]
  /\ lost \subseteq Orders /\ unstored \subseteq Orders

\* Nothing is invented: a row, a stored trade and a reported status are always
\* something the exchange has said of that order, whoever wrote them last.
NothingInvented ==
  /\ \A r \in rows : r.st \in exch[r.oid].past /\ r.px <= exch[r.oid].px
  /\ \A o \in Orders : /\ dbTrades[o] \subseteq exch[o].trades
                       /\ told[o] \subseteq {ToOrdStatus(st) : st \in exch[o].past}

\* The websocket receiver and the poller may both find an order missing, but
\* only one of them reports it as created.
CreatedOnce == \A o \in Orders : creates[o] <= 1

\* Somebody is about to report that status of that order.
Pending(o, ost) ==
  \E w \in Workers : /\ Reporting(w) /\ job[w].det.oid = o
                     /\ ToOrdStatus(job[w].det.st) = ost

Announced(r) ==
  \/ r.oid \in lost
  \/ ToOrdStatus(r.st) \in told[r.oid]
  \/ Pending(r.oid, ToOrdStatus(r.st))

\* The status in a row has been reported or is about to be, unless a report on
\* the order was lost to a crash or to a moment with nobody logged on.  The
\* handlers compare with the row to decide whether to report, so a status that
\* got into the row unreported would never be reported.
RowsAnnounced == \A r \in rows : Announced(r)

\* A row that says an order traded has trades, or none could be written: on
\* exchanges that list them, both handlers store the trades of a fill before the status,
\* and no stale copy, crash or late write-back brings the status without them.  (An order
\* that was modified is left out: the modification is streamed with the status of a fill and
\* without a trade.)
FillsHaveTrades ==
  \A r \in rows :
    r.st \in Fills /\ r.oid \in WsTraded \cap RestTraded /\ exch[r.oid].px = 0
      => dbTrades[r.oid] # {} \/ r.oid \in unstored

\* A row is never deleted and never passes to another order.
RowsStay ==
  [][\A r \in rows : \E q \in rows' : q.cl = r.cl /\ q.oid = r.oid]_vars

\* Orders the poller can keep up to date: with a ClientOrderID of their own.
Tracked ==
  {o \in Orders : ClOrdID[o] # NoClOrdID /\ \A p \in Orders \ {o} : ClOrdID[p] # ClOrdID[o]}

Synced(o) ==
  exch[o].st # "none" =>
    /\ \E r \in rows : r.oid = o /\ r.st = exch[o].st
    /\ o \in RestTraded => dbTrades[o] = exch[o].trades

\* A write to the database fails: that of a row, or that of a trade.
WriteFails ==
  \E w \in Workers :
    \/ StoreFails(w)
    \/ StoreTrades(w) /\ ~(job[w].det.trades \subseteq dbTrades'[job[w].det.oid])

\* In the end a session stays on, no cancel is in flight and the writes succeed.
Settled ==
  /\ <>[](sessions # {}) /\ <>[](\A s \in Sessions : fix[s] = Idle)
  /\ <>[][~WriteFails]_vars

\* Stale websocket events, stale polls and stale write-backs of cancel requests
\* may set a row back, and writes of trades and rows may fail, but once that is over polling
\* brings row and trades to what the exchange says.
Converges == Settled => \A o \in Tracked : <>[]Synced(o)

\* With a session on, every way an order ends is reported in the end, unless a
\* report on it was lost.
EndsReported ==
  Settled => \A o \in Tracked :
    <>[](exch[o].st \in {"FILLED"} \cup Ends /\ o \notin lost
         => ToOrdStatus(exch[o].st) \in told[o])

\* A fill streamed with the fields the documentation asks for is survived.
StreamedFillsSurvived ==
  \A w \in Workers : Reporting(w) => ~ReportPanics(job[w].det)
=============================================================================
