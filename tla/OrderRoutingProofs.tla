------------------------- MODULE OrderRoutingProofs -------------------------
(***************************************************************************)
(* Proofs about OrderRouting, for every set of sessions, orders and trades *)
(* and every assignment of ClientOrderIDs.                                 *)
(***************************************************************************)
EXTENDS OrderRouting, FiniteSetTheorems, TLAPS

(***************************************************************************)
(* Type correctness                                                        *)
(***************************************************************************)

\* Steps at which a job has read a row that exists.
HasRow == {"oldTrades", "update", "reread", "plain"}

TypeInv ==
  /\ TypeOK
  /\ \A o \in todo : exch[o].st # "none"
  /\ \A w \in Workers : job[w] # Idle /\ job[w].pc \in HasRow => job[w].row \in Row

\* The status put into an execution report is one that FIX knows.
LEMMA OrdStatusType == \A st : ToOrdStatus(st) \in OrdStatus
  BY DEF ToOrdStatus, OrdStatus

\* Reading by OrderID returns a row of that order, or none.
LEMMA ReadType ==
  ASSUME rows \subseteq Row, NEW o
  PROVE  LET r == GetOrderByOrderID(o)
         IN  r = NoRow \/ (r \in rows /\ r \in Row /\ r.oid = o)
  BY DEF GetOrderByOrderID, RowsOf

LEMMA MovesType ==
  ASSUME TypeInv, NEW o \in Orders, NEW st \in Status, NEW new \in SUBSET Trades,
         NEW px \in Px, Moves(o, st, new, px)
  PROVE  /\ exch' \in [Orders -> Exchange] /\ wsq' \in Seq(Detail)
         /\ \A p \in Orders : exch[p].st # "none" => exch'[p].st # "none"
<1>1. exch' \in [Orders -> Exchange]
  BY DEF TypeInv, TypeOK, Moves, Exchange
<1>2. wsq' \in Seq(Detail)
  <2> DEFINE det == [oid |-> o, st |-> st, px |-> px,
                     trades |-> IF o \in WsTraded THEN new ELSE {}]
  <2>1. det \in Detail
    BY DEF Detail
  <2>2. wsq' = wsq \/ wsq' = Append(wsq, det)
    BY DEF Moves, Streamed
  <2>3. wsq \in Seq(Detail)
    BY DEF TypeInv, TypeOK
  <2> HIDE DEF det
  <2> QED BY <2>1, <2>2, <2>3
<1>3. \A p \in Orders : exch[p].st # "none" => exch'[p].st # "none"
  BY ConstantsAssumption DEF TypeInv, TypeOK, Moves, Exchange, Status, Working
<1> QED BY <1>1, <1>2, <1>3

JobsTyped ==
  /\ job \in [Workers -> Job \cup {Idle}]
  /\ \A w \in Workers : job[w] # Idle /\ job[w].pc \in HasRow => job[w].row \in Row

LEMMA BecomesType ==
  ASSUME TypeInv, NEW w \in Workers, NEW j \in Job \cup {Idle}, Becomes(w, j),
         j # Idle /\ j.pc \in HasRow => j.row \in Row
  PROVE  JobsTyped'
  BY DEF TypeInv, TypeOK, Becomes, JobsTyped

LEMMA GotoType ==
  ASSUME TypeInv, NEW w \in Workers, job[w] # Idle,
         NEW pc \in {"read", "newTrades", "create", "reportNew",
                     "oldTrades", "update", "reread", "plain", "report"},
         Goto(w, pc),
         pc \in HasRow => job[w].row \in Row
  PROVE  JobsTyped'
<1>1. job[w] \in Job
  BY DEF TypeInv, TypeOK
<1> DEFINE j == [job[w] EXCEPT !.pc = pc]
<1>2. j \in Job /\ j.pc = pc /\ j.row = job[w].row
  BY <1>1 DEF Job
<1>3. Becomes(w, j)
  BY DEF Goto
<1> HIDE DEF j
<1> QED BY <1>2, <1>3, BecomesType

LEMMA GotoReportType ==
  ASSUME TypeInv, NEW w \in Workers, job[w] # Idle, NEW pc \in {"reportNew", "report"},
         GotoReport(w, pc)
  PROVE  JobsTyped'
<1>1. job[w] \in Job
  BY DEF TypeInv, TypeOK
<1> DEFINE j == [job[w] EXCEPT !.pc = pc, !.row = NoRow, !.seen = {}]
<1>2. j \in Job /\ j.pc \notin HasRow
  BY <1>1 DEF Job, HasRow
<1>3. Becomes(w, j)
  BY DEF GotoReport
<1> HIDE DEF j
<1> QED BY <1>2, <1>3, BecomesType

\* What the loop over the trades changes, whichever of its writes succeed.
LEMMA StoreTradesSteps ==
  ASSUME NEW w \in Workers, StoreTrades(w)
  PROVE  /\ job[w] # Idle /\ job[w].pc \in {"newTrades", "oldTrades"}
         /\ Goto(w, IF job[w].pc = "newTrades" THEN "create" ELSE "update")
         /\ UNCHANGED <<sessions, subscribers, exch, wsq, processing, todo, fix, rows,
                        told, creates, lost>>
         /\ \E stored \in SUBSET job[w].det.trades :
              UpdateOrCreateTrades(job[w].det.oid, stored)
         /\ LET o == job[w].det.oid
            IN  unstored' = IF dbTrades'[o] = {} THEN unstored \cup {o} ELSE unstored \ {o}
  BY DEF StoreTrades, StoreSome, Storing, At, external, routing

LEMMA CrashType == ASSUME TypeInv, Crash PROVE TypeInv'
<1>1. lost' \subseteq Orders
  BY DEF TypeInv, TypeOK, Crash, Reporting, Job, Detail
<1>2. job' \in [Workers -> Job \cup {Idle}] /\ \A w \in Workers : job'[w] = Idle
  BY DEF Crash
<1>3. wsq' \in Seq(Detail) /\ fix' \in [Sessions -> CancelJob \cup {Idle}]
  BY DEF Crash
<1>4. TypeOK'
  BY <1>1, <1>2, <1>3 DEF TypeInv, TypeOK, Crash, tables
<1> QED BY <1>2, <1>4 DEF TypeInv, Crash

LEMMA TypeInit == Init => TypeInv
<1> SUFFICES ASSUME Init PROVE TypeInv
  OBVIOUS
<1>1. exch \in [Orders -> Exchange]
  BY ConstantsAssumption DEF Init, Exchange, Px
<1>2. wsq \in Seq(Detail)
  BY DEF Init
<1>3. job \in [Workers -> Job \cup {Idle}] /\ \A w \in Workers : job[w] = Idle
  BY DEF Init
<1> QED BY <1>1, <1>2, <1>3 DEF Init, TypeInv, TypeOK

LEMMA HandlesType ==
  ASSUME TypeInv, NEW w \in Workers, NEW det \in Detail, NEW row \in Row \cup {NoRow},
         NEW pc \in {"create", "newTrades", "oldTrades", "plain", "done"},
         pc \in HasRow => row \in Row /\ ~IsNew(row), Handles(w, det, row, pc)
  PROVE  JobsTyped'
<1>1. CASE pc = "done"
  BY <1>1, BecomesType DEF Handles
<1>2. CASE pc # "done"
  <2> DEFINE r == IF IsNew(row) THEN NoRow ELSE row
             s == IF w = "ws" /\ pc = "oldTrades" THEN dbTrades[det.oid] ELSE {}
             j == [pc |-> pc, det |-> det, row |-> r, seen |-> s]
  <2>1. r \in Row \cup {NoRow} /\ s \in SUBSET Trades /\ (r = row \/ IsNew(row))
    BY DEF TypeInv, TypeOK, Detail
  <2>2. Becomes(w, j)
    BY <1>2 DEF Handles
  <2> HIDE DEF r, s
  <2>3. j \in Job /\ j.pc = pc /\ j.row = r
    BY <1>2, <2>1 DEF Job
  <2> HIDE DEF j
  <2> QED BY <2>1, <2>2, <2>3, BecomesType
<1> QED BY <1>1, <1>2

LEMMA OpensType ==
  ASSUME TypeInv, NEW o \in Orders, Opens(o)
  PROVE  /\ exch' \in [Orders -> Exchange] /\ wsq' \in Seq(Detail)
         /\ \A p \in Orders : exch[p].st # "none" => exch'[p].st # "none"
<1>1. "NEW" \in Status /\ {} \in SUBSET Trades /\ 0 \in Px
  BY ConstantsAssumption DEF Status, Working, Px
<1>2. Moves(o, "NEW", {}, 0)
  BY DEF Opens
<1> QED BY <1>1, <1>2, MovesType

LEMMA TypeStep == TypeInv /\ [Next]_vars => TypeInv'
<1> SUFFICES ASSUME TypeInv, [Next]_vars PROVE TypeInv'
  OBVIOUS
<1> USE DEF external, routing, tables, history
<1>1. ASSUME NEW o \in Orders, ExchangeOpen(o) PROVE TypeInv'
  BY <1>1, OpensType DEF ExchangeOpen, TypeInv, TypeOK
<1>2. ASSUME NEW o \in Orders, NEW t \in Trades, NEW st \in Fills, ExchangeFill(o, t, st)
      PROVE  TypeInv'
  <2>1. st \in Status /\ exch[o].px \in Px /\ {t} \in SUBSET Trades
    BY DEF Fills, Status, Working, TypeInv, TypeOK, Exchange
  <2> QED BY <1>2, <2>1, MovesType DEF ExchangeFill, TypeInv, TypeOK
<1>3. ASSUME NEW o \in Orders, NEW st \in Ends, ExchangeEnd(o, st) PROVE TypeInv'
  <2>1. st \in Status /\ exch[o].px \in Px
    BY DEF Status, TypeInv, TypeOK, Exchange
  <2> QED BY <1>3, <2>1, MovesType DEF ExchangeEnd, TypeInv, TypeOK
<1>4. CASE Killed
  BY <1>4, CrashType DEF Killed, TypeInv, TypeOK
<1>5. ASSUME NEW s \in Sessions, OnLogon(s) PROVE TypeInv'
  BY <1>5 DEF OnLogon, TypeInv, TypeOK
<1>6. ASSUME NEW s \in Sessions, OnLogout(s) PROVE TypeInv'
  BY <1>6 DEF OnLogout, TypeInv, TypeOK
<1>7. ASSUME NEW s \in Sessions, SessionMapRace(s) PROVE TypeInv'
  BY <1>7, CrashType DEF SessionMapRace, TypeInv, TypeOK
<1>8. ASSUME NEW s \in Sessions, OnMarketDataRequest(s) PROVE TypeInv'
  BY <1>8 DEF OnMarketDataRequest, TypeInv, TypeOK
<1>9. ASSUME NEW s \in Sessions, NEW o \in Orders, NewOrderUnknownExchange(s, o)
      PROVE  TypeInv'
  BY <1>9, CrashType DEF NewOrderUnknownExchange, TypeInv, TypeOK
<1>11. ASSUME NEW s \in Sessions, NEW o \in Orders, NewOrderSubmit(s, o)
       PROVE  TypeInv'
  <2>2. CASE Opens(o)
    BY <1>11, <2>2, OpensType DEF NewOrderSubmit, TypeInv, TypeOK
  <2>3. CASE UNCHANGED external
    BY <1>11, <2>3 DEF NewOrderSubmit, TypeInv, TypeOK
  <2> QED BY <1>11, <2>2, <2>3 DEF NewOrderSubmit
<1>12. ASSUME NEW s \in Sessions, CancelRead(s) PROVE TypeInv'
  BY <1>12 DEF CancelRead, RowsByClOrdID, CancelJob, TypeInv, TypeOK
<1>13. ASSUME NEW s \in Sessions, CancelSend(s) PROVE TypeInv'
  <2>1. fix[s] \in CancelJob /\ fix[s].row \in Row
    BY <1>13 DEF CancelSend, CancelJob, TypeInv, TypeOK
  <2>2. fix' \in [Sessions -> CancelJob \cup {Idle}]
    BY <1>13, <2>1 DEF CancelSend, CancelJob, TypeInv, TypeOK
  <2> DEFINE o == fix[s].row.oid
  <2>3. CASE Moves(o, "CANCELLED", {}, exch[o].px)
    <3>1. o \in Orders /\ "CANCELLED" \in Status
      BY <2>1, ConstantsAssumption DEF Row, Status
    <3>2. exch[o].px \in Px
      BY <3>1 DEF TypeInv, TypeOK, Exchange
    <3> HIDE DEF o
    <3> QED BY <1>13, <2>2, <2>3, <3>1, <3>2, MovesType DEF CancelSend, TypeInv, TypeOK
  <2>4. CASE UNCHANGED external
    BY <1>13, <2>2, <2>4 DEF CancelSend, TypeInv, TypeOK
  <2> QED BY <1>13, <2>3, <2>4 DEF CancelSend
<1>14. ASSUME NEW s \in Sessions, CancelWriteBack(s) PROVE TypeInv'
  <2>1. fix[s].row \in Row
    BY <1>14 DEF CancelWriteBack, CancelJob, TypeInv, TypeOK
  <2> QED BY <1>14, <2>1 DEF CancelWriteBack, UpdateOrder, TypeInv, TypeOK
<1>15. ASSUME NEW s \in Sessions, OnOrderCancelReplaceRequest(s) PROVE TypeInv'
  <2> PICK row \in rows :
         /\ Live(row.oid) /\ exch[row.oid].px < MaxPx
         /\ Moves(row.oid, exch[row.oid].st, {}, exch[row.oid].px + 1)
    BY <1>15 DEF OnOrderCancelReplaceRequest, RowsByClOrdID
  <2> DEFINE o == row.oid
  <2>1. o \in Orders
    BY DEF TypeInv, TypeOK, Row
  <2>2. exch[o].st \in Status /\ exch[o].px + 1 \in Px
    BY <2>1, ConstantsAssumption DEF Live, Px, Status, TypeInv, TypeOK, Exchange
  <2> HIDE DEF o
  <2> QED BY <1>15, <2>1, <2>2, MovesType DEF o, OnOrderCancelReplaceRequest, TypeInv, TypeOK
<1>16. CASE WsReceive
  <2> DEFINE det == Head(wsq)
             row == GetOrderByOrderID(det.oid)
  <2>1. det \in Detail /\ wsq' \in Seq(Detail)
    BY <1>16 DEF WsReceive, TypeInv, TypeOK
  <2>2. row = NoRow \/ row \in Row
    BY ReadType DEF TypeInv, TypeOK
  <2>3. JobsTyped'
    <3>1. CASE sessions = {}
      BY <1>16, <3>1 DEF WsReceive, JobsTyped, TypeInv, TypeOK
    <3>2. CASE sessions # {}
      <4>1. Handles("ws", det, row, WsBranch(det, row))
        BY <1>16, <3>2 DEF WsReceive
      <4>2. /\ WsBranch(det, row) \in {"create", "newTrades", "oldTrades", "plain", "done"}
            /\ WsBranch(det, row) \in HasRow => row \in Row /\ ~IsNew(row)
        BY <2>2 DEF WsBranch, NewPc, IsNew, HasRow
      <4> QED BY <2>1, <2>2, <4>1, <4>2, HandlesType DEF Workers
    <3> QED BY <3>1, <3>2
  <2> QED BY <1>16, <2>1, <2>3 DEF WsReceive, JobsTyped, TypeInv, TypeOK
<1>17. CASE PollStart
  BY <1>17 DEF PollStart, TypeInv, TypeOK
<1>18. ASSUME NEW o \in Orders, PollInfo(o) PROVE TypeInv'
  <2> DEFINE det == [oid |-> o, st |-> exch[o].st, px |-> exch[o].px,
                     trades |-> IF o \in RestTraded THEN exch[o].trades ELSE {}]
             j == [pc |-> "read", row |-> NoRow, seen |-> {}, det |-> det]
  <2>1. exch[o] \in Exchange /\ exch[o].st # "none"
    BY <1>18 DEF PollInfo, TypeInv, TypeOK
  <2>2. det \in Detail
    BY <2>1 DEF Detail, Exchange
  <2>3. j \in Job /\ j.pc = "read"
    BY <2>2 DEF Job
  <2>4. Becomes("poll", j)
    BY <1>18 DEF PollInfo
  <2> HIDE DEF j
  <2>5. JobsTyped'
    BY <2>3, <2>4, BecomesType DEF HasRow, Workers
  <2> QED BY <1>18, <2>5 DEF PollInfo, JobsTyped, TypeInv, TypeOK
<1>19. ASSUME NEW o \in Orders, PollInfoFails(o) PROVE TypeInv'
  BY <1>19 DEF PollInfoFails, TypeInv, TypeOK
<1>20. CASE PollRead
  <2> DEFINE det == job["poll"].det
             row == GetOrderByOrderID(det.oid)
             pc  == PollBranch(det, row, dbTrades[det.oid])
  <2>1. det \in Detail
    BY <1>20 DEF PollRead, At, Workers, Job, TypeInv, TypeOK
  <2>2. row = NoRow \/ row \in Row
    BY ReadType DEF TypeInv, TypeOK
  <2>3. /\ pc \in {"create", "newTrades", "oldTrades", "plain", "done"}
        /\ pc \in HasRow => row \in Row /\ ~IsNew(row)
    BY <2>2 DEF PollBranch, NewPc, IsNew, HasRow
  <2>4. Handles("poll", det, row, pc)
    BY <1>20 DEF PollRead
  <2>5. JobsTyped'
    BY <2>1, <2>2, <2>3, <2>4, HandlesType DEF Workers
  <2> QED BY <1>20, <2>5 DEF PollRead, JobsTyped, TypeInv, TypeOK
<1>21. CASE PollDone
  BY <1>21 DEF PollDone, TypeInv, TypeOK
<1>22. ASSUME NEW w \in Workers, StoreTrades(w) PROVE TypeInv'
  <2>1. job[w] \in Job
    BY <1>22, StoreTradesSteps DEF TypeInv, TypeOK
  <2>2. job[w].det.trades \subseteq Trades /\ job[w].det.oid \in Orders
    BY <2>1 DEF Job, Detail
  <2>3. dbTrades' \in [Orders -> SUBSET Trades]
    <3>1. PICK stored \in SUBSET job[w].det.trades :
             UpdateOrCreateTrades(job[w].det.oid, stored)
      BY <1>22, StoreTradesSteps
    <3> QED BY <2>2, <3>1 DEF UpdateOrCreateTrades, TypeInv, TypeOK
  <2>4. unstored' \subseteq Orders
    BY <1>22, <2>2, StoreTradesSteps, SMTT(20) DEF TypeInv, TypeOK
  <2>5. JobsTyped'
    <3>1. CASE job[w].pc = "newTrades"
      <4>1. Goto(w, "create") /\ job[w] # Idle
        BY <1>22, <3>1, StoreTradesSteps
      <4> QED BY <4>1, GotoType DEF HasRow
    <3>2. CASE job[w].pc = "oldTrades"
      <4>1. Goto(w, "update") /\ job[w] # Idle /\ job[w].row \in Row
        BY <1>22, <3>2, StoreTradesSteps DEF TypeInv, HasRow
      <4> QED BY <4>1, GotoType
    <3> QED BY <1>22, <3>1, <3>2, StoreTradesSteps
  <2> QED BY <1>22, <2>3, <2>4, <2>5, StoreTradesSteps DEF JobsTyped, TypeInv, TypeOK
<1>22a. ASSUME NEW w \in Workers, StoreFails(w) PROVE TypeInv'
  <2>1. JobsTyped'
    BY <1>22a, BecomesType DEF StoreFails
  <2> QED BY <1>22a, <2>1 DEF StoreFails, JobsTyped, TypeInv, TypeOK
<1>23. ASSUME NEW w \in Workers, StoreNew(w) PROVE TypeInv'
  <2>1. job[w] \in Job /\ job[w] # Idle
    BY <1>23 DEF StoreNew, At, TypeInv, TypeOK
  <2>2. NewRow(job[w].det) \in Row
    BY <2>1 DEF NewRow, Row, Job, Detail, Keys
  <2>3. rows' \subseteq Row
    BY <1>23, <2>2 DEF StoreNew, CreateOrder, TypeInv, TypeOK
  <2>4. JobsTyped'
    BY <1>23, <2>1, GotoReportType, BecomesType DEF StoreNew
  <2> QED BY <1>23, <2>3, <2>4 DEF StoreNew, JobsTyped, TypeInv, TypeOK
<1>24. ASSUME NEW w \in Workers, StoreTraded(w) PROVE TypeInv'
  <2>1. job[w] \in Job /\ job[w] # Idle /\ job[w].row \in Row
    BY <1>24 DEF StoreTraded, At, HasRow, TypeInv, TypeOK
  <2>2. [job[w].row EXCEPT !.st = job[w].det.st, !.px = job[w].det.px] \in Row
    BY <2>1 DEF Row, Job, Detail
  <2>3. rows' \subseteq Row
    BY <1>24, <2>2 DEF StoreTraded, UpdateOrder, TypeInv, TypeOK
  <2>4. JobsTyped'
    <3>1. \/ GotoReport(w, "report") \/ Goto(w, "reread") \/ Becomes(w, Idle)
      BY <1>24 DEF StoreTraded
    <3>2. CASE GotoReport(w, "report")
      BY <2>1, <3>2, GotoReportType
    <3>3. CASE Goto(w, "reread")
      BY <2>1, <3>3, GotoType DEF HasRow
    <3>4. CASE Becomes(w, Idle)
      BY <3>4, BecomesType
    <3> QED BY <3>1, <3>2, <3>3, <3>4
  <2> QED BY <1>24, <2>3, <2>4 DEF StoreTraded, JobsTyped, TypeInv, TypeOK
<1>25. CASE WsReread
  <2>1. job["ws"] \in Job /\ job["ws"] # Idle /\ "ws" \in Workers
    BY <1>25 DEF WsReread, At, Workers, TypeInv, TypeOK
  <2>2. JobsTyped'
    BY <1>25, <2>1, GotoReportType, BecomesType DEF WsReread
  <2> QED BY <1>25, <2>2 DEF WsReread, JobsTyped, TypeInv, TypeOK
<1>26. ASSUME NEW w \in Workers, StorePlain(w) PROVE TypeInv'
  <2>1. job[w] \in Job /\ job[w] # Idle /\ job[w].row \in Row
    BY <1>26 DEF StorePlain, At, HasRow, TypeInv, TypeOK
  <2>2. /\ [job[w].row EXCEPT !.st = job[w].det.st] \in Row
        /\ [job[w].row EXCEPT !.st = job[w].det.st, !.px = job[w].det.px] \in Row
    BY <2>1 DEF Row, Job, Detail
  <2>3. rows' \subseteq Row
    BY <1>26, <2>2 DEF StorePlain, UpdateOrder, TypeInv, TypeOK
  <2>4. JobsTyped'
    BY <1>26, <2>1, GotoReportType DEF StorePlain
  <2> QED BY <1>26, <2>3, <2>4 DEF StorePlain, JobsTyped, TypeInv, TypeOK
<1>27. ASSUME NEW w \in Workers, Report(w) PROVE TypeInv'
  <2>1. job[w] \in Job /\ job[w].det.oid \in Orders
    BY <1>27 DEF Report, Reporting, Job, Detail, TypeInv, TypeOK
  <2>2. told' \in [Orders -> SUBSET OrdStatus] /\ lost' \subseteq Orders
    <3>1. CASE sessions = {}
      BY <1>27, <2>1, <3>1 DEF Report, SendReport, TypeInv, TypeOK
    <3>2. CASE sessions # {}
      <4> DEFINE x == ToOrdStatus(job[w].det.st)
      <4>1. x \in OrdStatus
        BY OrdStatusType
      <4>2. told' = [told EXCEPT ![job[w].det.oid] = @ \cup {x}] /\ lost' = lost
        BY <1>27, <3>2 DEF Report, SendReport
      <4> HIDE DEF x
      <4> QED BY <2>1, <4>1, <4>2 DEF TypeInv, TypeOK
    <3> QED BY <3>1, <3>2
  <2>3. creates' \in [Orders -> Nat]
    BY <1>27, <2>1 DEF Report, SendReport, TypeInv, TypeOK
  <2>4. JobsTyped'
    BY <1>27, BecomesType DEF Report
  <2> QED BY <1>27, <2>2, <2>3, <2>4 DEF Report, SendReport, JobsTyped, TypeInv, TypeOK
<1>28. ASSUME NEW w \in Workers, ReportWithoutTrades(w) PROVE TypeInv'
  BY <1>28, CrashType DEF ReportWithoutTrades, TypeInv, TypeOK
<1>29. CASE UNCHANGED vars
  BY <1>29 DEF vars, TypeInv, TypeOK
<1> QED
  BY <1>1, <1>2, <1>3, <1>4, <1>5, <1>6, <1>7, <1>8, <1>9, <1>11, <1>12, <1>13,
     <1>14, <1>15, <1>16, <1>17, <1>18, <1>19, <1>20, <1>21, <1>22, <1>22a, <1>23, <1>24,
     <1>25, <1>26, <1>27, <1>28, <1>29
  DEF Next, ExchangeNext, SessionNext, PollNext, WorkerNext

\* Every variable keeps its type, and a job that updates a row has read one.
THEOREM TypeCorrect == Spec => []TypeOK
<1>1. TypeInv => TypeOK
  BY DEF TypeInv
<1> QED BY <1>1, TypeInit, TypeStep, PTL DEF Spec

-----------------------------------------------------------------------------
(***************************************************************************)
(* One row per order, created and reported once                            *)
(***************************************************************************)

\* ClientOrderID is the primary key of the table, and OrderID is unique in it.
RowsUnique ==
  \A r, q \in rows : r.cl = q.cl \/ r.oid = q.oid => r = q

\* The table still has a row for the order of the row that was read.
Stored(r) == \E q \in rows : q.cl = r.cl /\ q.oid = r.oid

HasRowOf(o) == \E r \in rows : r.oid = o

ReportingNew(w) == job[w] # Idle /\ job[w].pc = "reportNew"

\* Rows are unique, rows that have been read are still there, and an order that
\* was or is about to be reported as created has its row.
RowInv ==
  /\ RowsUnique
  /\ \A w \in Workers : job[w] # Idle /\ job[w].row # NoRow => Stored(job[w].row)
  /\ \A s \in Sessions : fix[s] # Idle => Stored(fix[s].row)
  /\ \A o \in Orders : creates[o] <= 1 /\ (creates[o] = 1 => HasRowOf(o))
  /\ \A w \in Workers : ReportingNew(w) =>
       creates[job[w].det.oid] = 0 /\ HasRowOf(job[w].det.oid)
  /\ \A v, w \in Workers : ReportingNew(v) /\ ReportingNew(w) /\ v # w
                           => job[v].det.oid # job[w].det.oid

\* Writing back a row that was read changes which rows there are in no way.
LEMMA UpdateKeepsRows ==
  ASSUME rows \subseteq Row, RowsUnique, NEW row \in Row, Stored(row), UpdateOrder(row)
  PROVE  /\ RowsUnique'
         /\ \A r \in rows : \E q \in rows' : q.cl = r.cl /\ q.oid = r.oid
<1>1. PICK q \in rows : q.cl = row.cl /\ q.oid = row.oid
  BY DEF Stored
<1>2. \A r \in rows : r.cl = row.cl \/ r.oid = row.oid => r = q
  BY <1>1 DEF RowsUnique
<1>3. rows' = (rows \ {q}) \cup {row}
  BY <1>1, <1>2 DEF UpdateOrder
<1>4. RowsUnique'
  BY <1>1, <1>2, <1>3 DEF RowsUnique
<1> QED BY <1>1, <1>3, <1>4

\* What RowInv says survives a step that keeps the rows, if jobs that hold a row
\* or are to report a creation were there before.
LEMMA RowInvKept ==
  ASSUME RowInv, RowsUnique', creates' = creates,
         \A r \in rows : \E q \in rows' : q.cl = r.cl /\ q.oid = r.oid,
         \A w \in Workers : \/ job'[w] = Idle
                            \/ /\ job[w] # Idle /\ job'[w].row \in {job[w].row, NoRow}
                               /\ job'[w].det = job[w].det
                               /\ job'[w].pc = "reportNew" => job[w].pc = "reportNew"
                            \/ /\ job'[w].row # NoRow => Stored(job'[w].row)
                               /\ job'[w].pc # "reportNew",
         \A s \in Sessions : \/ fix'[s] = Idle
                             \/ fix[s] # Idle /\ fix'[s].row = fix[s].row
                             \/ Stored(fix'[s].row)
  PROVE  RowInv'
<1>1. (\A w \in Workers : job[w] # Idle /\ job[w].row # NoRow => Stored(job[w].row))'
  BY DEF RowInv, Stored
<1>2. (\A s \in Sessions : fix[s] # Idle => Stored(fix[s].row))'
  BY DEF RowInv, Stored
<1>3. (\A o \in Orders : creates[o] <= 1 /\ (creates[o] = 1 => HasRowOf(o)))'
  BY DEF RowInv, HasRowOf
<1>4. \A w \in Workers : ReportingNew(w)' => ReportingNew(w) /\ job'[w].det = job[w].det
  BY DEF ReportingNew
<1>5. (\A w \in Workers : ReportingNew(w) =>
         creates[job[w].det.oid] = 0 /\ HasRowOf(job[w].det.oid))'
  BY <1>4 DEF RowInv, HasRowOf
<1>6. (\A v, w \in Workers : ReportingNew(v) /\ ReportingNew(w) /\ v # w
                             => job[v].det.oid # job[w].det.oid)'
  BY <1>4 DEF RowInv
<1> QED BY <1>1, <1>2, <1>3, <1>5, <1>6 DEF RowInv

LEMMA RowInit == Init => RowInv
  BY DEF Init, RowInv, RowsUnique, ReportingNew, HasRowOf, Stored

LEMMA RowQuiet ==
  ASSUME RowInv, UNCHANGED <<rows, job, fix, creates>> PROVE RowInv'
  BY DEF RowInv, RowsUnique, Stored, HasRowOf, ReportingNew

LEMMA RowCrash == ASSUME RowInv, Crash PROVE RowInv'
<1>1. RowsUnique' /\ creates' = creates /\ rows' = rows
  BY DEF Crash, tables, RowInv, RowsUnique
<1>2. /\ \A w \in Workers : job'[w] = Idle
      /\ \A s \in Sessions : fix'[s] = Idle
  BY DEF Crash
<1> QED BY <1>1, <1>2, RowInvKept

\* The row that was read is in the table at that moment.
LEMMA HandlesRow ==
  ASSUME TypeInv, RowInv, NEW w \in Workers, NEW det \in Detail,
         NEW pc \in {"create", "newTrades", "oldTrades", "plain", "done"},
         Handles(w, det, GetOrderByOrderID(det.oid), pc),
         UNCHANGED <<rows, creates, fix>>
  PROVE  RowInv'
<1> DEFINE row == GetOrderByOrderID(det.oid)
<1>1. row # NoRow => Stored(row)
  BY ReadType DEF Stored, TypeInv, TypeOK
<1>2. /\ job'[w] = Idle \/ (job'[w].row \in {row, NoRow} /\ job'[w].pc = pc)
      /\ \A v \in Workers \ {w} : job'[v] = job[v]
  BY DEF Handles, Becomes, TypeInv, TypeOK
<1>3. RowsUnique'
  BY DEF RowInv, RowsUnique
<1> HIDE DEF row
<1> QED BY <1>1, <1>2, <1>3, RowInvKept

\* A worker that goes on with its job, or is done with it, keeps what the job is about.
LEMMA JobStep ==
  ASSUME TypeInv, NEW w \in Workers, job[w] # Idle, NEW pc,
         Goto(w, pc) \/ GotoReport(w, pc) \/ Becomes(w, Idle)
  PROVE  /\ \/ job'[w] = Idle
            \/ /\ job'[w].row \in {job[w].row, NoRow} /\ job'[w].det = job[w].det
               /\ job'[w].pc = pc
         /\ \A v \in Workers \ {w} : job'[v] = job[v]
<1>1. job[w] \in Job
  BY DEF TypeInv, TypeOK
<1>2. CASE Goto(w, pc)
  BY <1>1, <1>2 DEF Goto, Becomes, TypeInv, TypeOK, Job
<1>3. CASE GotoReport(w, pc)
  BY <1>1, <1>3 DEF GotoReport, Becomes, TypeInv, TypeOK, Job
<1>4. CASE Becomes(w, Idle)
  BY <1>4 DEF Becomes, TypeInv, TypeOK
<1> QED BY <1>2, <1>3, <1>4

\* A job that goes on to any step but the report of a creation.
LEMMA RowGoto ==
  ASSUME TypeInv, RowInv, NEW w \in Workers, job[w] # Idle, UNCHANGED <<creates, fix>>,
         RowsUnique', \A r \in rows : \E q \in rows' : q.cl = r.cl /\ q.oid = r.oid,
         NEW pc, pc # "reportNew", Goto(w, pc) \/ GotoReport(w, pc) \/ Becomes(w, Idle)
  PROVE  RowInv'
<1>1. /\ \/ job'[w] = Idle
         \/ /\ job'[w].row \in {job[w].row, NoRow} /\ job'[w].det = job[w].det
            /\ job'[w].pc = pc
      /\ \A v \in Workers \ {w} : job'[v] = job[v]
  BY JobStep
<1> QED BY <1>1, RowInvKept

\* Every row is still there, with its ClientOrderID and its OrderID.
KeepsRows == \A r \in rows : \E q \in rows' : q.cl = r.cl /\ q.oid = r.oid

\* The receiver and the poller write back the row they read, with other columns.
LEMMA StoreKeepsRows ==
  ASSUME TypeInv, RowInv, NEW w \in Workers, StoreTraded(w) \/ StorePlain(w)
  PROVE  RowsUnique' /\ KeepsRows
<1>1. job[w] \in Job /\ job[w].row \in Row /\ Stored(job[w].row)
  BY ConstantsAssumption DEF StoreTraded, StorePlain, At, HasRow, RowInv, TypeInv, TypeOK
<1>2. PICK row : /\ row \in Row /\ UpdateOrder(row)
                 /\ row.cl = job[w].row.cl /\ row.oid = job[w].row.oid
  <2> DEFINE old == job[w].row
             r1 == [old EXCEPT !.st = job[w].det.st]
             r2 == [old EXCEPT !.st = job[w].det.st, !.px = job[w].det.px]
  <2>1. /\ r1 \in Row /\ r1.cl = old.cl /\ r1.oid = old.oid
        /\ r2 \in Row /\ r2.cl = old.cl /\ r2.oid = old.oid
    BY <1>1 DEF Row, Job, Detail
  <2>2. UpdateOrder(r1) \/ UpdateOrder(r2)
    BY DEF StoreTraded, StorePlain
  <2> HIDE DEF r1, r2
  <2> QED BY <2>1, <2>2
<1>3. Stored(row)
  BY <1>1, <1>2 DEF Stored
<1> QED BY <1>2, <1>3, UpdateKeepsRows DEF RowInv, TypeInv, TypeOK, KeepsRows

\* A cancel request writes back the row as it read it.
LEMMA CancelKeepsRows ==
  ASSUME TypeInv, RowInv, NEW s \in Sessions, CancelWriteBack(s)
  PROVE  RowsUnique' /\ KeepsRows
<1>1. fix[s].row \in Row /\ Stored(fix[s].row)
  BY DEF CancelWriteBack, CancelJob, RowInv, TypeInv, TypeOK
<1>2. CASE UpdateOrder(fix[s].row)
  BY <1>1, <1>2, UpdateKeepsRows DEF RowInv, TypeInv, TypeOK, KeepsRows
<1>3. CASE UNCHANGED rows
  BY <1>3 DEF RowInv, RowsUnique, KeepsRows
<1> QED BY <1>2, <1>3 DEF CancelWriteBack

LEMMA RowStep == TypeInv /\ RowInv /\ [Next]_vars => RowInv'
<1> SUFFICES ASSUME TypeInv, RowInv, [Next]_vars PROVE RowInv'
  OBVIOUS
<1> USE DEF external, routing, tables, history
<1>1. CASE ExchangeNext
  BY <1>1, RowQuiet DEF ExchangeNext, ExchangeOpen, ExchangeFill, ExchangeEnd
<1>2. ASSUME NEW s \in Sessions,
             OnLogon(s) \/ OnLogout(s) \/ OnMarketDataRequest(s) \/ OnOrderCancelReplaceRequest(s)
      PROVE  RowInv'
  BY <1>2, RowQuiet DEF OnLogon, OnLogout, OnMarketDataRequest, OnOrderCancelReplaceRequest
<1>3. ASSUME NEW s \in Sessions, NEW o \in Orders,
             NewOrderSubmit(s, o)
      PROVE  RowInv'
  BY <1>3, RowQuiet DEF NewOrderSubmit
<1>4. ASSUME Crash PROVE RowInv'
  BY <1>4, RowCrash
<1>5. ASSUME NEW s \in Sessions, CancelRead(s) PROVE RowInv'
  <2>1. \A t \in Sessions : fix'[t] = fix[t] \/ Stored(fix'[t].row)
    BY <1>5 DEF CancelRead, RowsByClOrdID, Stored, TypeInv, TypeOK
  <2>2. RowsUnique'
    BY <1>5 DEF CancelRead, RowsByClOrdID, RowInv, RowsUnique
  <2> QED BY <1>5, <2>1, <2>2, RowInvKept DEF CancelRead
<1>6. ASSUME NEW s \in Sessions, CancelSend(s) PROVE RowInv'
  <2>1. fix[s] \in CancelJob
    BY <1>6 DEF CancelSend, TypeInv, TypeOK
  <2>2. \A t \in Sessions : fix'[t] = fix[t] \/ (fix[t] # Idle /\ fix'[t].row = fix[t].row)
    BY <1>6, <2>1 DEF CancelSend, CancelJob, TypeInv, TypeOK
  <2>3. RowsUnique'
    BY <1>6 DEF CancelSend, RowInv, RowsUnique
  <2> QED BY <1>6, <2>2, <2>3, RowInvKept DEF CancelSend
<1>7. ASSUME NEW s \in Sessions, CancelWriteBack(s) PROVE RowInv'
  <2>1. RowsUnique' /\ KeepsRows
    BY <1>7, CancelKeepsRows
  <2>2. \A t \in Sessions : fix'[t] = fix[t] \/ fix'[t] = Idle
    BY <1>7 DEF CancelWriteBack, TypeInv, TypeOK
  <2> QED BY <1>7, <2>1, <2>2, RowInvKept DEF CancelWriteBack, KeepsRows
<1>8. CASE WsReceive
  <2> DEFINE det == Head(wsq)
             row == GetOrderByOrderID(det.oid)
  <2>1. CASE sessions = {}
    BY <1>8, <2>1, RowQuiet DEF WsReceive
  <2>2. CASE sessions # {}
    <3>1. det \in Detail
      BY <1>8 DEF WsReceive, TypeInv, TypeOK
    <3>2. WsBranch(det, row) \in {"create", "newTrades", "oldTrades", "plain", "done"}
      BY DEF WsBranch, NewPc
    <3>3. Handles("ws", det, row, WsBranch(det, row)) /\ UNCHANGED <<rows, creates, fix>>
      BY <1>8, <2>2 DEF WsReceive
    <3> QED BY <3>1, <3>2, <3>3, HandlesRow DEF Workers
  <2> QED BY <2>1, <2>2
<1>9. CASE PollStart \/ PollDone \/ \E o \in Orders : PollInfoFails(o)
  BY <1>9, RowQuiet DEF PollStart, PollDone, PollInfoFails
<1>10. ASSUME NEW o \in Orders, PollInfo(o) PROVE RowInv'
  <2>1. /\ job'["poll"].row = NoRow /\ job'["poll"].pc # "reportNew"
        /\ \A w \in Workers \ {"poll"} : job'[w] = job[w]
    BY <1>10 DEF PollInfo, Becomes, Workers, TypeInv, TypeOK
  <2>2. RowsUnique'
    BY <1>10 DEF PollInfo, RowInv, RowsUnique
  <2> QED BY <1>10, <2>1, <2>2, RowInvKept DEF PollInfo
<1>11. CASE PollRead
  <2> DEFINE det == job["poll"].det
             row == GetOrderByOrderID(det.oid)
             pc  == PollBranch(det, row, dbTrades[det.oid])
  <2>1. det \in Detail
    BY <1>11 DEF PollRead, At, Workers, Job, TypeInv, TypeOK
  <2>2. pc \in {"create", "newTrades", "oldTrades", "plain", "done"}
    BY DEF PollBranch, NewPc
  <2>3. Handles("poll", det, row, pc) /\ UNCHANGED <<rows, creates, fix>>
    BY <1>11 DEF PollRead
  <2> QED BY <2>1, <2>2, <2>3, HandlesRow DEF Workers
<1>12. ASSUME NEW w \in Workers, StoreTrades(w) PROVE RowInv'
  <2>1. job[w] # Idle /\ UNCHANGED <<rows, creates, fix>> /\ RowsUnique'
    BY <1>12, StoreTradesSteps DEF RowInv, RowsUnique
  <2>2. \A r \in rows : \E q \in rows' : q.cl = r.cl /\ q.oid = r.oid
    BY <1>12, StoreTradesSteps
  <2>3. Goto(w, "create") \/ Goto(w, "update")
    BY <1>12, StoreTradesSteps
  <2> QED BY <2>1, <2>2, <2>3, RowGoto
<1>12a. ASSUME NEW w \in Workers, StoreFails(w) PROVE RowInv'
  <2>1. /\ job[w] # Idle /\ UNCHANGED <<rows, creates, fix>> /\ RowsUnique'
        /\ Becomes(w, Idle)
    BY <1>12a DEF StoreFails, At, RowInv, RowsUnique
  <2> QED BY <2>1, RowGoto
<1>13. ASSUME NEW w \in Workers, StoreNew(w) PROVE RowInv'
  <2> DEFINE det == job[w].det
  <2>1. job[w] \in Job /\ job[w] # Idle /\ UNCHANGED <<creates, fix>> /\ det.oid \in Orders
    BY <1>13 DEF StoreNew, At, Job, Detail, TypeInv, TypeOK
  <2>2. CASE ~CanCreate(det)
    <3>1. Becomes(w, Idle) /\ UNCHANGED rows /\ RowsUnique'
      BY <1>13, <2>2 DEF StoreNew, RowInv, RowsUnique
    <3> QED BY <2>1, <3>1, RowGoto
  <2>3. CASE CanCreate(det)
    <3>1. rows' = rows \cup {NewRow(det)} /\ GotoReport(w, "reportNew")
      BY <1>13, <2>3 DEF StoreNew, CreateOrder
    <3>2. /\ \A r \in rows : r.cl # NewRow(det).cl /\ r.oid # det.oid
          /\ NewRow(det).oid = det.oid
      BY <2>3 DEF CanCreate, NewRow
    <3>3. RowsUnique'
      BY <3>1, <3>2 DEF RowInv, RowsUnique
    <3>4. ~HasRowOf(det.oid) /\ HasRowOf(det.oid)'
      <4>1. ~HasRowOf(det.oid)
        BY <3>2 DEF HasRowOf
      <4>2. \E r \in rows' : r.oid = det.oid
        BY <3>1, <3>2
      <4>3. job'[w].det = det
        BY <2>1, <3>1 DEF GotoReport, Becomes, TypeInv, TypeOK, Job
      <4> QED BY <4>1, <4>2, <4>3 DEF HasRowOf
    <3>5. creates[det.oid] = 0
      <4>1. creates[det.oid] \in Nat
        BY <2>1 DEF TypeInv, TypeOK
      <4>2. creates[det.oid] <= 1 /\ creates[det.oid] # 1
        BY <2>1, <3>4 DEF RowInv
      <4> QED BY <4>1, <4>2
    <3>6. /\ job'[w].det = det /\ job'[w].row = NoRow
          /\ \A v \in Workers \ {w} : job'[v] = job[v]
      BY <2>1, <3>1 DEF GotoReport, Becomes, TypeInv, TypeOK, Job
    <3>7. \A v \in Workers \ {w} : ReportingNew(v) => job[v].det.oid # det.oid
      BY <3>4 DEF RowInv
    <3> HIDE DEF det
    <3>8. (\A v \in Workers : job[v] # Idle /\ job[v].row # NoRow => Stored(job[v].row))'
      BY <2>1, <3>1, <3>6 DEF RowInv, Stored
    <3>9. (\A s \in Sessions : fix[s] # Idle => Stored(fix[s].row))'
      BY <2>1, <3>1 DEF RowInv, Stored
    <3>10. (\A o \in Orders : creates[o] <= 1 /\ (creates[o] = 1 => HasRowOf(o)))'
      BY <2>1, <3>1 DEF RowInv, HasRowOf
    <3>11. (\A v \in Workers : ReportingNew(v) =>
              creates[job[v].det.oid] = 0 /\ HasRowOf(job[v].det.oid))'
      BY <2>1, <3>1, <3>2, <3>5, <3>6 DEF RowInv, HasRowOf, ReportingNew
    <3>12. (\A u, v \in Workers : ReportingNew(u) /\ ReportingNew(v) /\ u # v
                                  => job[u].det.oid # job[v].det.oid)'
      BY <3>6, <3>7 DEF RowInv, ReportingNew
    <3> QED BY <3>3, <3>8, <3>9, <3>10, <3>11, <3>12 DEF RowInv
  <2> QED BY <2>2, <2>3
<1>14. ASSUME NEW w \in Workers, StoreTraded(w) \/ StorePlain(w) PROVE RowInv'
  <2>1. job[w] # Idle /\ UNCHANGED <<creates, fix>>
    BY <1>14 DEF StoreTraded, StorePlain, At
  <2>2. RowsUnique' /\ KeepsRows
    BY <1>14, StoreKeepsRows
  <2>3. \E pc : pc # "reportNew" /\ (Goto(w, pc) \/ GotoReport(w, pc) \/ Becomes(w, Idle))
    BY <1>14 DEF StoreTraded, StorePlain
  <2> QED BY <2>1, <2>2, <2>3, RowGoto DEF KeepsRows
<1>15. CASE WsReread
  <2>1. job["ws"] # Idle /\ UNCHANGED <<rows, creates, fix>> /\ RowsUnique'
    BY <1>15 DEF WsReread, At, RowInv, RowsUnique
  <2>2. GotoReport("ws", "report") \/ Becomes("ws", Idle)
    BY <1>15 DEF WsReread
  <2> QED BY <2>1, <2>2, RowGoto DEF Workers
<1>16. ASSUME NEW w \in Workers, Report(w) PROVE RowInv'
  <2> DEFINE o == job[w].det.oid
  <2>1. job[w] \in Job /\ job[w] # Idle /\ o \in Orders
    BY <1>16 DEF Report, Reporting, Job, Detail, TypeInv, TypeOK
  <2>2. /\ job'[w] = Idle /\ \A v \in Workers \ {w} : job'[v] = job[v]
        /\ UNCHANGED <<rows, fix>>
    BY <1>16 DEF Report, Becomes, TypeInv, TypeOK
  <2>3. CASE job[w].pc = "reportNew"
    <3>1. creates' = [creates EXCEPT ![o] = creates[o] + 1]
      BY <1>16, <2>3 DEF Report, SendReport
    <3>2. creates[o] = 0 /\ HasRowOf(o)
      BY <2>1, <2>3 DEF RowInv, ReportingNew
    <3>3. \A v \in Workers \ {w} : ReportingNew(v) => job[v].det.oid # o
      BY <2>1, <2>3 DEF RowInv, ReportingNew
    <3> HIDE DEF o
    <3>4. creates'[o] = 1 /\ \A p \in Orders \ {o} : creates'[p] = creates[p]
      BY <2>1, <3>1, <3>2 DEF TypeInv, TypeOK
    <3>5. (\A p \in Orders : creates[p] <= 1 /\ (creates[p] = 1 => HasRowOf(p)))'
      BY <2>2, <3>2, <3>4 DEF RowInv, HasRowOf
    <3>6. (\A v \in Workers : ReportingNew(v) =>
             creates[job[v].det.oid] = 0 /\ HasRowOf(job[v].det.oid))'
      <4> SUFFICES ASSUME NEW v \in Workers, ReportingNew(v)'
                   PROVE  (creates[job[v].det.oid] = 0 /\ HasRowOf(job[v].det.oid))'
        OBVIOUS
      <4>1. v # w /\ job'[v] = job[v] /\ ReportingNew(v)
        BY <2>2 DEF ReportingNew
      <4>2. job[v].det.oid \in Orders \ {o}
        BY <3>3, <4>1 DEF ReportingNew, Job, Detail, TypeInv, TypeOK
      <4>3. creates[job[v].det.oid] = 0 /\ HasRowOf(job[v].det.oid)
        BY <4>1 DEF RowInv
      <4> QED BY <2>2, <3>4, <4>1, <4>2, <4>3 DEF HasRowOf
    <3>7. (\A u, v \in Workers : ReportingNew(u) /\ ReportingNew(v) /\ u # v
                                 => job[u].det.oid # job[v].det.oid)'
      BY <2>2 DEF RowInv, ReportingNew
    <3>8. /\ RowsUnique'
          /\ (\A v \in Workers : job[v] # Idle /\ job[v].row # NoRow => Stored(job[v].row))'
          /\ (\A s \in Sessions : fix[s] # Idle => Stored(fix[s].row))'
      BY <2>2 DEF RowInv, RowsUnique, Stored
    <3> QED BY <3>5, <3>6, <3>7, <3>8 DEF RowInv
  <2>4. CASE job[w].pc # "reportNew"
    <3>1. creates' = creates
      BY <1>16, <2>1, <2>4 DEF Report, SendReport, TypeInv, TypeOK
    <3>2. RowsUnique'
      BY <2>2 DEF RowInv, RowsUnique
    <3> QED BY <2>2, <3>1, <3>2, RowInvKept
  <2> QED BY <2>3, <2>4
<1>17. CASE UNCHANGED vars
  BY <1>17, RowQuiet DEF vars
<1> QED
  BY <1>1, <1>2, <1>3, <1>4, <1>5, <1>6, <1>7, <1>8, <1>9, <1>10, <1>11, <1>12, <1>12a,
     <1>13, <1>14, <1>15, <1>16, <1>17
  DEF Next, SessionNext, PollNext, WorkerNext, Killed, SessionMapRace,
      NewOrderUnknownExchange, ReportWithoutTrades

\* No order is ever reported as created twice.
THEOREM CreatedOnceAlways == Spec => []CreatedOnce
<1>1. Init => TypeInv /\ RowInv
  BY TypeInit, RowInit
<1>2. TypeInv /\ RowInv /\ [Next]_vars => (TypeInv /\ RowInv)'
  BY TypeStep, RowStep
<1>3. RowInv => CreatedOnce
  BY DEF RowInv, CreatedOnce
<1> QED BY <1>1, <1>2, <1>3, PTL DEF Spec

\* No step deletes a row or hands it to another order: creations only add, and whoever
\* writes a row back, however stale, names the order it read.
LEMMA KeepsStep == TypeInv /\ RowInv /\ [Next]_vars => KeepsRows
<1> SUFFICES ASSUME TypeInv, RowInv, [Next]_vars PROVE KeepsRows
  OBVIOUS
<1>1. CASE UNCHANGED rows
  BY <1>1 DEF KeepsRows
<1> USE DEF external, routing, tables, history
<1>2. CASE ExchangeNext
  BY <1>1, <1>2 DEF ExchangeNext, ExchangeOpen, ExchangeFill, ExchangeEnd
<1>3. CASE SessionNext
  BY <1>1, <1>3, CancelKeepsRows
  DEF SessionNext, OnLogon, OnLogout, SessionMapRace, OnMarketDataRequest, Crash,
      NewOrderUnknownExchange, NewOrderSubmit, CancelRead, CancelSend,
      OnOrderCancelReplaceRequest
<1>4. CASE Killed \/ WsReceive \/ WsReread
  BY <1>1, <1>4 DEF Killed, Crash, WsReceive, WsReread
<1>5. CASE PollNext
  BY <1>1, <1>5 DEF PollNext, PollStart, PollRead, PollDone, PollInfo, PollInfoFails
<1>6. ASSUME NEW w \in Workers, StoreNew(w) PROVE KeepsRows
  BY <1>6 DEF StoreNew, CreateOrder, KeepsRows
<1>7. ASSUME NEW w \in Workers,
             StoreTrades(w) \/ StoreFails(w) \/ Report(w) \/ ReportWithoutTrades(w)
      PROVE  KeepsRows
  BY <1>1, <1>7, StoreTradesSteps DEF StoreFails, Report, ReportWithoutTrades, Crash
<1>8. ASSUME NEW w \in Workers, WorkerNext(w) PROVE KeepsRows
  BY <1>6, <1>7, <1>8, StoreKeepsRows DEF WorkerNext
<1>9. CASE UNCHANGED vars
  BY <1>1, <1>9 DEF vars
<1> QED BY <1>2, <1>3, <1>4, <1>5, <1>8, <1>9 DEF Next

\* A row is never deleted and never passes to another order, whatever stale copies of it
\* the receiver, the poller and cancel requests write back, and across restarts.
THEOREM RowsStayAlways == Spec => RowsStay
<1>1. Init => TypeInv /\ RowInv
  BY TypeInit, RowInit
<1>2. TypeInv /\ RowInv /\ [Next]_vars => (TypeInv /\ RowInv)'
  BY TypeStep, RowStep
<1>3. TypeInv /\ RowInv /\ [Next]_vars
        => [\A r \in rows : \E q \in rows' : q.cl = r.cl /\ q.oid = r.oid]_vars
  BY KeepsStep DEF KeepsRows
<1> QED BY <1>1, <1>2, <1>3, PTL DEF Spec, RowsStay

-----------------------------------------------------------------------------
(***************************************************************************)
(* Nothing is invented                                                     *)
(***************************************************************************)

HeardRow(r) == r.st \in exch[r.oid].past /\ r.px <= exch[r.oid].px

Heard(d) == HeardRow(d) /\ d.trades \subseteq exch[d.oid].trades

ExchangeSound ==
  \A o \in Orders : IF exch[o].st = "none" THEN exch[o].px = 0
                                            ELSE exch[o].st \in exch[o].past
QueueHeard == \A i \in 1..Len(wsq) : Heard(wsq[i])
JobsHeard  ==
  \A w \in Workers : job[w] # Idle =>
    /\ Heard(job[w].det)
    /\ job[w].row # NoRow => HeardRow(job[w].row) /\ job[w].row.oid = job[w].det.oid
CancelsHeard == \A s \in Sessions : fix[s] # Idle => HeardRow(fix[s].row)

\* All that the goroutines hold, and not only what they wrote, the exchange said.
HeardInv == ExchangeSound /\ QueueHeard /\ JobsHeard /\ CancelsHeard /\ NothingInvented

\* What the exchange has said it does not take back.
Grows ==
  \A o \in Orders : /\ exch[o].past \subseteq exch'[o].past
                    /\ exch[o].trades \subseteq exch'[o].trades
                    /\ exch[o].px <= exch'[o].px

LEMMA HeardInit == Init => HeardInv
<1> SUFFICES ASSUME Init PROVE HeardInv
  OBVIOUS
<1>1. ExchangeSound
  BY DEF Init, ExchangeSound
<1>2. QueueHeard
  BY DEF Init, QueueHeard
<1>3. JobsHeard /\ CancelsHeard
  BY DEF Init, JobsHeard, CancelsHeard
<1>4. NothingInvented
  BY DEF Init, NothingInvented
<1> QED BY <1>1, <1>2, <1>3, <1>4 DEF HeardInv

LEMMA GrowsHeard ==
  ASSUME exch \in [Orders -> Exchange], exch' \in [Orders -> Exchange], Grows
  PROVE  /\ \A r \in Row : HeardRow(r) =>
              r.st \in exch'[r.oid].past /\ r.px <= exch'[r.oid].px
         /\ \A d \in Detail : Heard(d) =>
              /\ d.st \in exch'[d.oid].past /\ d.px <= exch'[d.oid].px
              /\ d.trades \subseteq exch'[d.oid].trades
<1>1. \A o \in Orders : exch[o].px \in Nat /\ exch'[o].px \in Nat
  BY ConstantsAssumption DEF Exchange, Px
<1>2. (\A r \in Row : r.oid \in Orders /\ r.px \in Nat) /\
      (\A d \in Detail : d.oid \in Orders /\ d.px \in Nat)
  BY ConstantsAssumption DEF Row, Detail, Px
<1>3. \A r \in Row : HeardRow(r) => r.px <= exch'[r.oid].px
  <2> TAKE r \in Row
  <2> HAVE HeardRow(r)
  <2> DEFINE a == exch[r.oid].px
             b == exch'[r.oid].px
  <2>1. r.px \in Nat /\ a \in Nat /\ b \in Nat /\ r.px <= a /\ a <= b
    BY <1>1, <1>2 DEF Grows, HeardRow
  <2> HIDE DEF a, b
  <2>2. r.px <= b
    BY <2>1
  <2> QED BY <2>2 DEF b
<1>4. \A d \in Detail : Heard(d) => d.px <= exch'[d.oid].px
  <2> TAKE d \in Detail
  <2> HAVE Heard(d)
  <2> DEFINE a == exch[d.oid].px
             b == exch'[d.oid].px
  <2>1. d.px \in Nat /\ a \in Nat /\ b \in Nat /\ d.px <= a /\ a <= b
    BY <1>1, <1>2 DEF Grows, HeardRow, Heard
  <2> HIDE DEF a, b
  <2>2. d.px <= b
    BY <2>1
  <2> QED BY <2>2 DEF b
<1> QED BY <1>2, <1>3, <1>4 DEF Grows, HeardRow, Heard

LEMMA MovesHeard ==
  ASSUME TypeInv, HeardInv, NEW o \in Orders, NEW st \in Status,
         NEW new \in SUBSET Trades, NEW px \in Px, exch[o].px <= px,
         Moves(o, st, new, px)
  PROVE  ExchangeSound' /\ QueueHeard' /\ Grows
<1>1. /\ exch \in [Orders -> Exchange] /\ exch' \in [Orders -> Exchange]
      /\ wsq \in Seq(Detail) /\ wsq' \in Seq(Detail)
  BY MovesType DEF TypeInv, TypeOK
<1>2. /\ exch'[o] = [st |-> st, past |-> exch[o].past \cup {st},
                     trades |-> exch[o].trades \cup new, px |-> px]
      /\ \A p \in Orders \ {o} : exch'[p] = exch[p]
  BY <1>1 DEF Moves
<1>3. Grows
  <2> SUFFICES ASSUME NEW p \in Orders
               PROVE  /\ exch[p].past \subseteq exch'[p].past
                      /\ exch[p].trades \subseteq exch'[p].trades
                      /\ exch[p].px <= exch'[p].px
    BY DEF Grows
  <2>1. CASE p = o
    BY <1>2, <2>1
  <2>2. CASE p # o
    <3>1. exch'[p] = exch[p] /\ exch[p].px \in Nat
      BY <1>1, <1>2, <2>2, ConstantsAssumption DEF Exchange, Px
    <3> QED BY <3>1
  <2> QED BY <2>1, <2>2
<1>4. ExchangeSound'
  <2>1. st # "none"
    BY ConstantsAssumption DEF Status, Working
  <2> QED BY <1>2, <2>1 DEF HeardInv, ExchangeSound
<1>5. QueueHeard'
  <2> DEFINE det == [oid |-> o, st |-> st, px |-> px,
                     trades |-> IF o \in WsTraded THEN new ELSE {}]
  <2>1. wsq' = wsq \/ wsq' = Append(wsq, det)
    BY DEF Moves, Streamed
  <2>2. det \in Detail
    BY DEF Detail
  <2>3. /\ det.st \in exch'[det.oid].past /\ det.px <= exch'[det.oid].px
        /\ det.trades \subseteq exch'[det.oid].trades
    BY <1>2, ConstantsAssumption DEF Px
  <2>4. \A i \in 1..Len(wsq) : wsq[i] \in Detail /\ Heard(wsq[i])
    BY <1>1 DEF HeardInv, QueueHeard
  <2> HIDE DEF det
  <2>5. \A i \in 1..Len(wsq') : wsq'[i] = det \/ (wsq'[i] \in Detail /\ Heard(wsq'[i]))
    BY <1>1, <2>1, <2>2, <2>4
  <2>6. \A i \in 1..Len(wsq') : /\ wsq'[i].st \in exch'[wsq'[i].oid].past
                                 /\ wsq'[i].px <= exch'[wsq'[i].oid].px
                                 /\ wsq'[i].trades \subseteq exch'[wsq'[i].oid].trades
    BY <1>1, <1>3, <2>3, <2>5, GrowsHeard
  <2> QED BY <2>6 DEF QueueHeard, Heard, HeardRow
<1> QED BY <1>3, <1>4, <1>5

\* A step of the exchange leaves true what was said before.
LEMMA ExchangeKeepsHeard ==
  ASSUME TypeInv, TypeInv', HeardInv, ExchangeSound', QueueHeard', Grows,
         UNCHANGED <<job, rows, dbTrades, told>>,
         \A s \in Sessions : fix'[s] # Idle => fix[s] # Idle /\ fix'[s].row = fix[s].row
  PROVE  HeardInv'
<1>1. exch \in [Orders -> Exchange] /\ exch' \in [Orders -> Exchange]
  BY DEF TypeInv, TypeOK
<1>2. JobsHeard'
  <2> SUFFICES ASSUME NEW w \in Workers, job[w] # Idle
               PROVE  (Heard(job[w].det) /\ (job[w].row # NoRow =>
                         HeardRow(job[w].row) /\ job[w].row.oid = job[w].det.oid))'
    BY DEF JobsHeard
  <2>1. job[w].det \in Detail /\ (job[w].row # NoRow => job[w].row \in Row)
    BY DEF TypeInv, TypeOK, Job
  <2>2. Heard(job[w].det) /\ (job[w].row # NoRow =>
          HeardRow(job[w].row) /\ job[w].row.oid = job[w].det.oid)
    BY DEF HeardInv, JobsHeard
  <2> QED BY <1>1, <2>1, <2>2, GrowsHeard DEF Heard, HeardRow
<1>3. CancelsHeard'
  <2> SUFFICES ASSUME NEW s \in Sessions, fix'[s] # Idle
               PROVE  HeardRow(fix[s].row)'
    BY DEF CancelsHeard
  <2>1. fix'[s].row = fix[s].row /\ fix[s].row \in Row /\ HeardRow(fix[s].row)
    BY DEF TypeInv, TypeOK, CancelJob, HeardInv, CancelsHeard
  <2> QED BY <1>1, <2>1, GrowsHeard DEF HeardRow
<1>4. NothingInvented'
  <2>1. \A r \in rows : r.st \in exch'[r.oid].past /\ r.px <= exch'[r.oid].px
    BY <1>1, GrowsHeard DEF TypeInv, TypeOK, HeardInv, NothingInvented, HeardRow
  <2>2. \A o \in Orders : dbTrades[o] \subseteq exch'[o].trades
    BY DEF HeardInv, NothingInvented, Grows
  <2>3. \A o \in Orders : told[o] \subseteq {ToOrdStatus(st) : st \in exch'[o].past}
    BY DEF HeardInv, NothingInvented, Grows
  <2> QED BY <2>1, <2>2, <2>3 DEF NothingInvented
<1> QED BY <1>2, <1>3, <1>4 DEF HeardInv

\* A step of the gateway that writes nothing.
LEMMA QuietHeard ==
  ASSUME HeardInv, UNCHANGED <<exch, rows, dbTrades, told>>, QueueHeard', JobsHeard', CancelsHeard'
  PROVE  HeardInv'
  BY DEF HeardInv, ExchangeSound, NothingInvented

LEMMA StillHeard ==
  ASSUME HeardInv, UNCHANGED exch
  PROVE  /\ UNCHANGED wsq => QueueHeard'
         /\ UNCHANGED job => JobsHeard'
         /\ UNCHANGED fix => CancelsHeard'
<1>1. UNCHANGED wsq => QueueHeard'
  BY DEF HeardInv, QueueHeard, Heard, HeardRow
<1>2. UNCHANGED job => JobsHeard'
  BY DEF HeardInv, JobsHeard, Heard, HeardRow
<1>3. UNCHANGED fix => CancelsHeard'
  BY DEF HeardInv, CancelsHeard, HeardRow
<1> QED BY <1>1, <1>2, <1>3

LEMMA CrashHeard == ASSUME TypeInv, HeardInv, Crash PROVE HeardInv'
<1>1. UNCHANGED <<exch, rows, dbTrades, told>>
  BY DEF Crash, tables
<1>2. QueueHeard'
  BY DEF Crash, QueueHeard
<1>3. JobsHeard' /\ CancelsHeard'
  BY DEF Crash, JobsHeard, CancelsHeard
<1> QED BY <1>1, <1>2, <1>3, QuietHeard

LEMMA ReadHeard ==
  ASSUME TypeInv, HeardInv, NEW w \in Workers, NEW det \in Detail, Heard(det), NEW pc,
         Handles(w, det, GetOrderByOrderID(det.oid), pc), UNCHANGED exch
  PROVE  JobsHeard'
<1> DEFINE row == GetOrderByOrderID(det.oid)
<1>1. row # NoRow => HeardRow(row) /\ row.oid = det.oid
  BY ReadType DEF TypeInv, TypeOK, HeardInv, NothingInvented, HeardRow
<1>2. /\ job'[w] = Idle \/ (job'[w].row \in {row, NoRow} /\ job'[w].det = det)
      /\ \A v \in Workers \ {w} : job'[v] = job[v]
  BY DEF Handles, Becomes, TypeInv, TypeOK
<1> HIDE DEF row
<1> QED BY <1>1, <1>2 DEF HeardInv, JobsHeard, Heard, HeardRow

LEMMA GotoHeard ==
  ASSUME TypeInv, HeardInv, NEW w \in Workers, job[w] # Idle, NEW pc,
         Goto(w, pc) \/ GotoReport(w, pc) \/ Becomes(w, Idle), UNCHANGED exch
  PROVE  JobsHeard'
<1>1. /\ \/ job'[w] = Idle
         \/ job'[w].row \in {job[w].row, NoRow} /\ job'[w].det = job[w].det
      /\ \A v \in Workers \ {w} : job'[v] = job[v]
  BY JobStep
<1> QED BY <1>1 DEF HeardInv, JobsHeard, Heard, HeardRow

\* A row put together from heard ones is heard.
LEMMA WriteHeard ==
  ASSUME HeardInv, NEW row \in Row, HeardRow(row), UpdateOrder(row),
         UNCHANGED <<exch, dbTrades, told>>
  PROVE  NothingInvented' /\ ExchangeSound'
  BY DEF HeardInv, HeardRow, NothingInvented, UpdateOrder, ExchangeSound

LEMMA HeardStep == TypeInv /\ TypeInv' /\ HeardInv /\ [Next]_vars => HeardInv'
<1> SUFFICES ASSUME TypeInv, TypeInv', HeardInv, [Next]_vars PROVE HeardInv'
  OBVIOUS
<1> USE DEF external, routing, tables, history
<1>px. \A o \in Orders : exch[o].px \in Px /\ exch[o].px \in Nat
  BY ConstantsAssumption DEF TypeInv, TypeOK, Exchange, Px
<1>0. ASSUME NEW o \in Orders, Opens(o) PROVE ExchangeSound' /\ QueueHeard' /\ Grows
  <2>1. "NEW" \in Status /\ {} \in SUBSET Trades /\ 0 \in Px
    BY ConstantsAssumption DEF Status, Working, Px
  <2>2. exch[o].px <= 0 /\ Moves(o, "NEW", {}, 0)
    BY <1>0 DEF Opens, HeardInv, ExchangeSound
  <2> QED BY <2>1, <2>2, MovesHeard
<1>1. CASE ExchangeNext
  <2>1. ASSUME NEW o \in Orders, ExchangeOpen(o) PROVE HeardInv'
    BY <2>1, <1>0, ExchangeKeepsHeard DEF ExchangeOpen
  <2>2. ASSUME NEW o \in Orders, NEW t \in Trades, NEW st \in Fills, ExchangeFill(o, t, st)
        PROVE  HeardInv'
    <3>1. st \in Status /\ {t} \in SUBSET Trades /\ exch[o].px <= exch[o].px
      BY <1>px DEF Fills, Status, Working
    <3>2. Moves(o, st, {t}, exch[o].px)
      BY <2>2 DEF ExchangeFill
    <3>3. ExchangeSound' /\ QueueHeard' /\ Grows
      BY <1>px, <3>1, <3>2, MovesHeard
    <3> QED BY <2>2, <3>3, ExchangeKeepsHeard DEF ExchangeFill
  <2>3. ASSUME NEW o \in Orders, NEW st \in Ends, ExchangeEnd(o, st) PROVE HeardInv'
    <3>1. st \in Status /\ {} \in SUBSET Trades /\ exch[o].px <= exch[o].px
      BY <1>px DEF Status
    <3>2. Moves(o, st, {}, exch[o].px)
      BY <2>3 DEF ExchangeEnd
    <3>3. ExchangeSound' /\ QueueHeard' /\ Grows
      BY <1>px, <3>1, <3>2, MovesHeard
    <3> QED BY <2>3, <3>3, ExchangeKeepsHeard DEF ExchangeEnd
  <2> QED BY <1>1, <2>1, <2>2, <2>3 DEF ExchangeNext
<1>2. ASSUME NEW s \in Sessions, OnLogon(s) \/ OnLogout(s) \/ OnMarketDataRequest(s)
      PROVE  HeardInv'
  BY <1>2, StillHeard, QuietHeard DEF OnLogon, OnLogout, OnMarketDataRequest
<1>3. ASSUME NEW s \in Sessions, NEW o \in Orders,
             NewOrderSubmit(s, o)
      PROVE  HeardInv'
  <2>1. UNCHANGED <<job, fix, rows, dbTrades, told>>
    BY <1>3 DEF NewOrderSubmit
  <2>2. CASE UNCHANGED external
    BY <2>1, <2>2, StillHeard, QuietHeard
  <2>3. CASE Opens(o)
    BY <2>1, <2>3, <1>0, ExchangeKeepsHeard
  <2> QED BY <1>3, <2>2, <2>3 DEF NewOrderSubmit
<1>4. ASSUME Crash PROVE HeardInv'
  BY <1>4, CrashHeard
<1>5. ASSUME NEW s \in Sessions, CancelRead(s) PROVE HeardInv'
  <2>1. CancelsHeard'
    BY <1>5 DEF CancelRead, RowsByClOrdID, HeardInv, CancelsHeard, NothingInvented, HeardRow, TypeInv, TypeOK
  <2> QED BY <1>5, <2>1, StillHeard, QuietHeard DEF CancelRead
<1>6. ASSUME NEW s \in Sessions, CancelSend(s) PROVE HeardInv'
  <2>1. fix[s] \in CancelJob /\ fix[s].row \in Row
    BY <1>6 DEF CancelSend, TypeInv, TypeOK, CancelJob
  <2>2. /\ UNCHANGED <<job, rows, dbTrades, told>>
        /\ \A t \in Sessions : fix'[t] # Idle => fix[t] # Idle /\ fix'[t].row = fix[t].row
    BY <1>6, <2>1 DEF CancelSend, CancelJob, TypeInv, TypeOK
  <2> DEFINE o == fix[s].row.oid
  <2>3. o \in Orders /\ "CANCELLED" \in Status /\ {} \in SUBSET Trades
    BY <2>1, ConstantsAssumption DEF Row, Status
  <2>4. CASE Moves(o, "CANCELLED", {}, exch[o].px)
    <3>1. exch[o].px \in Px /\ exch[o].px <= exch[o].px
      BY <1>px, <2>3
    <3> HIDE DEF o
    <3>2. ExchangeSound' /\ QueueHeard' /\ Grows
      BY <2>3, <2>4, <3>1, MovesHeard
    <3> QED BY <2>2, <3>2, ExchangeKeepsHeard
  <2>5. CASE UNCHANGED external
    <3>1. CancelsHeard'
      BY <2>2, <2>5 DEF HeardInv, CancelsHeard, HeardRow
    <3> QED BY <2>2, <2>5, <3>1, StillHeard, QuietHeard
  <2> QED BY <1>6, <2>4, <2>5 DEF CancelSend
<1>7. ASSUME NEW s \in Sessions, CancelWriteBack(s) PROVE HeardInv'
  <2>1. fix[s].row \in Row /\ HeardRow(fix[s].row)
    BY <1>7 DEF CancelWriteBack, CancelJob, TypeInv, TypeOK, HeardInv, CancelsHeard
  <2>2. NothingInvented' /\ ExchangeSound'
    <3>1. CASE UpdateOrder(fix[s].row)
      BY <1>7, <2>1, <3>1, WriteHeard DEF CancelWriteBack
    <3>2. CASE UNCHANGED rows
      BY <1>7, <3>2 DEF CancelWriteBack, HeardInv, NothingInvented, ExchangeSound
    <3> QED BY <1>7, <3>1, <3>2 DEF CancelWriteBack
  <2>3. CancelsHeard'
    BY <1>7 DEF CancelWriteBack, HeardInv, CancelsHeard, HeardRow, TypeInv, TypeOK
  <2> QED BY <1>7, <2>2, <2>3, StillHeard DEF CancelWriteBack, HeardInv
<1>8. ASSUME NEW s \in Sessions, OnOrderCancelReplaceRequest(s) PROVE HeardInv'
  <2> PICK row \in rows :
         /\ Live(row.oid) /\ exch[row.oid].px < MaxPx
         /\ Moves(row.oid, exch[row.oid].st, {}, exch[row.oid].px + 1)
    BY <1>8 DEF OnOrderCancelReplaceRequest, RowsByClOrdID
  <2> DEFINE o == row.oid
  <2>1. o \in Orders /\ {} \in SUBSET Trades
    BY DEF TypeInv, TypeOK, Row
  <2>2. exch[o].st \in Status /\ exch[o].px + 1 \in Px /\ exch[o].px <= exch[o].px + 1
    BY <1>px, <2>1, ConstantsAssumption DEF Live, Px, Status, TypeInv, TypeOK, Exchange
  <2>3. Moves(o, exch[o].st, {}, exch[o].px + 1)
    OBVIOUS
  <2> HIDE DEF o
  <2>4. ExchangeSound' /\ QueueHeard' /\ Grows
    BY <2>1, <2>2, <2>3, MovesHeard
  <2> QED BY <1>8, <2>4, ExchangeKeepsHeard DEF OnOrderCancelReplaceRequest
<1>9. CASE WsReceive
  <2> DEFINE det == Head(wsq)
             row == GetOrderByOrderID(det.oid)
  <2>1. det \in Detail /\ Heard(det)
    BY <1>9 DEF WsReceive, TypeInv, TypeOK, HeardInv, QueueHeard
  <2>2. QueueHeard'
    <3>1. wsq \in Seq(Detail) /\ wsq # <<>> /\ wsq' = Tail(wsq) /\ exch' = exch
      BY <1>9 DEF WsReceive, TypeInv, TypeOK
    <3>2. \A i \in 1..Len(wsq') : i + 1 \in 1..Len(wsq) /\ wsq'[i] = wsq[i + 1]
      BY <3>1
    <3> QED BY <3>1, <3>2 DEF HeardInv, QueueHeard, Heard, HeardRow
  <2>3. JobsHeard'
    <3>1. CASE sessions = {}
      BY <1>9, <3>1, StillHeard DEF WsReceive
    <3>2. CASE sessions # {}
      <4>1. Handles("ws", det, row, WsBranch(det, row)) /\ UNCHANGED exch
        BY <1>9, <3>2 DEF WsReceive
      <4> HIDE DEF det
      <4> QED BY <2>1, <4>1, ReadHeard DEF Workers
    <3> QED BY <3>1, <3>2
  <2> QED BY <1>9, <2>2, <2>3, StillHeard, QuietHeard DEF WsReceive
<1>10. CASE PollStart \/ PollDone \/ \E o \in Orders : PollInfoFails(o)
  BY <1>10, StillHeard, QuietHeard DEF PollStart, PollDone, PollInfoFails
<1>11. ASSUME NEW o \in Orders, PollInfo(o) PROVE HeardInv'
  <2> DEFINE det == [oid |-> o, st |-> exch[o].st, px |-> exch[o].px,
                     trades |-> IF o \in RestTraded THEN exch[o].trades ELSE {}]
  <2>1. Heard(det)
    BY <1>11, <1>px DEF PollInfo, TypeInv, HeardInv, ExchangeSound, Heard, HeardRow
  <2>2. /\ job'["poll"].row = NoRow /\ job'["poll"].det = det
        /\ \A w \in Workers \ {"poll"} : job'[w] = job[w]
    BY <1>11 DEF PollInfo, Becomes, Workers, TypeInv, TypeOK
  <2> HIDE DEF det
  <2>3. JobsHeard'
    BY <1>11, <2>1, <2>2 DEF PollInfo, HeardInv, JobsHeard, Heard, HeardRow
  <2> QED BY <1>11, <2>3, StillHeard, QuietHeard DEF PollInfo
<1>12. CASE PollRead
  <2> DEFINE det == job["poll"].det
             row == GetOrderByOrderID(det.oid)
             pc  == PollBranch(det, row, dbTrades[det.oid])
  <2>1. det \in Detail /\ Heard(det)
    BY <1>12 DEF PollRead, At, Workers, Job, TypeInv, TypeOK, HeardInv, JobsHeard
  <2>2. Handles("poll", det, row, pc) /\ UNCHANGED exch
    BY <1>12 DEF PollRead
  <2> HIDE DEF det
  <2>3. JobsHeard'
    BY <2>1, <2>2, ReadHeard DEF Workers
  <2> QED BY <1>12, <2>3, StillHeard, QuietHeard DEF PollRead
<1>13. ASSUME NEW w \in Workers, StoreTrades(w) PROVE HeardInv'
  <2>1. job[w] # Idle /\ job[w] \in Job /\ Heard(job[w].det)
    BY <1>13, StoreTradesSteps DEF TypeInv, TypeOK, HeardInv, JobsHeard
  <2>0. UNCHANGED <<exch, wsq, rows, fix, told>>
    BY <1>13, StoreTradesSteps
  <2>2. JobsHeard'
    BY <1>13, <2>0, <2>1, StoreTradesSteps, GotoHeard
  <2>3. NothingInvented'
    <3>1. PICK stored \in SUBSET job[w].det.trades :
             UpdateOrCreateTrades(job[w].det.oid, stored)
      BY <1>13, StoreTradesSteps
    <3> QED BY <2>0, <2>1, <3>1 DEF UpdateOrCreateTrades, HeardInv, NothingInvented, Heard,
                                    Job, Detail, TypeInv, TypeOK
  <2>4. ExchangeSound'
    BY <2>0 DEF HeardInv, ExchangeSound
  <2> QED BY <2>0, <2>2, <2>3, <2>4, StillHeard DEF HeardInv
<1>13a. ASSUME NEW w \in Workers, StoreFails(w) PROVE HeardInv'
  <2>1. JobsHeard'
    BY <1>13a, GotoHeard DEF StoreFails, At
  <2> QED BY <1>13a, <2>1, StillHeard, QuietHeard DEF StoreFails
<1>14. ASSUME NEW w \in Workers, StoreNew(w) PROVE HeardInv'
  <2>1. job[w] # Idle /\ job[w] \in Job /\ Heard(job[w].det)
    BY <1>14 DEF StoreNew, At, TypeInv, TypeOK, HeardInv, JobsHeard
  <2>2. JobsHeard'
    BY <1>14, <2>1, GotoHeard DEF StoreNew
  <2>3. HeardRow(NewRow(job[w].det))
    BY <2>1 DEF Heard, HeardRow, NewRow
  <2>4. NothingInvented'
    BY <1>14, <2>3 DEF StoreNew, CreateOrder, HeardInv, NothingInvented, HeardRow
  <2>5. ExchangeSound'
    BY <1>14 DEF StoreNew, HeardInv, ExchangeSound
  <2> QED BY <1>14, <2>2, <2>4, <2>5, StillHeard DEF StoreNew, HeardInv
<1>15. ASSUME NEW w \in Workers, StoreTraded(w) \/ StorePlain(w) PROVE HeardInv'
  <2>1. /\ job[w] # Idle /\ job[w] \in Job /\ job[w].row \in Row /\ job[w].row # NoRow
        /\ UNCHANGED <<external, fix, dbTrades, told>>
    BY <1>15, ConstantsAssumption DEF StoreTraded, StorePlain, At, HasRow, TypeInv, TypeOK
  <2>2. Heard(job[w].det) /\ HeardRow(job[w].row) /\ job[w].row.oid = job[w].det.oid
    BY <2>1 DEF HeardInv, JobsHeard
  <2> DEFINE old == job[w].row
             det == job[w].det
             r1 == [old EXCEPT !.st = det.st]
             r2 == [old EXCEPT !.st = det.st, !.px = det.px]
  <2>3. r1 \in Row /\ r2 \in Row
    BY <2>1 DEF Row, Job, Detail
  <2>4. HeardRow(r1) /\ HeardRow(r2)
    BY <2>1, <2>2 DEF Heard, HeardRow, Row
  <2>5. UpdateOrder(r1) \/ UpdateOrder(r2)
    BY <1>15 DEF StoreTraded, StorePlain
  <2> HIDE DEF r1, r2
  <2>6. NothingInvented' /\ ExchangeSound'
    BY <2>1, <2>3, <2>4, <2>5, WriteHeard
  <2>7. \E pc : Goto(w, pc) \/ GotoReport(w, pc) \/ Becomes(w, Idle)
    BY <1>15 DEF StoreTraded, StorePlain
  <2>8. JobsHeard'
    BY <2>1, <2>7, GotoHeard
  <2> QED BY <2>1, <2>6, <2>8, StillHeard DEF HeardInv
<1>16. CASE WsReread
  <2>1. job["ws"] # Idle /\ UNCHANGED exch /\ (GotoReport("ws", "report") \/ Becomes("ws", Idle))
    BY <1>16 DEF WsReread, At
  <2>2. JobsHeard'
    BY <2>1, GotoHeard DEF Workers
  <2> QED BY <1>16, <2>2, StillHeard, QuietHeard DEF WsReread
<1>17. ASSUME NEW w \in Workers, Report(w) PROVE HeardInv'
  <2>1. /\ job[w] # Idle /\ job[w] \in Job /\ Heard(job[w].det)
        /\ UNCHANGED <<external, fix, rows, dbTrades>>
    BY <1>17 DEF Report, Reporting, TypeInv, TypeOK, HeardInv, JobsHeard
  <2>2. JobsHeard'
    BY <1>17, <2>1, GotoHeard DEF Report
  <2>3. \A o \in Orders : told'[o] \subseteq {ToOrdStatus(st) : st \in exch[o].past}
    <3> DEFINE p == job[w].det.oid
               st0 == job[w].det.st
    <3>1. p \in Orders /\ st0 \in exch[p].past
      BY <2>1 DEF Heard, HeardRow, Job, Detail
    <3>2. told' = told \/ told' = [told EXCEPT ![p] = told[p] \cup {ToOrdStatus(st0)}]
      BY <1>17 DEF Report, SendReport
    <3>3. told \in [Orders -> SUBSET OrdStatus]
      BY DEF TypeInv, TypeOK
    <3>4. \A o \in Orders : told[o] \subseteq {ToOrdStatus(st) : st \in exch[o].past}
      BY DEF HeardInv, NothingInvented
    <3> HIDE DEF p, st0
    <3> QED BY <3>1, <3>2, <3>3, <3>4
  <2>4. NothingInvented' /\ ExchangeSound'
    BY <2>1, <2>3 DEF HeardInv, NothingInvented, ExchangeSound
  <2> QED BY <2>1, <2>2, <2>4, StillHeard DEF HeardInv
<1>18. CASE UNCHANGED vars
  BY <1>18, StillHeard, QuietHeard DEF vars
<1> QED
  BY <1>1, <1>2, <1>3, <1>4, <1>5, <1>6, <1>7, <1>8, <1>9, <1>10, <1>11, <1>12, <1>13,
     <1>13a, <1>14, <1>15, <1>16, <1>17, <1>18
  DEF Next, SessionNext, PollNext, WorkerNext, Killed, SessionMapRace,
      NewOrderUnknownExchange, ReportWithoutTrades

\* Whatever order the receiver, the poller and the cancel handlers write in, the
\* database and the reports hold nothing the exchange has not said.
THEOREM NothingInventedAlways == Spec => []NothingInvented
<1>1. Init => TypeInv /\ HeardInv
  BY TypeInit, HeardInit
<1>2. TypeInv /\ HeardInv /\ [Next]_vars => (TypeInv /\ HeardInv)'
  BY TypeStep, HeardStep
<1>3. HeardInv => NothingInvented
  BY DEF HeardInv
<1> QED BY <1>1, <1>2, <1>3, PTL DEF Spec

-----------------------------------------------------------------------------
(***************************************************************************)
(* Every status in the table is announced                                  *)
(***************************************************************************)

\* Announced for a status of an order, whichever row it stands in.
Told(o, ost) == o \in lost \/ ost \in told[o] \/ Pending(o, ost)

\* Rows that have been read may be written back, so they too are announced.
AnnInv ==
  /\ RowsAnnounced
  /\ \A w \in Workers : job[w] # Idle /\ job[w].row # NoRow => Announced(job[w].row)
  /\ \A s \in Sessions : fix[s] # Idle => Announced(fix[s].row)

LEMMA AnnInit == Init => AnnInv
  BY DEF Init, AnnInv, RowsAnnounced

\* A step that sends and loses nothing, and disturbs no job about to report.
LEMMA ToldQuiet ==
  ASSUME UNCHANGED <<told, lost>>,
         \A w \in Workers : Reporting(w) => job'[w] = job[w],
         NEW o, NEW ost, Told(o, ost)
  PROVE  Told(o, ost)'
  BY DEF Told, Pending, Reporting

LEMMA ToldCrash ==
  ASSUME Crash, NEW o, NEW ost, Told(o, ost)
  PROVE  Told(o, ost)'
  BY DEF Crash, Told, Pending

LEMMA ToldReport ==
  ASSUME TypeInv, NEW w \in Workers, Report(w), NEW o \in Orders, NEW ost, Told(o, ost)
  PROVE  Told(o, ost)'
<1> DEFINE p == job[w].det.oid
           x == ToOrdStatus(job[w].det.st)
<1>1. job[w] \in Job /\ p \in Orders
  BY DEF Report, Reporting, Job, Detail, TypeInv, TypeOK
<1>2. \/ lost' = lost \cup {p} /\ told' = told
      \/ lost' = lost /\ told' = [told EXCEPT ![p] = told[p] \cup {x}]
  BY DEF Report, SendReport
<1>3. \A v \in Workers \ {w} : job'[v] = job[v]
  BY DEF Report, Becomes, TypeInv, TypeOK
<1>4. told \in [Orders -> SUBSET OrdStatus]
  BY DEF TypeInv, TypeOK
<1>5. CASE o \in lost
  BY <1>2, <1>5 DEF Told
<1>6. CASE ost \in told[o]
  BY <1>2, <1>4, <1>6 DEF Told
<1>7. ASSUME NEW v \in Workers, Reporting(v), job[v].det.oid = o,
             ToOrdStatus(job[v].det.st) = ost
      PROVE  Told(o, ost)'
  <2>1. CASE v = w
    BY <1>1, <1>2, <1>4, <1>7, <2>1 DEF Told
  <2>2. CASE v # w
    BY <1>3, <1>7, <2>2 DEF Told, Pending, Reporting
  <2> QED BY <2>1, <2>2
<1> QED BY <1>5, <1>6, <1>7 DEF Told, Pending

\* Once announced, always announced.
LEMMA ToldStays ==
  ASSUME TypeInv, [Next]_vars, NEW o \in Orders, NEW ost, Told(o, ost)
  PROVE  Told(o, ost)'
<1> USE DEF external, routing, tables, history
<1>1. CASE ExchangeNext
  BY <1>1, ToldQuiet DEF ExchangeNext, ExchangeOpen, ExchangeFill, ExchangeEnd
<1>2. ASSUME NEW s \in Sessions,
             \/ OnLogon(s) \/ OnLogout(s) \/ OnMarketDataRequest(s)
             \/ OnOrderCancelReplaceRequest(s)
             \/ CancelRead(s) \/ CancelSend(s) \/ CancelWriteBack(s)
      PROVE  Told(o, ost)'
  BY <1>2, ToldQuiet DEF OnLogon, OnLogout, OnMarketDataRequest,
     OnOrderCancelReplaceRequest, CancelRead, CancelSend, CancelWriteBack
<1>3. ASSUME NEW s \in Sessions, NEW p \in Orders,
             NewOrderSubmit(s, p)
      PROVE  Told(o, ost)'
  BY <1>3, ToldQuiet DEF NewOrderSubmit
<1>4. ASSUME Crash PROVE Told(o, ost)'
  BY <1>4, ToldCrash
<1>5. CASE WsReceive
  BY <1>5, ToldQuiet DEF WsReceive, Handles, Becomes, Reporting, TypeInv, TypeOK
<1>6. CASE PollStart \/ PollDone \/ \E p \in Orders : PollInfoFails(p)
  BY <1>6, ToldQuiet DEF PollStart, PollDone, PollInfoFails
<1>7. ASSUME NEW p \in Orders, PollInfo(p) PROVE Told(o, ost)'
  BY <1>7, ToldQuiet DEF PollInfo, Becomes, Reporting, TypeInv, TypeOK
<1>8. CASE PollRead
  BY <1>8, ToldQuiet DEF PollRead, At, Handles, Becomes, Reporting, TypeInv, TypeOK
<1>9. ASSUME NEW w \in Workers, StoreTrades(w) PROVE Told(o, ost)'
  BY <1>9, StoreTradesSteps, ToldQuiet DEF Goto, Becomes, Reporting, TypeInv, TypeOK
<1>9a. ASSUME NEW w \in Workers, StoreFails(w) PROVE Told(o, ost)'
  BY <1>9a, ToldQuiet DEF StoreFails, At, Becomes, Reporting, TypeInv, TypeOK
<1>10. ASSUME NEW w \in Workers, StoreNew(w) PROVE Told(o, ost)'
  BY <1>10, ToldQuiet DEF StoreNew, At, Goto, GotoReport, Becomes, Reporting, TypeInv,
     TypeOK
<1>11. ASSUME NEW w \in Workers, StoreTraded(w) PROVE Told(o, ost)'
  BY <1>11, ToldQuiet DEF StoreTraded, At, Goto, GotoReport, Becomes, Reporting, TypeInv,
     TypeOK
<1>12. ASSUME NEW w \in Workers, StorePlain(w) PROVE Told(o, ost)'
  BY <1>12, ToldQuiet DEF StorePlain, At, Goto, GotoReport, Becomes, Reporting, TypeInv,
     TypeOK
<1>13. CASE WsReread
  BY <1>13, ToldQuiet DEF WsReread, At, Goto, GotoReport, Becomes, Reporting, TypeInv,
     TypeOK
<1>14. ASSUME NEW w \in Workers, Report(w) PROVE Told(o, ost)'
  BY <1>14, ToldReport
<1>15. CASE UNCHANGED vars
  BY <1>15, ToldQuiet DEF vars
<1> QED
  BY <1>1, <1>2, <1>3, <1>4, <1>5, <1>6, <1>7, <1>8, <1>9, <1>9a, <1>10, <1>11,
     <1>12, <1>13, <1>14, <1>15
  DEF Next, SessionNext, PollNext, WorkerNext, Killed, SessionMapRace,
      NewOrderUnknownExchange, ReportWithoutTrades

LEMMA AnnKept ==
  ASSUME TypeInv, TypeInv', AnnInv, [Next]_vars,
         \A r \in rows' : r \in rows \/ Told(r.oid, ToOrdStatus(r.st))',
         \A w \in Workers : job'[w] # Idle /\ job'[w].row # NoRow =>
           job'[w].row \in rows \/ (job[w] # Idle /\ job'[w].row = job[w].row),
         \A s \in Sessions : fix'[s] # Idle =>
           fix'[s].row \in rows \/ (fix[s] # Idle /\ fix'[s].row = fix[s].row)
  PROVE  AnnInv'
<1>1. \A r \in Row : Announced(r) => Told(r.oid, ToOrdStatus(r.st))'
  <2> TAKE r \in Row
  <2> HAVE Announced(r)
  <2>1. r.oid \in Orders
    BY DEF Row
  <2>2. Told(r.oid, ToOrdStatus(r.st))
    BY DEF Announced, Told
  <2> QED BY <2>1, <2>2, ToldStays
<1>2. \A r \in rows' : Told(r.oid, ToOrdStatus(r.st))'
  BY <1>1 DEF AnnInv, RowsAnnounced, TypeInv, TypeOK
<1>3. RowsAnnounced'
  BY <1>2 DEF RowsAnnounced, Announced, Told
<1>4. (\A w \in Workers : job[w] # Idle /\ job[w].row # NoRow => Announced(job[w].row))'
  <2> SUFFICES ASSUME NEW w \in Workers, job'[w] # Idle, job'[w].row # NoRow
               PROVE  Announced(job[w].row)'
    OBVIOUS
  <2> DEFINE r == job'[w].row
  <2>1. r \in Row
    BY DEF TypeInv, TypeOK, Job
  <2>2. Announced(r)
    BY DEF AnnInv, RowsAnnounced
  <2>3. \E q \in Row : q = r /\ Told(q.oid, ToOrdStatus(q.st))'
    BY <1>1, <2>1, <2>2
  <2> QED BY <2>3 DEF Announced, Told
<1>5. (\A s \in Sessions : fix[s] # Idle => Announced(fix[s].row))'
  <2> SUFFICES ASSUME NEW s \in Sessions, fix'[s] # Idle
               PROVE  Announced(fix[s].row)'
    OBVIOUS
  <2> DEFINE r == fix'[s].row
  <2>1. r \in Row
    BY DEF TypeInv, TypeOK, CancelJob
  <2>2. Announced(r)
    BY DEF AnnInv, RowsAnnounced
  <2>3. \E q \in Row : q = r /\ Told(q.oid, ToOrdStatus(q.st))'
    BY <1>1, <2>1, <2>2
  <2> QED BY <2>3 DEF Announced, Told
<1> QED BY <1>3, <1>4, <1>5 DEF AnnInv

\* A job on its way to its report announces what it wrote.
LEMMA AboutToReport ==
  ASSUME TypeInv, NEW w \in Workers, job[w] # Idle, NEW pc \in {"report", "reportNew"},
         GotoReport(w, pc), Idle \notin Job,
         NEW o, NEW st, o = job[w].det.oid, st = job[w].det.st
  PROVE  Told(o, ToOrdStatus(st))'
<1>1. job[w] \in Job
  BY DEF TypeInv, TypeOK
<1>2. job'[w].pc = pc /\ job'[w].det = job[w].det /\ job'[w] \in Job
  BY <1>1 DEF GotoReport, Becomes, TypeInv, TypeOK, Job
<1>3. job'[w] # Idle
  BY <1>2
<1> QED BY <1>2, <1>3 DEF Told, Pending, Reporting

LEMMA AnnStep == TypeInv /\ TypeInv' /\ HeardInv /\ AnnInv /\ [Next]_vars => AnnInv'
<1> SUFFICES ASSUME TypeInv, TypeInv', HeardInv, AnnInv, [Next]_vars PROVE AnnInv'
  OBVIOUS
<1> USE DEF external, routing, tables, history
<1>1. CASE UNCHANGED <<rows, job, fix>>
  BY <1>1, AnnKept
<1>2. ASSUME Crash PROVE AnnInv'
  BY <1>2, AnnKept DEF Crash
<1>3. ASSUME NEW s \in Sessions, CancelRead(s) PROVE AnnInv'
  <2>1. \A t \in Sessions : fix'[t] = fix[t] \/ fix'[t].row \in rows
    BY <1>3 DEF CancelRead, RowsByClOrdID, TypeInv, TypeOK
  <2> QED BY <1>3, <2>1, AnnKept DEF CancelRead
<1>4. ASSUME NEW s \in Sessions, CancelSend(s) PROVE AnnInv'
  <2>1. fix[s] \in CancelJob
    BY <1>4 DEF CancelSend, TypeInv, TypeOK
  <2>2. \A t \in Sessions : fix'[t] = fix[t] \/ (fix[t] # Idle /\ fix'[t].row = fix[t].row)
    BY <1>4, <2>1 DEF CancelSend, CancelJob, TypeInv, TypeOK
  <2> QED BY <1>4, <2>2, AnnKept DEF CancelSend
<1>5. ASSUME NEW s \in Sessions, CancelWriteBack(s) PROVE AnnInv'
  <2> DEFINE row == fix[s].row
  <2>1. row \in Row /\ Announced(row)
    BY <1>5 DEF CancelWriteBack, CancelJob, AnnInv, TypeInv, TypeOK
  <2>2. Told(row.oid, ToOrdStatus(row.st)) /\ row.oid \in Orders
    BY <2>1 DEF Announced, Told, Row
  <2>3. \E q \in Row : q = row /\ Told(q.oid, ToOrdStatus(q.st))'
    <3>1. \A q \in Row : q = row => Told(q.oid, ToOrdStatus(q.st))'
      BY <2>2, ToldStays
    <3> QED BY <2>1, <3>1
  <2>4. \A r \in rows' : r \in rows \/ r = row
    BY <1>5 DEF CancelWriteBack, UpdateOrder
  <2>5. \A t \in Sessions : fix'[t] = fix[t] \/ fix'[t] = Idle
    BY <1>5 DEF CancelWriteBack, TypeInv, TypeOK
  <2> HIDE DEF row
  <2>6. \A r \in rows' : r \in rows \/ Told(r.oid, ToOrdStatus(r.st))'
    BY <2>3, <2>4
  <2> QED BY <1>5, <2>5, <2>6, AnnKept DEF CancelWriteBack
<1>6. ASSUME NEW w \in Workers, NEW det \in Detail, NEW pc,
             Handles(w, det, GetOrderByOrderID(det.oid), pc), UNCHANGED <<rows, fix>>
      PROVE  AnnInv'
  <2> DEFINE row == GetOrderByOrderID(det.oid)
  <2>1. row = NoRow \/ row \in rows
    BY ReadType DEF TypeInv, TypeOK
  <2>2. /\ job'[w] = Idle \/ job'[w].row \in {row, NoRow}
        /\ \A v \in Workers \ {w} : job'[v] = job[v]
    BY <1>6 DEF Handles, Becomes, TypeInv, TypeOK
  <2> HIDE DEF row
  <2> QED BY <1>6, <2>1, <2>2, AnnKept
<1>7. CASE WsReceive
  <2>1. CASE sessions = {}
    BY <1>1, <1>7, <2>1 DEF WsReceive
  <2>2. CASE sessions # {}
    <3>1. Head(wsq) \in Detail
      BY <1>7 DEF WsReceive, TypeInv, TypeOK
    <3> QED BY <1>6, <1>7, <2>2, <3>1 DEF WsReceive, Workers
  <2> QED BY <2>1, <2>2
<1>8. CASE PollRead
  <2>1. job["poll"].det \in Detail
    BY <1>8 DEF PollRead, At, Workers, Job, TypeInv, TypeOK
  <2> QED BY <1>6, <1>8, <2>1 DEF PollRead, Workers
<1>9. ASSUME NEW o \in Orders, PollInfo(o) PROVE AnnInv'
  <2>1. job'["poll"].row = NoRow /\ \A w \in Workers \ {"poll"} : job'[w] = job[w]
    BY <1>9 DEF PollInfo, Becomes, Workers, TypeInv, TypeOK
  <2> QED BY <1>9, <2>1, AnnKept DEF PollInfo
<1>10. ASSUME NEW w \in Workers, job[w] # Idle, NEW pc,
              Goto(w, pc) \/ GotoReport(w, pc) \/ Becomes(w, Idle),
              UNCHANGED fix, \A r \in rows' : r \in rows \/ Told(r.oid, ToOrdStatus(r.st))'
       PROVE  AnnInv'
  <2>1. /\ job'[w] = Idle \/ job'[w].row \in {job[w].row, NoRow}
        /\ \A v \in Workers \ {w} : job'[v] = job[v]
    BY <1>10, JobStep
  <2> QED BY <1>10, <2>1, AnnKept
<1>11. ASSUME NEW w \in Workers, StoreTrades(w) PROVE AnnInv'
  <2>1. job[w] # Idle /\ UNCHANGED <<rows, fix>> /\ (Goto(w, "create") \/ Goto(w, "update"))
    BY <1>11, StoreTradesSteps
  <2> QED BY <1>10, <2>1
<1>11a. ASSUME NEW w \in Workers, StoreFails(w) PROVE AnnInv'
  BY <1>10, <1>11a DEF StoreFails, At
<1>12. ASSUME NEW w \in Workers, StoreNew(w) PROVE AnnInv'
  <2>1. job[w] # Idle /\ UNCHANGED fix
    BY <1>12 DEF StoreNew, At
  <2>2. CASE CanCreate(job[w].det)
    <3>1. rows' = rows \cup {NewRow(job[w].det)} /\ GotoReport(w, "reportNew")
      BY <1>12, <2>2 DEF StoreNew, CreateOrder
    <3>2. \A r \in rows' : r \in rows \/ (r.oid = job[w].det.oid /\ r.st = job[w].det.st)
      BY <3>1 DEF NewRow
    <3>3. \A r \in rows' : r \in rows \/ Told(r.oid, ToOrdStatus(r.st))'
      BY <2>1, <3>1, <3>2, AboutToReport, ConstantsAssumption
    <3> QED BY <1>10, <2>1, <3>1, <3>3
  <2>3. CASE ~CanCreate(job[w].det)
    BY <1>10, <1>12, <2>1, <2>3 DEF StoreNew
  <2> QED BY <2>2, <2>3
<1>13. ASSUME NEW w \in Workers, StoreTraded(w) \/ StorePlain(w) PROVE AnnInv'
  <2> DEFINE old == job[w].row
             det == job[w].det
  <2>1. /\ job[w] # Idle /\ job[w] \in Job /\ old \in Row /\ old # NoRow
        /\ UNCHANGED fix
    BY <1>13, ConstantsAssumption DEF StoreTraded, StorePlain, At, HasRow, TypeInv, TypeOK
  <2>2. old.oid = det.oid /\ Announced(old)
    BY <2>1 DEF HeardInv, JobsHeard, AnnInv
  <2>3. \A r \in rows' : r \in rows \/ (r.oid = det.oid /\ r.st = det.st)
    <3> DEFINE r1 == [old EXCEPT !.st = det.st]
               r2 == [old EXCEPT !.st = det.st, !.px = det.px]
    <3>1. /\ r1.oid = det.oid /\ r1.st = det.st
          /\ r2.oid = det.oid /\ r2.st = det.st
      BY <2>1, <2>2 DEF Row
    <3>2. UpdateOrder(r1) \/ UpdateOrder(r2)
      BY <1>13 DEF StoreTraded, StorePlain
    <3> HIDE DEF r1, r2
    <3> QED BY <3>1, <3>2 DEF UpdateOrder
  <2>4. CASE GotoReport(w, "report")
    <3>1. \A r \in rows' : r \in rows \/ Told(r.oid, ToOrdStatus(r.st))'
      BY <2>1, <2>3, <2>4, AboutToReport, ConstantsAssumption
    <3> QED BY <1>10, <2>1, <2>4, <3>1
  <2>5. CASE ~GotoReport(w, "report")
    <3>1. det.st = old.st /\ (Goto(w, "reread") \/ Becomes(w, Idle))
      BY <1>13, <2>5 DEF StoreTraded, StorePlain
    <3>2. old.oid \in Orders /\ Told(old.oid, ToOrdStatus(old.st))
      BY <2>1, <2>2 DEF Announced, Told, Row
    <3>3. \A r \in rows' : r.oid = det.oid /\ r.st = det.st => Told(r.oid, ToOrdStatus(r.st))'
      BY <2>2, <3>1, <3>2, ToldStays
    <3>4. \A r \in rows' : r \in rows \/ Told(r.oid, ToOrdStatus(r.st))'
      BY <2>3, <3>3
    <3> QED BY <1>10, <2>1, <3>1, <3>4
  <2> QED BY <2>4, <2>5
<1>14. CASE WsReread
  BY <1>10, <1>14 DEF WsReread, At, Workers
<1>15. ASSUME NEW w \in Workers, Report(w) PROVE AnnInv'
  BY <1>10, <1>15 DEF Report, Reporting
<1>16. CASE \/ ExchangeNext \/ PollStart \/ PollDone \/ UNCHANGED vars
            \/ \E o \in Orders : PollInfoFails(o)
            \/ \E s \in Sessions : \/ OnLogon(s) \/ OnLogout(s) \/ OnMarketDataRequest(s)
                                   \/ OnOrderCancelReplaceRequest(s)
            \/ \E s \in Sessions, o \in Orders :
                  NewOrderSubmit(s, o)
  BY <1>1, <1>16
  DEF ExchangeNext, ExchangeOpen, ExchangeFill, ExchangeEnd, PollStart, PollDone, PollInfoFails,
      OnLogon, OnLogout, OnMarketDataRequest, OnOrderCancelReplaceRequest,
      NewOrderSubmit, vars
<1> QED
  BY <1>2, <1>3, <1>4, <1>5, <1>7, <1>8, <1>9, <1>11, <1>11a, <1>12, <1>13, <1>14, <1>15,
     <1>16
  DEF Next, SessionNext, PollNext, WorkerNext, Killed, SessionMapRace,
      NewOrderUnknownExchange, ReportWithoutTrades

\* A status that stands in the orders table has been reported, is about to be,
\* or its report was lost to a crash or to an empty gateway: nothing else keeps
\* a client from learning what the database knows.
THEOREM RowsAnnouncedAlways == Spec => []RowsAnnounced
<1>1. Init => TypeInv /\ HeardInv /\ AnnInv
  BY TypeInit, HeardInit, AnnInit
<1>2. TypeInv /\ HeardInv /\ AnnInv /\ [Next]_vars => (TypeInv /\ HeardInv /\ AnnInv)'
  BY TypeStep, HeardStep, AnnStep
<1>3. AnnInv => RowsAnnounced
  BY DEF AnnInv
<1> QED BY <1>1, <1>2, <1>3, PTL DEF Spec

-----------------------------------------------------------------------------
(***************************************************************************)
(* Fills have trades                                                       *)
(***************************************************************************)

\* Orders whose fills come with their trades, over the stream and over REST.
Listed(o) == o \in WsTraded \cap RestTraded /\ exch[o].px = 0

\* There are trades behind a status, or none of them could be written.
Backed(r) ==
  r.st \in Fills /\ Listed(r.oid) => dbTrades[r.oid] # {} \/ r.oid \in unstored
Full(d) == d.st \in Fills /\ Listed(d.oid) => d.trades # {}

\* Steps at which a job has stored the trades of its order.Detail, or found none missing.
Written == {"create", "update", "reread", "plain"}

\* Steps at which it is about to store them: there are some, or the table has some.
ToStore == {"newTrades", "oldTrades"}

FullJob(j) ==
  /\ Full(j.det) /\ (j.row # NoRow => Backed(j.row))
  /\ j.pc \in Written => Backed(j.det)
  /\ j.pc \in ToStore => j.det.trades # {} \/ dbTrades[j.det.oid] # {}

ExchangeFull == \A o \in Orders : exch[o].st \in Fills /\ Listed(o) => exch[o].trades # {}
QueueFull == \A i \in 1..Len(wsq) : Full(wsq[i])

\* What is streamed, polled, held and stored of a fill has trades behind it.
FillInv ==
  /\ ExchangeFull /\ QueueFull
  /\ \A w \in Workers : job[w] # Idle => FullJob(job[w])
  /\ \A s \in Sessions : fix[s] # Idle => Backed(fix[s].row)
  /\ \A r \in rows : Backed(r)

\* Trades are not taken back, and an order is forgiven its trade only once it has one.
TradesKept ==
  \A o \in Orders : /\ dbTrades[o] # {} => dbTrades'[o] # {}
                    /\ o \in unstored => o \in unstored' \/ dbTrades'[o] # {}

\* Nor does a modified order count as unmodified again.
Advances ==
  /\ \A o \in Orders : exch'[o].px = 0 => exch[o].px = 0
  /\ TradesKept

LEMMA FillKept ==
  ASSUME TypeInv, FillInv, Advances, ExchangeFull', QueueFull',
         \A w \in Workers : job'[w] # Idle => job'[w] = job[w] \/ FullJob(job[w])',
         \A s \in Sessions : fix'[s] # Idle => \/ fix[s] # Idle /\ fix'[s].row = fix[s].row
                                               \/ fix'[s].row \in rows,
         \A r \in rows' : r \in rows \/ Backed(r)'
  PROVE  FillInv'
<1>1. \A r \in Row : Backed(r) => Backed(r)'
  BY DEF Backed, Listed, Advances, TradesKept, Row
<1>2. \A d \in Detail : /\ Full(d) => Full(d)'
                        /\ Backed(d) => Backed(d)'
  BY DEF Full, Backed, Listed, Advances, TradesKept, Detail
<1>3. \A j \in Job : FullJob(j) => FullJob(j)'
  <2> TAKE j \in Job
  <2> HAVE FullJob(j)
  <2>1. j.det \in Detail /\ j.det.oid \in Orders /\ (j.row # NoRow => j.row \in Row)
    BY DEF Job, Detail
  <2> QED BY <1>1, <1>2, <2>1 DEF FullJob, Advances, TradesKept
<1>4. \A w \in Workers : job[w] # Idle => job[w] \in Job
  BY DEF TypeInv, TypeOK
<1>5. (\A w \in Workers : job[w] # Idle => FullJob(job[w]))'
  <2> SUFFICES ASSUME NEW w \in Workers, job'[w] # Idle PROVE FullJob(job[w])'
    OBVIOUS
  <2>1. CASE job'[w] = job[w]
    <3>1. job[w] \in Job /\ FullJob(job[w])
      BY <1>4, <2>1 DEF FillInv
    <3>2. \E j \in Job : j = job'[w] /\ FullJob(j)'
      BY <1>3, <2>1, <3>1
    <3> QED BY <3>2 DEF FullJob, Full, Backed, Listed
  <2> QED BY <2>1
<1>6. \A s \in Sessions : fix[s] # Idle => fix[s].row \in Row
  BY DEF TypeInv, TypeOK, CancelJob
<1>7. (\A s \in Sessions : fix[s] # Idle => Backed(fix[s].row))'
  <2> SUFFICES ASSUME NEW s \in Sessions, fix'[s] # Idle PROVE Backed(fix[s].row)'
    OBVIOUS
  <2>1. \E r \in Row : r = fix'[s].row /\ Backed(r)
    BY <1>6 DEF FillInv, TypeInv, TypeOK
  <2>2. \E r \in Row : r = fix'[s].row /\ Backed(r)'
    BY <1>1, <2>1
  <2> QED BY <2>2 DEF Backed, Listed
<1>8. (\A r \in rows : Backed(r))'
  BY <1>1 DEF FillInv, TypeInv, TypeOK
<1> QED BY <1>5, <1>7, <1>8 DEF FillInv

LEMMA FillInit == Init => FillInv
<1> SUFFICES ASSUME Init PROVE FillInv
  OBVIOUS
<1>1. ExchangeFull /\ QueueFull
  BY DEF Init, ExchangeFull, QueueFull, Fills
<1> QED BY <1>1 DEF Init, FillInv

\* A step that leaves the exchange, its stream and the tables alone.
LEMMA FillQuiet ==
  ASSUME TypeInv, FillInv, UNCHANGED <<exch, rows>>, QueueFull',
         TradesKept,
         \A w \in Workers : job'[w] # Idle => job'[w] = job[w] \/ FullJob(job[w])',
         \A s \in Sessions : fix'[s] # Idle => \/ fix[s] # Idle /\ fix'[s].row = fix[s].row
                                               \/ fix'[s].row \in rows
  PROVE  FillInv'
<1>1. Advances
  BY DEF Advances
<1>2. ExchangeFull'
  BY DEF FillInv, ExchangeFull, Listed
<1> QED BY <1>1, <1>2, FillKept

LEMMA QueueStays == ASSUME FillInv, UNCHANGED <<exch, wsq>> PROVE QueueFull'
  BY DEF FillInv, QueueFull, Full, Listed

\* A step of the exchange: a fill brings its trade, a modification is a modification.
LEMMA FillMoves ==
  ASSUME TypeInv, FillInv, NEW o \in Orders, NEW st \in Status, NEW new \in SUBSET Trades,
         NEW px \in Px, px = 0 => exch[o].px = 0, Moves(o, st, new, px),
         st \in Fills => new # {} \/ px # 0,
         UNCHANGED <<job, rows, dbTrades, unstored>>,
         \A s \in Sessions : fix'[s] # Idle => fix[s] # Idle /\ fix'[s].row = fix[s].row
  PROVE  FillInv'
<1>1. /\ exch \in [Orders -> Exchange] /\ exch' \in [Orders -> Exchange]
      /\ wsq \in Seq(Detail) /\ wsq' \in Seq(Detail)
  BY MovesType DEF TypeInv, TypeOK
<1>2. /\ exch'[o] = [st |-> st, past |-> exch[o].past \cup {st},
                     trades |-> exch[o].trades \cup new, px |-> px]
      /\ \A p \in Orders \ {o} : exch'[p] = exch[p]
  BY <1>1 DEF Moves
<1>3. Advances
  BY <1>2 DEF Advances, TradesKept
<1>4. ExchangeFull'
  <2> SUFFICES ASSUME NEW p \in Orders, exch'[p].st \in Fills, Listed(p)' PROVE exch'[p].trades # {}
    BY DEF ExchangeFull
  <2>1. CASE p = o
    BY <1>2, <2>1 DEF Listed
  <2>2. CASE p # o
    BY <1>2, <2>2 DEF Listed, FillInv, ExchangeFull
  <2> QED BY <2>1, <2>2
<1>5. QueueFull'
  <2> DEFINE det == [oid |-> o, st |-> st, px |-> px,
                     trades |-> IF o \in WsTraded THEN new ELSE {}]
  <2>1. wsq' = wsq \/ wsq' = Append(wsq, det)
    BY DEF Moves, Streamed
  <2>2. det \in Detail
    BY DEF Detail
  <2>3. Full(det)'
    BY <1>2 DEF Full, Listed
  <2>4. \A i \in 1..Len(wsq) : wsq[i] \in Detail /\ Full(wsq[i])
    BY <1>1 DEF FillInv, QueueFull
  <2>5. \A d \in Detail : Full(d) => Full(d)'
    BY <1>3 DEF Full, Listed, Advances, Detail
  <2> HIDE DEF det
  <2>6. \A i \in 1..Len(wsq') : wsq'[i] = det \/ (wsq'[i] \in Detail /\ Full(wsq'[i]))
    BY <1>1, <2>1, <2>2, <2>4
  <2>7. \A i \in 1..Len(wsq') : \E d \in Detail : d = wsq'[i] /\ Full(d)'
    BY <2>2, <2>3, <2>5, <2>6
  <2> QED BY <2>7 DEF QueueFull, Full, Listed
<1> QED BY <1>3, <1>4, <1>5, FillKept

\* A job that has read the table: if it goes on as to an order without news of trades, the
\* trades are there.
LEMMA FillRead ==
  ASSUME TypeInv, FillInv, NEW w \in Workers, NEW det \in Detail, Full(det), NEW pc,
         Handles(w, det, GetOrderByOrderID(det.oid), pc),
         pc \in Written => Backed(det),
         pc \in ToStore => det.trades # {} \/ dbTrades[det.oid] # {},
         UNCHANGED <<exch, dbTrades, unstored>>
  PROVE  \A v \in Workers : job'[v] # Idle => job'[v] = job[v] \/ FullJob(job[v])'
<1> DEFINE row == GetOrderByOrderID(det.oid)
<1>1. row # NoRow => Backed(row)
  BY ReadType DEF TypeInv, TypeOK, FillInv
<1>2. /\ \/ job'[w] = Idle
         \/ job'[w].row \in {row, NoRow} /\ job'[w].det = det /\ job'[w].pc = pc
      /\ \A v \in Workers \ {w} : job'[v] = job[v]
  BY DEF Handles, Becomes, TypeInv, TypeOK
<1> HIDE DEF row
<1> QED BY <1>1, <1>2 DEF FullJob, Full, Backed, Listed

\* A job that goes on with what it holds.
LEMMA FillGoto ==
  ASSUME TypeInv, FillInv, NEW w \in Workers, job[w] # Idle, NEW pc,
         Goto(w, pc) \/ GotoReport(w, pc) \/ Becomes(w, Idle), UNCHANGED exch,
         TradesKept, pc \notin ToStore,
         pc \in Written => Backed(job[w].det)'
  PROVE  \A v \in Workers : job'[v] # Idle => job'[v] = job[v] \/ FullJob(job[v])'
<1>1. job[w] \in Job /\ FullJob(job[w])
  BY DEF TypeInv, TypeOK, FillInv
<1>2. \/ job'[w] = Idle
      \/ job'[w].row \in {job[w].row, NoRow} /\ job'[w].det = job[w].det /\ job'[w].pc = pc
  BY JobStep
<1>3. \A v \in Workers \ {w} : job'[v] = job[v]
  BY JobStep
<1>4. job[w].row # NoRow => job[w].row \in Row
  BY <1>1 DEF Job
<1>5. \A r \in Row : Backed(r) => Backed(r)'
  BY DEF Backed, Listed, Row, TradesKept
<1>6. Full(job[w].det)' <=> Full(job'[w].det)
  BY DEF Full, Listed
<1>7. job'[w] # Idle => FullJob(job[w])'
  <2> HAVE job'[w] # Idle
  <2>1. Full(job[w].det)'
    BY <1>1, <1>2 DEF FullJob, Full, Listed
  <2>2. job'[w].row # NoRow => \E r \in Row : r = job'[w].row /\ Backed(r)'
    BY <1>1, <1>2, <1>4, <1>5 DEF FullJob
  <2>3. (job[w].row # NoRow => Backed(job[w].row))'
    BY <2>2 DEF Backed, Listed
  <2>4. job'[w].pc = pc
    BY <1>2
  <2> QED BY <2>1, <2>3, <2>4 DEF FullJob
<1> QED BY <1>3, <1>7

LEMMA FillStep == TypeInv /\ HeardInv /\ FillInv /\ [Next]_vars => FillInv'
<1> SUFFICES ASSUME TypeInv, HeardInv, FillInv, [Next]_vars PROVE FillInv'
  OBVIOUS
<1> USE DEF external, routing, tables, history, TradesKept
<1>px. \A o \in Orders : exch[o].px \in Px /\ exch[o].px \in Nat
  BY ConstantsAssumption DEF TypeInv, TypeOK, Exchange, Px
<1>st. /\ {"NEW", "CANCELLED"} \cap Fills = {} /\ Ends \cap Fills = {}
       /\ {"NEW", "CANCELLED"} \subseteq Status /\ Fills \subseteq Status /\ Ends \subseteq Status
       /\ 0 \in Px /\ {} \in SUBSET Trades
  BY ConstantsAssumption DEF Fills, Status, Working, Px
<1>0. ASSUME NEW o \in Orders, Opens(o), UNCHANGED <<job, rows, dbTrades, fix, unstored>> PROVE FillInv'
  <2>1. exch[o].px = 0 /\ Moves(o, "NEW", {}, 0)
    BY <1>0 DEF Opens, HeardInv, ExchangeSound
  <2> QED BY <1>0, <1>st, <2>1, FillMoves
<1>1. ASSUME NEW o \in Orders, ExchangeOpen(o) PROVE FillInv'
  BY <1>1, <1>0 DEF ExchangeOpen
<1>2. ASSUME NEW o \in Orders, NEW t \in Trades, NEW st \in Fills, ExchangeFill(o, t, st)
      PROVE  FillInv'
  <2>1. /\ Moves(o, st, {t}, exch[o].px) /\ {t} \in SUBSET Trades /\ {t} # {}
        /\ st \in Status /\ UNCHANGED <<job, rows, dbTrades, fix, unstored>>
    BY <1>2, <1>st DEF ExchangeFill
  <2> QED BY <1>px, <2>1, FillMoves
<1>3. ASSUME NEW o \in Orders, NEW st \in Ends, ExchangeEnd(o, st) PROVE FillInv'
  <2>1. Moves(o, st, {}, exch[o].px) /\ UNCHANGED <<job, rows, dbTrades, fix, unstored>>
    BY <1>3 DEF ExchangeEnd
  <2>2. st \in Status /\ st \notin Fills
    BY <1>st
  <2> QED BY <1>px, <1>st, <2>1, <2>2, FillMoves
<1>4. CASE UNCHANGED <<exch, wsq, job, fix, rows, dbTrades, unstored>>
  BY <1>4, QueueStays, FillQuiet
<1>5. ASSUME Crash PROVE FillInv'
  <2>1. QueueFull'
    BY <1>5 DEF Crash, QueueFull
  <2> QED BY <1>5, <2>1, FillQuiet DEF Crash
<1>6. ASSUME NEW s \in Sessions, NEW o \in Orders, NewOrderSubmit(s, o) PROVE FillInv'
  BY <1>6, <1>0, <1>4 DEF NewOrderSubmit
<1>7. ASSUME NEW s \in Sessions, CancelRead(s) PROVE FillInv'
  <2>1. \A t \in Sessions : fix'[t] # Idle =>
          (fix[t] # Idle /\ fix'[t].row = fix[t].row) \/ fix'[t].row \in rows
    BY <1>7 DEF CancelRead, RowsByClOrdID, TypeInv, TypeOK
  <2> QED BY <1>7, <2>1, QueueStays, FillQuiet DEF CancelRead
<1>8. ASSUME NEW s \in Sessions, CancelSend(s) PROVE FillInv'
  <2>1. fix[s] \in CancelJob /\ fix[s].row \in Row
    BY <1>8 DEF CancelSend, TypeInv, TypeOK, CancelJob
  <2>2. /\ UNCHANGED <<job, rows, dbTrades, unstored>>
        /\ \A t \in Sessions : fix'[t] # Idle => fix[t] # Idle /\ fix'[t].row = fix[t].row
    BY <1>8, <2>1 DEF CancelSend, CancelJob, TypeInv, TypeOK
  <2> DEFINE o == fix[s].row.oid
  <2>3. o \in Orders
    BY <2>1 DEF Row
  <2>4. Moves(o, "CANCELLED", {}, exch[o].px) \/ UNCHANGED external
    BY <1>8 DEF CancelSend
  <2> HIDE DEF o
  <2>5. CASE Moves(o, "CANCELLED", {}, exch[o].px)
    BY <1>px, <1>st, <2>2, <2>3, <2>5, FillMoves
  <2>6. CASE UNCHANGED external
    BY <2>2, <2>6, QueueStays, FillQuiet
  <2> QED BY <2>4, <2>5, <2>6
<1>9. ASSUME NEW s \in Sessions, CancelWriteBack(s) PROVE FillInv'
  <2>1. Backed(fix[s].row) /\ UNCHANGED <<exch, wsq, job, dbTrades, unstored>>
    BY <1>9 DEF CancelWriteBack, FillInv
  <2>2. \A r \in rows' : r \in rows \/ Backed(r)'
    BY <1>9, <2>1 DEF CancelWriteBack, UpdateOrder, Backed, Listed
  <2>3. \A t \in Sessions : fix'[t] # Idle => fix[t] # Idle /\ fix'[t].row = fix[t].row
    BY <1>9 DEF CancelWriteBack, TypeInv, TypeOK
  <2>4. Advances /\ ExchangeFull'
    BY <2>1 DEF Advances, FillInv, ExchangeFull, Listed
  <2> QED BY <2>1, <2>2, <2>3, <2>4, QueueStays, FillKept
<1>10. ASSUME NEW s \in Sessions, OnOrderCancelReplaceRequest(s) PROVE FillInv'
  <2> PICK row \in rows :
         /\ Live(row.oid) /\ exch[row.oid].px < MaxPx
         /\ Moves(row.oid, exch[row.oid].st, {}, exch[row.oid].px + 1)
    BY <1>10 DEF OnOrderCancelReplaceRequest, RowsByClOrdID
  <2> DEFINE o == row.oid
  <2>1. o \in Orders /\ UNCHANGED <<job, rows, dbTrades, fix, unstored>>
    BY <1>10 DEF TypeInv, TypeOK, Row, OnOrderCancelReplaceRequest
  <2>2. exch[o].st \in Status /\ exch[o].px + 1 \in Px /\ exch[o].px + 1 # 0
    BY <1>px, <2>1, ConstantsAssumption DEF Live, Px, Status, TypeInv, TypeOK, Exchange
  <2>3. Moves(o, exch[o].st, {}, exch[o].px + 1)
    OBVIOUS
  <2> HIDE DEF o
  <2> QED BY <1>st, <2>1, <2>2, <2>3, FillMoves
<1>11. CASE WsReceive
  <2> DEFINE det == Head(wsq)
             row == GetOrderByOrderID(det.oid)
             pc  == WsBranch(det, row)
  <2>0. wsq \in Seq(Detail) /\ wsq # <<>> /\ wsq' = Tail(wsq) /\ UNCHANGED <<exch, rows, dbTrades, unstored, fix>>
    BY <1>11 DEF WsReceive, TypeInv, TypeOK
  <2>1. det \in Detail /\ Full(det)
    BY <2>0 DEF FillInv, QueueFull
  <2>2. QueueFull'
    <3>1. \A i \in 1..Len(wsq') : i + 1 \in 1..Len(wsq) /\ wsq'[i] = wsq[i + 1]
      BY <2>0
    <3> QED BY <2>0, <3>1 DEF FillInv, QueueFull, Full, Listed
  <2>3. CASE sessions = {}
    <3>1. job' = job
      BY <1>11, <2>3 DEF WsReceive
    <3> QED BY <2>0, <2>2, <3>1, FillQuiet
  <2>4. CASE sessions # {}
    <3>1. Handles("ws", det, row, pc)
      BY <1>11, <2>4 DEF WsReceive
    <3>2. (pc \in Written => det.trades = {}) /\ (pc \in ToStore => det.trades # {})
      BY DEF WsBranch, NewPc, Written, ToStore
    <3>3. pc \in Written => Backed(det)
      BY <2>1, <3>2 DEF Full, Backed
    <3> HIDE DEF det, pc
    <3>4. \A v \in Workers : job'[v] # Idle => job'[v] = job[v] \/ FullJob(job[v])'
      BY <2>0, <2>1, <3>1, <3>2, <3>3, FillRead DEF Workers
    <3> QED BY <2>0, <2>2, <3>4, FillQuiet
  <2> QED BY <2>3, <2>4
<1>12. CASE PollStart \/ PollDone \/ \E o \in Orders : PollInfoFails(o)
  BY <1>12, <1>4 DEF PollStart, PollDone, PollInfoFails
<1>13. ASSUME NEW o \in Orders, PollInfo(o) PROVE FillInv'
  <2> DEFINE det == [oid |-> o, st |-> exch[o].st, px |-> exch[o].px,
                     trades |-> IF o \in RestTraded THEN exch[o].trades ELSE {}]
  <2>0. UNCHANGED <<exch, wsq, rows, dbTrades, unstored, fix>>
    BY <1>13 DEF PollInfo
  <2>1. Full(det)
    BY DEF Full, Listed, FillInv, ExchangeFull
  <2>2. /\ job'["poll"].row = NoRow /\ job'["poll"].det = det /\ job'["poll"].pc = "read"
        /\ \A w \in Workers \ {"poll"} : job'[w] = job[w]
    BY <1>13 DEF PollInfo, Becomes, Workers, TypeInv, TypeOK
  <2> HIDE DEF det
  <2>3. \A w \in Workers : job'[w] # Idle => job'[w] = job[w] \/ FullJob(job[w])'
    <3>1. Full(job["poll"].det)' /\ "read" \notin Written \cup ToStore
      BY <2>0, <2>1, <2>2 DEF Full, Listed, Written, ToStore
    <3> QED BY <2>2, <3>1 DEF FullJob
  <2> QED BY <2>0, <2>3, QueueStays, FillQuiet
<1>14. CASE PollRead
  <2> DEFINE det == job["poll"].det
             row == GetOrderByOrderID(det.oid)
             pc  == PollBranch(det, row, dbTrades[det.oid])
  <2>0. UNCHANGED <<exch, wsq, rows, dbTrades, unstored, fix>> /\ Handles("poll", det, row, pc)
    BY <1>14 DEF PollRead
  <2>1. det \in Detail /\ Full(det)
    BY <1>14 DEF PollRead, At, Workers, Job, TypeInv, TypeOK, FillInv, FullJob
  <2>2. pc \in Written => det.trades = {} \/ Cardinality(dbTrades[det.oid]) = Cardinality(det.trades)
    BY DEF PollBranch, NewPc, Written
  <2>3. det.trades # {} /\ Cardinality(dbTrades[det.oid]) = Cardinality(det.trades)
          => dbTrades[det.oid] # {}
    <3>1. IsFiniteSet(det.trades)
      BY <2>1, ConstantsAssumption, FS_Subset DEF Detail
    <3> HIDE DEF det
    <3> QED BY <3>1, FS_EmptySet
  <2>4. pc \in Written => Backed(det)
    BY <2>1, <2>2, <2>3 DEF Full, Backed
  <2>4a. pc \in ToStore => det.trades # {} \/ dbTrades[det.oid] # {}
    BY DEF PollBranch, NewPc, ToStore
  <2> HIDE DEF det, pc
  <2>5. \A v \in Workers : job'[v] # Idle => job'[v] = job[v] \/ FullJob(job[v])'
    BY <2>0, <2>1, <2>4, <2>4a, FillRead DEF Workers
  <2> QED BY <2>0, <2>5, QueueStays, FillQuiet
<1>15. ASSUME NEW w \in Workers, StoreTrades(w) PROVE FillInv'
  <2> DEFINE det == job[w].det
             o == det.oid
             pc == IF job[w].pc = "newTrades" THEN "create" ELSE "update"
  <2>0. /\ job[w] # Idle /\ job[w].pc \in ToStore /\ Goto(w, pc)
        /\ UNCHANGED <<exch, wsq, rows, fix>>
    BY <1>15, StoreTradesSteps DEF ToStore
  <2>1. /\ job[w] \in Job /\ det \in Detail /\ Full(det)
        /\ det.trades # {} \/ dbTrades[o] # {}
    BY <2>0 DEF TypeInv, TypeOK, Job, FillInv, FullJob
  <2>2. PICK stored \in SUBSET det.trades : dbTrades' = [dbTrades EXCEPT ![o] = @ \cup stored]
    BY <1>15, StoreTradesSteps DEF UpdateOrCreateTrades
  <2>3. o \in Orders /\ dbTrades \in [Orders -> SUBSET Trades]
    BY <2>1 DEF Detail, TypeInv, TypeOK
  <2>4. unstored' = IF dbTrades'[o] = {} THEN unstored \cup {o} ELSE unstored \ {o}
    BY <1>15, StoreTradesSteps
  <2>5. job'[w].det = job[w].det
    BY <2>0, <2>1 DEF Goto, Becomes, Job, TypeInv, TypeOK
  <2>6. pc \notin ToStore
    BY DEF ToStore
  <2> HIDE DEF o, pc, det
  <2>7. dbTrades'[o] # {} \/ o \in unstored'
    BY <2>1, <2>2, <2>3, <2>4
  <2>8. TradesKept
    BY <2>2, <2>3, <2>4, <2>7
  <2>9. Backed(job[w].det)'
    BY <2>5, <2>7 DEF Backed, o, det
  <2>10. \A v \in Workers : job'[v] # Idle => job'[v] = job[v] \/ FullJob(job[v])'
    BY <2>0, <2>6, <2>8, <2>9, FillGoto
  <2> QED BY <2>0, <2>8, <2>10, QueueStays, FillQuiet
<1>15a. ASSUME NEW w \in Workers, StoreFails(w) PROVE FillInv'
  <2>1. UNCHANGED <<exch, wsq, rows, dbTrades, unstored, fix>> /\ Becomes(w, Idle)
    BY <1>15a DEF StoreFails
  <2>2. \A v \in Workers : job'[v] = Idle \/ job'[v] = job[v]
    BY <2>1 DEF Becomes, TypeInv, TypeOK
  <2> QED BY <2>1, <2>2, QueueStays, FillQuiet
<1>16. ASSUME NEW w \in Workers, StoreNew(w) \/ StoreTraded(w) \/ StorePlain(w) PROVE FillInv'
  <2>1. /\ job[w] # Idle /\ job[w] \in Job /\ job[w].det \in Detail /\ Backed(job[w].det)
        /\ UNCHANGED <<exch, wsq, fix, dbTrades, unstored>>
    BY <1>16 DEF StoreNew, StoreTraded, StorePlain, At, TypeInv, TypeOK, Job, FillInv, FullJob, Written
  <2>2. \/ Becomes(w, Idle)
        \/ \E pc \in {"report", "reportNew", "reread"} : Goto(w, pc) \/ GotoReport(w, pc)
    BY <1>16 DEF StoreNew, StoreTraded, StorePlain
  <2>3. job'[w] # Idle => job'[w].det = job[w].det
    BY <2>1, <2>2, JobStep
  <2>4. \A v \in Workers : job'[v] # Idle => job'[v] = job[v] \/ FullJob(job[v])'
    <3>1. CASE Becomes(w, Idle)
      <4>1. \A v \in Workers : job'[v] = Idle \/ job'[v] = job[v]
        BY <3>1 DEF Becomes, TypeInv, TypeOK
      <4> QED BY <4>1
    <3>2. ASSUME NEW pc \in {"report", "reportNew", "reread"},
                 Goto(w, pc) \/ GotoReport(w, pc)
          PROVE  \A v \in Workers : job'[v] # Idle => job'[v] = job[v] \/ FullJob(job[v])'
      <4>1. CASE job'[w] = Idle
        BY <2>1, <3>2, <4>1, JobStep
      <4>2. CASE job'[w] # Idle
        <5>1. Backed(job[w].det)' /\ pc \notin ToStore
          BY <2>1, <2>3, <4>2 DEF Backed, Listed, ToStore
        <5> QED BY <2>1, <3>2, <5>1, FillGoto
      <4> QED BY <4>1, <4>2
    <3> QED BY <2>2, <3>1, <3>2
  <2>5. \A r \in rows' : r \in rows \/ Backed(r)'
    <3>1. CASE StoreNew(w)
      <4>1. rows' = rows \/ rows' = rows \cup {NewRow(job[w].det)}
        BY <3>1 DEF StoreNew, CreateOrder
      <4>2. Backed(NewRow(job[w].det))
        BY <2>1 DEF Backed, NewRow
      <4> QED BY <2>1, <4>1, <4>2 DEF Backed, Listed
    <3>2. CASE StoreTraded(w) \/ StorePlain(w)
      <4>1. job[w].row \in Row /\ job[w].row.oid = job[w].det.oid
        BY <2>1, <3>2, ConstantsAssumption
           DEF StoreTraded, StorePlain, At, HasRow, TypeInv, TypeOK, HeardInv, JobsHeard
      <4> DEFINE old == job[w].row
                 det == job[w].det
                 r1 == [old EXCEPT !.st = det.st]
                 r2 == [old EXCEPT !.st = det.st, !.px = det.px]
      <4>2. r1.oid = det.oid /\ r1.st = det.st /\ r2.oid = det.oid /\ r2.st = det.st
        BY <4>1 DEF Row
      <4>3. Backed(r1) /\ Backed(r2)
        BY <2>1, <4>2 DEF Backed
      <4>4. UpdateOrder(r1) \/ UpdateOrder(r2)
        BY <3>2 DEF StoreTraded, StorePlain
      <4> HIDE DEF r1, r2
      <4>5. \A r \in rows' : r \in rows \/ r = r1 \/ r = r2
        BY <4>4 DEF UpdateOrder
      <4> QED BY <2>1, <4>3, <4>5 DEF Backed, Listed
    <3> QED BY <1>16, <3>1, <3>2
  <2>6. Advances /\ ExchangeFull'
    BY <2>1 DEF Advances, FillInv, ExchangeFull, Listed
  <2> QED BY <2>1, <2>4, <2>5, <2>6, QueueStays, FillKept
<1>17. CASE WsReread
  <2>1. /\ job["ws"] # Idle /\ (GotoReport("ws", "report") \/ Becomes("ws", Idle))
        /\ UNCHANGED <<exch, wsq, rows, dbTrades, unstored, fix>>
    BY <1>17 DEF WsReread, At
  <2>2. "report" \notin Written \cup ToStore /\ "ws" \in Workers
    BY DEF Written, ToStore, Workers
  <2>3. \A v \in Workers : job'[v] # Idle => job'[v] = job[v] \/ FullJob(job[v])'
    BY <2>1, <2>2, FillGoto
  <2> QED BY <2>1, <2>3, QueueStays, FillQuiet
<1>18. ASSUME NEW w \in Workers, Report(w) PROVE FillInv'
  <2>1. UNCHANGED <<exch, wsq, rows, dbTrades, unstored, fix>> /\ Becomes(w, Idle)
    BY <1>18 DEF Report
  <2>2. \A v \in Workers : job'[v] = Idle \/ job'[v] = job[v]
    BY <2>1 DEF Becomes, TypeInv, TypeOK
  <2> QED BY <2>1, <2>2, QueueStays, FillQuiet
<1>19. ASSUME NEW s \in Sessions, OnLogon(s) \/ OnLogout(s) \/ OnMarketDataRequest(s)
       PROVE  FillInv'
  BY <1>19, <1>4 DEF OnLogon, OnLogout, OnMarketDataRequest
<1>20. CASE UNCHANGED vars
  BY <1>20, <1>4 DEF vars
<1> QED
  BY <1>1, <1>2, <1>3, <1>5, <1>6, <1>7, <1>8, <1>9, <1>10, <1>11, <1>12, <1>13, <1>14,
     <1>15, <1>15a, <1>16, <1>17, <1>18, <1>19, <1>20
  DEF Next, ExchangeNext, SessionNext, PollNext, WorkerNext, Killed, SessionMapRace,
      NewOrderUnknownExchange, ReportWithoutTrades

\* Where the stream and REST both list trades, a row that says an order traded has a stored
\* trade, unless the last round of writing its trades was not complete, however the receiver,
\* the poller and stale write-backs interleave and whichever writes fail.
THEOREM FillsHaveTradesAlways == Spec => []FillsHaveTrades
<1>1. Init => TypeInv /\ HeardInv /\ FillInv
  BY TypeInit, HeardInit, FillInit
<1>2. TypeInv /\ HeardInv /\ FillInv /\ [Next]_vars => (TypeInv /\ HeardInv /\ FillInv)'
  BY TypeStep, HeardStep, FillStep
<1>3. FillInv => FillsHaveTrades
  BY DEF FillInv, FillsHaveTrades, Backed, Listed
<1> QED BY <1>1, <1>2, <1>3, PTL DEF Spec
=============================================================================
