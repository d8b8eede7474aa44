------------------------- MODULE OrderManagerProofs -------------------------
(***************************************************************************)
(* Proofs about OrderManager, for any orders, callers and number of starts.*)
(*   TypeCorrect         every variable keeps its type                     *)
(*   IdsUniqueAlways     an order is stored once, whoever races to store it*)
(*   NeverAheadAlways    the store is never ahead of the exchange          *)
(*   RunWhileStartedAlways   a started manager has a run goroutine         *)
(*   EntriesStayAlways   no write loses an entry or gives it a foreign id  *)
(* The second and third except ids that a modification gives to an order.  *)
(***************************************************************************)
EXTENDS OrderManager, WellFoundedInduction, TLAPS

USE ConstantsAssumption

-----------------------------------------------------------------------------
(* What the operations of the store do.                                    *)

\* A search that succeeds stops at an entry with the id it looks for.
LEMMA AtHolds ==
  ASSUME store \in Seq(Detail), NEW id, Holds(id)
  PROVE  /\ At(id) \in DOMAIN store /\ store[At(id)].id = id
         /\ \A j \in DOMAIN store : store[j].id = id => At(id) <= j
<1> DEFINE T == {i \in DOMAIN store : store[i].id = id}
           R == OpToRel(<, Nat)
<1>1. T \subseteq Nat /\ T # {} BY DEF Holds
<1>2. \A i, j \in Nat : j < i => <<j, i>> \in R BY Zenon DEF OpToRel
<1>3. IsWellFoundedOn(R, Nat) BY NatLessThanWellFounded
<1> HIDE DEF R, T
<1>4. PICK i \in T : \A j \in T : ~(<<j, i>> \in R) BY <1>1, <1>3, WFMin
<1>5. ASSUME NEW j \in T PROVE i <= j
  <2>1. i \in Nat /\ j \in Nat BY <1>1
  <2>2. ~(j < i) BY <1>2, <1>4, <2>1, Zenon
  <2> QED BY <2>1, <2>2
<1> QED BY <1>5 DEF At, T

Grown(det) == ~Holds(det.id) /\ store' = Append(store, det)

Merged(det) ==
  \E i \in DOMAIN store :
    /\ store[i].id = det.id
    /\ store' = [store EXCEPT ![i] = UpdateOrderFromDetail(store[i], det)]

\* A write leaves the store, appends an order it lacks or merges into its entry.
LEMMA Writes ==
  ASSUME store \in Seq(Detail), NEW det \in Detail,
         add(det) \/ updateExisting(det) \/ upsert(det)
  PROVE  store' = store \/ Grown(det) \/ Merged(det)
<1>1. CASE ~Holds(det.id) BY <1>1 DEF add, updateExisting, upsert, Grown
<1>2. CASE Holds(det.id) /\ store' # store
  <2>1. store' = [store EXCEPT ![At(det.id)] = UpdateOrderFromDetail(store[At(det.id)], det)]
    BY <1>2 DEF add, updateExisting, upsert
  <2> QED BY <1>2, <2>1, AtHolds DEF Merged
<1> QED BY <1>1, <1>2

LEMMA MergedType ==
  ASSUME NEW d \in Detail, NEW m \in Detail PROVE UpdateOrderFromDetail(d, m) \in Detail
BY DEF UpdateOrderFromDetail, Detail

\* What modifyExisting makes of an entry.
Modified(e, res) == [UpdateOrderFromDetail(e, res) EXCEPT !.id = res.id]

LEMMA ModifiedType ==
  ASSUME NEW e \in Detail, NEW res \in Detail
  PROVE  Modified(e, res) \in Detail /\ Modified(e, res).id = res.id
BY MergedType DEF Modified, UpdateOrderFromDetail, Detail

LEMMA WriteType ==
  ASSUME store \in Seq(Detail), NEW det \in Detail,
         store' = store \/ Grown(det) \/ Merged(det)
  PROVE  store' \in Seq(Detail)
<1>1. CASE Merged(det)
  <2>1. PICK i \in DOMAIN store :
           store' = [store EXCEPT ![i] = UpdateOrderFromDetail(store[i], det)]
    BY <1>1 DEF Merged
  <2>2. UpdateOrderFromDetail(store[i], det) \in Detail BY MergedType
  <2> QED BY <2>1, <2>2
<1> QED BY <1>1 DEF Grown

-----------------------------------------------------------------------------
(***************************************************************************)
(* Type correctness.  It takes that every detail on its way is of an order *)
(* the exchange has, and that a started manager has a channel to close.    *)
(***************************************************************************)
Placed == {o \in Orders : exch[o].st # "none"}

MarketOK ==
  /\ exch \in [Orders -> [st : (Status \ {"UNKNOWN"}) \cup {"none"}, exec : 0..Amount]]
  /\ wsq \in Seq(Detail) /\ \A i \in DOMAIN wsq : wsq[i].id \in Placed
StoreOK == store \in Seq(Detail) /\ \A i \in DOMAIN store : store[i].id \in Placed
JobsOK ==
  /\ job \in [Procs -> Job \cup {Idle}]
  /\ \A p \in Procs : job[p] # Idle => job[p].det.id \in Placed
PollOK ==
  /\ poll \in Poll
  /\ \A m \in poll.mine : m.id \in Placed
  /\ \A d \in poll.result : d.id \in Placed
CycleOK ==
  /\ started \in BOOLEAN /\ stopping \in BOOLEAN
  /\ chan \in Runs \cup {NoRun} /\ closed \subseteq Runs
  /\ started \/ stopping => chan \in Runs
LoopsOK ==
  /\ run \in [Runs -> {"none", "boot", "polling", "loop", "select", "cancel", "gone"}]
  /\ ch \in [Runs -> Runs \cup {NoRun}]
  /\ todo \in [Runs -> SUBSET Orders]

TypeInv == MarketOK /\ StoreOK /\ JobsOK /\ PollOK /\ CycleOK /\ LoopsOK

LEMMA TypeInvType == TypeInv => TypeOK
BY DEF TypeInv, MarketOK, StoreOK, JobsOK, PollOK, CycleOK, LoopsOK, TypeOK

LEMMA TypeInit == Init => TypeInv
<1> SUFFICES ASSUME Init PROVE TypeInv OBVIOUS
<1>1. MarketOK BY DEF Init, MarketOK, Status
<1>2. StoreOK BY DEF Init, StoreOK
<1>3. JobsOK BY DEF Init, JobsOK
<1>4. PollOK BY DEF Init, PollOK, Off, Poll
<1>5. CycleOK /\ LoopsOK BY DEF Init, CycleOK, LoopsOK
<1> QED BY <1>1, <1>2, <1>3, <1>4, <1>5 DEF TypeInv

\* Orders stay placed, so what a step leaves alone stays well typed.
LEMMA KeptStore == ASSUME StoreOK, Placed \subseteq Placed', UNCHANGED store PROVE StoreOK'
BY DEF StoreOK
LEMMA KeptJobs == ASSUME JobsOK, Placed \subseteq Placed', UNCHANGED job PROVE JobsOK'
BY DEF JobsOK
LEMMA KeptPoll == ASSUME PollOK, Placed \subseteq Placed', UNCHANGED poll PROVE PollOK'
BY DEF PollOK
LEMMA KeptMarket == ASSUME MarketOK, UNCHANGED market PROVE MarketOK' /\ Placed' = Placed
BY DEF MarketOK, Placed, market
LEMMA KeptCycle == ASSUME CycleOK, UNCHANGED cycle PROVE CycleOK'
BY DEF CycleOK, cycle
LEMMA KeptLoops == ASSUME LoopsOK, UNCHANGED loops PROVE LoopsOK'
BY DEF LoopsOK, loops

LEMMA StreamedType ==
  ASSUME NEW o \in Orders, NEW st \in Status, NEW exec \in 0..Amount
  PROVE  \A d \in Streamed(o, st, exec) : d \in Detail /\ d.id = o
BY DEF Streamed, Detail, Status

\* Telling keeps the queue well typed.
LEMMA TellsType ==
  ASSUME MarketOK, Placed \subseteq Placed', NEW seqs, Tells(seqs),
         \A q \in seqs : q \in Seq(Detail) /\ \A i \in DOMAIN q : q[i].id \in Placed'
  PROVE  wsq' \in Seq(Detail) /\ \A i \in DOMAIN wsq' : wsq'[i].id \in Placed'
<1>1. CASE wsq' = wsq BY <1>1 DEF MarketOK
<1>2. ASSUME NEW q \in seqs, wsq' = wsq \o q
      PROVE  wsq' \in Seq(Detail) /\ \A i \in DOMAIN wsq' : wsq'[i].id \in Placed'
  <2>1. wsq \in Seq(Detail) /\ q \in Seq(Detail) BY DEF MarketOK
  <2>2. wsq' \in Seq(Detail) BY <1>2, <2>1
  <2>3. ASSUME NEW i \in DOMAIN wsq' PROVE wsq'[i].id \in Placed'
    <3>1. CASE i <= Len(wsq)
      <4>1. i \in DOMAIN wsq /\ wsq'[i] = wsq[i] BY <1>2, <2>1, <2>3, <3>1
      <4> QED BY <4>1 DEF MarketOK
    <3>2. CASE ~(i <= Len(wsq))
      <4>1. i - Len(wsq) \in DOMAIN q /\ wsq'[i] = q[i - Len(wsq)] BY <1>2, <2>1, <2>3, <3>2
      <4> QED BY <4>1
    <3> QED BY <3>1, <3>2
  <2> QED BY <2>2, <2>3
<1> QED BY <1>1, <1>2 DEF Tells

LEMMA MovesType ==
  ASSUME MarketOK, NEW o \in Orders, NEW st \in Status \ {"UNKNOWN"}, NEW exec \in 0..Amount,
         Moves(o, st, exec)
  PROVE  MarketOK' /\ Placed' = Placed \cup {o}
<1>1. /\ exch' \in [Orders -> [st : (Status \ {"UNKNOWN"}) \cup {"none"}, exec : 0..Amount]]
      /\ Placed' = Placed \cup {o}
  BY DEF Moves, MarketOK, Placed, Status
<1>2. \A q \in {<<d>> : d \in Streamed(o, st, exec)} :
        q \in Seq(Detail) /\ \A i \in DOMAIN q : q[i].id \in Placed'
  <2>1. ASSUME NEW d \in Streamed(o, st, exec)
        PROVE  <<d>> \in Seq(Detail) /\ \A i \in DOMAIN <<d>> : <<d>>[i].id \in Placed'
    <3>1. d \in Detail /\ d.id = o BY StreamedType
    <3> QED BY <1>1, <3>1
  <2> QED BY <2>1
<1>3. wsq' \in Seq(Detail) /\ \A i \in DOMAIN wsq' : wsq'[i].id \in Placed'
  BY <1>1, <1>2, TellsType DEF Moves
<1> QED BY <1>1, <1>3 DEF MarketOK
LEMMA ReportedType ==
  ASSUME MarketOK, NEW o \in Placed PROVE Reported(o) \in Detail /\ Reported(o).id = o
BY DEF MarketOK, Placed, Reported, Detail, Status

LEMMA DoesType ==
  ASSUME JobsOK, Placed \subseteq Placed', NEW p \in Procs, NEW pc, NEW id \in Orders,
         NEW det \in Detail, det.id \in Placed', Does(p, pc, id, det),
         pc \in {"add", "get", "update", "cancelGet", "submitted", "modified", "fetched"}
  PROVE  JobsOK'
<1> DEFINE j == [pc |-> pc, id |-> id, det |-> det]
<1>1. j \in Job BY DEF Job
<1>2. j.det = det /\ job' = [job EXCEPT ![p] = j] BY DEF Does
<1> HIDE DEF j
<1> QED BY <1>1, <1>2 DEF JobsOK

LEMMA EndsType == ASSUME JobsOK, Placed \subseteq Placed', NEW p \in Procs, Ends(p) PROVE JobsOK'
BY DEF JobsOK, Ends

LEMMA JobType ==
  ASSUME JobsOK, NEW p \in Procs, job[p] # Idle
  PROVE  /\ job[p] \in Job /\ job[p].det \in Detail /\ job[p].id \in Orders
         /\ job[p].det.id \in Placed
BY DEF JobsOK, Job

\* A write of a placed order keeps the store well typed.
LEMMA StoreType ==
  ASSUME StoreOK, NEW det \in Detail, det.id \in Placed, UNCHANGED Placed,
         UNCHANGED store \/ add(det) \/ updateExisting(det) \/ upsert(det)
  PROVE  StoreOK'
<1>1. store' = store \/ Grown(det) \/ Merged(det) BY Writes DEF StoreOK
<1>2. store' \in Seq(Detail) BY <1>1, WriteType DEF StoreOK
<1>3. CASE store' = store BY <1>3 DEF StoreOK
<1>4. CASE Grown(det)
  <2>1. ASSUME NEW i \in DOMAIN store' PROVE store'[i].id \in Placed'
    BY <1>4 DEF Grown, StoreOK
  <2> QED BY <1>2, <2>1 DEF StoreOK
<1>5. CASE Merged(det)
  <2>1. PICK k \in DOMAIN store : /\ store[k].id = det.id
           /\ store' = [store EXCEPT ![k] = UpdateOrderFromDetail(store[k], det)]
    BY <1>5 DEF Merged
  <2>2. UpdateOrderFromDetail(store[k], det).id = store[k].id BY DEF UpdateOrderFromDetail
  <2>3. ASSUME NEW i \in DOMAIN store' PROVE store'[i].id \in Placed'
    BY <2>1, <2>2 DEF StoreOK
  <2> QED BY <1>2, <2>3 DEF StoreOK
<1> QED BY <1>1, <1>3, <1>4, <1>5

LEMMA HeldType ==
  ASSUME StoreOK, NEW id, Holds(id)
  PROVE  /\ At(id) \in DOMAIN store /\ store[At(id)] \in Detail
         /\ store[At(id)].id = id /\ id \in Placed
<1>1. At(id) \in DOMAIN store /\ store[At(id)].id = id BY AtHolds DEF StoreOK
<1> QED BY <1>1 DEF StoreOK

LEMMA PollBeginsType ==
  ASSUME StoreOK, NEW r \in Runs \cup {NoRun}, PollBegins(r), UNCHANGED Placed
  PROVE  PollOK'
<1>1. getActiveOrders \in SUBSET [at : Nat, id : Orders] /\ \A m \in getActiveOrders : m.id \in Placed
  <2>1. ASSUME NEW m \in getActiveOrders PROVE m \in [at : Nat, id : Orders] /\ m.id \in Placed
    <3>1. PICK i \in DOMAIN store : m = [at |-> i, id |-> store[i].id]
      BY DEF getActiveOrders
    <3>2. i \in Nat /\ store[i].id \in Placed /\ store[i].id \in Orders
      BY DEF StoreOK, Placed
    <3> QED BY <3>1, <3>2
  <2> QED BY <2>1
<1>2. poll' = [pc |-> "fetch", owner |-> r, mine |-> getActiveOrders, result |-> {}]
  BY DEF PollBegins
<1> HIDE DEF getActiveOrders
<1> QED BY <1>1, <1>2 DEF PollOK, Poll

LEMMA PollEndsType ==
  ASSUME PollOK, LoopsOK, PollEnds PROVE PollOK' /\ LoopsOK'
<1>1. PollOK' BY DEF PollEnds, PollOK, Off, Poll
<1>2. poll.owner \in Runs \cup {NoRun} BY DEF PollOK, Poll
<1>3. LoopsOK' BY <1>2 DEF PollEnds, LoopsOK
<1> QED BY <1>1, <1>3
\* The steps of the exchange, the receiver and the callers.
LEMMA MarketStepType ==
  ASSUME TypeInv, ExchangeNext PROVE TypeInv'
<1> USE DEF TypeInv
<1>1. PICK o \in Orders :
         \/ ExchangeOpen(o) \/ ExchangeCancel(o) \/ \E n \in 1..Amount : ExchangeFill(o, n)
  BY DEF ExchangeNext
<1>2. PICK st \in Status \ {"UNKNOWN"}, exec \in 0..Amount : Moves(o, st, exec)
  <2>1. CASE ExchangeOpen(o) BY <2>1 DEF ExchangeOpen, Status
  <2>2. CASE ExchangeCancel(o) BY <2>2 DEF ExchangeCancel, Status, MarketOK
  <2>3. CASE \E n \in 1..Amount : ExchangeFill(o, n) BY <2>3 DEF ExchangeFill, Status, MarketOK
  <2> QED BY <1>1, <2>1, <2>2, <2>3
<1>3. MarketOK' /\ Placed \subseteq Placed' BY <1>2, MovesType
<1>4. UNCHANGED <<store, job, poll, cycle, loops>>
  BY <1>1 DEF ExchangeOpen, ExchangeCancel, ExchangeFill
<1> QED BY <1>3, <1>4, KeptStore, KeptJobs, KeptPoll, KeptCycle, KeptLoops

LEMMA WsStepType ==
  ASSUME TypeInv, WsReceive \/ WsAdd \/ WsGet PROVE TypeInv'
<1> USE DEF TypeInv
<1>0. "ws" \in Procs BY DEF Procs
<1>1. CASE WsReceive
  <2>1. Placed' = Placed BY <1>1 DEF WsReceive, Placed
  <2>2. wsq \in Seq(Detail) /\ wsq # <<>> BY <1>1 DEF WsReceive, MarketOK
  <2>3. MarketOK'
    <3>1. wsq' \in Seq(Detail) /\ \A i \in DOMAIN wsq' : i + 1 \in DOMAIN wsq /\ wsq'[i] = wsq[i + 1]
      BY <1>1, <2>2 DEF WsReceive
    <3> QED BY <1>1, <2>1, <3>1 DEF WsReceive, MarketOK
  <2>4. Head(wsq) \in Detail /\ Head(wsq).id \in Placed /\ Head(wsq).id \in Orders
    BY <2>2 DEF MarketOK, Placed
  <2>5. JobsOK'
    <3>1. CASE started
      <4>1. PICK pc \in {"add", "get"} : Does("ws", pc, Head(wsq).id, Head(wsq))
        BY <1>1, <3>1 DEF WsReceive
      <4> QED BY <1>0, <2>1, <2>4, <4>1, DoesType
    <3>2. CASE ~started BY <1>1, <2>1, <3>2, KeptJobs DEF WsReceive
    <3> QED BY <3>1, <3>2
  <2> QED BY <1>1, <2>1, <2>3, <2>5, KeptStore, KeptPoll, KeptCycle, KeptLoops DEF WsReceive
<1>2. CASE WsAdd
  <2>1. MarketOK' /\ Placed' = Placed BY <1>2, KeptMarket DEF WsAdd
  <2>2. job["ws"].det \in Detail /\ job["ws"].det.id \in Placed
    BY <1>0, <1>2, JobType DEF WsAdd, Doing
  <2>3. StoreOK' BY <1>2, <2>1, <2>2, StoreType DEF WsAdd
  <2>4. JobsOK' BY <1>0, <1>2, <2>1, EndsType DEF WsAdd
  <2> QED BY <1>2, <2>1, <2>3, <2>4, KeptPoll, KeptCycle, KeptLoops DEF WsAdd
<1>3. CASE WsGet
  <2>1. MarketOK' /\ Placed' = Placed BY <1>3, KeptMarket DEF WsGet
  <2> DEFINE id == job["ws"].id
             det == UpdateOrderFromDetail(store[At(id)], job["ws"].det)
  <2>2. job["ws"].det \in Detail /\ id \in Orders
    BY <1>0, <1>3, JobType DEF WsGet, Doing
  <2>3. JobsOK'
    <3>1. CASE started /\ Holds(id)
      <4>1. store[At(id)] \in Detail /\ store[At(id)].id = id /\ id \in Placed
        BY <3>1, HeldType
      <4>2. det \in Detail /\ det.id = id BY <2>2, <4>1, MergedType DEF UpdateOrderFromDetail
      <4>3. Does("ws", "update", id, det) BY <1>3, <3>1 DEF WsGet
      <4> HIDE DEF det
      <4> QED BY <1>0, <2>1, <2>2, <4>1, <4>2, <4>3, DoesType
    <3>2. CASE ~(started /\ Holds(id)) BY <1>0, <1>3, <2>1, <3>2, EndsType DEF WsGet
    <3> QED BY <3>1, <3>2
  <2> QED BY <1>3, <2>1, <2>3, KeptStore, KeptPoll, KeptCycle, KeptLoops DEF WsGet
<1> QED BY <1>1, <1>2, <1>3

LEMMA CancelSendType ==
  ASSUME MarketOK, JobsOK, NEW p \in Procs, NEW o \in Orders, CancelSend(p, o)
  PROVE  MarketOK' /\ JobsOK' /\ Placed' = Placed
<1>1. o \in Placed /\ exch[o].exec \in 0..Amount BY DEF CancelSend, Live, Placed, MarketOK
<1>2. MarketOK' /\ Placed' = Placed BY <1>1, MovesType DEF CancelSend, Status
<1>3. Reported(o) \in Detail /\ Reported(o).id = o BY <1>1, ReportedType
<1>4. JobsOK' BY <1>1, <1>2, <1>3, DoesType DEF CancelSend
<1> QED BY <1>2, <1>4

LEMMA CallStepType ==
  ASSUME TypeInv, NEW c \in Callers, CallNext(c) PROVE TypeInv'
<1> USE DEF TypeInv
<1>0. c \in Procs BY DEF Procs
<1>1. PICK o \in Orders : Submit(c, o) \/ Cancel(c, o) \/ Modify(c, o) \/ GetOrderInfo(c, o)
  BY DEF CallNext
<1>2. CASE Submit(c, o)
  <2> DEFINE det == [id |-> o, st |-> IF o \in Market THEN "FILLED" ELSE "ACTIVE",
                     amt |-> Amount, exec |-> 0]
  <2>1. MarketOK' /\ Placed' = Placed \cup {o} BY <1>2, MovesType DEF Submit, Status
  <2>2. det \in Detail /\ det.id = o BY DEF Detail, Status
  <2>3. Does(c, "submitted", o, det) BY <1>2 DEF Submit
  <2> HIDE DEF det
  <2>4. JobsOK' BY <1>0, <2>1, <2>2, <2>3, DoesType
  <2> QED BY <1>2, <2>1, <2>4, KeptStore, KeptPoll, KeptCycle, KeptLoops DEF Submit
<1>3. CASE Cancel(c, o)
  <2>1. MarketOK' /\ JobsOK' /\ Placed' = Placed BY <1>0, <1>3, CancelSendType DEF Cancel
  <2> QED BY <1>3, <2>1, KeptStore, KeptPoll, KeptCycle, KeptLoops DEF Cancel
<1>4. CASE Modify(c, o)
  <2>0. PICK st \in {"ACTIVE", "UNKNOWN"} :
           Does(c, "modified", o, [id |-> Replace[o], st |-> st, amt |-> Amount, exec |-> 0])
    BY <1>4 DEF Modify
  <2> DEFINE det == [id |-> Replace[o], st |-> st, amt |-> Amount, exec |-> 0]
  <2>1. MarketOK' /\ Placed' = Placed \cup {Replace[o]}
    <3>1. o \in Placed /\ Replace[o] \in Orders BY <1>4 DEF Modify, Live, Placed
    <3>2. CASE Replace[o] = o BY <1>4, <3>1, <3>2, KeptMarket DEF Modify
    <3>3. CASE Replace[o] # o
      <4> DEFINE old == Streamed(o, "CANCELLED", exch[o].exec)
                 new == Streamed(Replace[o], "ACTIVE", 0)
      <4>1. /\ exch' \in [Orders -> [st : (Status \ {"UNKNOWN"}) \cup {"none"}, exec : 0..Amount]]
            /\ Placed' = Placed \cup {Replace[o]}
        <5>1. exch' = [exch EXCEPT ![o].st = "CANCELLED",
                                   ![Replace[o]] = [st |-> "ACTIVE", exec |-> 0]]
          BY <1>4, <3>3 DEF Modify
        <5>2. \A p \in Orders \ {o, Replace[o]} : exch'[p] = exch[p] BY <5>1 DEF MarketOK
        <5>3. exch'[Replace[o]] = [st |-> "ACTIVE", exec |-> 0] BY <3>1, <5>1 DEF MarketOK
        <5>4. exch'[o] = [exch[o] EXCEPT !.st = "CANCELLED"] BY <3>1, <3>3, <5>1 DEF MarketOK
        <5>5. exch'[o] \in [st : (Status \ {"UNKNOWN"}) \cup {"none"}, exec : 0..Amount]
          BY <5>4, SMTT(20) DEF MarketOK, Status
        <5>6. exch' \in [Orders -> [st : (Status \ {"UNKNOWN"}) \cup {"none"}, exec : 0..Amount]]
          <6> DEFINE X == [st : (Status \ {"UNKNOWN"}) \cup {"none"}, exec : 0..Amount]
          <6>1. exch \in [Orders -> X] BY DEF MarketOK
          <6>2. exch'[Replace[o]] \in X BY <5>3 DEF Status
          <6>3. exch'[o] \in X BY <5>5
          <6> HIDE DEF X
          <6>4. \A p \in Orders : exch'[p] \in X BY <5>2, <6>1, <6>2, <6>3
          <6>5. exch' \in [Orders -> X] BY <5>1, <6>1, <6>4
          <6> QED BY <6>5 DEF X
        <5>7. exch'[o].st # "none" BY <5>4 DEF MarketOK
        <5>8. Placed' = Placed \cup {Replace[o]} BY <3>1, <5>2, <5>3, <5>7 DEF Placed
        <5> QED BY <5>6, <5>8
      <4>2. exch[o].exec \in 0..Amount BY DEF MarketOK
      <4>3. /\ \A d \in old : d \in Detail /\ d.id = o
            /\ \A d \in new : d \in Detail /\ d.id = Replace[o]
        BY <3>1, <4>2, StreamedType DEF Status
      <4>4. Tells({<<d>> : d \in old \cup new} \cup (old \X new)) BY <1>4, <3>3 DEF Modify
      <4> HIDE DEF old, new
      <4>5. ASSUME NEW q \in {<<d>> : d \in old \cup new} \cup (old \X new)
            PROVE  q \in Seq(Detail) /\ \A i \in DOMAIN q : q[i].id \in Placed'
        <5>1. CASE \E d \in old \cup new : q = <<d>>
          <6>1. PICK d \in old \cup new : q = <<d>> BY <5>1
          <6>2. d \in Detail /\ d.id \in Placed' BY <3>1, <4>1, <4>3
          <6> QED BY <6>1, <6>2
        <5>2. CASE q \in old \X new
          <6>1. PICK a \in old, b \in new : q = <<a, b>> BY <5>2
          <6>2. a \in Detail /\ b \in Detail /\ a.id \in Placed' /\ b.id \in Placed'
            BY <3>1, <4>1, <4>3
          <6> QED BY <6>1, <6>2
        <5> QED BY <4>5, <5>1, <5>2
      <4>6. wsq' \in Seq(Detail) /\ \A i \in DOMAIN wsq' : wsq'[i].id \in Placed'
        BY <4>1, <4>4, <4>5, TellsType
      <4> QED BY <4>1, <4>6 DEF MarketOK
    <3> QED BY <3>2, <3>3
  <2>2. det \in Detail /\ det.id = Replace[o]
    BY DEF Detail, Status
  <2>3. Does(c, "modified", o, det) BY <2>0
  <2> HIDE DEF det
  <2>4. JobsOK' BY <1>0, <2>1, <2>2, <2>3, DoesType
  <2> QED BY <1>4, <2>1, <2>4, KeptStore, KeptPoll, KeptCycle, KeptLoops DEF Modify
<1>5. CASE GetOrderInfo(c, o)
  <2>1. MarketOK' /\ Placed' = Placed BY <1>5, KeptMarket DEF GetOrderInfo
  <2>2. o \in Placed BY <1>5 DEF GetOrderInfo, Placed
  <2>3. Reported(o) \in Detail /\ Reported(o).id = o BY <2>2, ReportedType
  <2>4. JobsOK' BY <1>0, <1>5, <2>1, <2>2, <2>3, DoesType DEF GetOrderInfo
  <2> QED BY <1>5, <2>1, <2>4, KeptStore, KeptPoll, KeptCycle, KeptLoops DEF GetOrderInfo
<1> QED BY <1>1, <1>2, <1>3, <1>4, <1>5
LEMMA ModifyStoreType ==
  ASSUME TypeInv, NEW c \in Procs, ModifyStore(c) PROVE TypeInv'
<1> USE DEF TypeInv
<1>1. MarketOK' /\ Placed' = Placed BY KeptMarket DEF ModifyStore
<1>2. JobsOK' BY <1>1, EndsType DEF ModifyStore
<1> DEFINE id == job[c].id
           res == job[c].det
<1>3. res \in Detail /\ res.id \in Placed BY JobType DEF ModifyStore, Doing
<1>4. StoreOK'
  <2>1. CASE Holds(id)
    <3> DEFINE e == Modified(store[At(id)], res)
    <3>1. store' = [store EXCEPT ![At(id)] = e]
      BY <2>1 DEF ModifyStore, modifyExisting, Modified
    <3>2. At(id) \in DOMAIN store /\ store[At(id)] \in Detail BY <2>1, HeldType
    <3>3. e \in Detail /\ e.id = res.id BY <1>3, <3>2, ModifiedType
    <3> HIDE DEF e
    <3>5. store' \in Seq(Detail) /\ DOMAIN store' = DOMAIN store BY <3>1, <3>2, <3>3 DEF StoreOK
    <3>7. ASSUME NEW i \in DOMAIN store' PROVE store'[i].id \in Placed'
      BY <1>1, <1>3, <3>1, <3>3, <3>5 DEF StoreOK
    <3> QED BY <3>5, <3>7 DEF StoreOK
  <2>2. CASE ~Holds(id) BY <1>1, <2>2, KeptStore DEF ModifyStore, modifyExisting
  <2> QED BY <2>1, <2>2
<1> QED BY <1>1, <1>2, <1>4, KeptPoll, KeptCycle, KeptLoops DEF ModifyStore

\* The steps by which a goroutine ends its work on the store.
LEMMA ReturnStepType ==
  ASSUME TypeInv, NEW p \in Procs,
         \/ processSubmittedOrder(p) \/ GetOrderInfoStore(p) \/ UpdateExistingOrder(p)
  PROVE  TypeInv'
<1> USE DEF TypeInv
<1>1. MarketOK' /\ Placed' = Placed
  BY KeptMarket DEF processSubmittedOrder, GetOrderInfoStore, UpdateExistingOrder
<1>2. job[p].det \in Detail /\ job[p].det.id \in Placed
  BY JobType DEF processSubmittedOrder, GetOrderInfoStore, UpdateExistingOrder, Doing
<1>3. \/ UNCHANGED store \/ add(job[p].det)
      \/ updateExisting(job[p].det) \/ upsert(job[p].det)
  BY DEF processSubmittedOrder, GetOrderInfoStore, UpdateExistingOrder
<1>4. StoreOK' BY <1>1, <1>2, <1>3, StoreType
<1>5. JobsOK' BY <1>1, EndsType DEF processSubmittedOrder, GetOrderInfoStore, UpdateExistingOrder
<1> QED BY <1>1, <1>4, <1>5, KeptPoll, KeptCycle, KeptLoops
        DEF processSubmittedOrder, GetOrderInfoStore, UpdateExistingOrder

LEMMA CancelGetType ==
  ASSUME TypeInv, NEW p \in Procs, CancelGet(p) PROVE TypeInv'
<1> USE DEF TypeInv
<1>1. MarketOK' /\ Placed' = Placed BY KeptMarket DEF CancelGet
<1> DEFINE id == job[p].id
           det == [store[At(id)] EXCEPT !.st = "CANCELLED"]
<1>2. id \in Orders BY JobType DEF CancelGet, Doing
<1>3. JobsOK'
  <2>1. CASE Holds(id)
    <3>1. store[At(id)] \in Detail /\ store[At(id)].id = id /\ id \in Placed BY <2>1, HeldType
    <3>2. det \in Detail /\ det.id = id BY <3>1 DEF Detail, Status
    <3>3. Does(p, "update", id, det) BY <2>1 DEF CancelGet
    <3> HIDE DEF det
    <3> QED BY <1>1, <1>2, <3>1, <3>2, <3>3, DoesType
  <2>2. CASE ~Holds(id) BY <1>1, <2>2, EndsType DEF CancelGet
  <2> QED BY <2>1, <2>2
<1> QED BY <1>1, <1>3, KeptStore, KeptPoll, KeptCycle, KeptLoops DEF CancelGet

LEMMA PollStepType ==
  ASSUME TypeInv, PollNext PROVE TypeInv'
<1> USE DEF TypeInv
<1>0. /\ poll \in Poll /\ poll.mine \in SUBSET [at : Nat, id : Orders]
      /\ poll.result \in SUBSET Detail
  BY DEF PollOK, Poll
<1>1. MarketOK' /\ Placed' = Placed /\ JobsOK' /\ CycleOK'
  BY KeptMarket, KeptJobs, KeptCycle
  DEF PollNext, GetActiveOrders, GetActiveOrdersFails, PollListed, UpdateExchangeOrder, PollDone,
      UpsertOrder, FetchExchangeOrder, FetchSkipped
<1>2. CASE GetActiveOrders
  <2> DEFINE live == {Reported(o) : o \in {q \in Orders : Live(q)}}
  <2>1. live \in SUBSET Detail /\ \A d \in live : d.id \in Placed
    <3>1. ASSUME NEW o \in Orders, Live(o)
          PROVE  Reported(o) \in Detail /\ Reported(o).id \in Placed
      <4>1. o \in Placed BY <3>1 DEF Live, Placed
      <4> QED BY <4>1, ReportedType
    <3> QED BY <3>1
  <2>2. poll' = [poll EXCEPT !.pc = "upsert", !.result = live] BY <1>2 DEF GetActiveOrders
  <2> HIDE DEF live
  <2>3. PollOK' BY <1>0, <1>1, <2>1, <2>2 DEF PollOK, Poll
  <2> QED BY <1>1, <1>2, <2>3, KeptStore, KeptLoops DEF GetActiveOrders
<1>3. CASE GetActiveOrdersFails \/ PollDone
  BY <1>1, <1>3, PollEndsType, KeptStore DEF GetActiveOrdersFails, PollDone
<1>4. CASE PollListed
  <2>1. PollOK' /\ LoopsOK'
    <3>1. CASE GetOrder
      <4>1. poll' = [poll EXCEPT !.pc = "match"] /\ UNCHANGED loops BY <1>4, <3>1 DEF PollListed
      <4> QED BY <1>0, <1>1, <4>1, KeptLoops DEF PollOK, Poll
    <3>2. CASE ~GetOrder BY <1>4, <3>2, PollEndsType DEF PollListed
    <3> QED BY <3>1, <3>2
  <2> QED BY <1>1, <1>4, <2>1, KeptStore DEF PollListed
<1>5. CASE UpdateExchangeOrder
  <2>1. PollOK' BY <1>0, <1>1, <1>5 DEF UpdateExchangeOrder, PollOK, Poll
  <2>2. StoreOK'
    <3>1. CASE started
      <4>1. PICK det \in poll.result : upsert(det) BY <1>5, <3>1 DEF UpdateExchangeOrder
      <4> QED BY <1>0, <1>1, <4>1, StoreType DEF PollOK
    <3>2. CASE ~started BY <1>1, <1>5, <3>2, KeptStore DEF UpdateExchangeOrder
    <3> QED BY <3>1, <3>2
  <2> QED BY <1>1, <1>5, <2>1, <2>2, KeptLoops DEF UpdateExchangeOrder
<1>6. ASSUME NEW det \in poll.result, UpsertOrder(det) PROVE TypeInv'
  <2>1. det \in Detail /\ det.id \in Placed BY <1>0 DEF PollOK
  <2>2. StoreOK' BY <1>1, <1>6, <2>1, StoreType DEF UpsertOrder
  <2>3. PollOK'
    <3>1. CASE started
      <4> DEFINE rest == {m \in poll.mine : ~(Holds(det.id) /\ m.at = At(det.id))}
      <4>1. poll' = [poll EXCEPT !.result = poll.result \ {det}, !.mine = rest]
        BY <1>6, <3>1 DEF UpsertOrder
      <4>2. rest \subseteq poll.mine OBVIOUS
      <4> HIDE DEF rest
      <4> QED BY <1>0, <1>1, <4>1, <4>2 DEF PollOK, Poll
    <3>2. CASE ~started BY <1>0, <1>1, <1>6, <3>2 DEF UpsertOrder, PollOK, Poll
    <3> QED BY <3>1, <3>2
  <2> QED BY <1>1, <1>6, <2>2, <2>3, KeptLoops DEF UpsertOrder
<1>7. ASSUME NEW m \in poll.mine, FetchExchangeOrder(m) PROVE TypeInv'
  <2>1. Reported(m.id) \in Detail /\ Reported(m.id).id = m.id
    <3>1. m.id \in Placed BY DEF PollOK
    <3> QED BY <3>1, ReportedType
  <2>2. poll' = [poll EXCEPT !.pc = "store", !.mine = poll.mine \ {m}, !.result = {Reported(m.id)}]
    BY <1>7 DEF FetchExchangeOrder
  <2>3. PollOK' BY <1>0, <1>1, <2>1, <2>2 DEF PollOK, Poll
  <2> QED BY <1>1, <1>7, <2>3, KeptStore, KeptLoops DEF FetchExchangeOrder
<1>8. ASSUME NEW m \in poll.mine, FetchSkipped(m) PROVE TypeInv'
  <2>1. PollOK' BY <1>0, <1>1, <1>8 DEF FetchSkipped, PollOK, Poll
  <2> QED BY <1>1, <1>8, <2>1, KeptStore, KeptLoops DEF FetchSkipped
<1> QED BY <1>2, <1>3, <1>4, <1>5, <1>6, <1>7, <1>8 DEF PollNext
LEMMA CycleStepType ==
  ASSUME TypeInv, StopClose \/ StopReset \/ \E r \in Runs : Start(r) PROVE TypeInv'
<1> USE DEF TypeInv
<1>1. MarketOK' /\ Placed' = Placed BY KeptMarket DEF StopClose, StopReset, Start
<1>2. StoreOK' /\ JobsOK' /\ PollOK'
  BY <1>1, KeptStore, KeptJobs, KeptPoll DEF StopClose, StopReset, Start
<1>3. CycleOK' BY DEF CycleOK, StopClose, StopReset, Start
<1>4. LoopsOK' BY DEF LoopsOK, StopClose, StopReset, Start, loops
<1> QED BY <1>1, <1>2, <1>3, <1>4

LEMMA RunStepType ==
  ASSUME TypeInv, NEW r \in Runs, RunNext(r) PROVE TypeInv'
<1> USE DEF TypeInv
<1>0. r \in Procs BY DEF Procs
<1>1. CASE RunBoot(r) \/ RunTick(r)
  <2>1. MarketOK' /\ Placed' = Placed BY <1>1, KeptMarket DEF RunBoot, RunTick
  <2>2. StoreOK' /\ JobsOK' /\ CycleOK'
    BY <1>1, <2>1, KeptStore, KeptJobs, KeptCycle DEF RunBoot, RunTick
  <2>3. UNCHANGED poll \/ PollBegins(r) \/ PollBegins(NoRun) BY <1>1 DEF RunBoot, RunTick
  <2>4. PollOK' BY <2>1, <2>3, KeptPoll, PollBeginsType
  <2>5. LoopsOK' BY <1>1 DEF RunBoot, RunTick, LoopsOK
  <2> QED BY <2>1, <2>2, <2>4, <2>5
<1>2. CASE RunSelect(r) \/ RunShutdown(r) \/ RunGone(r)
  <2>1. MarketOK' /\ Placed' = Placed BY <1>2, KeptMarket DEF RunSelect, RunShutdown, RunGone
  <2>2. StoreOK' /\ JobsOK' /\ PollOK' /\ CycleOK'
    BY <1>2, <2>1, KeptStore, KeptJobs, KeptPoll, KeptCycle DEF RunSelect, RunShutdown, RunGone
  <2>3. LoopsOK'
    <3>1. CASE RunSelect(r) BY <3>1 DEF RunSelect, LoopsOK, CycleOK
    <3>2. CASE RunGone(r) BY <3>2 DEF RunGone, LoopsOK
    <3>3. CASE RunShutdown(r)
      <4>1. {store[i].id : i \in DOMAIN store} \in SUBSET Orders BY DEF StoreOK, Placed
      <4> QED BY <3>3, <4>1 DEF RunShutdown, LoopsOK
    <3> QED BY <1>2, <3>1, <3>2, <3>3
  <2> QED BY <2>1, <2>2, <2>3
<1>3. CASE CancelGet(r) BY <1>0, <1>3, CancelGetType
<1>4. CASE UpdateExistingOrder(r) BY <1>0, <1>4, ReturnStepType
<1>5. ASSUME NEW o \in Orders, RunCancel(r, o) PROVE TypeInv'
  <2>1. MarketOK' /\ JobsOK' /\ Placed' = Placed
    <3>1. CASE CancelSend(r, o) BY <1>0, <3>1, CancelSendType
    <3>2. CASE UNCHANGED <<market, job>>
      BY <3>2, KeptMarket, KeptJobs
    <3> QED BY <1>5, <3>1, <3>2 DEF RunCancel
  <2>2. LoopsOK' BY <1>5 DEF RunCancel, LoopsOK
  <2> QED BY <1>5, <2>1, <2>2, KeptStore, KeptPoll, KeptCycle DEF RunCancel
<1> QED BY <1>1, <1>2, <1>3, <1>4, <1>5 DEF RunNext

LEMMA TypeStep == TypeInv /\ [Next]_vars => TypeInv'
<1> SUFFICES ASSUME TypeInv, [Next]_vars PROVE TypeInv' OBVIOUS
<1>1. CASE ExchangeNext BY <1>1, MarketStepType
<1>2. CASE WsNext
  <2>1. "ws" \in Procs BY DEF Procs
  <2> QED BY <1>2, <2>1, WsStepType, ReturnStepType DEF WsNext
<1>3. CASE PollNext BY <1>3, PollStepType
<1>4. ASSUME NEW c \in Callers, CallNext(c) \/ ReturnNext(c) PROVE TypeInv'
  <2>1. c \in Procs BY DEF Procs
  <2> QED BY <1>4, <2>1, CallStepType, ReturnStepType, ModifyStoreType, CancelGetType
          DEF ReturnNext
<1>5. CASE StopClose \/ StopReset \/ \E r \in Runs : Start(r) BY <1>5, CycleStepType
<1>6. ASSUME NEW r \in Runs, RunNext(r) PROVE TypeInv' BY <1>6, RunStepType
<1>7. CASE UNCHANGED vars
  BY <1>7, KeptMarket, KeptStore, KeptJobs, KeptPoll, KeptCycle, KeptLoops
  DEF vars, market, cycle, loops, TypeInv
<1> QED BY <1>1, <1>2, <1>3, <1>4, <1>5, <1>6, <1>7 DEF Next

\* Every variable of the order manager keeps its type: no operation stores an
\* order the exchange does not have, and Stop always has a channel to close.
THEOREM TypeCorrect == Spec => []TypeOK
<1>1. Spec => []TypeInv BY TypeInit, TypeStep, PTL DEF Spec
<1> QED BY <1>1, TypeInvType, PTL

-----------------------------------------------------------------------------
(***************************************************************************)
(* The run goroutine.  The one Start made last listens on the channel it   *)
(* was made with, and only Stop closes that channel.                       *)
(***************************************************************************)
LoopInv ==
  /\ \A r \in Runs : run[r] = "none" => ch[r] = NoRun /\ r \notin closed
  /\ \A r \in Runs : run[r] = "cancel" => ch[r] \in closed
  /\ chan \in Runs => ch[chan] \in {NoRun, chan}
  /\ started => chan \in Runs
  /\ stopping => started
  /\ started /\ ~stopping => chan \notin closed /\ run[chan] \notin {"none", "gone"}

LEMMA LoopInit == Init => LoopInv
BY DEF Init, LoopInv

LEMMA LoopKept ==
  ASSUME LoopInv, UNCHANGED <<cycle, run, ch>> PROVE LoopInv'
BY DEF LoopInv, cycle

LEMMA LoopPollEnds ==
  ASSUME TypeInv, LoopInv, PollEnds, UNCHANGED cycle PROVE LoopInv'
<1>1. poll.owner \in Runs \cup {NoRun} BY DEF TypeInv, PollOK, Poll
<1> QED BY <1>1 DEF PollEnds, LoopInv, cycle, TypeInv, LoopsOK, CycleOK

LEMMA LoopStep == TypeInv /\ LoopInv /\ [Next]_vars => LoopInv'
<1> SUFFICES ASSUME TypeInv, LoopInv, [Next]_vars PROVE LoopInv' OBVIOUS
<1> USE DEF TypeInv, LoopsOK, CycleOK
<1>1. CASE ExchangeNext \/ WsNext
  BY <1>1, LoopKept DEF ExchangeNext, WsNext, ExchangeOpen, ExchangeFill, ExchangeCancel,
     WsReceive, WsAdd, WsGet, UpdateExistingOrder, loops
<1>2. CASE PollNext
  BY <1>2, LoopKept, LoopPollEnds DEF PollNext, GetActiveOrders, GetActiveOrdersFails, PollListed,
     UpdateExchangeOrder, PollDone, UpsertOrder, FetchExchangeOrder, FetchSkipped, loops
<1>3. ASSUME NEW c \in Callers, CallNext(c) \/ ReturnNext(c) PROVE LoopInv'
  BY <1>3, LoopKept DEF CallNext, ReturnNext, Submit, Cancel, Modify, GetOrderInfo,
     processSubmittedOrder, ModifyStore, GetOrderInfoStore, CancelGet, UpdateExistingOrder, loops
<1>4. CASE StopClose BY <1>4 DEF StopClose, LoopInv, loops
<1>5. CASE StopReset BY <1>5 DEF StopReset, LoopInv, loops
<1>6. ASSUME NEW r \in Runs, Start(r) PROVE LoopInv' BY <1>6 DEF Start, LoopInv
<1>7. ASSUME NEW r \in Runs, RunNext(r) PROVE LoopInv'
  <2>1. CASE RunBoot(r) BY <2>1 DEF RunBoot, LoopInv, cycle
  <2>2. CASE RunSelect(r) BY <2>2 DEF RunSelect, LoopInv, cycle
  <2>3. CASE RunTick(r) BY <2>3 DEF RunTick, LoopInv, cycle
  <2>4. CASE RunShutdown(r) BY <2>4 DEF RunShutdown, LoopInv, cycle
  <2>5. CASE RunGone(r) BY <2>5 DEF RunGone, LoopInv, cycle
  <2>6. CASE CancelGet(r) \/ UpdateExistingOrder(r) \/ \E o \in Orders : RunCancel(r, o)
    BY <2>6, LoopKept DEF CancelGet, UpdateExistingOrder, RunCancel, loops
  <2> QED BY <1>7, <2>1, <2>2, <2>3, <2>4, <2>5, <2>6 DEF RunNext
<1>8. CASE UNCHANGED vars BY <1>8, LoopKept DEF vars, cycle
<1> QED BY <1>1, <1>2, <1>3, <1>4, <1>5, <1>6, <1>7, <1>8 DEF Next

\* A manager that is started, however often and however quickly it was stopped
\* and started before, has a run goroutine that has not ended.
THEOREM RunWhileStartedAlways == Spec => []RunWhileStarted
<1>1. Spec => []TypeInv BY TypeInit, TypeStep, PTL DEF Spec
<1>2. Spec => []LoopInv BY <1>1, LoopInit, LoopStep, PTL DEF Spec
<1>3. LoopInv => RunWhileStarted BY DEF LoopInv, RunWhileStarted
<1> QED BY <1>2, <1>3, PTL
-----------------------------------------------------------------------------
(***************************************************************************)
(* The job of a goroutine is about one order; only Modify holds the id that*)
(* the exchange put in place of the one it was asked for.                  *)
(***************************************************************************)
IdAfter(pc, id) == IF pc = "modified" THEN Replace[id] ELSE id

OneOrder == \A p \in Procs : job[p] # Idle => job[p].det.id = IdAfter(job[p].pc, job[p].id)

LEMMA OneOrderDoes ==
  ASSUME JobsOK, OneOrder, NEW p \in Procs, NEW pc, NEW id, NEW det,
         Does(p, pc, id, det), det.id = IdAfter(pc, id)
  PROVE  OneOrder'
BY DEF OneOrder, Does, JobsOK

LEMMA OneOrderEnds == ASSUME JobsOK, OneOrder, NEW p \in Procs, Ends(p) PROVE OneOrder'
BY DEF OneOrder, Ends, JobsOK

LEMMA OneOrderStep == TypeInv /\ OneOrder /\ [Next]_vars => OneOrder'
<1> SUFFICES ASSUME TypeInv, OneOrder, [Next]_vars PROVE OneOrder' OBVIOUS
<1> USE DEF TypeInv, IdAfter
<1>1. CASE UNCHANGED job BY <1>1 DEF OneOrder
<1>2. CASE WsReceive
  <2>1. "ws" \in Procs BY DEF Procs
  <2>2. CASE started BY <1>2, <2>1, <2>2, OneOrderDoes DEF WsReceive
  <2> QED BY <1>1, <1>2, <2>2 DEF WsReceive
<1>3. CASE WsGet
  <2>0. "ws" \in Procs BY DEF Procs
  <2> DEFINE id == job["ws"].id
  <2>1. CASE started /\ Holds(id)
    <3>1. UpdateOrderFromDetail(store[At(id)], job["ws"].det).id = id
      BY <2>1, HeldType DEF UpdateOrderFromDetail
    <3>2. Does("ws", "update", id, UpdateOrderFromDetail(store[At(id)], job["ws"].det))
      BY <1>3, <2>1 DEF WsGet
    <3> QED BY <2>0, <3>1, <3>2, OneOrderDoes
  <2>2. CASE ~(started /\ Holds(id)) BY <1>3, <2>0, <2>2, OneOrderEnds DEF WsGet
  <2> QED BY <2>1, <2>2
<1>4. ASSUME NEW p \in Procs, Ends(p) PROVE OneOrder' BY <1>4, OneOrderEnds
<1>5. ASSUME NEW p \in Procs, NEW o \in Orders, CancelSend(p, o) PROVE OneOrder'
  BY <1>5, OneOrderDoes DEF CancelSend, Reported
<1>6. ASSUME NEW p \in Procs, CancelGet(p) PROVE OneOrder'
  <2> DEFINE id == job[p].id
  <2>1. CASE Holds(id)
    <3>1. store[At(id)] \in Detail /\ store[At(id)].id = id BY <2>1, HeldType
    <3>2. [store[At(id)] EXCEPT !.st = "CANCELLED"].id = id BY <3>1 DEF Detail
    <3>3. Does(p, "update", id, [store[At(id)] EXCEPT !.st = "CANCELLED"])
      BY <1>6, <2>1 DEF CancelGet
    <3> QED BY <3>2, <3>3, OneOrderDoes
  <2>2. CASE ~Holds(id) BY <1>6, <2>2, OneOrderEnds DEF CancelGet
  <2> QED BY <2>1, <2>2
<1>7. ASSUME NEW c \in Callers, CallNext(c) PROVE OneOrder'
  <2>0. c \in Procs BY DEF Procs
  <2>1. PICK o \in Orders : Submit(c, o) \/ Cancel(c, o) \/ Modify(c, o) \/ GetOrderInfo(c, o)
    BY <1>7 DEF CallNext
  <2>2. CASE Submit(c, o) BY <2>0, <2>2, OneOrderDoes DEF Submit
  <2>3. CASE Cancel(c, o) BY <1>5, <2>0, <2>3 DEF Cancel
  <2>4. CASE Modify(c, o)
    <3>1. [Reported(o) EXCEPT !.id = Replace[o]].id = Replace[o] BY DEF Reported
    <3> QED BY <2>0, <2>4, <3>1, OneOrderDoes DEF Modify
  <2>5. CASE GetOrderInfo(c, o) BY <2>0, <2>5, OneOrderDoes DEF GetOrderInfo, Reported
  <2> QED BY <2>1, <2>2, <2>3, <2>4, <2>5
<1>8. CASE ExchangeNext
  BY <1>1, <1>8 DEF ExchangeNext, ExchangeOpen, ExchangeFill, ExchangeCancel
<1>9. CASE WsNext
  <2>1. "ws" \in Procs BY DEF Procs
  <2> QED BY <1>2, <1>3, <1>4, <1>9, <2>1 DEF WsNext, WsAdd, UpdateExistingOrder
<1>10. CASE PollNext
  BY <1>1, <1>10 DEF PollNext, GetActiveOrders, GetActiveOrdersFails, PollListed,
     UpdateExchangeOrder, PollDone, UpsertOrder, FetchExchangeOrder, FetchSkipped
<1>11. ASSUME NEW c \in Callers, ReturnNext(c) PROVE OneOrder'
  <2>1. c \in Procs BY DEF Procs
  <2> QED BY <1>4, <1>6, <1>11, <2>1
          DEF ReturnNext, processSubmittedOrder, ModifyStore, GetOrderInfoStore, UpdateExistingOrder
<1>12. CASE StopClose \/ StopReset \/ \E r \in Runs : Start(r)
  BY <1>1, <1>12 DEF StopClose, StopReset, Start
<1>13. ASSUME NEW r \in Runs, RunNext(r) PROVE OneOrder'
  <2>1. r \in Procs BY DEF Procs
  <2>2. CASE RunBoot(r) \/ RunSelect(r) \/ RunTick(r) \/ RunShutdown(r) \/ RunGone(r)
    BY <1>1, <2>2 DEF RunBoot, RunSelect, RunTick, RunShutdown, RunGone
  <2>3. CASE CancelGet(r) \/ UpdateExistingOrder(r)
    BY <1>4, <1>6, <2>1, <2>3 DEF UpdateExistingOrder
  <2>4. CASE \E o \in Orders : RunCancel(r, o) BY <1>1, <1>5, <2>1, <2>4 DEF RunCancel
  <2> QED BY <1>13, <2>2, <2>3, <2>4 DEF RunNext
<1> QED BY <1>1, <1>7, <1>8, <1>9, <1>10, <1>11, <1>12, <1>13 DEF Next, vars

-----------------------------------------------------------------------------
(***************************************************************************)
(* Entries stay, also where a modification gives an order another id: what *)
(* Modify writes is the id the exchange put in place of the entry's, and   *)
(* every other write keeps the id of the entry it merges into.             *)
(***************************************************************************)
EntriesKept ==
  \A i \in DOMAIN store :
    i \in DOMAIN store' /\ store'[i].id \in {store[i].id, Replace[store[i].id]}

\* A write keeps the entries and their ids.
LEMMA EntriesWrite ==
  ASSUME StoreOK, NEW det \in Detail,
         UNCHANGED store \/ add(det) \/ updateExisting(det) \/ upsert(det)
  PROVE  EntriesKept
<1>1. store' = store \/ Grown(det) \/ Merged(det) BY Writes DEF StoreOK
<1>2. store \in Seq(Detail) BY DEF StoreOK
<1>3. CASE store' = store BY <1>3 DEF EntriesKept
<1>4. CASE Grown(det) BY <1>2, <1>4 DEF Grown, EntriesKept
<1>5. CASE Merged(det)
  <2>1. PICK k \in DOMAIN store :
           store' = [store EXCEPT ![k] = UpdateOrderFromDetail(store[k], det)]
    BY <1>5 DEF Merged
  <2>2. DOMAIN store' = DOMAIN store /\ \A i \in DOMAIN store : store'[i].id = store[i].id
    BY <1>2, <2>1 DEF UpdateOrderFromDetail
  <2> QED BY <2>2 DEF EntriesKept
<1> QED BY <1>1, <1>3, <1>4, <1>5

LEMMA EntriesStep == TypeInv /\ OneOrder /\ [Next]_vars => EntriesKept
<1> SUFFICES ASSUME TypeInv, OneOrder, [Next]_vars PROVE EntriesKept OBVIOUS
<1> USE DEF TypeInv
<1>1. CASE UNCHANGED store BY <1>1 DEF EntriesKept
<1>2. ASSUME NEW p \in Procs, job[p] # Idle,
             \/ UNCHANGED store \/ add(job[p].det)
             \/ updateExisting(job[p].det) \/ upsert(job[p].det)
      PROVE  EntriesKept
  BY <1>2, JobType, EntriesWrite
<1>3. ASSUME NEW det \in poll.result, upsert(det) PROVE EntriesKept
  <2>1. det \in Detail BY DEF PollOK, Poll
  <2> QED BY <1>3, <2>1, EntriesWrite
<1>4. ASSUME NEW c \in Procs, ModifyStore(c) PROVE EntriesKept
  <2> DEFINE id == job[c].id
             at == At(id)
  <2>1. job[c].det.id = Replace[id] BY <1>4 DEF ModifyStore, Doing, OneOrder, IdAfter
  <2>2. CASE Holds(id)
    <3> DEFINE e == Modified(store[at], job[c].det)
    <3>1. store' = [store EXCEPT ![at] = e]
      BY <1>4, <2>2 DEF ModifyStore, modifyExisting, Modified
    <3>2. at \in DOMAIN store /\ store[at].id = id /\ store[at] \in Detail BY <2>2, HeldType
    <3>3. job[c].det \in Detail BY <1>4, JobType DEF ModifyStore, Doing
    <3>a. e.id = Replace[id] BY <2>1, <3>2, <3>3, ModifiedType
    <3> HIDE DEF e, at, id
    <3>4. /\ DOMAIN store' = DOMAIN store /\ store'[at].id = Replace[id]
          /\ \A i \in DOMAIN store \ {at} : store'[i] = store[i]
      BY <3>1, <3>2, <3>a
    <3> QED BY <3>2, <3>4 DEF EntriesKept
  <2>3. CASE ~Holds(id) BY <1>1, <1>4, <2>3 DEF ModifyStore, modifyExisting
  <2> QED BY <2>2, <2>3
<1>5. CASE ExchangeNext
  BY <1>1, <1>5 DEF ExchangeNext, ExchangeOpen, ExchangeFill, ExchangeCancel
<1>6. CASE WsNext
  <2>1. "ws" \in Procs BY DEF Procs
  <2> QED BY <1>1, <1>2, <1>6, <2>1 DEF WsNext, WsReceive, WsAdd, WsGet, UpdateExistingOrder, Doing
<1>7. CASE PollNext
  BY <1>1, <1>3, <1>7 DEF PollNext, GetActiveOrders, GetActiveOrdersFails, PollListed,
     UpdateExchangeOrder, PollDone, UpsertOrder, FetchExchangeOrder, FetchSkipped
<1>8. ASSUME NEW c \in Callers, CallNext(c) \/ ReturnNext(c) PROVE EntriesKept
  <2>1. c \in Procs BY DEF Procs
  <2> QED BY <1>1, <1>2, <1>4, <1>8, <2>1
          DEF CallNext, Submit, Cancel, Modify, GetOrderInfo, ReturnNext, processSubmittedOrder,
              GetOrderInfoStore, CancelGet, UpdateExistingOrder, Doing
<1>9. CASE StopClose \/ StopReset \/ \E r \in Runs : Start(r)
  BY <1>1, <1>9 DEF StopClose, StopReset, Start
<1>10. ASSUME NEW r \in Runs, RunNext(r) PROVE EntriesKept
  <2>1. r \in Procs BY DEF Procs
  <2> QED BY <1>1, <1>2, <1>10, <2>1
          DEF RunNext, RunBoot, RunSelect, RunTick, RunShutdown, RunGone, CancelGet,
              UpdateExistingOrder, RunCancel, Doing
<1> QED BY <1>1, <1>5, <1>6, <1>7, <1>8, <1>9, <1>10 DEF Next, vars

\* No write loses an entry of the store, and an entry changes its id only to the one the
\* exchange gave the order when it was modified, however stale the copies that are merged.
THEOREM EntriesStayAlways == Spec => EntriesStay
<1>1. Spec => []TypeInv BY TypeInit, TypeStep, PTL DEF Spec
<1>2. Init => OneOrder BY DEF Init, OneOrder
<1>3. TypeInv /\ OneOrder /\ [Next]_vars => OneOrder' BY OneOrderStep
<1>4. TypeInv /\ OneOrder /\ [Next]_vars
        => [\A i \in DOMAIN store :
              i \in DOMAIN store' /\ store'[i].id \in {store[i].id, Replace[store[i].id]}]_vars
  BY EntriesStep DEF EntriesKept
<1> QED BY <1>1, <1>2, <1>3, <1>4, PTL DEF Spec, EntriesStay

-----------------------------------------------------------------------------
(***************************************************************************)
(* An order the store holds is never appended again, and a modification    *)
(* makes two entries meet in a replaced id only.                           *)
(***************************************************************************)
\* A write leaves every id unique.
LEMMA UniqueWrite ==
  ASSUME StoreOK, IdsUnique, NEW det \in Detail,
         UNCHANGED store \/ add(det) \/ updateExisting(det) \/ upsert(det)
  PROVE  IdsUnique'
<1>1. store' = store \/ Grown(det) \/ Merged(det) BY Writes DEF StoreOK
<1>2. store \in Seq(Detail) BY DEF StoreOK
<1>3. CASE store' = store BY <1>3 DEF IdsUnique
<1>4. CASE Grown(det) BY <1>2, <1>4 DEF Grown, Holds, IdsUnique
<1>5. CASE Merged(det)
  <2>1. PICK k \in DOMAIN store : /\ store[k].id = det.id
           /\ store' = [store EXCEPT ![k] = UpdateOrderFromDetail(store[k], det)]
    BY <1>5 DEF Merged
  <2>2. DOMAIN store' = DOMAIN store /\ \A i \in DOMAIN store : store'[i].id = store[i].id
    BY <1>2, <2>1 DEF UpdateOrderFromDetail
  <2> QED BY <2>2 DEF IdsUnique
<1> QED BY <1>1, <1>3, <1>4, <1>5

LEMMA UniqueStep ==
  ASSUME TypeInv, OneOrder, IdsUnique, [Next]_vars PROVE IdsUnique'
<1> USE DEF TypeInv
<1>1. CASE UNCHANGED store BY <1>1 DEF IdsUnique
<1>2. ASSUME NEW p \in Procs, job[p] # Idle,
             \/ UNCHANGED store \/ add(job[p].det)
             \/ updateExisting(job[p].det) \/ upsert(job[p].det)
      PROVE  IdsUnique'
  BY <1>2, JobType, UniqueWrite
<1>3. ASSUME NEW det \in poll.result, upsert(det) PROVE IdsUnique'
  <2>1. det \in Detail BY DEF PollOK, Poll
  <2> QED BY <1>3, <2>1, UniqueWrite
<1>4. ASSUME NEW c \in Procs, ModifyStore(c) PROVE IdsUnique'
  <2> DEFINE id == job[c].id
             at == At(id)
  <2>1. job[c].det.id = Replace[id] /\ id \in Orders
    BY <1>4, JobType DEF ModifyStore, Doing, OneOrder, IdAfter
  <2>2. CASE Holds(id)
    <3> DEFINE e == Modified(store[at], job[c].det)
    <3>1. store' = [store EXCEPT ![at] = e]
      BY <1>4, <2>2 DEF ModifyStore, modifyExisting, Modified
    <3>2. at \in DOMAIN store /\ store[at].id = id /\ store[at] \in Detail BY <2>2, HeldType
    <3>3. job[c].det \in Detail BY <1>4, JobType DEF ModifyStore, Doing
    <3>a. e.id = Replace[id] BY <2>1, <3>2, <3>3, ModifiedType
    <3>4. Replace[id] = id \/ Replace[id] \in Replaced BY <2>1 DEF Replaced
    <3> HIDE DEF e, at, id
    <3>5. /\ DOMAIN store' = DOMAIN store /\ store'[at].id = Replace[id]
          /\ \A i \in DOMAIN store \ {at} : store'[i] = store[i]
      BY <3>1, <3>2, <3>a
    <3> QED BY <3>2, <3>4, <3>5 DEF IdsUnique
  <2>3. CASE ~Holds(id) BY <1>1, <1>4, <2>3 DEF ModifyStore, modifyExisting
  <2> QED BY <2>2, <2>3
<1>5. CASE ExchangeNext
  BY <1>1, <1>5 DEF ExchangeNext, ExchangeOpen, ExchangeFill, ExchangeCancel
<1>6. CASE WsNext
  <2>1. "ws" \in Procs BY DEF Procs
  <2> QED BY <1>1, <1>2, <1>6, <2>1 DEF WsNext, WsReceive, WsAdd, WsGet, UpdateExistingOrder, Doing
<1>7. CASE PollNext
  BY <1>1, <1>3, <1>7 DEF PollNext, GetActiveOrders, GetActiveOrdersFails, PollListed,
     UpdateExchangeOrder, PollDone, UpsertOrder, FetchExchangeOrder, FetchSkipped
<1>8. ASSUME NEW c \in Callers, CallNext(c) \/ ReturnNext(c) PROVE IdsUnique'
  <2>1. c \in Procs BY DEF Procs
  <2> QED BY <1>1, <1>2, <1>4, <1>8, <2>1
          DEF CallNext, Submit, Cancel, Modify, GetOrderInfo, ReturnNext, processSubmittedOrder,
              GetOrderInfoStore, CancelGet, UpdateExistingOrder, Doing
<1>9. CASE StopClose \/ StopReset \/ \E r \in Runs : Start(r)
  BY <1>1, <1>9 DEF StopClose, StopReset, Start
<1>10. ASSUME NEW r \in Runs, RunNext(r) PROVE IdsUnique'
  <2>1. r \in Procs BY DEF Procs
  <2> QED BY <1>1, <1>2, <1>10, <2>1
          DEF RunNext, RunBoot, RunSelect, RunTick, RunShutdown, RunGone, CancelGet,
              UpdateExistingOrder, RunCancel, Doing
<1> QED BY <1>1, <1>5, <1>6, <1>7, <1>8, <1>9, <1>10 DEF Next, vars

\* However the stream, a submission, the poller and GetOrderInfo race to store
\* an order that is missing, it is stored once; on every exchange, for every id that does
\* not take the place of another.
THEOREM IdsUniqueAlways == Spec => []IdsUnique
<1>1. Spec => []TypeInv BY TypeInit, TypeStep, PTL DEF Spec
<1>2. Init => OneOrder /\ IdsUnique BY DEF Init, OneOrder, IdsUnique
<1>3. TypeInv /\ (OneOrder /\ IdsUnique) /\ [Next]_vars => (OneOrder /\ IdsUnique)'
  BY OneOrderStep, UniqueStep
<1> QED BY <1>1, <1>2, <1>3, PTL DEF Spec

-----------------------------------------------------------------------------
(***************************************************************************)
(* Never ahead.  Whatever is on its way to the store, in the queue, in the *)
(* hands of a goroutine or in an answer of REST, was true once; and the    *)
(* exchange only moves on: more is executed, and an order ends once.       *)
(***************************************************************************)
Behind(d, x) ==
  d.id \notin Replaced =>
    /\ d.exec <= x[d.id].exec
    /\ d.st \in {"FILLED", "CANCELLED"} /\ d.id \notin Market => d.st = x[d.id].st

QueueBehind == \A i \in DOMAIN wsq : Behind(wsq[i], exch)
StoreBehind == \A i \in DOMAIN store : Behind(store[i], exch)
JobsBehind ==
  \A p \in Procs : job[p] # Idle =>
    /\ Behind(job[p].det, exch)
    /\ job[p].pc = "cancelGet" => exch[job[p].id].st = "CANCELLED"
PollBehind == \A d \in poll.result : Behind(d, exch)
NoneZero == \A o \in Orders : exch[o].st = "none" => exch[o].exec = 0

HeardInv == QueueBehind /\ StoreBehind /\ JobsBehind /\ PollBehind /\ NoneZero

Later ==
  \A o \in Orders :
    /\ exch[o].exec <= exch'[o].exec
    /\ exch[o].st \in {"FILLED", "CANCELLED"} => exch'[o].st = exch[o].st

LEMMA BehindLater ==
  ASSUME MarketOK, MarketOK', Later, NEW d \in Detail, Behind(d, exch)
  PROVE  Behind(d, exch')
<1>1. d.id \in Orders /\ d.exec \in Nat BY DEF Detail
<1>2. exch[d.id].exec \in Nat /\ exch'[d.id].exec \in Nat BY <1>1 DEF MarketOK
<1> QED BY <1>1, <1>2 DEF Behind, Later

LEMMA MergedBehind ==
  ASSUME NEW x, NEW d, NEW m, d.id = m.id, Behind(d, x), Behind(m, x)
  PROVE  Behind(UpdateOrderFromDetail(d, m), x)
BY DEF Behind, UpdateOrderFromDetail

\* What is left alone stays behind.
LEMMA StoreLater ==
  ASSUME TypeInv, MarketOK', Later, StoreBehind, UNCHANGED store PROVE StoreBehind'
<1>1. ASSUME NEW i \in DOMAIN store PROVE Behind(store[i], exch')
  <2>1. store[i] \in Detail BY DEF TypeInv, StoreOK
  <2> QED BY <2>1, BehindLater DEF TypeInv, StoreBehind
<1> QED BY <1>1 DEF StoreBehind

LEMMA JobLater ==
  ASSUME TypeInv, MarketOK', Later, JobsBehind, NEW p \in Procs, job[p] # Idle
  PROVE  /\ Behind(job[p].det, exch')
         /\ job[p].pc = "cancelGet" => exch'[job[p].id].st = "CANCELLED"
<1>1. job[p].det \in Detail /\ job[p].id \in Orders BY JobType DEF TypeInv
<1>2. Behind(job[p].det, exch') BY <1>1, BehindLater DEF TypeInv, JobsBehind
<1> QED BY <1>1, <1>2 DEF JobsBehind, Later

LEMMA JobsLater ==
  ASSUME TypeInv, MarketOK', Later, JobsBehind, UNCHANGED job PROVE JobsBehind'
BY JobLater DEF JobsBehind

LEMMA JobsDoes ==
  ASSUME TypeInv, MarketOK', Later, JobsBehind, NEW p \in Procs, NEW pc, NEW id, NEW det,
         Does(p, pc, id, det), Behind(det, exch'),
         pc = "cancelGet" => exch'[id].st = "CANCELLED"
  PROVE  JobsBehind'
<1> DEFINE j == [pc |-> pc, id |-> id, det |-> det]
<1>1. j.pc = pc /\ j.id = id /\ j.det = det OBVIOUS
<1>2. job' = [job EXCEPT ![p] = j] BY DEF Does
<1> HIDE DEF j
<1>3. ASSUME NEW q \in Procs, job'[q] # Idle
      PROVE  /\ Behind(job'[q].det, exch')
             /\ job'[q].pc = "cancelGet" => exch'[job'[q].id].st = "CANCELLED"
  <2>1. CASE q = p
    <3>1. job'[q] = j BY <1>2, <2>1 DEF TypeInv, JobsOK
    <3> QED BY <1>1, <3>1
  <2>2. CASE q # p
    <3>1. job'[q] = job[q] BY <1>2, <2>2 DEF TypeInv, JobsOK
    <3> QED BY <1>3, <3>1, JobLater
  <2> QED BY <2>1, <2>2
<1> QED BY <1>3 DEF JobsBehind

LEMMA JobsEnds ==
  ASSUME TypeInv, MarketOK', Later, JobsBehind, NEW p \in Procs, Ends(p) PROVE JobsBehind'
<1>1. ASSUME NEW q \in Procs, job'[q] # Idle PROVE job'[q] = job[q]
  BY <1>1 DEF Ends, TypeInv, JobsOK
<1> QED BY <1>1, JobLater DEF JobsBehind

LEMMA PollLater ==
  ASSUME TypeInv, MarketOK', Later, PollBehind, poll'.result \subseteq poll.result PROVE PollBehind'
<1>1. ASSUME NEW d \in poll.result PROVE Behind(d, exch')
  <2>1. d \in Detail BY DEF TypeInv, PollOK, Poll
  <2> QED BY <2>1, BehindLater DEF TypeInv, PollBehind
<1> QED BY <1>1 DEF PollBehind
\* What the exchange tells of a move is true after it.
LEMMA StreamedBehind ==
  ASSUME NEW x, NEW o, NEW st, NEW exec \in Nat, x[o] = [st |-> st, exec |-> exec]
  PROVE  \A d \in Streamed(o, st, exec) : Behind(d, x)
<1>1. ASSUME NEW less \in SUBSET Omits
      PROVE  Behind([id |-> o, st |-> IF "status" \in less THEN "UNKNOWN" ELSE st,
                     amt |-> IF "sizes" \in less THEN 0 ELSE Amount,
                     exec |-> IF "sizes" \in less THEN 0 ELSE exec], x)
  BY DEF Behind
<1> QED BY <1>1 DEF Streamed

\* What is told keeps the queue behind.
LEMMA TellsBehind ==
  ASSUME TypeInv, MarketOK', Later, QueueBehind, NEW seqs, Tells(seqs),
         \A q \in seqs : q \in Seq(Detail) /\ \A i \in DOMAIN q : Behind(q[i], exch')
  PROVE  QueueBehind'
<1> USE DEF TypeInv
<1>1. wsq \in Seq(Detail) BY DEF MarketOK
<1>2. ASSUME NEW i \in DOMAIN wsq PROVE Behind(wsq[i], exch')
  <2>1. wsq[i] \in Detail BY <1>1
  <2> QED BY <2>1, BehindLater DEF QueueBehind
<1>3. CASE wsq' = wsq BY <1>2, <1>3 DEF QueueBehind
<1>4. ASSUME NEW q \in seqs, wsq' = wsq \o q PROVE QueueBehind'
  <2>1. q \in Seq(Detail) /\ \A i \in DOMAIN q : Behind(q[i], exch') OBVIOUS
  <2>2. ASSUME NEW i \in DOMAIN wsq' PROVE Behind(wsq'[i], exch')
    <3>1. \/ i \in DOMAIN wsq /\ wsq'[i] = wsq[i]
          \/ i - Len(wsq) \in DOMAIN q /\ wsq'[i] = q[i - Len(wsq)]
      BY <1>1, <1>4, <2>1
    <3> QED BY <1>2, <2>1, <3>1
  <2> QED BY <2>2 DEF QueueBehind
<1> QED BY <1>3, <1>4 DEF Tells

\* A move forward keeps the queue behind.
LEMMA MovesBehind ==
  ASSUME TypeInv, QueueBehind, NoneZero, NEW o \in Orders, NEW st \in Status \ {"UNKNOWN"},
         NEW exec \in 0..Amount, Moves(o, st, exec), exch[o].exec <= exec,
         exch[o].st \notin {"FILLED", "CANCELLED"}
  PROVE  MarketOK' /\ Later /\ QueueBehind' /\ NoneZero'
<1> USE DEF TypeInv
<1>1. MarketOK' BY MovesType
<1>2. /\ exch' = [exch EXCEPT ![o] = [st |-> st, exec |-> exec]]
      /\ exch \in [Orders -> [st : (Status \ {"UNKNOWN"}) \cup {"none"}, exec : 0..Amount]]
  BY DEF Moves, MarketOK
<1>3. exch'[o] = [st |-> st, exec |-> exec] /\ \A p \in Orders : p # o => exch'[p] = exch[p]
  BY <1>2
<1>4. Later BY <1>2, <1>3 DEF Later
<1>5. NoneZero'
  <2>1. st # "none" BY DEF Status
  <2> QED BY <1>3, <2>1 DEF NoneZero
<1>6. \A d \in Streamed(o, st, exec) : Behind(d, exch') BY <1>3, StreamedBehind
<1>7. ASSUME NEW q \in {<<d>> : d \in Streamed(o, st, exec)}
      PROVE  q \in Seq(Detail) /\ \A i \in DOMAIN q : Behind(q[i], exch')
  <2>1. PICK d \in Streamed(o, st, exec) : q = <<d>> OBVIOUS
  <2>2. d \in Detail /\ Behind(d, exch') BY <1>6, StreamedType
  <2>3. q \in Seq(Detail) /\ DOMAIN q = {1} /\ q[1] = d BY <2>1, <2>2
  <2> QED BY <2>2, <2>3
<1>8. QueueBehind' BY <1>1, <1>4, <1>7, TellsBehind DEF Moves
<1> QED BY <1>1, <1>4, <1>5, <1>8

LEMMA StillMarket ==
  ASSUME TypeInv, UNCHANGED exch PROVE Later
BY DEF Later, TypeInv, MarketOK

LEMMA ReportedBehind ==
  ASSUME MarketOK, NEW o \in Orders PROVE Behind(Reported(o), exch)
BY DEF Behind, Reported, MarketOK

\* A write of what is behind keeps the store behind.
LEMMA StoreWrite ==
  ASSUME StoreOK, StoreBehind, UNCHANGED exch, NEW det \in Detail, Behind(det, exch),
         UNCHANGED store \/ add(det) \/ updateExisting(det) \/ upsert(det)
  PROVE  StoreBehind'
<1>1. store' = store \/ Grown(det) \/ Merged(det) BY Writes DEF StoreOK
<1>2. store \in Seq(Detail) /\ exch' = exch BY DEF StoreOK
<1>3. CASE store' = store BY <1>2, <1>3 DEF StoreBehind
<1>4. CASE Grown(det)
  <2>1. ASSUME NEW i \in DOMAIN store' PROVE Behind(store'[i], exch)
    <3>1. (i \in DOMAIN store /\ store'[i] = store[i]) \/ store'[i] = det
      BY <1>2, <1>4 DEF Grown
    <3> QED BY <3>1 DEF StoreBehind
  <2> QED BY <1>2, <2>1 DEF StoreBehind
<1>5. CASE Merged(det)
  <2>1. PICK k \in DOMAIN store : /\ store[k].id = det.id
           /\ store' = [store EXCEPT ![k] = UpdateOrderFromDetail(store[k], det)]
    BY <1>5 DEF Merged
  <2>2. Behind(UpdateOrderFromDetail(store[k], det), exch) BY <2>1, MergedBehind DEF StoreBehind
  <2>3. ASSUME NEW i \in DOMAIN store' PROVE Behind(store'[i], exch)
    <3>1. (i \in DOMAIN store /\ store'[i] = store[i])
             \/ store'[i] = UpdateOrderFromDetail(store[k], det)
      BY <1>2, <2>1
    <3> QED BY <2>2, <3>1 DEF StoreBehind
  <2> QED BY <1>2, <2>3 DEF StoreBehind
<1> QED BY <1>1, <1>3, <1>4, <1>5

\* Steps that leave the exchange and the queue alone, and write a job's detail.
LEMMA StillHeard ==
  ASSUME TypeInv, HeardInv, UNCHANGED market
  PROVE  MarketOK' /\ Later /\ QueueBehind' /\ NoneZero' /\ exch' = exch
<1>1. exch' = exch /\ wsq' = wsq BY DEF market
<1>2. Later BY <1>1, StillMarket
<1> QED BY <1>1, <1>2 DEF TypeInv, MarketOK, HeardInv, QueueBehind, NoneZero, Placed

LEMMA JobWrite ==
  ASSUME TypeInv, HeardInv, UNCHANGED <<market, poll>>, NEW p \in Procs, job[p] # Idle, Ends(p),
         \/ UNCHANGED store \/ add(job[p].det)
         \/ updateExisting(job[p].det) \/ upsert(job[p].det)
  PROVE  HeardInv'
<1>1. MarketOK' /\ Later /\ QueueBehind' /\ NoneZero' /\ exch' = exch BY StillHeard
<1>2. job[p].det \in Detail BY JobType DEF TypeInv
<1>3. Behind(job[p].det, exch) BY DEF HeardInv, JobsBehind
<1>4. StoreBehind' BY <1>1, <1>2, <1>3, StoreWrite DEF HeardInv, TypeInv
<1>5. JobsBehind' BY <1>1, JobsEnds DEF HeardInv
<1>6. PollBehind' BY <1>1, PollLater DEF HeardInv
<1> QED BY <1>1, <1>4, <1>5, <1>6 DEF HeardInv

\* A step that only takes up or drops a job.
LEMMA JobTaken ==
  ASSUME TypeInv, HeardInv, UNCHANGED <<market, store, poll>>, NEW p \in Procs,
         NEW pc, NEW id, NEW det, Does(p, pc, id, det), Behind(det, exch), pc # "cancelGet"
  PROVE  HeardInv'
<1>1. MarketOK' /\ Later /\ QueueBehind' /\ NoneZero' /\ exch' = exch BY StillHeard
<1>2. JobsBehind' BY <1>1, JobsDoes DEF HeardInv
<1>3. StoreBehind' /\ PollBehind' BY <1>1, StoreLater, PollLater DEF HeardInv
<1> QED BY <1>1, <1>2, <1>3 DEF HeardInv
\* The steps, by who takes them.
LEMMA HeardExchange == ASSUME TypeInv, HeardInv, ExchangeNext PROVE HeardInv'
<1> USE DEF TypeInv, HeardInv
<1>1. PICK o \in Orders :
         \/ ExchangeOpen(o) \/ ExchangeCancel(o) \/ \E n \in 1..Amount : ExchangeFill(o, n)
  BY DEF ExchangeNext
<1>2. exch[o].exec \in 0..Amount BY DEF MarketOK
<1>3. MarketOK' /\ Later /\ QueueBehind' /\ NoneZero'
  <2>1. CASE ExchangeOpen(o)
    <3>1. exch[o].exec <= 0 BY <2>1, <1>2 DEF ExchangeOpen, NoneZero
    <3> QED BY <2>1, <3>1, MovesBehind DEF ExchangeOpen, Status
  <2>2. CASE ExchangeCancel(o)
    BY <1>2, <2>2, MovesBehind DEF ExchangeCancel, Live, Status
  <2>3. ASSUME NEW n \in 1..Amount, ExchangeFill(o, n)
        PROVE  MarketOK' /\ Later /\ QueueBehind' /\ NoneZero'
    <3>1. exch[o].exec <= n /\ n \in 0..Amount BY <1>2, <2>3 DEF ExchangeFill
    <3>2. PICK st \in {"FILLED", "ACTIVE"} : Moves(o, st, n) BY <2>3 DEF ExchangeFill
    <3> QED BY <2>3, <3>1, <3>2, MovesBehind DEF ExchangeFill, Live, Status
  <2> QED BY <1>1, <2>1, <2>2, <2>3
<1>4. UNCHANGED <<store, job, poll>>
  BY <1>1 DEF ExchangeOpen, ExchangeCancel, ExchangeFill
<1> QED BY <1>3, <1>4, StoreLater, JobsLater, PollLater

LEMMA HeardWs == ASSUME TypeInv, OneOrder, HeardInv, WsReceive \/ WsAdd \/ WsGet PROVE HeardInv'
<1> USE DEF TypeInv
<1>0. "ws" \in Procs BY DEF Procs
<1>1. CASE WsReceive
  <2>1. exch' = exch /\ wsq' = Tail(wsq) /\ wsq \in Seq(Detail) /\ wsq # <<>>
    BY <1>1 DEF WsReceive, MarketOK
  <2>2. MarketOK' BY <1>1, WsStepType
  <2>3. Later BY <2>1, StillMarket
  <2>4. Behind(Head(wsq), exch) BY <2>1 DEF HeardInv, QueueBehind
  <2>5. QueueBehind'
    <3>1. \A i \in DOMAIN wsq' : i + 1 \in DOMAIN wsq /\ wsq'[i] = wsq[i + 1] BY <2>1
    <3> QED BY <2>1, <3>1 DEF HeardInv, QueueBehind
  <2>6. JobsBehind'
    <3>1. CASE started
      <4>1. PICK pc \in {"add", "get"} : Does("ws", pc, Head(wsq).id, Head(wsq))
        BY <1>1, <3>1 DEF WsReceive
      <4> QED BY <1>0, <2>1, <2>2, <2>3, <2>4, <4>1, JobsDoes DEF HeardInv
    <3>2. CASE ~started BY <1>1, <2>2, <2>3, <3>2, JobsLater DEF WsReceive, HeardInv
    <3> QED BY <3>1, <3>2
  <2>7. NoneZero' BY <2>1 DEF HeardInv, NoneZero
  <2>8. StoreBehind' /\ PollBehind'
    BY <1>1, <2>2, <2>3, StoreLater, PollLater DEF WsReceive, HeardInv
  <2> QED BY <2>5, <2>6, <2>7, <2>8 DEF HeardInv
<1>2. CASE WsAdd BY <1>0, <1>2, JobWrite DEF WsAdd, Doing
<1>3. CASE WsGet
  <2> DEFINE id == job["ws"].id
             det == UpdateOrderFromDetail(store[At(id)], job["ws"].det)
  <2>1. job["ws"] # Idle BY <1>3 DEF WsGet, Doing
  <2>2. CASE started /\ Holds(id)
    <3>1. At(id) \in DOMAIN store /\ store[At(id)].id = id BY <2>2, HeldType
    <3>2. job["ws"].det.id = id /\ Behind(job["ws"].det, exch)
      BY <1>0, <1>3, <2>1 DEF OneOrder, IdAfter, WsGet, Doing, HeardInv, JobsBehind
    <3>3. Behind(det, exch) BY <3>1, <3>2, MergedBehind DEF HeardInv, StoreBehind
    <3>4. Does("ws", "update", id, det) BY <1>3, <2>2 DEF WsGet
    <3>5. UNCHANGED <<market, store, poll>> BY <1>3 DEF WsGet
    <3> HIDE DEF det
    <3> QED BY <1>0, <3>3, <3>4, <3>5, JobTaken
  <2>3. CASE ~(started /\ Holds(id)) BY <1>0, <1>3, <2>1, <2>3, JobWrite DEF WsGet
  <2> QED BY <2>2, <2>3
<1> QED BY <1>1, <1>2, <1>3

LEMMA HeardCancelSend ==
  ASSUME TypeInv, HeardInv, NEW p \in Procs, NEW o \in Orders, CancelSend(p, o),
         UNCHANGED <<store, poll>>
  PROVE  HeardInv'
<1> USE DEF TypeInv
<1>1. exch[o].exec \in 0..Amount BY DEF MarketOK
<1>2. MarketOK' /\ Later /\ QueueBehind' /\ NoneZero'
  BY <1>1, MovesBehind DEF CancelSend, Live, Status, HeardInv
<1>3. exch'[o].st = "CANCELLED" BY DEF CancelSend, Moves, MarketOK
<1>4. o \in Placed BY DEF CancelSend, Live, Placed
<1>5. Reported(o) \in Detail BY <1>4, ReportedType
<1>6. Behind(Reported(o), exch') BY <1>2, <1>5, BehindLater, ReportedBehind
<1>7. JobsBehind' BY <1>2, <1>3, <1>6, JobsDoes DEF CancelSend, HeardInv
<1>8. StoreBehind' /\ PollBehind' BY <1>2, StoreLater, PollLater DEF HeardInv
<1> QED BY <1>2, <1>7, <1>8 DEF HeardInv

LEMMA HeardCancelGet == ASSUME TypeInv, HeardInv, NEW p \in Procs, CancelGet(p) PROVE HeardInv'
<1> USE DEF TypeInv
<1> DEFINE id == job[p].id
           det == [store[At(id)] EXCEPT !.st = "CANCELLED"]
<1>1. job[p] # Idle /\ job[p].pc = "cancelGet" BY DEF CancelGet, Doing
<1>2. CASE Holds(id)
  <2>1. At(id) \in DOMAIN store /\ store[At(id)].id = id /\ store[At(id)] \in Detail
    BY <1>2, HeldType
  <2>2. exch[id].st = "CANCELLED" BY <1>1 DEF HeardInv, JobsBehind
  <2>3. Behind(store[At(id)], exch) BY <2>1 DEF HeardInv, StoreBehind
  <2>4. det.id = id /\ det.st = "CANCELLED" /\ det.exec = store[At(id)].exec BY <2>1 DEF Detail
  <2>5. Does(p, "update", id, det) /\ UNCHANGED <<market, store, poll>>
    BY <1>2 DEF CancelGet
  <2> HIDE DEF det
  <2>6. Behind(det, exch) BY <2>1, <2>2, <2>3, <2>4 DEF Behind
  <2> QED BY <2>5, <2>6, JobTaken
<1>3. CASE ~Holds(id) BY <1>1, <1>3, JobWrite DEF CancelGet
<1> QED BY <1>2, <1>3

\* A modification in place tells nothing; another one cancels the order and opens one that
\* was not there, and the id it brings is a replaced one.
LEMMA HeardModify ==
  ASSUME TypeInv, HeardInv, NEW c \in Callers, NEW o \in Orders, Modify(c, o) PROVE HeardInv'
<1> USE DEF TypeInv
<1> DEFINE new == Replace[o]
<1>a. PICK st \in {"ACTIVE", "UNKNOWN"} :
         Does(c, "modified", o, [id |-> new, st |-> st, amt |-> Amount, exec |-> 0])
  BY DEF Modify
<1> DEFINE det == [id |-> new, st |-> st, amt |-> Amount, exec |-> 0]
<1>0. c \in Procs /\ new \in Orders BY DEF Procs
<1>1. det.id = new /\ Does(c, "modified", o, det) /\ UNCHANGED <<store, poll>>
  BY <1>a DEF Modify
<1>2. CASE new = o
  <2>2. Behind(det, exch) BY <1>0, <1>2 DEF Behind, MarketOK
  <2>3. UNCHANGED <<market, store, poll>> BY <1>2 DEF Modify
  <2> HIDE DEF det, new
  <2> QED BY <1>0, <1>1, <2>2, <2>3, JobTaken
<1>3. CASE new # o
  <2>1. Behind(det, exch') BY <1>1, <1>3 DEF Behind, Replaced
  <2>2. /\ exch[o].st = "ACTIVE" /\ exch[new].st = "none" /\ exch[new].exec = 0
        /\ exch[o].exec \in 0..Amount
        /\ exch' = [exch EXCEPT ![o].st = "CANCELLED", ![new] = [st |-> "ACTIVE", exec |-> 0]]
    BY <1>0, <1>3 DEF Modify, Live, HeardInv, NoneZero, MarketOK
  <2>3. MarketOK'
    <3>1. CallNext(c) BY DEF CallNext
    <3> QED BY <3>1, CallStepType
  <2> HIDE DEF det, new
  <2>4. /\ exch'[o] = [st |-> "CANCELLED", exec |-> exch[o].exec]
        /\ exch'[new] = [st |-> "ACTIVE", exec |-> 0]
        /\ \A p \in Orders \ {o, new} : exch'[p] = exch[p]
    BY <1>0, <1>3, <2>2 DEF MarketOK
  <2>5. Later
    <3>1. \A p \in Orders : exch[p].exec \in Nat BY DEF MarketOK
    <3>2. exch[o].st = "ACTIVE" /\ exch[new].st = "none" /\ exch[new].exec = 0 BY <2>2
    <3>3. exch'[o].exec = exch[o].exec /\ exch'[new].exec = 0 BY <2>4
    <3>4. \A p \in Orders \ {o, new} : exch'[p] = exch[p] BY <2>4
    <3> QED BY <3>1, <3>2, <3>3, <3>4 DEF Later
  <2>6. NoneZero' BY <2>4 DEF NoneZero, HeardInv
  <2>7. QueueBehind'
    <3> DEFINE ends == Streamed(o, "CANCELLED", exch[o].exec)
               opens == Streamed(new, "ACTIVE", 0)
               seqs == {<<d>> : d \in ends \cup opens} \cup (ends \X opens)
    <3>1. \A d \in ends \cup opens : d \in Detail
      BY <1>0, <2>2, StreamedType DEF Status
    <3>2. \A d \in ends : Behind(d, exch')
      <4> DEFINE exec == exch[o].exec
      <4>1. exec \in Nat /\ exch'[o] = [st |-> "CANCELLED", exec |-> exec] BY <2>2, <2>4
      <4> HIDE DEF exec
      <4>2. \A d \in Streamed(o, "CANCELLED", exec) : Behind(d, exch') BY <4>1, StreamedBehind
      <4> QED BY <4>2 DEF exec
    <3>3. \A d \in opens : Behind(d, exch') BY <2>4, StreamedBehind
    <3>4. Tells(seqs) BY <1>3 DEF Modify, new
    <3> HIDE DEF ends, opens
    <3>5. ASSUME NEW q \in seqs
          PROVE  q \in Seq(Detail) /\ \A i \in DOMAIN q : Behind(q[i], exch')
      <4>1. CASE q \in {<<d>> : d \in ends \cup opens}
        <5>1. PICK d \in ends \cup opens : q = <<d>> BY <4>1
        <5>2. d \in Detail /\ Behind(d, exch') BY <3>1, <3>2, <3>3
        <5>3. q \in Seq(Detail) /\ DOMAIN q = {1} /\ q[1] = d BY <5>1, <5>2
        <5> QED BY <5>2, <5>3
      <4>2. CASE q \in ends \X opens
        <5>1. PICK d \in ends, e \in opens : q = <<d, e>> BY <4>2
        <5>2. d \in Detail /\ e \in Detail /\ Behind(d, exch') /\ Behind(e, exch')
          BY <3>1, <3>2, <3>3
        <5>3. q \in Seq(Detail) /\ DOMAIN q = {1, 2} BY <5>1, <5>2
        <5> QED BY <5>1, <5>2, <5>3
      <4> QED BY <4>1, <4>2
    <3> HIDE DEF seqs
    <3> QED BY <2>3, <2>5, <3>4, <3>5, TellsBehind DEF HeardInv
  <2>8. JobsBehind' BY <1>0, <1>1, <2>1, <2>3, <2>5, JobsDoes DEF HeardInv
  <2>9. StoreBehind' /\ PollBehind' BY <1>1, <2>3, <2>5, StoreLater, PollLater DEF HeardInv
  <2> QED BY <2>6, <2>7, <2>8, <2>9 DEF HeardInv
<1> QED BY <1>2, <1>3

LEMMA HeardCall ==
  ASSUME TypeInv, HeardInv, NEW c \in Callers, CallNext(c) PROVE HeardInv'
<1> USE DEF TypeInv
<1>0. c \in Procs BY DEF Procs
<1>1. PICK o \in Orders : Submit(c, o) \/ Cancel(c, o) \/ Modify(c, o) \/ GetOrderInfo(c, o)
  BY DEF CallNext
<1>2. exch[o].exec \in 0..Amount BY DEF MarketOK
<1>3. CASE Submit(c, o)
  <2> DEFINE det == [id |-> o, st |-> IF o \in Market THEN "FILLED" ELSE "ACTIVE",
                     amt |-> Amount, exec |-> 0]
  <2>1. exch[o].exec = 0 /\ exch[o].st = "none" BY <1>3 DEF Submit, HeardInv, NoneZero
  <2>2. MarketOK' /\ Later /\ QueueBehind' /\ NoneZero'
    BY <1>3, <2>1, MovesBehind DEF Submit, Status, HeardInv
  <2>3. exch'[o].exec = 0 BY <1>3 DEF Submit, Moves, MarketOK
  <2>4. Behind(det, exch') BY <2>3 DEF Behind
  <2>5. Does(c, "submitted", o, det) BY <1>3 DEF Submit
  <2> HIDE DEF det
  <2>6. JobsBehind' BY <1>0, <2>2, <2>4, <2>5, JobsDoes DEF HeardInv
  <2>7. StoreBehind' /\ PollBehind' BY <1>3, <2>2, StoreLater, PollLater DEF HeardInv, Submit
  <2> QED BY <2>2, <2>6, <2>7 DEF HeardInv
<1>4. CASE Cancel(c, o) BY <1>0, <1>4, HeardCancelSend DEF Cancel
<1>5. CASE Modify(c, o) BY <1>5, HeardModify
<1>6. CASE GetOrderInfo(c, o)
  <2>1. Does(c, "fetched", o, Reported(o)) /\ UNCHANGED <<market, store, poll>>
    BY <1>6 DEF GetOrderInfo
  <2> QED BY <1>0, <2>1, ReportedBehind, JobTaken
<1> QED BY <1>1, <1>3, <1>4, <1>5, <1>6

\* The entry of a modified order keeps its id, or gets a replaced one.
LEMMA HeardModifyStore ==
  ASSUME TypeInv, OneOrder, HeardInv, NEW c \in Procs, ModifyStore(c) PROVE HeardInv'
<1> USE DEF TypeInv
<1> DEFINE id == job[c].id
           at == At(id)
<1>1. job[c] # Idle /\ job[c].det.id = Replace[id] /\ id \in Orders
  BY JobType DEF ModifyStore, Doing, OneOrder, IdAfter
<1>2. UNCHANGED <<market, poll>> /\ Ends(c) BY DEF ModifyStore
<1>3. MarketOK' /\ Later /\ QueueBehind' /\ NoneZero' /\ exch' = exch BY <1>2, StillHeard
<1>4. StoreBehind'
  <2>1. CASE Holds(id)
    <3> DEFINE res == job[c].det
               e == Modified(store[at], res)
    <3>1. store' = [store EXCEPT ![at] = e]
      BY <2>1 DEF ModifyStore, modifyExisting, Modified
    <3>2. at \in DOMAIN store /\ store[at] \in Detail /\ store[at].id = id BY <2>1, HeldType
    <3>3. res \in Detail /\ res.id = Replace[id] /\ Behind(res, exch)
      BY <1>1, JobType DEF HeardInv, JobsBehind
    <3>4. Replace[id] = id \/ Replace[id] \in Replaced BY <1>1 DEF Replaced
    <3>5. Behind(store[at], exch) BY <3>2 DEF HeardInv, StoreBehind
    <3> HIDE DEF at, id, res
    <3>6. Behind(e, exch)
      <4>1. CASE Replace[id] = id
        <5>1. Behind(UpdateOrderFromDetail(store[at], res), exch)
          BY <3>2, <3>3, <3>5, <4>1, MergedBehind
        <5>2. e = UpdateOrderFromDetail(store[at], res)
          BY <3>2, <3>3, <4>1 DEF Modified, UpdateOrderFromDetail
        <5> QED BY <5>1, <5>2
      <4>2. CASE Replace[id] \in Replaced
        BY <3>2, <3>3, <4>2, ModifiedType DEF Behind
      <4> QED BY <3>4, <4>1, <4>2
    <3> HIDE DEF e
    <3>7. ASSUME NEW i \in DOMAIN store' PROVE Behind(store'[i], exch)
      <4>1. (i \in DOMAIN store /\ store'[i] = store[i]) \/ store'[i] = e BY <3>1, <3>2
      <4> QED BY <3>6, <4>1 DEF HeardInv, StoreBehind
    <3> QED BY <1>3, <3>7 DEF StoreBehind
  <2>2. CASE ~Holds(id)
    <3>1. UNCHANGED store BY <2>2 DEF ModifyStore, modifyExisting
    <3> QED BY <1>3, <3>1, StoreLater DEF HeardInv
  <2> QED BY <2>1, <2>2
<1>5. JobsBehind' BY <1>2, <1>3, JobsEnds DEF HeardInv
<1>6. PollBehind' BY <1>2, <1>3, PollLater DEF HeardInv
<1> QED BY <1>3, <1>4, <1>5, <1>6 DEF HeardInv

LEMMA HeardPoll == ASSUME TypeInv, HeardInv, PollNext PROVE HeardInv'
<1> USE DEF TypeInv
<1>1. UNCHANGED <<market, job>>
  BY DEF PollNext, GetActiveOrders, GetActiveOrdersFails, PollListed,
     UpdateExchangeOrder, PollDone, UpsertOrder, FetchExchangeOrder, FetchSkipped
<1>2. MarketOK' /\ Later /\ QueueBehind' /\ NoneZero' /\ exch' = exch BY <1>1, StillHeard
<1>3. JobsBehind' BY <1>1, <1>2, JobsLater DEF HeardInv
<1>4. PollBehind'
  <2>1. CASE poll'.result \subseteq poll.result BY <1>2, <2>1, PollLater DEF HeardInv
  <2>2. CASE GetActiveOrders
    <3>1. poll'.result = {Reported(o) : o \in {q \in Orders : Live(q)}}
      BY <2>2 DEF GetActiveOrders, PollOK, Poll
    <3>2. \A o \in Orders : Behind(Reported(o), exch) BY ReportedBehind
    <3> QED BY <1>2, <3>1, <3>2 DEF PollBehind
  <2>3. ASSUME NEW m \in poll.mine, FetchExchangeOrder(m) PROVE PollBehind'
    <3>1. poll'.result = {Reported(m.id)} BY <2>3 DEF FetchExchangeOrder, PollOK, Poll
    <3>2. m.id \in Orders BY DEF PollOK, Poll
    <3> QED BY <1>2, <3>1, <3>2, ReportedBehind DEF PollBehind
  <2>4. CASE GetActiveOrdersFails \/ PollListed \/ UpdateExchangeOrder \/ PollDone
    <3>1. CASE PollEnds
      <4>1. poll'.result = {} BY <3>1 DEF PollEnds, Off
      <4> QED BY <2>1, <4>1
    <3>2. CASE UpdateExchangeOrder BY <2>1, <3>2 DEF UpdateExchangeOrder, PollOK, Poll
    <3>3. CASE poll' = [poll EXCEPT !.pc = "match"] BY <2>1, <3>3 DEF PollOK, Poll
    <3> QED BY <2>4, <3>1, <3>2, <3>3 DEF GetActiveOrdersFails, PollListed, PollDone
  <2>5. ASSUME NEW d \in poll.result, UpsertOrder(d) PROVE PollBehind'
    <3>1. poll'.result = poll.result \ {d}
      BY <2>5 DEF UpsertOrder, PollOK, Poll
    <3> QED BY <2>1, <3>1
  <2>6. ASSUME NEW m \in poll.mine, FetchSkipped(m) PROVE PollBehind'
    BY <2>1, <2>6 DEF FetchSkipped, PollOK, Poll
  <2> QED BY <2>2, <2>3, <2>4, <2>5, <2>6 DEF PollNext
<1>5. StoreBehind'
  <2>1. CASE UNCHANGED store BY <1>2, <2>1, StoreLater DEF HeardInv
  <2>2. ASSUME NEW d \in poll.result, upsert(d) PROVE StoreBehind'
    <3>1. d \in Detail /\ Behind(d, exch) BY DEF PollOK, Poll, HeardInv, PollBehind
    <3> QED BY <1>2, <2>2, <3>1, StoreWrite DEF HeardInv
  <2> QED BY <2>1, <2>2 DEF PollNext, GetActiveOrders, GetActiveOrdersFails, PollListed,
          UpdateExchangeOrder, PollDone, UpsertOrder, FetchExchangeOrder, FetchSkipped
<1> QED BY <1>2, <1>3, <1>4, <1>5 DEF HeardInv

LEMMA HeardRun == ASSUME TypeInv, HeardInv, NEW r \in Runs, RunNext(r) PROVE HeardInv'
<1>0. r \in Procs BY DEF Procs
<1>1. ASSUME UNCHANGED <<market, store, job>>, poll'.result \subseteq poll.result PROVE HeardInv'
  <2>1. MarketOK' /\ Later /\ QueueBehind' /\ NoneZero' BY <1>1, StillHeard
  <2> QED BY <1>1, <2>1, StoreLater, JobsLater, PollLater DEF HeardInv
<1>2. CASE RunBoot(r) \/ RunSelect(r) \/ RunTick(r) \/ RunShutdown(r) \/ RunGone(r)
  BY <1>1, <1>2 DEF RunBoot, RunSelect, RunTick, RunShutdown, RunGone, PollBegins
<1>3. CASE CancelGet(r) BY <1>0, <1>3, HeardCancelGet
<1>4. CASE UpdateExistingOrder(r) BY <1>0, <1>4, JobWrite DEF UpdateExistingOrder, Doing
<1>5. ASSUME NEW o \in Orders, RunCancel(r, o) PROVE HeardInv'
  BY <1>0, <1>1, <1>5, HeardCancelSend DEF RunCancel
<1> QED BY <1>2, <1>3, <1>4, <1>5 DEF RunNext

LEMMA HeardStep ==
  ASSUME TypeInv, OneOrder, HeardInv, [Next]_vars PROVE HeardInv'
<1>1. CASE ExchangeNext BY <1>1, HeardExchange
<1>2. CASE WsNext
  <2>1. "ws" \in Procs BY DEF Procs
  <2>2. CASE UpdateExistingOrder("ws") BY <2>1, <2>2, JobWrite DEF UpdateExistingOrder, Doing
  <2> QED BY <1>2, <2>2, HeardWs DEF WsNext
<1>3. CASE PollNext BY <1>3, HeardPoll
<1>4. ASSUME NEW c \in Callers, CallNext(c) PROVE HeardInv' BY <1>4, HeardCall
<1>5. ASSUME NEW c \in Callers, ReturnNext(c) PROVE HeardInv'
  <2>1. c \in Procs BY DEF Procs
  <2>2. CASE processSubmittedOrder(c) \/ GetOrderInfoStore(c) \/ UpdateExistingOrder(c)
    BY <2>1, <2>2, JobWrite DEF processSubmittedOrder, GetOrderInfoStore, UpdateExistingOrder, Doing
  <2> QED BY <1>5, <2>1, <2>2, HeardModifyStore, HeardCancelGet DEF ReturnNext
<1>6. ASSUME UNCHANGED <<market, store, job, poll>> PROVE HeardInv'
  <2>1. MarketOK' /\ Later /\ QueueBehind' /\ NoneZero' BY <1>6, StillHeard
  <2> QED BY <1>6, <2>1, StoreLater, JobsLater, PollLater DEF HeardInv
<1>7. CASE StopClose \/ StopReset \/ \E r \in Runs : Start(r)
  BY <1>6, <1>7 DEF StopClose, StopReset, Start
<1>8. ASSUME NEW r \in Runs, RunNext(r) PROVE HeardInv' BY <1>8, HeardRun
<1>9. CASE UNCHANGED vars BY <1>6, <1>9 DEF vars, market
<1> QED BY <1>1, <1>2, <1>3, <1>4, <1>5, <1>7, <1>8, <1>9 DEF Next

\* No stale copy, late answer, partial detail or early return of Cancel makes
\* the store claim that more was executed, or that an order ended, before it did; on every
\* exchange, for every id that does not take the place of another.
THEOREM NeverAheadAlways == Spec => []NeverAhead
<1>1. Spec => []TypeInv BY TypeInit, TypeStep, PTL DEF Spec
<1>2. Init => OneOrder /\ HeardInv
  BY DEF Init, OneOrder, HeardInv, QueueBehind, StoreBehind, JobsBehind, PollBehind, NoneZero, Off
<1>3. TypeInv /\ (OneOrder /\ HeardInv) /\ [Next]_vars => (OneOrder /\ HeardInv)'
  BY OneOrderStep, HeardStep
<1>4. HeardInv => NeverAhead BY DEF HeardInv, StoreBehind, Behind, NeverAhead
<1> QED BY <1>1, <1>2, <1>3, <1>4, PTL DEF Spec
=============================================================================
