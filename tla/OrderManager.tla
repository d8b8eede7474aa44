---------------------------- MODULE OrderManager ----------------------------
(***************************************************************************)
(* The engine's order manager: an in-memory store of orders that four kinds*)
(* of goroutine read and write,                                            *)
(*   - callers of Submit, Cancel, Modify and GetOrderInfo (RPC, scripts),  *)
(*   - the websocket receiver (engine/websocketroutine_manager.go),        *)
(*   - the poller processOrders, one at a time,                            *)
(*   - run, which ticks and, on shutdown, may cancel every order;          *)
(* and the start and stop of that run goroutine.  A call under the store's *)
(* mutex is one step; network calls lie between steps.  The exchange is    *)
(* external.                                                               *)
(***************************************************************************)
EXTENDS Naturals, Sequences, FiniteSets

CONSTANTS
  Orders,       \* exchange order ids
  Callers,      \* goroutines that call the order manager
  Runs,         \* one for each Start: its run goroutine and shutdown channel
  NoRun,        \* a poll that no run goroutine waits for
  Idle,         \* "no work in progress"
  Market,       \* ids of market orders
  Replace,      \* Replace[o]: the id o has after a modification
  Amount,       \* size of an order
  Omits,        \* what streamed details may leave out: "status", "sizes"
  MaxQueue,     \* capacity of the websocket's ToRoutine channel
  GetOrder,     \* RESTCapabilities.GetOrder of the exchange
  CancelOrdersOnShutdown

Status == {"UNKNOWN", "ACTIVE", "FILLED", "CANCELLED"}
Detail == [id : Orders, st : Status, amt : {0, Amount}, exec : 0..Amount]
Job == [pc : {"add", "get", "update", "cancelGet", "submitted", "modified", "fetched"},
        id : Orders, det : Detail]
Poll == [pc : {"off", "fetch", "upsert", "match", "store"}, owner : Runs \cup {NoRun},
         mine : SUBSET [at : Nat, id : Orders], result : SUBSET Detail]
Procs == {"ws"} \cup Callers \cup Runs

ASSUME ConstantsAssumption ==
  /\ Replace \in [Orders -> Orders] /\ Market \subseteq Orders
  /\ Amount \in Nat \ {0} /\ MaxQueue \in Nat
  /\ Omits \subseteq {"status", "sizes"}
  /\ GetOrder \in BOOLEAN /\ CancelOrdersOnShutdown \in BOOLEAN
  /\ NoRun \notin Runs /\ Idle \notin Job
  /\ "ws" \notin Callers /\ "ws" \notin Runs /\ Callers \cap Runs = {}

VARIABLES
  exch,     \* the exchange: status and executed amount of each order
  wsq,      \* order.Details streamed and not yet received
  store,    \* orderStore.Orders of the exchange; the place is the internal id
  job,      \* what each goroutine is doing to the store
  poll,     \* the processOrders under way; "off": processingOrders = 0
  started,  \* OrderManager.started
  stopping, \* Stop has closed the channel and not yet reset started
  chan,     \* OrderManager.shutdown
  closed,   \* channels that are closed
  run,      \* where each run goroutine stands
  ch,       \* the channel each run goroutine selects on
  todo      \* orders CancelAllOrders of a run goroutine still has to cancel

market == <<exch, wsq>>
cycle  == <<started, stopping, chan, closed>>
loops  == <<run, ch, todo>>
vars == <<exch, wsq, store, job, poll, started, stopping, chan, closed, run, ch,
          todo>>

-----------------------------------------------------------------------------
(***************************************************************************)
(* The exchange (external)                                                 *)
(***************************************************************************)
Live(o) == exch[o].st = "ACTIVE"

\* What REST says of an order.
Reported(o) == [id |-> o, st |-> exch[o].st, amt |-> Amount, exec |-> exch[o].exec]

\* What the stream says, with what it leaves out.
Streamed(o, st, exec) ==
  {[id |-> o, st |-> IF "status" \in less THEN "UNKNOWN" ELSE st,
    amt |-> IF "sizes" \in less THEN 0 ELSE Amount,
    exec |-> IF "sizes" \in less THEN 0 ELSE exec] : less \in SUBSET Omits}

\* The details are queued, or lost with their connection or to a full channel.
Tells(seqs) == wsq' \in {wsq} \cup {wsq \o dets : dets \in {q \in seqs : Len(wsq) + Len(q) <= MaxQueue}}

Moves(o, st, exec) ==
  /\ exch' = [exch EXCEPT ![o] = [st |-> st, exec |-> exec]]
  /\ Tells({<<det>> : det \in Streamed(o, st, exec)})

\* An order placed, filled or cancelled by others.
ExchangeOpen(o) ==
  /\ exch[o].st = "none"
  /\ Moves(o, "ACTIVE", 0)
  /\ UNCHANGED <<store, job, poll, cycle, loops>>

ExchangeFill(o, n) ==
  /\ Live(o) /\ n \in exch[o].exec + 1..Amount
  /\ Moves(o, IF n = Amount THEN "FILLED" ELSE "ACTIVE", n)
  /\ UNCHANGED <<store, job, poll, cycle, loops>>

ExchangeCancel(o) ==
  /\ Live(o)
  /\ Moves(o, "CANCELLED", exch[o].exec)
  /\ UNCHANGED <<store, job, poll, cycle, loops>>

-----------------------------------------------------------------------------
(***************************************************************************)
(* order.Detail                                                            *)
(***************************************************************************)
\* Mutant of UpdateOrderFromDetail: executed amounts are added up.
UpdateOrderFromDetailAdds(d, m) ==
  [id |-> d.id,
   st |-> IF m.st # "UNKNOWN" THEN m.st ELSE d.st,
   amt |-> IF m.amt > 0 THEN m.amt ELSE d.amt,
   exec |-> d.exec + m.exec]

\* A field that the incoming detail leaves out keeps its value.
UpdateOrderFromDetail(d, m) ==
  [id |-> d.id,
   st |-> IF m.st # "UNKNOWN" THEN m.st ELSE d.st,
   amt |-> IF m.amt > 0 THEN m.amt ELSE d.amt,
   exec |-> IF m.exec > 0 THEN m.exec ELSE d.exec]

IsActive(d) == d.st = "ACTIVE" /\ d.amt > 0 /\ d.amt > d.exec

-----------------------------------------------------------------------------
(***************************************************************************)
(* The store                                                               *)
(***************************************************************************)
Holds(id) == \E i \in DOMAIN store : store[i].id = id

\* The entry that a search of the slice stops at.
At(id) == CHOOSE i \in DOMAIN store :
            store[i].id = id /\ \A j \in DOMAIN store : store[j].id = id => i <= j

\* Mutant of add: the look for a duplicate was left to the caller.
addUnchecked(det) == store' = Append(store, det)

\* Mutant of add: the order goes into a slice of its own.
addFresh(det) == IF Holds(det.id) THEN UNCHANGED store ELSE store' = <<det>>

add(det) == IF Holds(det.id) THEN UNCHANGED store ELSE store' = Append(store, det)

updateExisting(od) ==
  IF Holds(od.id)
  THEN store' = [store EXCEPT ![At(od.id)] = UpdateOrderFromDetail(@, od)]
  ELSE UNCHANGED store

\* Mutant of upsert: an order that is not there is an error.
upsertExisting(od) == updateExisting(od)

upsert(od) ==
  IF Holds(od.id) THEN updateExisting(od) ELSE store' = Append(store, od)

\* UpdateOrderFromModifyResponse: the id, status and size of the response.
modifyExisting(id, res) ==
  IF Holds(id)
  THEN store' = [store EXCEPT ![At(id)] = [UpdateOrderFromDetail(@, res) EXCEPT !.id = res.id]]
  ELSE UNCHANGED store

\* Mutant of getActiveOrders: an unknown status is not an active one.
getActiveOrdersKnown ==
  {[at |-> i, id |-> store[i].id] : i \in {k \in DOMAIN store : IsActive(store[k])}}

getActiveOrders ==
  {[at |-> i, id |-> store[i].id] :
     i \in {k \in DOMAIN store : store[k].st = "UNKNOWN" \/ IsActive(store[k])}}

-----------------------------------------------------------------------------
(***************************************************************************)
(* The websocket receiver                                                  *)
(***************************************************************************)
Doing(p, pc) == job[p] # Idle /\ job[p].pc = pc
Does(p, pc, id, det) == job' = [job EXCEPT ![p] = [pc |-> pc, id |-> id, det |-> det]]
Ends(p) == job' = [job EXCEPT ![p] = Idle]

WsReceive ==
  /\ job["ws"] = Idle /\ wsq # <<>>
  /\ wsq' = Tail(wsq)
  /\ LET det == Head(wsq) IN
     IF started
     THEN Does("ws", IF Holds(det.id) THEN "get" ELSE "add", det.id, det)
     ELSE UNCHANGED job
  /\ UNCHANGED <<exch, store, poll, cycle, loops>>

\* The order may be there by now: the error drops the detail.
WsAdd ==
  /\ Doing("ws", "add")
  /\ IF started THEN add(job["ws"].det) ELSE UNCHANGED store
  /\ Ends("ws")
  /\ UNCHANGED <<market, poll, cycle, loops>>

\* A copy of the entry is merged with the detail outside of the lock.
WsGet ==
  /\ Doing("ws", "get")
  /\ LET id == job["ws"].id IN
     IF started /\ Holds(id)
     THEN Does("ws", "update", id, UpdateOrderFromDetail(store[At(id)], job["ws"].det))
     ELSE Ends("ws")
  /\ UNCHANGED <<market, store, poll, cycle, loops>>

-----------------------------------------------------------------------------
(***************************************************************************)
(* Callers                                                                 *)
(***************************************************************************)
\* Submit: a market order is taken for filled.
Submit(c, o) ==
  /\ job[c] = Idle /\ started /\ exch[o].st = "none"
  /\ Moves(o, "ACTIVE", 0)
  /\ Does(c, "submitted", o, [id |-> o, st |-> IF o \in Market THEN "FILLED" ELSE "ACTIVE",
                              amt |-> Amount, exec |-> 0])
  /\ UNCHANGED <<store, poll, cycle, loops>>

\* What the stream has brought in the meantime supersedes the response.
processSubmittedOrder(c) ==
  /\ Doing(c, "submitted")
  /\ add(job[c].det)
  /\ Ends(c)
  /\ UNCHANGED <<market, poll, cycle, loops>>

\* Mutant of CancelSend: an error of the exchange is passed over.
CancelSendAnyway(p, o) ==
  /\ IF Live(o) THEN Moves(o, "CANCELLED", exch[o].exec)
     ELSE exch[o].st # "none" /\ UNCHANGED market
  /\ Does(p, "cancelGet", o, Reported(o))

\* Cancel, of a caller or of CancelAllOrders.  An error of the exchange ends it.
CancelSend(p, o) ==
  /\ Live(o)
  /\ Moves(o, "CANCELLED", exch[o].exec)
  /\ Does(p, "cancelGet", o, Reported(o))

Cancel(c, o) ==
  /\ job[c] = Idle /\ started
  /\ CancelSend(c, o)
  /\ UNCHANGED <<store, poll, cycle, loops>>

CancelGet(p) ==
  /\ Doing(p, "cancelGet")
  /\ LET id == job[p].id IN
     IF Holds(id) THEN Does(p, "update", id, [store[At(id)] EXCEPT !.st = "CANCELLED"])
     ELSE Ends(p)
  /\ UNCHANGED <<market, store, poll, cycle, loops>>

\* The last step of Cancel, and of the websocket receiver if still running.
UpdateExistingOrder(p) ==
  /\ Doing(p, "update")
  /\ IF p = "ws" /\ ~started THEN UNCHANGED store ELSE updateExisting(job[p].det)
  /\ Ends(p)
  /\ UNCHANGED <<market, poll, cycle, loops>>

\* Modify: the exchange may put an order with another id in its place.  Its response has
\* no executed amount, and a status with some exchanges only.
Modify(c, o) ==
  /\ job[c] = Idle /\ started /\ Holds(o) /\ Live(o)
  /\ IF Replace[o] = o THEN UNCHANGED market
     ELSE /\ exch[Replace[o]].st = "none"
          /\ exch' = [exch EXCEPT ![o].st = "CANCELLED",
                                  ![Replace[o]] = [st |-> "ACTIVE", exec |-> 0]]
          /\ LET old == Streamed(o, "CANCELLED", exch[o].exec)
                 new == Streamed(Replace[o], "ACTIVE", 0)
             IN  Tells({<<d>> : d \in old \cup new} \cup (old \X new))
  /\ \E st \in {"ACTIVE", "UNKNOWN"} :
       Does(c, "modified", o, [id |-> Replace[o], st |-> st, amt |-> Amount, exec |-> 0])
  /\ UNCHANGED <<store, poll, cycle, loops>>

ModifyStore(c) ==
  /\ Doing(c, "modified")
  /\ modifyExisting(job[c].id, job[c].det)
  /\ Ends(c)
  /\ UNCHANGED <<market, poll, cycle, loops>>

GetOrderInfo(c, o) ==
  /\ job[c] = Idle /\ started /\ exch[o].st # "none"
  /\ Does(c, "fetched", o, Reported(o))
  /\ UNCHANGED <<market, store, poll, cycle, loops>>

GetOrderInfoStore(c) ==
  /\ Doing(c, "fetched")
  /\ upsert(job[c].det)
  /\ Ends(c)
  /\ UNCHANGED <<market, poll, cycle, loops>>

-----------------------------------------------------------------------------
(***************************************************************************)
(* processOrders                                                           *)
(***************************************************************************)
Off == [pc |-> "off", owner |-> NoRun, mine |-> {}, result |-> {}]

\* The run goroutine that waits for this poll goes on to its select.
PollEnds ==
  /\ poll' = Off
  /\ run' = IF poll.owner = NoRun THEN run ELSE [run EXCEPT ![poll.owner] = "loop"]
  /\ UNCHANGED <<ch, todo>>

PollBegins(owner) ==
  poll' = [pc |-> "fetch", owner |-> owner, mine |-> getActiveOrders, result |-> {}]

GetActiveOrders ==
  /\ poll.pc = "fetch"
  /\ poll' = [poll EXCEPT !.pc = "upsert", !.result = {Reported(o) : o \in {p \in Orders : Live(p)}}]
  /\ UNCHANGED <<market, store, job, cycle, loops>>

GetActiveOrdersFails ==
  /\ poll.pc = "fetch"
  /\ PollEnds
  /\ UNCHANGED <<market, store, job, cycle>>

\* What the exchange has as active is stored, and need not be asked for.
UpsertOrder(det) ==
  /\ poll.pc = "upsert" /\ det \in poll.result
  /\ IF started
     THEN /\ upsert(det)
          /\ poll' = [poll EXCEPT !.result = @ \ {det},
                        !.mine = {m \in @ : ~(Holds(det.id) /\ m.at = At(det.id))}]
     ELSE /\ poll' = [poll EXCEPT !.result = @ \ {det}]
          /\ UNCHANGED store
  /\ UNCHANGED <<market, job, cycle, loops>>

PollListed ==
  /\ poll.pc = "upsert" /\ poll.result = {}
  /\ IF GetOrder THEN poll' = [poll EXCEPT !.pc = "match"] /\ UNCHANGED loops ELSE PollEnds
  /\ UNCHANGED <<market, store, job, cycle>>

\* processMatchingOrders: the other orders the store had as active.
FetchExchangeOrder(m) ==
  /\ poll.pc = "match" /\ m \in poll.mine
  /\ poll' = [poll EXCEPT !.pc = "store", !.mine = @ \ {m}, !.result = {Reported(m.id)}]
  /\ UNCHANGED <<market, store, job, cycle, loops>>

\* Updated less than a minute ago, or the call failed.
FetchSkipped(m) ==
  /\ poll.pc = "match" /\ m \in poll.mine
  /\ poll' = [poll EXCEPT !.mine = @ \ {m}]
  /\ UNCHANGED <<market, store, job, cycle, loops>>

UpdateExchangeOrder ==
  /\ poll.pc = "store"
  /\ IF started THEN \E det \in poll.result : upsert(det) ELSE UNCHANGED store
  /\ poll' = [poll EXCEPT !.pc = "match", !.result = {}]
  /\ UNCHANGED <<market, job, cycle, loops>>

PollDone ==
  /\ poll.pc = "match" /\ poll.mine = {}
  /\ PollEnds
  /\ UNCHANGED <<market, store, job, cycle>>

-----------------------------------------------------------------------------
(***************************************************************************)
(* Start, Stop and run                                                     *)
(***************************************************************************)
\* Mutant of Start: the channel of the last time is kept.
StartSameChannel(r) ==
  /\ ~started /\ run[r] = "none"
  /\ started' = TRUE
  /\ chan' = IF chan = NoRun THEN r ELSE chan
  /\ run' = [run EXCEPT ![r] = "boot"]
  /\ UNCHANGED <<market, store, job, poll, stopping, closed, ch, todo>>

Start(r) ==
  /\ ~started /\ run[r] = "none"
  /\ started' = TRUE /\ chan' = r
  /\ run' = [run EXCEPT ![r] = "boot"]
  /\ UNCHANGED <<market, store, job, poll, stopping, closed, ch, todo>>

\* Mutant of StopClose: the channel is not closed.
StopCloseNot ==
  /\ started /\ ~stopping
  /\ stopping' = TRUE
  /\ UNCHANGED <<market, store, job, poll, started, chan, closed, loops>>

StopClose ==
  /\ started /\ ~stopping
  /\ closed' = closed \cup {chan} /\ stopping' = TRUE
  /\ UNCHANGED <<market, store, job, poll, started, chan, loops>>

StopReset ==
  /\ stopping
  /\ started' = FALSE /\ stopping' = FALSE
  /\ UNCHANGED <<market, store, job, poll, chan, closed, loops>>

\* run calls processOrders itself before it first selects.
RunBoot(r) ==
  /\ run[r] = "boot"
  /\ IF poll.pc = "off"
     THEN PollBegins(r) /\ run' = [run EXCEPT ![r] = "polling"]
     ELSE run' = [run EXCEPT ![r] = "loop"] /\ UNCHANGED poll
  /\ UNCHANGED <<market, store, job, cycle, ch, todo>>

\* select evaluates m.shutdown anew each time.
RunSelect(r) ==
  /\ run[r] = "loop"
  /\ run' = [run EXCEPT ![r] = "select"] /\ ch' = [ch EXCEPT ![r] = chan]
  /\ UNCHANGED <<market, store, job, poll, cycle, todo>>

\* Ten seconds have passed; a poll under way turns this one away.
RunTick(r) ==
  /\ run[r] = "select"
  /\ IF poll.pc = "off" THEN PollBegins(NoRun) ELSE UNCHANGED poll
  /\ run' = [run EXCEPT ![r] = "loop"]
  /\ UNCHANGED <<market, store, job, cycle, ch, todo>>

\* gracefulShutdown and the head of CancelAllOrders.
RunShutdown(r) ==
  /\ run[r] = "select" /\ ch[r] \in closed
  /\ IF CancelOrdersOnShutdown /\ started
     THEN /\ todo' = [todo EXCEPT ![r] = {store[i].id : i \in DOMAIN store}]
          /\ run' = [run EXCEPT ![r] = "cancel"]
     ELSE run' = [run EXCEPT ![r] = "gone"] /\ UNCHANGED todo
  /\ UNCHANGED <<market, store, job, poll, cycle, ch>>

RunCancel(r, o) ==
  /\ run[r] = "cancel" /\ job[r] = Idle /\ o \in todo[r]
  /\ todo' = [todo EXCEPT ![r] = @ \ {o}]
  /\ \/ started /\ CancelSend(r, o)
     \/ UNCHANGED <<market, job>>          \* not running, or an error
  /\ UNCHANGED <<store, poll, cycle, run, ch>>

RunGone(r) ==
  /\ run[r] = "cancel" /\ job[r] = Idle /\ todo[r] = {}
  /\ run' = [run EXCEPT ![r] = "gone"]
  /\ UNCHANGED <<market, store, job, poll, cycle, ch, todo>>

-----------------------------------------------------------------------------
Init ==
  /\ exch = [o \in Orders |-> [st |-> "none", exec |-> 0]] /\ wsq = <<>>
  /\ store = <<>> /\ job = [p \in Procs |-> Idle] /\ poll = Off
  /\ started = FALSE /\ stopping = FALSE /\ chan = NoRun /\ closed = {}
  /\ run = [r \in Runs |-> "none"] /\ ch = [r \in Runs |-> NoRun]
  /\ todo = [r \in Runs |-> {}]

ExchangeNext ==
  \E o \in Orders :
    \/ ExchangeOpen(o) \/ ExchangeCancel(o)
    \/ \E n \in 1..Amount : ExchangeFill(o, n)

WsNext == WsReceive \/ WsAdd \/ WsGet \/ UpdateExistingOrder("ws")

CallNext(c) ==
  \E o \in Orders : Submit(c, o) \/ Cancel(c, o) \/ Modify(c, o) \/ GetOrderInfo(c, o)

ReturnNext(c) ==
  \/ processSubmittedOrder(c) \/ ModifyStore(c) \/ GetOrderInfoStore(c)
  \/ CancelGet(c) \/ UpdateExistingOrder(c)

PollNext ==
  \/ GetActiveOrders \/ GetActiveOrdersFails \/ PollListed \/ UpdateExchangeOrder \/ PollDone
  \/ \E det \in poll.result : UpsertOrder(det)
  \/ \E m \in poll.mine : FetchExchangeOrder(m) \/ FetchSkipped(m)

RunNext(r) ==
  \/ RunBoot(r) \/ RunSelect(r) \/ RunTick(r) \/ RunShutdown(r) \/ RunGone(r)
  \/ CancelGet(r) \/ UpdateExistingOrder(r)
  \/ \E o \in Orders : RunCancel(r, o)

Next ==
  \/ ExchangeNext \/ WsNext \/ PollNext \/ StopClose \/ StopReset
  \/ \E c \in Callers : CallNext(c) \/ ReturnNext(c)
  \/ \E r \in Runs : Start(r) \/ RunNext(r)

Spec == Init /\ [][Next]_vars

\* Every goroutine goes on, ticks come, a closed channel is noticed, and REST
\* calls succeed now and then.  Nothing is assumed of callers, of who starts and
\* stops the manager, or of the exchange.
Fairness ==
  /\ WF_vars(WsNext) /\ \A c \in Callers : WF_vars(ReturnNext(c))
  /\ WF_vars(PollNext) /\ SF_vars(GetActiveOrders)
  /\ \A o \in Orders : SF_vars(\E m \in poll.mine : m.id = o /\ FetchExchangeOrder(m))
  /\ \A r \in Runs : WF_vars(RunNext(r)) /\ SF_vars(RunShutdown(r))
  /\ WF_vars(StopReset)

FairSpec == Spec /\ Fairness

-----------------------------------------------------------------------------
(***************************************************************************)
(* Properties                                                              *)
(***************************************************************************)
\* Types; no more is stored as executed than the size of an order.
TypeOK ==
  /\ exch \in [Orders -> [st : (Status \ {"UNKNOWN"}) \cup {"none"}, exec : 0..Amount]]
  /\ wsq \in Seq(Detail) /\ store \in Seq(Detail)
  /\ job \in [Procs -> Job \cup {Idle}]
  /\ poll \in Poll
  /\ started \in BOOLEAN /\ stopping \in BOOLEAN
  /\ chan \in Runs \cup {NoRun} /\ closed \subseteq Runs
  /\ run \in [Runs -> {"none", "boot", "polling", "loop", "select", "cancel", "gone"}]
  /\ ch \in [Runs -> Runs \cup {NoRun}]
  /\ todo \in [Runs -> SUBSET Orders]

\* Ids that a modification gives to an order.  The stream may store such an order before
\* Modify renames the entry of the old one, which keeps what was executed of that.
Replaced == {Replace[o] : o \in {p \in Orders : Replace[p] # p}}

\* An id finds one order: the stream, a submission, the poller and GetOrderInfo
\* may all find an order missing and store it, yet it is stored once.
IdsUnique ==
  \A i, j \in DOMAIN store :
    store[i].id = store[j].id /\ store[i].id \notin Replaced => i = j

\* The store never has an order further than the exchange has it: FILLED and
\* CANCELLED are never premature (but for market orders, which Submit takes for
\* filled), and no more is executed than was.
NeverAhead ==
  \A i \in DOMAIN store :
    LET e == store[i] IN
    e.id \notin Replaced =>
      /\ e.exec <= exch[e.id].exec
      /\ e.st \in {"FILLED", "CANCELLED"} /\ e.id \notin Market => e.st = exch[e.id].st

\* While the manager is up a run goroutine is there to poll, also after a quick
\* stop and start, when the last one may still be about.
RunWhileStarted ==
  started /\ ~stopping => \E r \in Runs : run[r] \notin {"none", "gone"}

\* An entry is never lost, and its id changes only to the one Modify was given.
EntriesStay ==
  [][\A i \in DOMAIN store :
       i \in DOMAIN store' /\ store'[i].id \in {store[i].id, Replace[store[i].id]}]_vars

Ended(o) == exch[o].st \in {"FILLED", "CANCELLED"}
Up == <>[]started

\* Details the stream leaves out, merges of stale copies and stale answers may
\* set an order back to active, but polling finds out: while the manager is up,
\* no order that has ended is for ever taken for active.
EndedInactive ==
  Up => \A o \in Orders :
    <>[](Ended(o) /\ Holds(o) => store[At(o)].st # "UNKNOWN" /\ ~IsActive(store[At(o)]))

\* An order that stays open is in the store in the end, whoever placed it and
\* whatever the stream dropped.
OpenStored == Up => \A o \in Orders : <>[](Live(o) => Holds(o))

\* Once the manager is stopped for good every run goroutine ends.
RunsEnd == <>[]~started => <>[](\A r \in Runs : run[r] \in {"none", "gone"})
=============================================================================
